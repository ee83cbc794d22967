---------------------------- MODULE DHCP4Client ----------------------------
(***************************************************************************)
(* The DHCPv4 client on the uplink: internal/dhcp4 and the loop around it  *)
(* in cmd/dhcp4.  One transaction is a DHCPDISCOVER with a new transaction *)
(* id and a DHCPREQUEST, or, if there is a last DHCPACK (in memory or read *)
(* back from wire/ack), a DHCPREQUEST that repeats the id, the server and  *)
(* the address of that DHCPACK.  A new lease is written to wire/lease.json *)
(* for netconfigd and then to wire/ack.                                    *)
(*                                                                         *)
(* The network is a set of packets: it loses, delays, duplicates and       *)
(* reorders them, and it stands for the socket's buffer too, in which late *)
(* answers wait for the next transaction.  The servers are external.       *)
(***************************************************************************)
EXTENDS Integers, FiniteSets

CONSTANTS
    Servers,     \* servers by their identifier
    Alive,       \* those that answer
    Addrs,       \* the addresses they hand out
    Pool,        \* which of them each server that answers hands out
    NoServer,    \* no server identifier
    NoAddr,      \* no address
    MaxXid,      \* transaction ids are 1 .. MaxXid
    NoAck,       \* c.Ack is nil, the file does not exist
    InitialAck,  \* what wire/ack holds when the system is first observed
    MaxInFlight, \* bound on the packets in the network, for model checking
    MaxFaults    \* bound on crashes and on servers that forget, for model checking

Xids == 1 .. MaxXid

\* What the code uses of a DHCPOFFER or DHCPACK.
Lease == [xid: Xids, server: Servers, addr: Addrs]

ASSUME AliveAssumption == Alive \subseteq Servers /\ Pool \in [Alive -> SUBSET Addrs]
ASSUME InitialAssumption == InitialAck \in Lease \cup {NoAck} /\ NoAck \notin Lease

\* current is history: a request is the last one sent, a reply answers the last one sent.
Packet == [type: {"discover", "offer", "request", "ack", "nak", "release"}, xid: Xids,
           server: Servers \cup {NoServer}, addr: Addrs \cup {NoAddr}, current: BOOLEAN]

VARIABLES
    pc,        \* where the process is
    ack,       \* c.Ack
    xid,       \* while it waits for a DHCPOFFER: discover.Xid, else 0
    last,      \* while it waits for a DHCPACK: the packet the request was made from
    leaseFile, \* the lease in wire/lease.json
    ackFile,   \* the packet in wire/ack
    network,   \* the packets in flight
    bound,     \* what the servers have reserved for this client
    offered,   \* what they have ever offered
    fromOffer, \* the transaction began with a DHCPDISCOVER
    stale,     \* the reply it ended with answers an earlier request
    torn,      \* the process ended between the two writes
    faults     \* how many crashes and forgotten leases there were

clientVars == <<pc, ack, xid, last, leaseFile, ackFile, fromOffer, stale, torn>>
serverVars == <<bound, offered>>
vars == <<clientVars, network, serverVars, faults>>

Pair(l) == <<l.server, l.addr>>

Init ==
    /\ pc = "boot"
    /\ ack = NoAck
    /\ xid = 0
    /\ last = NoAck
    /\ ackFile = InitialAck
    /\ leaseFile = InitialAck
    /\ network = {}
    /\ offered = {Pair(l) : l \in {InitialAck} \ {NoAck}}
    /\ bound = offered
    /\ fromOffer = FALSE
    /\ stale = FALSE
    /\ torn = FALSE
    /\ faults = 0

-----------------------------------------------------------------------------
(* The network.                                                             *)

\* Packets that are sent are added; where the network is full one of the others is lost.
Send(m, others) ==
    IF Cardinality(others) < MaxInFlight
    THEN network' = others \cup {m}
    ELSE \E o \in others : network' = (others \ {o}) \cup {m}

\* A packet is lost, or the client reads and skips it.
Lose(m) ==
    /\ m \in network
    /\ network' = network \ {m}
    /\ UNCHANGED <<clientVars, serverVars, faults>>

-----------------------------------------------------------------------------
(* The client.                                                              *)

\* logic reads wire/ack; what cannot be read or decoded is logged and leaves c.Ack nil.
Boot ==
    /\ pc = "boot"
    /\ pc' = "obtain"
    /\ ack' \in {ackFile, NoAck}
    /\ UNCHANGED <<xid, last, leaseFile, ackFile, fromOffer, stale, torn, network, serverVars, faults>>

\* generateXID returns a random id; no packet that is still around has the same.
IsFresh(x) == /\ \A m \in network : m.xid # x
              /\ \A l \in {ack, ackFile} \ {NoAck} : l.xid # x

Fresh == CHOOSE x \in Xids : IsFresh(x)

\* dhcpRequest without a last DHCPACK.
SendDiscover ==
    /\ pc = "obtain"
    /\ ack = NoAck
    /\ \E x \in Xids : IsFresh(x)
    /\ pc' = "discovering"
    /\ xid' = Fresh
    /\ Send([type |-> "discover", xid |-> Fresh, server |-> NoServer, addr |-> NoAddr,
             current |-> TRUE], network)
    /\ UNCHANGED <<ack, last, leaseFile, ackFile, fromOffer, stale, torn, serverVars, faults>>

\* Everything in the network belongs to an earlier request now.
Outdated == {[m EXCEPT !.current = FALSE] : m \in network}

\* The DHCPREQUEST has the id, the server and the address of an offer or of the last DHCPACK.
SendRequest(l) ==
    /\ pc' = "requesting"
    /\ last' = l
    /\ xid' = 0
    /\ Send([type |-> "request", xid |-> l.xid, server |-> l.server, addr |-> l.addr,
             current |-> TRUE], Outdated)
    /\ UNCHANGED <<ack, leaseFile, ackFile, stale, torn, serverVars, faults>>

\* dhcpRequest with a last DHCPACK.
SendRenewal ==
    /\ pc = "obtain"
    /\ ack # NoAck
    /\ UNCHANGED fromOffer
    /\ SendRequest(ack)

\* Mutant: any packet of the expected type is taken.
MatchesAny(m, type, x) == m.type = type

\* Mutant: the type of the packet is not looked at, so the client takes its own broadcast.
MatchesAnyType(m, type, x) == m.xid = x

\* The packets the two read loops do not skip.
Matches(m, type, x) == m.type = type /\ m.xid = x

\* Mutant: the options of the packet lie in a buffer that the next packet overwrites.
LeaseOfSharedBuffer(m) ==
    [xid |-> m.xid, addr |-> m.addr,
     server |-> (CHOOSE o \in network : o.xid = m.xid /\ o.server # NoServer).server]

\* What dhcpRequest takes from a DHCPOFFER, and ObtainOrRenew from a DHCPACK.
LeaseOf(m) == [xid |-> m.xid, server |-> m.server, addr |-> m.addr]

ReceiveOffer(m) ==
    /\ pc = "discovering"
    /\ m \in network
    /\ Matches(m, "offer", xid)
    /\ fromOffer' = TRUE
    /\ SendRequest(LeaseOf(m))

\* dhcpRequest returns the DHCPACK, and ObtainOrRenew keeps it.
ReceiveAck(m) ==
    /\ pc = "requesting"
    /\ m \in network
    /\ Matches(m, "ack", last.xid)
    /\ pc' = "obtained"
    /\ ack' = LeaseOf(m)
    /\ last' = NoAck
    /\ stale' = ~m.current
    /\ UNCHANGED <<xid, leaseFile, ackFile, fromOffer, torn, network, serverVars, faults>>

\* Mutant: the refused lease is not forgotten.
ReceiveNakKeepingAck(m) ==
    /\ pc = "requesting"
    /\ m \in network
    /\ Matches(m, "nak", last.xid)
    /\ pc' = "backoff"
    /\ last' = NoAck
    /\ stale' = ~m.current
    /\ UNCHANGED <<ack, xid, leaseFile, ackFile, fromOffer, torn, network, serverVars, faults>>

\* errNAK: "start over at DHCPDISCOVER", after the backoff.
ReceiveNak(m) ==
    /\ pc = "requesting"
    /\ m \in network
    /\ Matches(m, "nak", last.xid)
    /\ pc' = "backoff"
    /\ ack' = NoAck
    /\ last' = NoAck
    /\ stale' = ~m.current
    /\ UNCHANGED <<xid, leaseFile, ackFile, fromOffer, torn, network, serverVars, faults>>

\* The read deadline passes: a "temporary error".  A packet that cannot be written has the same
\* effect as one that is lost.
Fail ==
    /\ pc \in {"discovering", "requesting"}
    /\ pc' = "backoff"
    /\ xid' = 0
    /\ last' = NoAck
    /\ UNCHANGED <<ack, leaseFile, ackFile, fromOffer, stale, torn, network, serverVars, faults>>

\* time.Sleep(dur) ends, or the lease is due for its renewal.
Again ==
    /\ pc \in {"backoff", "sleeping"}
    /\ pc' = "obtain"
    /\ fromOffer' = FALSE
    /\ stale' = FALSE
    /\ UNCHANGED <<ack, xid, last, leaseFile, ackFile, torn, network, serverVars, faults>>

WriteLease ==
    /\ pc = "obtained"
    /\ pc' = "leaseWritten"
    /\ leaseFile' = ack
    /\ UNCHANGED <<ack, xid, last, ackFile, fromOffer, stale, torn, network, serverVars, faults>>

\* Mutant: the packet is written only if there is none yet.
WriteAckOnce ==
    /\ pc = "leaseWritten"
    /\ pc' = "sleeping"
    /\ ackFile' = IF ackFile = NoAck THEN ack ELSE ackFile
    /\ torn' = FALSE
    /\ UNCHANGED <<ack, xid, last, leaseFile, fromOffer, stale, network, serverVars, faults>>

\* wire/ack is written and netconfigd is notified (module StateNotify).
WriteAck ==
    /\ pc = "leaseWritten"
    /\ pc' = "sleeping"
    /\ ackFile' = ack
    /\ torn' = FALSE
    /\ UNCHANGED <<ack, xid, last, leaseFile, fromOffer, stale, network, serverVars, faults>>

\* SIGUSR2: the lease is given back and the process ends for good; the files stay.
Release ==
    /\ pc = "sleeping"
    /\ \E x \in Xids : IsFresh(x)
    /\ pc' = "released"
    /\ ack' = NoAck
    /\ Send([type |-> "release", xid |-> Fresh, server |-> ack.server, addr |-> ack.addr,
             current |-> TRUE], network)
    /\ UNCHANGED <<xid, last, leaseFile, ackFile, fromOffer, stale, torn, serverVars, faults>>

\* The process ends (a file or the release cannot be written, a permanent error, a reboot) and
\* is started again.
Crash ==
    /\ faults < MaxFaults
    /\ pc # "boot"
    /\ pc' = "boot"
    /\ ack' = NoAck
    /\ xid' = 0
    /\ last' = NoAck
    /\ fromOffer' = FALSE
    /\ stale' = FALSE
    /\ torn' = (torn \/ pc = "leaseWritten")
    /\ faults' = faults + 1
    /\ UNCHANGED <<leaseFile, ackFile, network, serverVars>>

-----------------------------------------------------------------------------
(* The servers.                                                             *)

Offer(s, m, a) ==
    /\ m \in network
    /\ m.type = "discover"
    /\ Send([m EXCEPT !.type = "offer", !.server = s, !.addr = a], network)
    /\ offered' = offered \cup {<<s, a>>}
    /\ bound' = bound \cup {<<s, a>>}
    /\ UNCHANGED <<clientVars, faults>>

\* A DHCPREQUEST that names another server is not answered.
Grant(s, m) ==
    /\ m \in network
    /\ m.type = "request"
    /\ m.server = s
    /\ Pair(m) \in bound
    /\ Send([m EXCEPT !.type = "ack"], network)
    /\ UNCHANGED <<clientVars, serverVars, faults>>

Refuse(s, m) ==
    /\ m \in network
    /\ m.type = "request"
    /\ m.server = s
    /\ Pair(m) \notin bound
    /\ Send([m EXCEPT !.type = "nak", !.addr = NoAddr], network)
    /\ UNCHANGED <<clientVars, serverVars, faults>>

\* The server takes the address back, because of a DHCPRELEASE or on its own.
TakeBack(m) ==
    /\ m \in network
    /\ m.type = "release"
    /\ network' = network \ {m}
    /\ bound' = bound \ {Pair(m)}
    /\ UNCHANGED <<clientVars, offered, faults>>

Forget(p) ==
    /\ faults < MaxFaults
    /\ faults' = faults + 1
    /\ bound' = bound \ {p}
    /\ UNCHANGED <<clientVars, network, offered>>

-----------------------------------------------------------------------------
Receive == \E m \in network : ReceiveOffer(m) \/ ReceiveAck(m) \/ ReceiveNak(m)

Client == Boot \/ SendDiscover \/ SendRenewal \/ Receive \/ Fail \/ Again \/ WriteLease \/ WriteAck

Next ==
    \/ Client
    \/ Release
    \/ Crash
    \/ \E m \in network : Lose(m) \/ (m.server \in Alive /\ TakeBack(m))
    \/ \E s \in Alive, m \in network :
          Grant(s, m) \/ Refuse(s, m) \/ \E a \in Pool[s] : Offer(s, m, a)
    \/ \E p \in bound : Forget(p)

\* The process runs, and if answers keep coming one of them is read before the deadline.
ClientFairness ==
    /\ WF_vars(Client)
    /\ SF_vars(\E m \in network : ReceiveOffer(m))
    /\ SF_vars(\E m \in network : ReceiveAck(m) \/ ReceiveNak(m))

\* A server that is asked again and again answers before the deadline at some point.
ServerFairness ==
    \A s \in Alive :
        /\ SF_vars(pc = "discovering" /\ \E m \in network, a \in Pool[s] : m.xid = xid /\ Offer(s, m, a))
        /\ SF_vars(pc = "requesting" /\ \E m \in network : m.current /\ (Grant(s, m) \/ Refuse(s, m)))

Spec == Init /\ [][Next]_vars /\ ClientFairness /\ ServerFairness

-----------------------------------------------------------------------------
TypeOK ==
    /\ pc \in {"boot", "obtain", "discovering", "requesting", "obtained", "leaseWritten",
               "sleeping", "backoff", "released"}
    /\ {ack, last, leaseFile, ackFile} \subseteq Lease \cup {NoAck}
    /\ xid \in Xids \cup {0}
    /\ pc = "discovering" => xid # 0
    /\ pc = "requesting" => last # NoAck
    /\ pc \in {"obtained", "leaseWritten", "sleeping"} => ack # NoAck
    /\ network \subseteq Packet
    /\ bound \subseteq offered
    /\ offered \subseteq Servers \X Addrs
    /\ {fromOffer, stale, torn} \subseteq BOOLEAN
    /\ faults \in Nat

\* The client asks a server only for an address that this server offered it before, and gives
\* back only such an address, over refusals, timeouts, restarts from wire/ack and packets that
\* arrive late; the same holds of the lease netconfigd applies (dhcp4.go:160-171, 221-231).
OnlyOfferedRequested ==
    /\ \A m \in network : m.type \in {"request", "release"} => Pair(m) \in offered
    /\ leaseFile # NoAck => Pair(leaseFile) \in offered

\* A transaction that begins with a DHCPDISCOVER ends with an answer to its own request, never
\* with a late answer to an earlier one (dhcp4.go:210, 246).
NewLeaseIsAnswer == fromOffer => ~stale

\* After a restart the client finds in wire/ack the lease that netconfigd was told of, unless the
\* process ended between the writes of the two files (cmd/dhcp4/dhcp4.go:107-120).
ResumesWithLease == pc # "leaseWritten" /\ ~torn => leaseFile = ackFile

\* What is in flight was offered by the server it names, and so were the leases the client keeps.
KnownPackets ==
    \A m \in network : m.type \in {"offer", "request", "ack", "release"} => Pair(m) \in offered

KnownLeases ==
    /\ ack # NoAck => Pair(ack) \in offered
    /\ last # NoAck => Pair(last) \in offered
    /\ leaseFile # NoAck => Pair(leaseFile) \in offered
    /\ ackFile # NoAck => Pair(ackFile) \in offered

\* The id of a new transaction has no answers to a request yet, and then only those to its own.
OwnAnswers ==
    /\ pc = "discovering" =>
          \A m \in network : m.xid = xid => m.type \in {"discover", "offer"}
    /\ pc = "requesting" /\ fromOffer =>
          \A m \in network : m.xid = last.xid /\ m.type \in {"request", "ack", "nak"} => m.current

Stages ==
    /\ pc \in {"boot", "obtain", "discovering"} => ~fromOffer /\ ~stale
    /\ pc = "leaseWritten" => leaseFile = ack

\* The inductive invariant.
IInv ==
    /\ TypeOK
    /\ KnownPackets
    /\ KnownLeases
    /\ OwnAnswers
    /\ Stages
    /\ NewLeaseIsAnswer
    /\ ResumesWithLease

\* As long as the server of the last DHCPACK answers, the client comes back to a lease from
\* every timeout, refusal and restart (dhcp4.go:129-140, cmd/dhcp4/dhcp4.go:94-99).
LeaseEventually == []<>(pc \in {"sleeping", "released"})

\* A timeout is a "temporary error" (dhcp4.go:133): while a server answers, a lease is obtained
\* later on.
TimeoutIsTemporary == pc = "backoff" ~> pc \in {"sleeping", "released"}
=============================================================================
