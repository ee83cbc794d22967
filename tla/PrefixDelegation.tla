--------------------------- MODULE PrefixDelegation ---------------------------
(***************************************************************************)
(* A delegated prefix on its way from the provider to the LAN: the DHCPv6  *)
(* client (DHCP6Client) writes lease.json and signals radvd, whose signal  *)
(* handler reads the file into the announced prefixes while its main       *)
(* goroutine is still opening the socket or already serving.               *)
(***************************************************************************)
EXTENDS DHCP6Client

CONSTANT
    Additional   \* the prefixes of /perm/radvd/prefixes.json

VARIABLES
    rpc,       \* what radvd's main goroutine does
    hpc,       \* what its signal handler does
    sig,       \* the channel of SIGUSR1 holds a signal
    got,       \* the generation in the handler's cfg
    prefixes,  \* the generation of s.prefixes, NoGen while they are nil
    lan        \* the generation last announced on the LAN

radvdvars == <<rpc, hpc, sig, got, prefixes, lan>>
vars == <<dhcp6vars, radvdvars>>

PInit ==
    /\ Init
    /\ rpc = "boot"
    /\ hpc = "idle"
    /\ sig = FALSE
    /\ got = NoGen
    /\ prefixes = NoGen
    /\ lan = NoGen

\* append(cfg.Prefixes, additional...), nil when it is empty.
Announced(g) == UNION {Grants[g][i].prefixes : i \in DOMAIN Grants[g]} \cup Additional

-----------------------------------------------------------------------------
(* The main goroutine.                                                      *)

\* The first readConfig: the prefixes stay nil if there is no lease yet.  Nothing is sent, as
\* there is no interface.
ReadConfig ==
    /\ rpc = "boot"
    /\ prefixes' = file
    /\ rpc' = "read"
    /\ UNCHANGED <<dhcp6vars, hpc, sig, got, lan>>

\* signal.Notify; until now a signal was ignored.
Subscribe ==
    /\ rpc = "read"
    /\ rpc' = "subscribed"
    /\ UNCHANGED <<dhcp6vars, hpc, sig, got, prefixes, lan>>

\* ListenAndServe opens the socket, Serve stores the interface and only then the connection.
SetInterface ==
    /\ rpc = "subscribed"
    /\ rpc' = "named"
    /\ UNCHANGED <<dhcp6vars, hpc, sig, got, prefixes, lan>>

SetConn ==
    /\ rpc = "named"
    /\ rpc' = "serving"
    /\ UNCHANGED <<dhcp6vars, hpc, sig, got, prefixes, lan>>

\* sendAdvertisement with an open connection.
SendAdvertisement ==
    lan' = IF prefixes # NoGen /\ Announced(prefixes) # {} THEN prefixes ELSE lan

\* Once a minute, and when a host solicits it.
Advertise ==
    /\ rpc = "serving"
    /\ SendAdvertisement
    /\ UNCHANGED <<dhcp6vars, rpc, hpc, sig, got, prefixes>>

-----------------------------------------------------------------------------
(* The signal handler: readConfig and SetPrefixes.                          *)

Receives ==
    /\ hpc = "idle"
    /\ sig
    /\ sig' = FALSE
    /\ hpc' = "received"
    /\ UNCHANGED <<dhcp6vars, rpc, got, prefixes, lan>>

\* Without a lease an error is logged.
ReadLease ==
    /\ hpc = "received"
    /\ got' = file
    /\ hpc' = IF file = NoGen THEN "idle" ELSE "parsed"
    /\ UNCHANGED <<dhcp6vars, rpc, sig, prefixes, lan>>

SetPrefixes ==
    /\ hpc = "parsed"
    /\ prefixes' = got
    /\ got' = NoGen
    /\ hpc' = "set"
    /\ UNCHANGED <<dhcp6vars, rpc, sig, lan>>

\* The advertisement SetPrefixes sends after the unlock.  Without an interface it sends none; the
\* interface is read without the lock, so that it may be seen or not while Serve sets it; an error
\* in sending is dropped.
Announce ==
    /\ hpc = "set"
    /\ hpc' = "idle"
    /\ \/ rpc = "serving" /\ SendAdvertisement
       \/ UNCHANGED lan
    /\ UNCHANGED <<dhcp6vars, rpc, sig, got, prefixes>>

-----------------------------------------------------------------------------
(* Faults and signals.                                                      *)

\* The process ends and is started again; the LAN remembers what it was told.
RadvdEnds ==
    /\ faults < MaxFaults
    /\ faults' = faults + 1
    /\ rpc' = "boot"
    /\ hpc' = "idle"
    /\ sig' = FALSE
    /\ got' = NoGen
    /\ prefixes' = NoGen
    /\ UNCHANGED <<gen, net, cpc, advertise, cfg, elapsed, usr2, file, lan>>

\* readConfig finds a lease.json or a prefixes.json that is not JSON, which is logged, at the start
\* or in the signal handler; the prefixes stay as they are.
ReadConfigFails ==
    /\ faults < MaxFaults
    /\ faults' = faults + 1
    /\ \/ rpc = "boot" /\ rpc' = "read" /\ UNCHANGED hpc
       \/ hpc = "received" /\ hpc' = "idle" /\ UNCHANGED rpc
    /\ UNCHANGED <<gen, net, cpc, advertise, cfg, elapsed, usr2, file, sig, got, prefixes, lan>>

\* The advertisement of a handler that sees the interface before the connection is there.
Panic ==
    /\ hpc = "set"
    /\ rpc = "named"
    /\ Announced(prefixes) # {}
    /\ RadvdEnds

\* The interface vanished, the socket failed, or a solicitation could not be answered.
RadvdCrash == RadvdEnds

\* notify.Process fails, which the client only logs.
Undelivered ==
    /\ Notify
    /\ UNCHANGED radvdvars

\* The client's signal to radvd: ignored by a radvd that does not listen yet.
Delivered ==
    /\ Notify
    /\ sig' = (rpc \notin {"boot", "read"})
    /\ UNCHANGED <<rpc, hpc, got, prefixes, lan>>

Radvd ==
    \/ ReadConfig \/ Subscribe \/ SetInterface \/ SetConn \/ Advertise
    \/ Receives \/ ReadLease \/ SetPrefixes \/ Announce

Client6 == Next6 /\ UNCHANGED radvdvars

Next ==
    \/ Client6
    \/ Delivered
    \/ Undelivered
    \/ Radvd
    \/ ReadConfigFails
    \/ Panic
    \/ RadvdCrash

\* A server answers the client in time.
Answered == \E s \in Servers, q \in net : \E a \in Answers(s, q) :
    a.cur /\ Answer(s, q, a) /\ UNCHANGED radvdvars

\* The processes run.  No server lets the client time out for good, what is sent again and again is
\* read at some time, and a signal arrives at some time.
Fairness ==
    /\ WF_vars((Proceed \/ Timeout \/ ReleaseFails) /\ UNCHANGED radvdvars)
    /\ SF_vars(cpc = "solicited" /\ Answered)
    /\ SF_vars(cpc = "requested" /\ Answered)
    /\ SF_vars((\E p \in net : ReceiveAdvertise(p)) /\ cpc' = "requested" /\ UNCHANGED radvdvars)
    /\ SF_vars((\E p \in net : ReceiveReply(p)) /\ UNCHANGED radvdvars)
    /\ SF_vars(Delivered)
    /\ WF_vars(Undelivered)
    /\ WF_vars(ReadConfig \/ Subscribe \/ SetInterface \/ SetConn)
    /\ WF_vars(Advertise)
    /\ WF_vars(Receives \/ ReadLease \/ SetPrefixes \/ Announce)

Spec == PInit /\ [][Next]_vars /\ Fairness

-----------------------------------------------------------------------------
(* Properties.                                                              *)

ClientStates == {"start", "solicited", "requested", "failed", "obtained", "written", "waiting",
                 "releasing", "exited"}

\* Every variable has its type: the state of the client, of the network and of radvd.  A client that
\* obtained a lease has it from an answer to a REQUEST.
TypeOK ==
    /\ gen \in Gens
    /\ net \subseteq Packet
    /\ cpc \in ClientStates
    /\ advertise \in Servers \cup {NoServer}
    /\ cfg \in [gen: Gens \cup {NoGen}, server: Servers \cup {NoServer}]
    /\ cpc \in {"obtained", "written", "waiting", "releasing"} => cfg.gen \in Gens
    /\ elapsed \in Nat
    /\ usr2 \in BOOLEAN
    /\ file \in Gens \cup {NoGen}
    /\ faults \in 0 .. MaxFaults
    /\ rpc \in {"boot", "read", "subscribed", "named", "serving"}
    /\ hpc \in {"idle", "received", "parsed", "set"}
    /\ sig \in BOOLEAN
    /\ {got, prefixes, lan} \subseteq Gens \cup {NoGen}

\* The answers to the last REQUEST are those of its server, and not older than the file.
RepliesAreCurrent ==
    cpc = "requested" =>
        \A p \in net : p.cur =>
            /\ p.type \in {"request", "reply"}
            /\ p.server = advertise
            /\ p.type = "reply" => p.gen \in Gens /\ file <= p.gen /\ p.gen <= gen

\* So is the lease made of one of them.
LeaseIsCurrent ==
    /\ file <= gen
    /\ cpc \in {"obtained", "written", "waiting", "releasing"} =>
          /\ cfg.server = advertise
          /\ file <= cfg.gen
          /\ cfg.gen <= gen

\* What the LAN knows is not newer than what radvd holds or is about to hold.
RadvdIsCurrent ==
    /\ lan <= file
    /\ prefixes <= file
    /\ prefixes # NoGen => lan <= prefixes
    /\ hpc = "parsed" => lan <= got /\ prefixes <= got /\ got <= file
    /\ rpc \in {"boot", "read"} => hpc = "idle" /\ ~sig

\* The inductive invariant.
PInv == TypeOK /\ RepliesAreCurrent /\ LeaseIsCurrent /\ RadvdIsCurrent

\* The T1s of a reply of generation g.
T1s(g) == {Grants[g][i].t1 : i \in DOMAIN Grants[g]}

\* With PInv it is inductive: no client has waited longer than the timer it set.
NotOverdue ==
    cpc \in {"obtained", "written", "waiting"} /\ T1s(cfg.gen) # {} => elapsed <= RenewAfter(cfg.gen)

Relay == INSTANCE PrefixRelay WITH delegated <- gen, leased <- file, announced <- lan

\* Client, lease.json and radvd relay the delegations in order (PrefixRelay): neither the file nor the
\* LAN ever goes back to an older one or runs ahead, whatever replies come late or twice and whoever
\* restarts when.  sendReceive drops the answers to older messages, and no order of readConfig,
\* SetPrefixes and sendAdvertisement announces what a later lease replaced.
ImplementsRelay == Relay!Spec

\* The RELEASE of a prefix goes to the server that delegated it, although an ADVERTISE of another
\* server may have come since and c.advertise is replaced by a renewal that then fails.
ReleaseNamesItsServer ==
    cpc \in {"waiting", "releasing"} => advertise = cfg.server

\* A client that waits neither keeps a prefix longer than the first T1 of the reply nor renews before
\* it: the loop over the IA_PDs of ObtainOrRenew finds the first, although it starts at the zero time.
\* Only a reply without an IA_PD is renewed at once.
RenewsAtFirstT1 ==
    [][cpc = "waiting" /\ cpc' = "start" /\ faults' = faults /\ T1s(cfg.gen) # {} =>
          elapsed \in T1s(cfg.gen) /\ \A t \in T1s(cfg.gen) : elapsed <= t]_vars

\* What the provider delegates in the end reaches the LAN, unless the client was told to release it:
\* a signal that was lost, or came before radvd listened, is made good by the next renewal.
LanFollowsProvider ==
    <>[](cpc = "exited" \/ Announced(gen) = {} \/ lan = gen)
=============================================================================
