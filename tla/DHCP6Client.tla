----------------------------- MODULE DHCP6Client -----------------------------
(***************************************************************************)
(* The DHCPv6 client of router7 (internal/dhcp6, cmd/dhcp6): it solicits   *)
(* and requests a delegated prefix, writes lease.json, notifies, waits     *)
(* until the prefix is to be renewed, and starts over; SIGUSR2 makes it    *)
(* release the prefix and stop.                                            *)
(*                                                                         *)
(* Transaction ids are fresh and random, so all that matters of the id of  *)
(* a packet is whether it is that of the last message sent (cur).  The     *)
(* network delays, reorders and duplicates packets, and loses them: one    *)
(* may be forgotten whenever another is sent, and none need be read.  The  *)
(* provider is external; what it delegates changes from one generation to  *)
(* the next.                                                               *)
(***************************************************************************)
EXTENDS Integers, FiniteSets, Sequences

CONSTANTS
    Servers,     \* the provider's servers
    NoServer,
    Prefixes,    \* what may be delegated
    Grants,      \* generation -> the IA_PDs of a reply, each with its T1
    MaxGen,      \* the last generation, for model checking
    MaxPackets,  \* how many packets the network holds at most, for model checking
    MaxFaults    \* bound on process ends and on requests to release, for model checking

Gens == 0 .. MaxGen
NoGen == -1

IAPD == [t1: Nat, prefixes: SUBSET Prefixes]

ASSUME ServerAssumption == NoServer \notin Servers
ASSUME GenAssumption == MaxGen \in Nat /\ MaxPackets \in Nat \ {0} /\ MaxFaults \in Nat
ASSUME GrantAssumption == DOMAIN Grants = Gens /\ \A g \in Gens : Grants[g] \in Seq(IAPD)

VARIABLES
    gen,       \* what the provider delegates now
    net,       \* the packets in flight
    cpc,       \* what the client does
    advertise, \* the server of c.advertise
    cfg,       \* the generation and the server of the reply that made c.cfg
    elapsed,   \* how long the client has been waiting to renew
    usr2,      \* the channel of SIGUSR2 holds a signal
    file,      \* the generation in lease.json
    faults     \* how many faults there were

dhcp6vars == <<gen, net, cpc, advertise, cfg, elapsed, usr2, file, faults>>

Packet == [type: {"solicit", "advertise", "request", "reply", "release"}, cur: BOOLEAN,
           server: Servers \cup {NoServer}, gen: Gens \cup {NoGen}]

Message(t, s) == [type |-> t, cur |-> TRUE, server |-> s, gen |-> NoGen]

NoCfg == [gen |-> NoGen, server |-> NoServer]

Init ==
    /\ gen = 0
    /\ net = {}
    /\ cpc = "start"
    /\ advertise = NoServer
    /\ cfg = NoCfg
    /\ elapsed = 0
    /\ usr2 = FALSE
    /\ file = NoGen
    /\ faults = 0

-----------------------------------------------------------------------------
(* The provider and the network.                                            *)

\* The provider delegates something else from now on.
ChangeGrant ==
    /\ gen < MaxGen
    /\ gen' = gen + 1
    /\ UNCHANGED <<net, cpc, advertise, cfg, elapsed, usr2, file, faults>>

\* What server s answers to a message: a REQUEST or RELEASE must name it.
Answers(s, q) ==
    CASE q.type = "solicit" -> {[q EXCEPT !.type = "advertise", !.server = s]}
      [] q.type = "request" /\ q.server = s -> {[q EXCEPT !.type = "reply", !.gen = gen]}
      [] q.type = "release" /\ q.server = s -> {[q EXCEPT !.type = "reply"]}
      [] OTHER -> {}

\* The packet joins those of kept that are not lost.
Carry(kept, p) ==
    \E k \in SUBSET kept : Cardinality(k) < MaxPackets /\ net' = k \cup {p}

Answer(s, q, a) ==
    /\ a \in Answers(s, q)
    /\ Carry(net, a)
    /\ UNCHANGED <<gen, cpc, advertise, cfg, elapsed, usr2, file, faults>>

-----------------------------------------------------------------------------
(* sendReceive.                                                             *)

\* A message with a new transaction id: the answers in flight are to older ones.  An answer yet to come
\* to an older one would be read no differently.
Send(m) ==
    Carry({[p EXCEPT !.cur = FALSE] : p \in {q \in net : q.type \in {"advertise", "reply"}}}, m)

\* Mutant: the transaction id is not compared.
MatchesAnyID(p, t) == p.type = t

\* The packet is read as the answer of type t to the last message.
Matches(p, t) == p.cur /\ p.type = t

-----------------------------------------------------------------------------
(* ObtainOrRenew.                                                           *)

Solicit ==
    /\ cpc = "start"
    /\ Send(Message("solicit", NoServer))
    /\ cpc' = "solicited"
    /\ UNCHANGED <<gen, advertise, cfg, elapsed, usr2, file, faults>>

\* Mutant: the first server is remembered for good.
RememberFirst(p) == advertise' = IF advertise = NoServer THEN p.server ELSE advertise

\* c.advertise = advertise
Remember(p) == advertise' = p.server

\* The ADVERTISE is stored, and a REQUEST to its server sent; or it lacks what a REQUEST needs.
ReceiveAdvertise(p) ==
    /\ cpc = "solicited"
    /\ Matches(p, "advertise")
    /\ Remember(p)
    /\ \/ Send(Message("request", p.server)) /\ cpc' = "requested"
       \/ cpc' = "failed" /\ UNCHANGED net
    /\ UNCHANGED <<gen, cfg, elapsed, usr2, file, faults>>

ReceiveReply(p) ==
    /\ cpc = "requested"
    /\ Matches(p, "reply")
    /\ cfg' = [gen |-> p.gen, server |-> p.server]
    /\ elapsed' = 0
    /\ cpc' = "obtained"
    /\ UNCHANGED <<gen, net, advertise, usr2, file, faults>>

\* The read deadline passes, or a message cannot be sent.
Timeout ==
    /\ cpc \in {"solicited", "requested"}
    /\ cpc' = "failed"
    /\ UNCHANGED <<gen, net, advertise, cfg, elapsed, usr2, file, faults>>

\* The zero time.Time, long past; the T1s are relative to the reply.
ZeroTime == -1

\* Mutant: the zero time is not recognised as no time yet.
EarlierNoZero(t1, after) == IF t1 < after THEN t1 ELSE after

\* One round of the loop over the IA_PDs: t1.Before(newCfg.RenewAfter) || newCfg.RenewAfter.IsZero()
Earlier(t1, after) == IF t1 < after \/ after = ZeroTime THEN t1 ELSE after

\* RenewAfter of a reply of generation g; the zero time if it holds no IA_PD.
RenewAfter(g) ==
    LET after[i \in 0 .. Len(Grants[g])] ==
            IF i = 0 THEN ZeroTime ELSE Earlier(Grants[g][i].t1, after[i - 1])
    IN  after[Len(Grants[g])]

-----------------------------------------------------------------------------
(* The loop of cmd/dhcp6.                                                   *)

\* "Temporary error": after ten seconds it starts over.
Sleep ==
    /\ cpc = "failed"
    /\ cpc' = "start"
    /\ UNCHANGED <<gen, net, advertise, cfg, elapsed, usr2, file, faults>>

WriteLease ==
    /\ cpc = "obtained"
    /\ file' = cfg.gen
    /\ cpc' = "written"
    /\ UNCHANGED <<gen, net, advertise, cfg, elapsed, usr2, faults>>

\* netconfigd and radvd are notified, or an error is logged.
Notify ==
    /\ cpc = "written"
    /\ cpc' = "waiting"
    /\ UNCHANGED <<gen, net, advertise, cfg, elapsed, usr2, file, faults>>

Tick ==
    /\ cpc = "waiting"
    /\ elapsed < RenewAfter(cfg.gen)
    /\ elapsed' = elapsed + 1
    /\ UNCHANGED <<gen, net, cpc, advertise, cfg, usr2, file, faults>>

\* The timer fires: the loop starts over.  c.cfg is not read again before a reply replaces it.
Renew ==
    /\ cpc = "waiting"
    /\ elapsed >= RenewAfter(cfg.gen)
    /\ cpc' = "start"
    /\ cfg' = NoCfg
    /\ elapsed' = 0
    /\ UNCHANGED <<gen, net, advertise, usr2, file, faults>>

\* Somebody asks for a release; the signal stays in the channel while the client is busy.
AskRelease ==
    /\ faults < MaxFaults
    /\ faults' = faults + 1
    /\ cpc # "exited"
    /\ usr2' = TRUE
    /\ UNCHANGED <<gen, net, cpc, advertise, cfg, elapsed, file>>

Release ==
    /\ cpc = "waiting"
    /\ usr2
    /\ usr2' = FALSE
    /\ Send(Message("release", advertise))
    /\ cpc' = "releasing"
    /\ UNCHANGED <<gen, advertise, cfg, elapsed, file, faults>>

\* Whatever arrives with the right id is the answer; gokrazy does not start the process again.
Released(p) ==
    /\ cpc = "releasing"
    /\ p.cur
    /\ p.type = "reply"
    /\ cpc' = "exited"
    /\ UNCHANGED <<gen, net, advertise, cfg, elapsed, usr2, file, faults>>

\* A new process knows nothing; it does not read lease.json.
Restarted ==
    /\ cpc' = "start"
    /\ advertise' = NoServer
    /\ cfg' = NoCfg
    /\ elapsed' = 0
    /\ usr2' = FALSE
    /\ UNCHANGED <<gen, net, file>>

\* No answer to the RELEASE: the error ends the process, and it is started again.
ReleaseFails ==
    /\ cpc = "releasing"
    /\ Restarted
    /\ UNCHANGED faults

Crash ==
    /\ faults < MaxFaults
    /\ faults' = faults + 1
    /\ cpc # "exited"
    /\ Restarted

Receive == \E p \in net : ReceiveAdvertise(p) \/ ReceiveReply(p) \/ Released(p)

Proceed == Solicit \/ Sleep \/ WriteLease \/ Tick \/ Renew \/ Release

\* All steps but Notify, which the receiver takes part in.
Next6 ==
    \/ ChangeGrant \/ Timeout \/ AskRelease \/ ReleaseFails \/ Crash
    \/ Proceed
    \/ Receive
    \/ \E s \in Servers, q \in net : \E a \in Answers(s, q) : Answer(s, q, a)
=============================================================================
