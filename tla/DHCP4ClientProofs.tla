--------------------------- MODULE DHCP4ClientProofs ---------------------------
(***************************************************************************)
(* For any servers, addresses, ids and bounds: the types, that the client  *)
(* asks a server only for what it offered, that a new transaction ends     *)
(* with an answer to its own request, and that the client resumes the      *)
(* lease netconfigd was told of.                                           *)
(***************************************************************************)
EXTENDS DHCP4Client, TLAPS

\* The network holds nothing but the packets given to it.
LEMMA SendKeeps ==
    ASSUME NEW m, NEW others, Send(m, others)
    PROVE  network' \subseteq others \cup {m}
BY DEF Send

\* An id that was chosen is one no packet in flight has.
LEMMA FreshIsFresh ==
    ASSUME \E x \in Xids : IsFresh(x)
    PROVE  Fresh \in Xids /\ \A m \in network : m.xid # Fresh
BY DEF Fresh, IsFresh

\* Outdated packets differ only in that they answer an earlier request.
LEMMA OutdatedFacts ==
    ASSUME network \subseteq Packet, NEW o \in Outdated
    PROVE  /\ o \in Packet
           /\ \E m \in network : /\ o.type = m.type /\ o.xid = m.xid
                                 /\ o.server = m.server /\ o.addr = m.addr
<1>1. PICK m \in network : o = [m EXCEPT !.current = FALSE]
  BY DEF Outdated
<1>2. m \in Packet
  OBVIOUS
<1> QED
  BY <1>1, <1>2 DEF Packet

-----------------------------------------------------------------------------
(* The steps of the client.                                                 *)

\* What a step that leaves the network and the servers alone has to show.
LEMMA QuietStep ==
    ASSUME IInv, UNCHANGED <<network, serverVars>>
    PROVE  KnownPackets' /\ bound' \subseteq offered' /\ offered' \subseteq Servers \X Addrs
           /\ network' \subseteq Packet
BY DEF IInv, KnownPackets, Pair, serverVars, TypeOK

LEMMA BootStep ==
    ASSUME IInv, Boot
    PROVE  IInv'
<1> USE DEF IInv
<1>1. TypeOK'
  BY QuietStep DEF Boot, TypeOK, serverVars
<1>2. KnownPackets' /\ KnownLeases'
  BY QuietStep DEF Boot, KnownLeases, Pair, serverVars
<1>3. OwnAnswers' /\ Stages' /\ NewLeaseIsAnswer'
  BY DEF Boot, OwnAnswers, Stages, NewLeaseIsAnswer
<1>4. ResumesWithLease'
  BY DEF Boot, ResumesWithLease
<1> QED
  BY <1>1, <1>2, <1>3, <1>4

LEMMA DiscoverStep ==
    ASSUME IInv, SendDiscover
    PROVE  IInv'
<1> USE DEF IInv
<1> DEFINE d == [type |-> "discover", xid |-> Fresh, server |-> NoServer, addr |-> NoAddr,
                 current |-> TRUE]
<1>1. Fresh \in Xids /\ \A m \in network : m.xid # Fresh
  BY FreshIsFresh DEF SendDiscover
<1>2. network' \subseteq network \cup {d}
  BY SendKeeps DEF SendDiscover
<1>3. d \in Packet
  BY <1>1 DEF Packet
<1>4. TypeOK'
  <2>1. Fresh # 0
    BY <1>1 DEF Xids
  <2>2. network' \subseteq Packet
    BY <1>2, <1>3 DEF TypeOK
  <2> QED
    BY <1>1, <2>1, <2>2 DEF SendDiscover, TypeOK, serverVars
<1>5. KnownPackets' /\ KnownLeases'
  BY <1>2 DEF SendDiscover, KnownPackets, KnownLeases, Pair, serverVars
<1>6. OwnAnswers'
  BY <1>1, <1>2 DEF SendDiscover, OwnAnswers
<1>7. Stages' /\ NewLeaseIsAnswer' /\ ResumesWithLease'
  BY DEF SendDiscover, Stages, NewLeaseIsAnswer, ResumesWithLease
<1> QED
  BY <1>4, <1>5, <1>6, <1>7

\* What the two ways to send a DHCPREQUEST have in common.
LEMMA RequestStep ==
    ASSUME IInv, NEW l \in Lease, Pair(l) \in offered, SendRequest(l), fromOffer' \in BOOLEAN, ~stale,
           pc \in {"obtain", "discovering"},
           fromOffer' => \A m \in network : m.xid = l.xid => m.type \in {"discover", "offer"}
    PROVE  IInv'
<1> USE DEF IInv
<1> DEFINE r == [type |-> "request", xid |-> l.xid, server |-> l.server, addr |-> l.addr,
                 current |-> TRUE]
<1>1. network' \subseteq Outdated \cup {r}
  BY SendKeeps DEF SendRequest
<1>2. r \in Packet /\ l # NoAck
  BY InitialAssumption DEF Packet, Lease
<1>3. network \subseteq Packet
  BY DEF TypeOK
<1>4. TypeOK'
  <2>1. network' \subseteq Packet
    BY <1>1, <1>2, <1>3, OutdatedFacts
  <2> QED
    BY <1>2, <2>1 DEF SendRequest, TypeOK, serverVars
<1>5. KnownPackets'
  <2> SUFFICES ASSUME NEW m \in network', m.type \in {"offer", "request", "ack", "release"}
               PROVE  Pair(m) \in offered
    BY DEF KnownPackets, SendRequest, Pair, serverVars
  <2>1. CASE m = r
    BY <2>1 DEF Pair
  <2>2. CASE m \in Outdated
    BY <1>3, <2>2, OutdatedFacts DEF KnownPackets, Pair
  <2> QED
    BY <1>1, <2>1, <2>2
<1>6. KnownLeases'
  BY <1>2 DEF SendRequest, KnownLeases, Pair, serverVars
<1>7. OwnAnswers'
  <2> SUFFICES ASSUME fromOffer', NEW m \in network', m.xid = l.xid,
                      m.type \in {"request", "ack", "nak"}
               PROVE  m.current
    BY DEF SendRequest, OwnAnswers
  <2>1. m \notin Outdated
    BY <1>3, OutdatedFacts
  <2> QED
    BY <1>1, <2>1
<1>8. Stages' /\ ResumesWithLease'
  BY DEF SendRequest, Stages, ResumesWithLease
<1>9. NewLeaseIsAnswer'
  BY DEF SendRequest, NewLeaseIsAnswer
<1> QED
  BY <1>4, <1>5, <1>6, <1>7, <1>8, <1>9

LEMMA RenewalStep ==
    ASSUME IInv, SendRenewal
    PROVE  IInv'
<1>1. ack \in Lease /\ Pair(ack) \in offered /\ SendRequest(ack)
  BY DEF IInv, SendRenewal, TypeOK, KnownLeases
<1>2. ~fromOffer' /\ ~stale /\ pc \in {"obtain", "discovering"}
  BY DEF IInv, SendRenewal, Stages
<1>3. fromOffer' \in BOOLEAN
  BY DEF IInv, SendRenewal, TypeOK
<1> QED
  BY <1>1, <1>2, <1>3, RequestStep

LEMMA OfferStep ==
    ASSUME IInv, NEW o \in network, ReceiveOffer(o)
    PROVE  IInv'
<1> DEFINE l == LeaseOf(o)
<1>1. o \in Packet /\ o.type = "offer" /\ o.xid = xid /\ Pair(o) \in offered
  BY DEF IInv, ReceiveOffer, Matches, TypeOK, KnownPackets
<1>2. Pair(o) \in Servers \X Addrs
  BY <1>1 DEF IInv, TypeOK
<1>3. l \in Lease /\ Pair(l) \in offered /\ l.xid = xid
  BY <1>1, <1>2 DEF LeaseOf, Lease, Pair, Packet
<1>4. SendRequest(l) /\ fromOffer' = TRUE /\ pc = "discovering"
  BY DEF ReceiveOffer
<1>5. ~stale /\ \A m \in network : m.xid = l.xid => m.type \in {"discover", "offer"}
  BY <1>3, <1>4 DEF IInv, Stages, OwnAnswers
<1> QED
  BY <1>3, <1>4, <1>5, RequestStep

LEMMA AckStep ==
    ASSUME IInv, NEW m \in network, ReceiveAck(m)
    PROVE  IInv'
<1> USE DEF IInv
<1>1. m \in Packet /\ m.type = "ack" /\ m.xid = last.xid /\ Pair(m) \in offered
  BY DEF ReceiveAck, Matches, TypeOK, KnownPackets
<1>2. LeaseOf(m) \in Lease /\ LeaseOf(m) # NoAck /\ Pair(LeaseOf(m)) \in offered
  <2>1. Pair(m) \in Servers \X Addrs
    BY <1>1 DEF TypeOK
  <2> QED
    BY <1>1, <2>1, InitialAssumption DEF LeaseOf, Lease, Pair, Packet
<1>3. fromOffer => m.current
  BY <1>1 DEF ReceiveAck, OwnAnswers
<1>4. TypeOK'
  <2>1. stale' \in BOOLEAN
    BY DEF ReceiveAck
  <2> QED
    BY <1>2, <2>1 DEF ReceiveAck, TypeOK, serverVars
<1>5. KnownPackets' /\ KnownLeases'
  BY <1>2 DEF ReceiveAck, KnownPackets, KnownLeases, Pair, serverVars
<1>6. OwnAnswers' /\ Stages' /\ ResumesWithLease'
  BY DEF ReceiveAck, OwnAnswers, Stages, ResumesWithLease
<1>7. NewLeaseIsAnswer'
  BY <1>3 DEF ReceiveAck, NewLeaseIsAnswer
<1> QED
  BY <1>4, <1>5, <1>6, <1>7

LEMMA NakStep ==
    ASSUME IInv, NEW m \in network, ReceiveNak(m)
    PROVE  IInv'
<1> USE DEF IInv
<1>1. m.type = "nak" /\ m.xid = last.xid
  BY DEF ReceiveNak, Matches
<1>2. fromOffer => m.current
  BY <1>1 DEF ReceiveNak, OwnAnswers
<1>3. TypeOK'
  <2>1. stale' \in BOOLEAN
    BY DEF ReceiveNak
  <2> QED
    BY <2>1 DEF ReceiveNak, TypeOK, serverVars
<1>4. KnownPackets' /\ KnownLeases'
  BY DEF ReceiveNak, KnownPackets, KnownLeases, Pair, serverVars
<1>5. OwnAnswers' /\ Stages' /\ ResumesWithLease'
  BY DEF ReceiveNak, OwnAnswers, Stages, ResumesWithLease
<1>6. NewLeaseIsAnswer'
  BY <1>2 DEF ReceiveNak, NewLeaseIsAnswer
<1> QED
  BY <1>3, <1>4, <1>5, <1>6

\* The steps that neither send nor receive.
LEMMA LocalStep ==
    ASSUME IInv, Fail \/ Again \/ WriteLease \/ WriteAck \/ Crash
    PROVE  IInv'
<1> USE DEF IInv
<1>1. CASE Fail
  <2>1. TypeOK'
    BY <1>1, QuietStep DEF Fail, TypeOK, serverVars
  <2>2. KnownPackets' /\ KnownLeases'
    BY <1>1, QuietStep DEF Fail, KnownLeases, Pair, serverVars
  <2>3. OwnAnswers' /\ Stages' /\ NewLeaseIsAnswer' /\ ResumesWithLease'
    BY <1>1 DEF Fail, OwnAnswers, Stages, NewLeaseIsAnswer, ResumesWithLease
  <2> QED
    BY <2>1, <2>2, <2>3
<1>2. CASE Again
  <2>1. TypeOK'
    BY <1>2, QuietStep DEF Again, TypeOK, serverVars
  <2>2. KnownPackets' /\ KnownLeases'
    BY <1>2, QuietStep DEF Again, KnownLeases, Pair, serverVars
  <2>3. OwnAnswers' /\ Stages' /\ NewLeaseIsAnswer' /\ ResumesWithLease'
    BY <1>2 DEF Again, OwnAnswers, Stages, NewLeaseIsAnswer, ResumesWithLease
  <2> QED
    BY <2>1, <2>2, <2>3
<1>3. CASE WriteLease
  <2>1. TypeOK'
    BY <1>3, QuietStep DEF WriteLease, TypeOK, serverVars
  <2>2. KnownPackets' /\ KnownLeases'
    BY <1>3, QuietStep DEF WriteLease, KnownLeases, Pair, serverVars
  <2>3. OwnAnswers' /\ Stages' /\ NewLeaseIsAnswer' /\ ResumesWithLease'
    BY <1>3 DEF WriteLease, OwnAnswers, Stages, NewLeaseIsAnswer, ResumesWithLease
  <2> QED
    BY <2>1, <2>2, <2>3
<1>4. CASE WriteAck
  <2>1. TypeOK'
    BY <1>4, QuietStep DEF WriteAck, TypeOK, serverVars
  <2>2. KnownPackets' /\ KnownLeases'
    BY <1>4, QuietStep DEF WriteAck, KnownLeases, Pair, serverVars
  <2>3. OwnAnswers' /\ Stages' /\ NewLeaseIsAnswer' /\ ResumesWithLease'
    BY <1>4 DEF WriteAck, OwnAnswers, Stages, NewLeaseIsAnswer, ResumesWithLease
  <2> QED
    BY <2>1, <2>2, <2>3
<1>5. CASE Crash
  <2>1. TypeOK'
    <3>1. faults' \in Nat
      BY <1>5 DEF Crash, TypeOK
    <3>2. torn' \in BOOLEAN
      BY <1>5, Zenon DEF Crash
    <3> QED
      BY <1>5, <3>1, <3>2, QuietStep DEF Crash, TypeOK, serverVars
  <2>2. KnownPackets' /\ KnownLeases'
    BY <1>5, QuietStep DEF Crash, KnownLeases, Pair, serverVars
  <2>3. OwnAnswers' /\ Stages' /\ NewLeaseIsAnswer'
    BY <1>5 DEF Crash, OwnAnswers, Stages, NewLeaseIsAnswer
  <2>4. ResumesWithLease'
    BY <1>5 DEF Crash, ResumesWithLease
  <2> QED
    BY <2>1, <2>2, <2>3, <2>4
<1> QED
  BY <1>1, <1>2, <1>3, <1>4, <1>5

LEMMA ReleaseStep ==
    ASSUME IInv, Release
    PROVE  IInv'
<1> USE DEF IInv
<1> DEFINE r == [type |-> "release", xid |-> Fresh, server |-> ack.server, addr |-> ack.addr,
                 current |-> TRUE]
<1>1. ack \in Lease /\ Pair(ack) \in offered
  BY DEF Release, TypeOK, KnownLeases
<1>2. r \in Packet /\ Pair(r) \in offered
  <2>1. Fresh \in Xids
    BY FreshIsFresh DEF Release
  <2> QED
    BY <1>1, <2>1 DEF Packet, Lease, Pair
<1>3. network' \subseteq network \cup {r}
  BY SendKeeps DEF Release
<1>4. TypeOK'
  BY <1>2, <1>3 DEF Release, TypeOK, serverVars
<1>5. KnownPackets' /\ KnownLeases'
  BY <1>2, <1>3 DEF Release, KnownPackets, KnownLeases, Pair, serverVars
<1>6. OwnAnswers' /\ Stages' /\ NewLeaseIsAnswer' /\ ResumesWithLease'
  BY DEF Release, OwnAnswers, Stages, NewLeaseIsAnswer, ResumesWithLease
<1> QED
  BY <1>4, <1>5, <1>6

-----------------------------------------------------------------------------
(* The network and the servers.                                             *)

\* What a step of the network or of a server has to show, as the client does nothing.
LEMMA ServerStep ==
    ASSUME IInv, UNCHANGED clientVars,
           network' \subseteq Packet, bound' \subseteq offered', offered \subseteq offered',
           offered' \subseteq Servers \X Addrs, faults' \in Nat, KnownPackets', OwnAnswers'
    PROVE  IInv'
<1> USE DEF IInv, clientVars
<1>1. TypeOK'
  BY DEF TypeOK
<1>2. KnownLeases'
  BY DEF KnownLeases, Pair
<1>3. Stages' /\ NewLeaseIsAnswer' /\ ResumesWithLease'
  BY DEF Stages, NewLeaseIsAnswer, ResumesWithLease
<1> QED
  BY <1>1, <1>2, <1>3

\* A packet that joins the network is one the client may trust as much as the one it answers.
LEMMA AnswerStep ==
    ASSUME IInv, NEW m \in network, NEW a \in Packet, Send(a, network), UNCHANGED <<clientVars, faults>>,
           bound' \subseteq offered', offered \subseteq offered', offered' \subseteq Servers \X Addrs,
           a.type \in {"offer", "ack", "nak"}, a.type # "nak" => Pair(a) \in offered',
           a.xid = m.xid, a.current = m.current, a.type \in {"ack", "nak"} => m.type = "request"
    PROVE  IInv'
<1> USE DEF IInv
<1>1. network' \subseteq network \cup {a}
  BY SendKeeps
<1>2. network' \subseteq Packet /\ faults' \in Nat
  BY <1>1 DEF TypeOK
<1>3. KnownPackets'
  BY <1>1 DEF KnownPackets, Pair
<1>4. OwnAnswers'
  BY <1>1 DEF OwnAnswers, clientVars
<1> QED
  BY <1>2, <1>3, <1>4, ServerStep

LEMMA ServersStep ==
    ASSUME IInv, NEW s \in Alive, NEW m \in network,
           Grant(s, m) \/ Refuse(s, m) \/ \E a \in Addrs : Offer(s, m, a)
    PROVE  IInv'
<1>t. /\ m \in Packet /\ s \in Servers /\ bound \subseteq offered
      /\ offered \subseteq Servers \X Addrs
  BY AliveAssumption DEF IInv, TypeOK
<1>1. CASE Grant(s, m)
  <2> DEFINE a == [m EXCEPT !.type = "ack"]
  <2>1. a \in Packet /\ a.type = "ack" /\ a.xid = m.xid /\ a.current = m.current
    BY <1>t DEF Packet
  <2>2. Pair(a) \in offered
    BY <1>1, <1>t DEF Grant, Pair, Packet
  <2>3. m.type = "request" /\ Send(a, network) /\ UNCHANGED <<clientVars, serverVars, faults>>
    BY <1>1 DEF Grant
  <2> QED
    BY <1>t, <2>1, <2>2, <2>3, AnswerStep DEF serverVars
<1>2. CASE Refuse(s, m)
  <2> DEFINE a == [m EXCEPT !.type = "nak", !.addr = NoAddr]
  <2>1. a \in Packet /\ a.type = "nak" /\ a.xid = m.xid /\ a.current = m.current
    BY <1>t DEF Packet
  <2>2. m.type = "request" /\ Send(a, network) /\ UNCHANGED <<clientVars, serverVars, faults>>
    BY <1>2 DEF Refuse
  <2> QED
    BY <1>t, <2>1, <2>2, AnswerStep DEF serverVars
<1>3. ASSUME NEW b \in Addrs, Offer(s, m, b) PROVE IInv'
  <2> DEFINE a == [m EXCEPT !.type = "offer", !.server = s, !.addr = b]
  <2>1. a \in Packet /\ a.type = "offer" /\ a.xid = m.xid /\ a.current = m.current
    BY <1>t DEF Packet
  <2>2. Pair(a) = <<s, b>>
    BY <1>t DEF Pair, Packet
  <2>3. /\ Send(a, network) /\ UNCHANGED <<clientVars, faults>>
        /\ offered' = offered \cup {<<s, b>>} /\ bound' = bound \cup {<<s, b>>}
    BY <1>3 DEF Offer
  <2>4. /\ bound' \subseteq offered' /\ offered \subseteq offered'
        /\ offered' \subseteq Servers \X Addrs /\ Pair(a) \in offered'
    BY <1>t, <2>2, <2>3
  <2> HIDE DEF a
  <2> QED
    BY <2>1, <2>3, <2>4, AnswerStep
<1> QED
  BY <1>1, <1>2, <1>3

LEMMA LossStep ==
    ASSUME IInv, NEW m \in network, Lose(m) \/ TakeBack(m)
    PROVE  IInv'
<1> USE DEF IInv
<1>1. /\ network' \subseteq network /\ bound' \subseteq bound /\ offered' = offered
      /\ UNCHANGED clientVars /\ faults' = faults
  BY DEF Lose, TakeBack, serverVars
<1>2. KnownPackets' /\ OwnAnswers'
  BY <1>1 DEF KnownPackets, OwnAnswers, Pair, clientVars
<1> QED
  BY <1>1, <1>2, ServerStep DEF TypeOK

LEMMA ForgetStep ==
    ASSUME IInv, NEW p \in bound, Forget(p)
    PROVE  IInv'
<1> USE DEF IInv
<1>1. /\ network' = network /\ bound' \subseteq bound /\ offered' = offered /\ UNCHANGED clientVars
  BY DEF Forget
<1>2. faults' \in Nat
  BY DEF Forget, TypeOK
<1>3. KnownPackets' /\ OwnAnswers'
  BY <1>1 DEF KnownPackets, OwnAnswers, Pair, clientVars
<1> QED
  BY <1>1, <1>2, <1>3, ServerStep DEF TypeOK

-----------------------------------------------------------------------------
(* The theorems.                                                            *)

LEMMA InitInvariant ==
    Init => IInv
<1> SUFFICES ASSUME Init PROVE IInv
  OBVIOUS
<1>1. InitialAck # NoAck => InitialAck \in Lease /\ Pair(InitialAck) \in Servers \X Addrs
  BY InitialAssumption DEF Pair, Lease
<1>2. TypeOK
  <2>1. {fromOffer, stale, torn} \subseteq BOOLEAN
    BY Zenon DEF Init
  <2> QED
    BY <1>1, <2>1, InitialAssumption DEF Init, TypeOK
<1>3. KnownPackets /\ KnownLeases
  BY DEF Init, KnownPackets, KnownLeases
<1>4. OwnAnswers /\ Stages /\ NewLeaseIsAnswer /\ ResumesWithLease
  BY DEF Init, OwnAnswers, Stages, NewLeaseIsAnswer, ResumesWithLease
<1> QED
  BY <1>2, <1>3, <1>4 DEF IInv

LEMMA StutterStep ==
    ASSUME IInv, UNCHANGED vars
    PROVE  IInv'
<1>1. UNCHANGED clientVars /\ UNCHANGED serverVars /\ network' = network /\ faults' = faults
  BY DEF vars
<1>2. KnownPackets' /\ OwnAnswers'
  BY <1>1 DEF IInv, KnownPackets, OwnAnswers, Pair, clientVars, serverVars
<1> QED
  BY <1>1, <1>2, ServerStep DEF IInv, TypeOK, serverVars

\* The invariant: the client's leases and all packets were offered by the server they name, and the id
\* of a new transaction has no older answers.
THEOREM Inductive == Spec => []IInv
<1>1. Init => IInv
  BY InitInvariant
<1>2. IInv /\ [Next]_vars => IInv'
  <2> SUFFICES ASSUME IInv, [Next]_vars PROVE IInv'
    OBVIOUS
  <2>1. CASE Client
    BY <2>1, BootStep, DiscoverStep, RenewalStep, OfferStep, AckStep, NakStep, LocalStep
       DEF Client, Receive
  <2>2. CASE Release \/ Crash
    BY <2>2, ReleaseStep, LocalStep
  <2>3. CASE \E m \in network : Lose(m) \/ (m.server \in Alive /\ TakeBack(m))
    BY <2>3, LossStep
  <2>4. CASE \E s \in Alive, m \in network :
                Grant(s, m) \/ Refuse(s, m) \/ \E a \in Pool[s] : Offer(s, m, a)
    BY <2>4, ServersStep, AliveAssumption
  <2>5. CASE \E p \in bound : Forget(p)
    BY <2>5, ForgetStep
  <2>6. CASE UNCHANGED vars
    BY <2>6, StutterStep
  <2> QED
    BY <2>1, <2>2, <2>3, <2>4, <2>5, <2>6 DEF Next
<1> QED
  BY <1>1, <1>2, PTL DEF Spec

\* The variables have their types; a client that waits for a DHCPACK knows what it asked for, and one
\* that obtained a lease has it.
THEOREM TypeCorrect == Spec => []TypeOK
<1>1. IInv => TypeOK
  BY DEF IInv
<1> QED
  BY <1>1, Inductive, PTL

\* No server is asked for, or given back, an address that it did not offer.
THEOREM AsksOnlyForOffers == Spec => []OnlyOfferedRequested
<1>1. IInv => OnlyOfferedRequested
  BY DEF IInv, KnownPackets, KnownLeases, OnlyOfferedRequested
<1> QED
  BY <1>1, Inductive, PTL

\* A transaction that began with a DHCPDISCOVER never ends with a late answer.
THEOREM NewLeasesAreAnswers == Spec => []NewLeaseIsAnswer
<1>1. IInv => NewLeaseIsAnswer
  BY DEF IInv
<1> QED
  BY <1>1, Inductive, PTL

\* The two files agree unless the process ended between their writes.
THEOREM LeaseIsResumed == Spec => []ResumesWithLease
<1>1. IInv => ResumesWithLease
  BY DEF IInv
<1> QED
  BY <1>1, Inductive, PTL
=============================================================================
