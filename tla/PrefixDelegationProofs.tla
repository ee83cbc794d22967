------------------------ MODULE PrefixDelegationProofs ------------------------
(***************************************************************************)
(* For any servers, prefixes, generations and bounds: the types, that a    *)
(* RELEASE names the server of the lease, that the two programs implement  *)
(* PrefixRelay, and that the client renews at the first T1 of the reply.   *)
(***************************************************************************)
EXTENDS PrefixDelegation, WellFoundedInduction, TLAPS

-----------------------------------------------------------------------------
(* The network.                                                             *)

\* The network holds nothing but what it held and the packet that joins it.
LEMMA CarryKeeps ==
    ASSUME NEW kept, NEW p, Carry(kept, p)
    PROVE  net' \subseteq kept \cup {p}
BY DEF Carry

\* Messages are packets.
LEMMA MessageType ==
    ASSUME NEW t \in {"solicit", "request", "release"}, NEW s \in Servers \cup {NoServer}
    PROVE  /\ Message(t, s) \in Packet
           /\ Message(t, s).type = t
           /\ Message(t, s).server = s
BY DEF Message, Packet

\* After a message is sent only that message is current.
LEMMA SendMakesOld ==
    ASSUME net \subseteq Packet, NEW m \in Packet, Send(m)
    PROVE  /\ net' \subseteq Packet
           /\ \A p \in net' : p.cur => p = m
<1> DEFINE Old == {[p EXCEPT !.cur = FALSE] : p \in {q \in net : q.type \in {"advertise", "reply"}}}
<1>1. net' \subseteq Old \cup {m}
  BY CarryKeeps DEF Send
<1>2. \A q \in Packet : [q EXCEPT !.cur = FALSE] \in Packet /\ ~[q EXCEPT !.cur = FALSE].cur
  BY DEF Packet
<1>3. Old \subseteq Packet /\ \A p \in Old : ~p.cur
  BY <1>2
<1> QED
  BY <1>1, <1>3

\* An answer is a packet for the same message; one to a REQUEST is of its server and of this generation.
LEMMA AnswerFacts ==
    ASSUME gen \in Gens, NEW s \in Servers, NEW q \in Packet, NEW a \in Answers(s, q)
    PROVE  /\ a \in Packet
           /\ a.cur = q.cur
           /\ a.type \in {"advertise", "reply"}
           /\ q.type \in {"solicit", "request", "release"}
           /\ q.type = "request" => a.type = "reply" /\ a.server = q.server /\ a.gen = gen
<1>1. CASE q.type = "solicit"
  <2>1. a = [q EXCEPT !.type = "advertise", !.server = s]
    BY <1>1 DEF Answers
  <2> QED
    BY <1>1, <2>1 DEF Packet
<1>2. CASE q.type = "request"
  <2>1. q.server = s /\ a = [q EXCEPT !.type = "reply", !.gen = gen]
    BY <1>2 DEF Answers
  <2> QED
    BY <1>2, <2>1 DEF Packet
<1>3. CASE q.type = "release"
  <2>1. q.server = s /\ a = [q EXCEPT !.type = "reply"]
    BY <1>3 DEF Answers
  <2> QED
    BY <1>3, <2>1 DEF Packet
<1>4. CASE q.type \in {"advertise", "reply"}
  BY <1>4 DEF Answers
<1> QED
  BY <1>1, <1>2, <1>3, <1>4 DEF Packet

-----------------------------------------------------------------------------
(* The steps of the client.                                                 *)

\* What the client's steps keep, as far as they leave radvd alone.
LEMMA ClientStep ==
    ASSUME PInv, Next6, UNCHANGED radvdvars
    PROVE  PInv' /\ file' >= file
<1> USE DEF PInv
<1>a. /\ gen \in Gens /\ file \in Gens \cup {NoGen} /\ Gens \subseteq Int /\ NoGen \in Int
      /\ \A g \in Gens : NoGen <= g
  BY GenAssumption DEF TypeOK, Gens, NoGen
<1>b. ASSUME UNCHANGED <<gen, file>> PROVE RadvdIsCurrent'
  BY <1>b DEF RadvdIsCurrent, radvdvars
<1>1. CASE ChangeGrant
  <2>1. gen' \in Gens /\ \A g \in Gens \cup {NoGen} : g <= gen => g <= gen'
    BY <1>1, <1>a, GenAssumption DEF ChangeGrant, Gens, NoGen
  <2>2. TypeOK'
    BY <1>1, <2>1 DEF TypeOK, ChangeGrant, radvdvars
  <2>3. RepliesAreCurrent'
    BY <1>1, <1>a, <2>1 DEF RepliesAreCurrent, ChangeGrant
  <2>4. LeaseIsCurrent'
    BY <1>1, <1>a, <2>1 DEF LeaseIsCurrent, TypeOK, ChangeGrant
  <2>5. RadvdIsCurrent'
    BY <1>1 DEF RadvdIsCurrent, ChangeGrant, radvdvars
  <2> QED
    BY <1>1, <1>a, <2>2, <2>3, <2>4, <2>5 DEF ChangeGrant
<1>2. CASE Timeout
  BY <1>2, <1>a, <1>b DEF Timeout, TypeOK, ClientStates, RepliesAreCurrent, LeaseIsCurrent, radvdvars
<1>3. CASE AskRelease
  <2>1. faults' \in 0 .. MaxFaults
    BY <1>3, GenAssumption DEF AskRelease, TypeOK
  <2>2. TypeOK'
    BY <1>3, <2>1 DEF AskRelease, TypeOK, radvdvars
  <2> QED
    BY <1>3, <1>a, <1>b, <2>2 DEF AskRelease, RepliesAreCurrent, LeaseIsCurrent
<1>4. CASE ReleaseFails \/ Crash
  <2>1. Restarted /\ faults' \in 0 .. MaxFaults
    BY <1>4, GenAssumption DEF ReleaseFails, Crash, TypeOK
  <2>2. TypeOK'
    BY <2>1 DEF Restarted, TypeOK, ClientStates, NoCfg, radvdvars
  <2> QED
    BY <2>1, <2>2, <1>a, <1>b DEF Restarted, RepliesAreCurrent, LeaseIsCurrent
<1>5. CASE Solicit
  <2>1. net' \subseteq Packet
    BY <1>5, MessageType, SendMakesOld DEF Solicit, TypeOK
  <2>2. TypeOK'
    BY <1>5, <2>1 DEF Solicit, TypeOK, ClientStates, radvdvars
  <2> QED
    BY <1>5, <2>2, <1>a, <1>b DEF Solicit, RepliesAreCurrent, LeaseIsCurrent
<1>6. CASE Sleep
  BY <1>6, <1>a, <1>b DEF Sleep, TypeOK, ClientStates, RepliesAreCurrent, LeaseIsCurrent, radvdvars
<1>7. CASE WriteLease
  <2>1. cfg.gen \in Gens /\ file <= cfg.gen /\ cfg.gen <= gen
    BY <1>7 DEF WriteLease, TypeOK, LeaseIsCurrent
  <2>2. TypeOK'
    BY <1>7, <2>1 DEF WriteLease, TypeOK, ClientStates, radvdvars
  <2>3. RepliesAreCurrent' /\ LeaseIsCurrent'
    BY <1>7, <1>a, <2>1 DEF WriteLease, RepliesAreCurrent, LeaseIsCurrent
  <2>4. RadvdIsCurrent'
    <3>1. ASSUME NEW g \in Gens \cup {NoGen}, g <= file PROVE g <= cfg.gen
      <4>1. g \in Int /\ file \in Int /\ cfg.gen \in Int
        BY <1>a, <2>1
      <4> QED
        BY <2>1, <3>1, <4>1
    <3>2. {got, prefixes, lan} \subseteq Gens \cup {NoGen}
      BY DEF TypeOK
    <3> QED
      BY <1>7, <3>1, <3>2 DEF WriteLease, RadvdIsCurrent, radvdvars
  <2> QED
    BY <1>7, <1>a, <2>1, <2>2, <2>3, <2>4 DEF WriteLease
<1>8. CASE Tick
  <2>1. elapsed' \in Nat
    BY <1>8 DEF Tick, TypeOK
  <2>2. TypeOK'
    BY <1>8, <2>1 DEF Tick, TypeOK, radvdvars
  <2> QED
    BY <1>8, <1>a, <1>b, <2>2 DEF Tick, RepliesAreCurrent, LeaseIsCurrent
<1>9. CASE Renew
  BY <1>9, <1>a, <1>b DEF Renew, NoCfg, TypeOK, ClientStates, RepliesAreCurrent, LeaseIsCurrent, radvdvars
<1>10. CASE Release
  <2>1. net' \subseteq Packet
    BY <1>10, MessageType, SendMakesOld DEF Release, TypeOK
  <2>2. TypeOK'
    BY <1>10, <2>1 DEF Release, TypeOK, ClientStates, radvdvars
  <2> QED
    <3>1. RepliesAreCurrent' /\ LeaseIsCurrent'
      BY <1>10 DEF Release, RepliesAreCurrent, LeaseIsCurrent
    <3>2. file' = file /\ gen' = gen
      BY <1>10 DEF Release
    <3> QED
      BY <2>2, <3>1, <3>2, <1>a, <1>b
<1>11. ASSUME NEW p \in net, ReceiveAdvertise(p) PROVE PInv' /\ file' = file
  <2>1. advertise' = p.server /\ p \in Packet /\ p.server \in Servers \cup {NoServer}
    BY <1>11 DEF ReceiveAdvertise, Remember, TypeOK, Packet
  <2>2. CASE Send(Message("request", p.server)) /\ cpc' = "requested"
    <3> DEFINE m == Message("request", p.server)
    <3>1. m \in Packet /\ m.type = "request" /\ m.server = p.server
      BY <2>1, MessageType
    <3>2. net' \subseteq Packet /\ \A r \in net' : r.cur => r = m
      BY <2>2, <3>1, SendMakesOld DEF TypeOK
    <3>3. TypeOK'
      BY <1>11, <2>1, <2>2, <3>2 DEF ReceiveAdvertise, TypeOK, ClientStates, radvdvars
    <3>4. RepliesAreCurrent'
      BY <2>1, <3>1, <3>2 DEF RepliesAreCurrent
    <3> QED
      BY <1>11, <2>2, <3>3, <3>4, <1>a, <1>b DEF ReceiveAdvertise, LeaseIsCurrent
  <2>3. CASE cpc' = "failed" /\ UNCHANGED net
    BY <1>11, <2>1, <2>3, <1>a, <1>b
       DEF ReceiveAdvertise, TypeOK, ClientStates, RepliesAreCurrent, LeaseIsCurrent, radvdvars
  <2> QED
    BY <1>11, <2>2, <2>3 DEF ReceiveAdvertise
<1>12. ASSUME NEW p \in net, ReceiveReply(p) PROVE PInv' /\ file' = file
  <2>1. p.server = advertise /\ p.gen \in Gens /\ file <= p.gen /\ p.gen <= gen
    BY <1>12 DEF ReceiveReply, Matches, RepliesAreCurrent
  <2>2. TypeOK'
    BY <1>12, <2>1 DEF ReceiveReply, TypeOK, ClientStates, radvdvars
  <2> QED
    BY <1>12, <2>1, <2>2, <1>b DEF ReceiveReply, RepliesAreCurrent, LeaseIsCurrent
<1>13. ASSUME NEW p \in net, Released(p) PROVE PInv' /\ file' = file
  BY <1>13, <1>a, <1>b DEF Released, TypeOK, ClientStates, RepliesAreCurrent, LeaseIsCurrent, radvdvars
<1>14. ASSUME NEW s \in Servers, NEW q \in net, NEW a \in Answers(s, q), Answer(s, q, a)
       PROVE  PInv' /\ file' = file
  <2>1. q \in Packet
    BY DEF TypeOK
  <2>2. /\ a \in Packet /\ a.cur = q.cur
        /\ q.type \in {"solicit", "request", "release"}
        /\ q.type = "request" => a.type = "reply" /\ a.server = q.server /\ a.gen = gen
    BY <1>a, <2>1, AnswerFacts
  <2>3. net' \subseteq net \cup {a}
    BY <1>14, CarryKeeps DEF Answer
  <2>4. TypeOK'
    BY <1>14, <2>2, <2>3 DEF Answer, TypeOK, radvdvars
  <2>5. RepliesAreCurrent'
    <3> SUFFICES ASSUME cpc = "requested", NEW p \in net', p.cur
                 PROVE  /\ p.type \in {"request", "reply"}
                        /\ p.server = advertise
                        /\ p.type = "reply" => p.gen \in Gens /\ file <= p.gen /\ p.gen <= gen
      BY <1>14 DEF Answer, RepliesAreCurrent
    <3>1. CASE p \in net
      BY <3>1 DEF RepliesAreCurrent
    <3>2. CASE p = a
      <4>1. q.type = "request" /\ q.server = advertise
        BY <2>2, <3>2 DEF RepliesAreCurrent
      <4>2. p.type = "reply" /\ p.server = advertise /\ p.gen = gen
        BY <2>2, <3>2, <4>1
      <4> QED
        BY <1>a, <4>2 DEF LeaseIsCurrent
    <3> QED
      BY <2>3, <3>1, <3>2
  <2> QED
    BY <1>14, <1>b, <2>4, <2>5 DEF Answer, LeaseIsCurrent
<1>c. ASSUME PInv' /\ file' = file PROVE PInv' /\ file' >= file
  BY <1>c, <1>a
<1>15. CASE Receive
  BY <1>11, <1>12, <1>13, <1>15, <1>c DEF Receive
<1>16. CASE \E s \in Servers, q \in net : \E a \in Answers(s, q) : Answer(s, q, a)
  BY <1>14, <1>16, <1>c
<1> QED
  BY <1>1, <1>2, <1>3, <1>4, <1>5, <1>6, <1>7, <1>8, <1>9, <1>10, <1>15, <1>16 DEF Next6, Proceed

-----------------------------------------------------------------------------
(* The steps of radvd.                                                      *)

\* What radvd's steps and the signal keep.
LEMMA RadvdStep ==
    ASSUME PInv, Delivered \/ Undelivered \/ Radvd \/ ReadConfigFails \/ Panic \/ RadvdCrash
    PROVE  PInv' /\ file' = file /\ lan' >= lan
<1> USE DEF PInv
<1>a. /\ Gens \cup {NoGen} \subseteq Int
      /\ \A g \in Gens \cup {NoGen} : NoGen <= g /\ g <= g
  BY GenAssumption DEF Gens, NoGen
<1>t. /\ got \in Gens \cup {NoGen} /\ prefixes \in Gens \cup {NoGen}
      /\ lan \in Gens \cup {NoGen} /\ file \in Gens \cup {NoGen}
  BY DEF TypeOK
<1>r. /\ lan <= file
      /\ prefixes <= file
      /\ prefixes # NoGen => lan <= prefixes
      /\ hpc = "parsed" => lan <= got /\ prefixes <= got /\ got <= file
      /\ rpc \in {"boot", "read"} => hpc = "idle" /\ ~sig
  BY DEF RadvdIsCurrent
<1>b. ASSUME UNCHANGED <<gen, net, cpc, advertise, cfg, file>> PROVE RepliesAreCurrent' /\ LeaseIsCurrent'
  BY <1>b DEF RepliesAreCurrent, LeaseIsCurrent
<1>1. CASE Delivered \/ Undelivered
  <2>1. Notify /\ UNCHANGED <<rpc, hpc, got, prefixes, lan>> /\ sig' \in BOOLEAN
    BY <1>1 DEF Delivered, Undelivered, radvdvars, TypeOK
  <2>2. rpc \in {"boot", "read"} => ~sig'
    BY <1>1, <1>r DEF Delivered, Undelivered, radvdvars
  <2>3. TypeOK'
    BY <2>1 DEF Notify, TypeOK, ClientStates
  <2>4. RepliesAreCurrent' /\ LeaseIsCurrent'
    BY <2>1 DEF Notify, RepliesAreCurrent, LeaseIsCurrent
  <2>5. RadvdIsCurrent'
    BY <1>r, <2>1, <2>2 DEF Notify, RadvdIsCurrent
  <2> QED
    BY <1>a, <1>t, <2>1, <2>3, <2>4, <2>5 DEF Notify
<1>2. CASE ReadConfig
  <2>1. TypeOK'
    BY <1>2 DEF ReadConfig, TypeOK, dhcp6vars
  <2>2. RadvdIsCurrent'
    BY <1>2, <1>a, <1>r, <1>t DEF ReadConfig, RadvdIsCurrent, dhcp6vars
  <2> QED
    BY <1>2, <1>a, <1>b, <1>t, <2>1, <2>2 DEF ReadConfig, dhcp6vars
<1>3. CASE Subscribe \/ SetInterface \/ SetConn
  <2>1. TypeOK'
    BY <1>3 DEF Subscribe, SetInterface, SetConn, TypeOK, dhcp6vars
  <2>2. RadvdIsCurrent'
    BY <1>3, <1>r DEF Subscribe, SetInterface, SetConn, RadvdIsCurrent, dhcp6vars
  <2> QED
    BY <1>3, <1>a, <1>b, <1>t, <2>1, <2>2 DEF Subscribe, SetInterface, SetConn, dhcp6vars
<1>4. ASSUME SendAdvertisement \/ UNCHANGED lan
      PROVE  /\ lan' \in Gens \cup {NoGen} /\ lan' >= lan
             /\ lan' <= file
             /\ prefixes # NoGen => lan' <= prefixes
             /\ hpc = "parsed" => lan' <= got
  <2>1. CASE lan' = prefixes /\ prefixes # NoGen
    BY <1>a, <1>r, <1>t, <2>1
  <2>2. CASE lan' = lan
    BY <1>a, <1>r, <1>t, <2>2
  <2> QED
    BY <1>4, <2>1, <2>2 DEF SendAdvertisement
<1>5. CASE Advertise
  <2>1. TypeOK'
    BY <1>4, <1>5 DEF Advertise, TypeOK, dhcp6vars
  <2>2. RadvdIsCurrent'
    BY <1>4, <1>5, <1>r DEF Advertise, RadvdIsCurrent, dhcp6vars
  <2> QED
    BY <1>4, <1>5, <1>b, <2>1, <2>2 DEF Advertise, dhcp6vars
<1>6. CASE Receives
  <2>1. TypeOK'
    BY <1>6 DEF Receives, TypeOK, dhcp6vars
  <2>2. RadvdIsCurrent'
    BY <1>6, <1>r DEF Receives, RadvdIsCurrent, dhcp6vars
  <2> QED
    BY <1>6, <1>a, <1>b, <1>t, <2>1, <2>2 DEF Receives, dhcp6vars
<1>7. CASE ReadLease
  <2>1. TypeOK'
    BY <1>7 DEF ReadLease, TypeOK, dhcp6vars
  <2>2. RadvdIsCurrent'
    BY <1>7, <1>a, <1>r, <1>t DEF ReadLease, RadvdIsCurrent, dhcp6vars
  <2> QED
    BY <1>7, <1>a, <1>b, <1>t, <2>1, <2>2 DEF ReadLease, dhcp6vars
<1>8. CASE SetPrefixes
  <2>1. TypeOK'
    BY <1>8 DEF SetPrefixes, TypeOK, dhcp6vars
  <2>2. RadvdIsCurrent'
    BY <1>8, <1>a, <1>r, <1>t DEF SetPrefixes, RadvdIsCurrent, dhcp6vars
  <2> QED
    BY <1>8, <1>a, <1>b, <1>t, <2>1, <2>2 DEF SetPrefixes, dhcp6vars
<1>9. CASE Announce
  <2>1. SendAdvertisement \/ UNCHANGED lan
    BY <1>9 DEF Announce
  <2>2. TypeOK'
    BY <1>4, <1>9, <2>1 DEF Announce, TypeOK, dhcp6vars
  <2>3. RadvdIsCurrent'
    BY <1>4, <1>9, <1>r, <2>1 DEF Announce, RadvdIsCurrent, dhcp6vars
  <2> QED
    BY <1>4, <1>9, <1>b, <2>1, <2>2, <2>3 DEF Announce, dhcp6vars
<1>10. CASE RadvdEnds
  <2>1. faults' \in 0 .. MaxFaults
    BY <1>10, GenAssumption DEF RadvdEnds, TypeOK
  <2>2. TypeOK'
    BY <1>10, <2>1 DEF RadvdEnds, TypeOK
  <2>3. RadvdIsCurrent'
    BY <1>10, <1>a, <1>r, <1>t DEF RadvdEnds, RadvdIsCurrent
  <2> QED
    BY <1>10, <1>a, <1>b, <1>t, <2>2, <2>3 DEF RadvdEnds
<1>11. CASE ReadConfigFails
  <2>1. faults' \in 0 .. MaxFaults
    BY <1>11, GenAssumption DEF ReadConfigFails, TypeOK
  <2>2. TypeOK'
    BY <1>11, <2>1 DEF ReadConfigFails, TypeOK
  <2>3. RadvdIsCurrent'
    BY <1>11, <1>r DEF ReadConfigFails, RadvdIsCurrent
  <2> QED
    BY <1>11, <1>a, <1>b, <1>t, <2>2, <2>3 DEF ReadConfigFails
<1> QED
  BY <1>1, <1>2, <1>3, <1>5, <1>6, <1>7, <1>8, <1>9, <1>10, <1>11 DEF Radvd, Panic, RadvdCrash

-----------------------------------------------------------------------------
(* The time to renew.                                                       *)

\* A set of numbers that is not empty has a least element.
LEMMA LeastNumber ==
    ASSUME NEW T \in SUBSET Nat, T # {}
    PROVE  \E m \in T : \A k \in T : m <= k
<1> DEFINE R == {ss \in Nat \X Nat : ss[1] < ss[2]}
<1>1. IsWellFoundedOn(R, Nat)
  BY NatLessThanWellFounded, Zenon DEF OpToRel
<1>2. PICK x \in T : \A y \in T : ~ (<<y, x>> \in R)
  <2> HIDE DEF R
  <2> QED BY <1>1, WFMin
<1>3. ASSUME NEW k \in T, k < x PROVE FALSE
  <2>1. <<k, x>> \in R BY <1>3, Zenon
  <2> QED BY <1>2, <2>1
<1> QED BY <1>3

\* What holds of 0 and goes from n to n + 1 holds up to the bound.
LEMMA UpTo ==
    ASSUME NEW N \in Nat, NEW P, 0 \in P, \A n \in 0 .. N - 1 : n \in P => n + 1 \in P
    PROVE  \A n \in 0 .. N : n \in P
<1> DEFINE T == {n \in 0 .. N : n \notin P}
<1>1. SUFFICES ASSUME T # {} PROVE FALSE
  OBVIOUS
<1>2. T \in SUBSET Nat
  OBVIOUS
<1>3. PICK m \in T : \A k \in T : m <= k
  <2> HIDE DEF T
  <2> QED BY <1>1, <1>2, LeastNumber
<1>4. m - 1 \in 0 .. N - 1 /\ m - 1 \notin T
  BY <1>3
<1> QED BY <1>4

\* a is the first of the T1s of the first n IA_PDs of pds, or the zero time if n is 0.
FirstOf(a, pds, n) ==
    IF n = 0 THEN a = ZeroTime
             ELSE /\ \E i \in 1 .. n : a = pds[i].t1
                  /\ \A i \in 1 .. n : a <= pds[i].t1

LEMMA T1Type ==
    ASSUME NEW pds \in Seq(IAPD), NEW i \in 1 .. Len(pds)
    PROVE  pds[i].t1 \in Nat
<1>1. pds[i] \in IAPD
  OBVIOUS
<1> QED BY <1>1 DEF IAPD

\* One more round of the loop finds the first of one more T1.
LEMMA EarlierIsFirst ==
    ASSUME NEW pds \in Seq(IAPD), NEW n \in 1 .. Len(pds), NEW a, FirstOf(a, pds, n - 1)
    PROVE  FirstOf(Earlier(pds[n].t1, a), pds, n)
<1>1. \A i \in 1 .. Len(pds) : pds[i].t1 \in Nat
  BY T1Type
<1>2. n \in Nat /\ n # 0 /\ 1 .. n = 1 .. n - 1 \cup {n} /\ \A i \in 1 .. n : i \in 1 .. Len(pds)
  OBVIOUS
<1>3. CASE n = 1
  <2>1. Earlier(pds[n].t1, a) = pds[n].t1
    BY <1>3 DEF FirstOf, Earlier
  <2> QED BY <1>1, <1>2, <1>3, <2>1 DEF FirstOf
<1>4. CASE n # 1
  <2>1. n - 1 # 0 /\ \A i \in 1 .. n - 1 : i \in 1 .. Len(pds)
    BY <1>4
  <2>2. PICK j \in 1 .. n - 1 : a = pds[j].t1
    BY <2>1 DEF FirstOf
  <2>3. a \in Nat /\ a # ZeroTime /\ \A i \in 1 .. n - 1 : a <= pds[i].t1
    BY <1>1, <2>1, <2>2 DEF FirstOf, ZeroTime
  <2>4. pds[n].t1 \in Nat
    BY <1>1, <1>2
  <2>5. CASE pds[n].t1 < a
    <3>1. Earlier(pds[n].t1, a) = pds[n].t1
      BY <2>5 DEF Earlier
    <3>2. \A i \in 1 .. n : pds[n].t1 <= pds[i].t1
      BY <1>1, <1>2, <2>1, <2>3, <2>4, <2>5
    <3> QED BY <1>2, <3>1, <3>2 DEF FirstOf
  <2>6. CASE ~(pds[n].t1 < a)
    <3>1. Earlier(pds[n].t1, a) = a
      BY <2>3, <2>6 DEF Earlier
    <3>2. \A i \in 1 .. n : a <= pds[i].t1
      BY <1>2, <2>3, <2>4, <2>6
    <3> QED BY <1>2, <2>2, <3>1, <3>2 DEF FirstOf
  <2> QED BY <2>5, <2>6
<1> QED BY <1>3, <1>4

\* There is a first T1.
LEMMA FirstExists ==
    ASSUME NEW pds \in Seq(IAPD), NEW n \in 0 .. Len(pds)
    PROVE  \E a : FirstOf(a, pds, n)
<1> DEFINE P == {m \in 0 .. Len(pds) : \E a : FirstOf(a, pds, m)}
<1>0. Len(pds) \in Nat
  OBVIOUS
<1>1. 0 \in P
  BY <1>0 DEF FirstOf
<1>2. ASSUME NEW m \in 0 .. Len(pds) - 1, m \in P PROVE m + 1 \in P
  <2>1. PICK a : FirstOf(a, pds, m)
    BY <1>2
  <2>2. m + 1 \in 1 .. Len(pds) /\ (m + 1) - 1 = m
    BY <1>0
  <2>3. FirstOf(Earlier(pds[m + 1].t1, a), pds, m + 1)
    BY <2>1, <2>2, EarlierIsFirst
  <2> QED BY <2>2, <2>3
<1>3. \A m \in 0 .. Len(pds) : m \in P
  <2> HIDE DEF P
  <2> QED BY <1>0, <1>1, <1>2, UpTo
<1> QED BY <1>3

\* No two of them are different.
LEMMA FirstIsUnique ==
    ASSUME NEW pds \in Seq(IAPD), NEW n \in 0 .. Len(pds), NEW a, NEW b,
           FirstOf(a, pds, n), FirstOf(b, pds, n)
    PROVE  a = b
<1>1. CASE n = 0
  BY <1>1 DEF FirstOf
<1>2. CASE n # 0
  <2>1. \A i \in 1 .. n : i \in 1 .. Len(pds) /\ pds[i].t1 \in Nat
    BY T1Type
  <2>2. PICK i \in 1 .. n : a = pds[i].t1
    BY <1>2 DEF FirstOf
  <2>3. PICK j \in 1 .. n : b = pds[j].t1
    BY <1>2 DEF FirstOf
  <2>4. a <= pds[j].t1 /\ b <= pds[i].t1
    BY <1>2 DEF FirstOf
  <2> QED BY <2>1, <2>2, <2>3, <2>4
<1> QED BY <1>1, <1>2

\* The loop of ObtainOrRenew finds the first T1 of a reply.
LEMMA RenewAfterIsFirst ==
    ASSUME NEW g \in Gens
    PROVE  FirstOf(RenewAfter(g), Grants[g], Len(Grants[g]))
<1> DEFINE pds == Grants[g]
           N == Len(pds)
           Loop(h) == [i \in 0 .. N |-> IF i = 0 THEN ZeroTime ELSE Earlier(pds[i].t1, h[i - 1])]
           First == [i \in 0 .. N |-> CHOOSE a : FirstOf(a, pds, i)]
           after == CHOOSE h : h = Loop(h)
           P == {i \in 0 .. N : FirstOf(after[i], pds, i)}
<1>0. pds \in Seq(IAPD) /\ N \in Nat
  BY GrantAssumption
<1>1. \A i \in 0 .. N : FirstOf(First[i], pds, i)
  <2> TAKE i \in 0 .. N
  <2>1. \E a : FirstOf(a, pds, i)
    BY <1>0, FirstExists
  <2> QED BY <2>1
<1>2. First = Loop(First)
  <2> SUFFICES ASSUME NEW i \in 0 .. N PROVE First[i] = Loop(First)[i]
    OBVIOUS
  <2>1. CASE i = 0
    BY <1>1, <2>1 DEF FirstOf
  <2>2. CASE i # 0
    <3>1. i \in 1 .. N /\ i - 1 \in 0 .. N
      BY <1>0, <2>2
    <3>2. FirstOf(Earlier(pds[i].t1, First[i - 1]), pds, i)
      <4> HIDE DEF First, pds, N
      <4> QED BY <1>0, <1>1, <3>1, EarlierIsFirst DEF N
    <3>3. First[i] = Earlier(pds[i].t1, First[i - 1])
      <4> HIDE DEF First, pds
      <4> QED BY <1>0, <1>1, <3>2, FirstIsUnique
    <3> QED BY <2>2, <3>3
  <2> QED BY <2>1, <2>2
<1>3. after = Loop(after)
  <2> HIDE DEF First, Loop
  <2> QED BY <1>2
<1>4. \A i \in 0 .. N : i \in P
  <2> HIDE DEF after, pds
  <2>1. 0 \in P
    BY <1>0, <1>3 DEF FirstOf
  <2>2. ASSUME NEW n \in 0 .. N - 1, n \in P PROVE n + 1 \in P
    <3>1. n + 1 \in 1 .. N /\ n + 1 \in 0 .. N /\ n + 1 # 0 /\ (n + 1) - 1 = n
      BY <1>0
    <3>2. after[n + 1] = Earlier(pds[n + 1].t1, after[n])
      BY <1>3, <3>1
    <3>3. FirstOf(Earlier(pds[n + 1].t1, after[n]), pds, n + 1)
      BY <1>0, <2>2, <3>1, EarlierIsFirst
    <3> QED BY <3>1, <3>2, <3>3
  <2> HIDE DEF P
  <2> QED BY <1>0, <2>1, <2>2, UpTo
<1>5. RenewAfter(g) = after[N]
  BY DEF RenewAfter
<1>6. N \in 0 .. N
  BY <1>0
<1> QED BY <1>4, <1>5, <1>6

\* RenewAfter is the least of the T1s.
LEMMA RenewAfterIsLeast ==
    ASSUME NEW g \in Gens, T1s(g) # {}
    PROVE  /\ RenewAfter(g) \in Nat
           /\ RenewAfter(g) \in T1s(g)
           /\ \A t \in T1s(g) : RenewAfter(g) <= t
<1>1. Grants[g] \in Seq(IAPD) /\ Len(Grants[g]) \in Nat /\ DOMAIN Grants[g] = 1 .. Len(Grants[g])
  BY GrantAssumption
<1>2. Len(Grants[g]) # 0
  BY <1>1 DEF T1s
<1>3. \A i \in 1 .. Len(Grants[g]) : Grants[g][i].t1 \in Nat
  BY <1>1, T1Type
<1>4. /\ \E i \in 1 .. Len(Grants[g]) : RenewAfter(g) = Grants[g][i].t1
      /\ \A i \in 1 .. Len(Grants[g]) : RenewAfter(g) <= Grants[g][i].t1
  BY <1>2, RenewAfterIsFirst DEF FirstOf
<1> QED BY <1>1, <1>3, <1>4 DEF T1s

\* Every step keeps the wait within the timer, and a client that stops waiting has waited it out.
LEMMA WaitStep ==
    ASSUME PInv, NotOverdue, [Next]_vars
    PROVE  /\ NotOverdue'
           /\ cpc = "waiting" /\ cpc' = "start" /\ faults' = faults =>
                elapsed >= RenewAfter(cfg.gen)
<1>0. elapsed \in Nat /\ faults \in Int /\ (cpc \in {"obtained", "written", "waiting"} => cfg.gen \in Gens)
  BY GenAssumption DEF PInv, TypeOK
<1>1. CASE Tick
  <2>1. T1s(cfg.gen) # {} => RenewAfter(cfg.gen) \in Nat
    BY <1>0, <1>1, RenewAfterIsLeast DEF Tick
  <2> QED BY <1>0, <1>1, <2>1 DEF Tick, NotOverdue
<1>2. CASE Renew
  BY <1>2 DEF Renew, NotOverdue
<1>3. ASSUME NEW p \in net, ReceiveReply(p) PROVE NotOverdue' /\ cpc # "waiting"
  <2>1. cfg'.gen \in Gens /\ elapsed' = 0 /\ cpc = "requested"
    BY <1>3 DEF ReceiveReply, PInv, RepliesAreCurrent, Matches
  <2>2. T1s(cfg'.gen) # {} => RenewAfter(cfg'.gen) \in Nat
    BY <2>1, RenewAfterIsLeast
  <2> QED BY <2>1, <2>2 DEF NotOverdue
<1>4. CASE Crash \/ ReleaseFails
  BY <1>0, <1>4 DEF Crash, ReleaseFails, Restarted, NotOverdue
<1>5. CASE \/ Solicit \/ Sleep \/ Release \/ Timeout
           \/ \E p \in net : ReceiveAdvertise(p) \/ Released(p)
  BY <1>5 DEF Solicit, Sleep, Release, Timeout, ReceiveAdvertise, Released, NotOverdue
<1>6. CASE WriteLease \/ Notify
  BY <1>6 DEF WriteLease, Notify, NotOverdue
<1>7. CASE UNCHANGED <<cpc, cfg, elapsed>>
  BY <1>7 DEF NotOverdue
<1>8. Next6 \/ Notify \/ UNCHANGED <<cpc, cfg, elapsed>>
  BY DEF Next, Client6, Delivered, Undelivered, Radvd, ReadConfig, Subscribe, SetInterface, SetConn,
         Advertise, Receives, ReadLease, SetPrefixes, Announce, ReadConfigFails, Panic, RadvdCrash, RadvdEnds,
         vars, dhcp6vars
<1>9. CASE ChangeGrant \/ AskRelease \/ \E s \in Servers, q \in net : \E a \in Answers(s, q) : Answer(s, q, a)
  <2>1. UNCHANGED <<cpc, cfg, elapsed>>
    BY <1>9 DEF ChangeGrant, AskRelease, Answer
  <2> QED BY <1>7, <2>1
<1> QED
  BY <1>1, <1>2, <1>3, <1>4, <1>5, <1>6, <1>7, <1>8, <1>9 DEF Next6, Proceed, Receive

-----------------------------------------------------------------------------
(* The theorems.                                                            *)

LEMMA InitInvariant ==
    PInit => PInv
<1> SUFFICES ASSUME PInit PROVE PInv
  OBVIOUS
<1>1. 0 \in Gens /\ NoGen <= 0 /\ NoGen <= NoGen
  BY GenAssumption DEF Gens, NoGen
<1>2. TypeOK
  <2>1. usr2 \in BOOLEAN /\ sig \in BOOLEAN
    BY Zenon DEF PInit, Init
  <2>2. elapsed \in Nat /\ faults \in 0 .. MaxFaults
    BY GenAssumption DEF PInit, Init
  <2>3. cfg \in [gen: Gens \cup {NoGen}, server: Servers \cup {NoServer}]
    BY DEF PInit, Init, NoCfg
  <2> QED
    BY <1>1, <2>1, <2>2, <2>3 DEF PInit, Init, TypeOK, ClientStates
<1> QED
  BY <1>1, <1>2 DEF PInit, Init, PInv, RepliesAreCurrent, LeaseIsCurrent, RadvdIsCurrent

\* A step keeps the invariant, and takes neither the file nor the LAN back.
LEMMA StepInvariant ==
    ASSUME PInv, [Next]_vars
    PROVE  PInv' /\ file' >= file /\ lan' >= lan
<1>1. file \in Int /\ lan \in Int
  <2>1. Gens \cup {NoGen} \subseteq Int
    BY GenAssumption DEF Gens, NoGen
  <2> QED
    BY <2>1 DEF PInv, TypeOK
<1>2. CASE Client6
  BY <1>1, <1>2, ClientStep DEF Client6, radvdvars
<1>3. CASE Delivered \/ Undelivered \/ Radvd \/ ReadConfigFails \/ Panic \/ RadvdCrash
  BY <1>1, <1>3, RadvdStep
<1>4. CASE UNCHANGED vars
  <2>1. UNCHANGED dhcp6vars /\ UNCHANGED radvdvars
    BY <1>4 DEF vars
  <2> QED
    BY <1>1, <2>1 DEF dhcp6vars, radvdvars, PInv, TypeOK, RepliesAreCurrent, LeaseIsCurrent, RadvdIsCurrent
<1> QED
  BY <1>2, <1>3, <1>4 DEF Next

\* The invariant: the answers the client takes, the lease, the file and what radvd holds are in the
\* order of the delegations.
THEOREM DelegationInvariant == Spec => []PInv
<1>1. PInit => PInv
  BY InitInvariant
<1>2. PInv /\ [Next]_vars => PInv'
  BY StepInvariant
<1> QED
  BY <1>1, <1>2, PTL DEF Spec

\* The variables of the client and of radvd have their types, and a lease comes from an answer to a
\* REQUEST.
THEOREM DelegationTypeCorrect == Spec => []TypeOK
<1>1. PInv => TypeOK
  BY DEF PInv
<1> QED
  BY <1>1, DelegationInvariant, PTL

\* A RELEASE always names the server of the lease.
THEOREM ReleaseAtItsServer == Spec => []ReleaseNamesItsServer
<1>1. PInv => ReleaseNamesItsServer
  BY DEF PInv, LeaseIsCurrent, ReleaseNamesItsServer
<1> QED
  BY <1>1, DelegationInvariant, PTL

\* The provider, the client that writes the file, and radvd that announces it never move at once.
LEMMA OneMoves ==
    ASSUME [Next]_vars
    PROVE  \/ gen' = gen + 1 /\ UNCHANGED <<file, lan>>
           \/ UNCHANGED <<gen, lan>>
           \/ UNCHANGED <<gen, file>>
<1>1. CASE Client6
  <2>1. UNCHANGED lan
    BY <1>1 DEF Client6, radvdvars
  <2>2. CASE ChangeGrant
    BY <2>1, <2>2 DEF ChangeGrant
  <2>3. CASE Proceed \/ Timeout \/ AskRelease
    BY <2>1, <2>3 DEF Proceed, Solicit, Sleep, WriteLease, Tick, Renew, Release, Timeout, AskRelease
  <2>4. CASE ReleaseFails \/ Crash
    BY <2>1, <2>4 DEF ReleaseFails, Crash, Restarted
  <2>5. CASE Receive
    BY <2>1, <2>5 DEF Receive, ReceiveAdvertise, ReceiveReply, Released
  <2>6. CASE \E s \in Servers, q \in net : \E a \in Answers(s, q) : Answer(s, q, a)
    BY <2>1, <2>6 DEF Answer
  <2> QED
    BY <1>1, <2>2, <2>3, <2>4, <2>5, <2>6 DEF Client6, Next6
<1>2. CASE Delivered \/ Undelivered
  BY <1>2 DEF Delivered, Undelivered, Notify, radvdvars
<1>3. CASE Radvd
  BY <1>3 DEF Radvd, ReadConfig, Subscribe, SetInterface, SetConn, Advertise, Receives, ReadLease,
              SetPrefixes, Announce, dhcp6vars
<1>4. CASE ReadConfigFails \/ Panic \/ RadvdCrash
  BY <1>4 DEF ReadConfigFails, Panic, RadvdCrash, RadvdEnds
<1>5. CASE UNCHANGED vars
  BY <1>5 DEF vars, dhcp6vars, radvdvars
<1> QED
  BY <1>1, <1>2, <1>3, <1>4, <1>5 DEF Next

\* No late or repeated answer, lost signal, restart or race in radvd brings an older delegation back or
\* announces one that was never leased: the two programs implement PrefixRelay.
THEOREM DelegationsRelayedInOrder == Spec => ImplementsRelay
<1>1. PInit => Relay!Init
  BY DEF PInit, Init, NoGen, Relay!Init
<1>2. ASSUME PInv, [Next]_vars PROVE [Relay!Next]_(Relay!vars)
  <2>1. file' >= file /\ lan' >= lan /\ file' <= gen' /\ lan' <= file'
    BY <1>2, StepInvariant DEF PInv, LeaseIsCurrent, RadvdIsCurrent
  <2>2. /\ gen \in Int /\ file \in Int /\ lan \in Int
        /\ gen' \in Int /\ file' \in Int /\ lan' \in Int
    <3>1. Gens \cup {NoGen} \subseteq Int
      BY GenAssumption DEF Gens, NoGen
    <3>2. TypeOK /\ TypeOK'
      BY <1>2, StepInvariant DEF PInv
    <3> QED
      BY <3>1, <3>2 DEF TypeOK
  <2>3. CASE gen' = gen + 1 /\ UNCHANGED <<file, lan>>
    BY <2>3 DEF Relay!Next, Relay!Delegate
  <2>4. CASE UNCHANGED <<gen, lan>>
    BY <2>1, <2>2, <2>4 DEF Relay!Next, Relay!Lease
  <2>5. CASE UNCHANGED <<gen, file>>
    BY <2>1, <2>2, <2>5 DEF Relay!Next, Relay!Announce
  <2> QED
    BY <1>2, <2>3, <2>4, <2>5, OneMoves
<1> QED
  BY <1>1, <1>2, DelegationInvariant, PTL DEF Spec, ImplementsRelay, Relay!Spec

\* The client renews its prefix at the first T1 of the reply, whatever the order of the IA_PDs and
\* whatever else happens meanwhile: neither later nor before it.
THEOREM RenewalAtFirstT1 == Spec => RenewsAtFirstT1
<1>1. PInit => NotOverdue
  BY DEF PInit, Init, NotOverdue
<1>2. PInv /\ NotOverdue /\ [Next]_vars => NotOverdue'
  BY WaitStep
<1> DEFINE A == cpc = "waiting" /\ cpc' = "start" /\ faults' = faults /\ T1s(cfg.gen) # {} =>
                    elapsed \in T1s(cfg.gen) /\ \A t \in T1s(cfg.gen) : elapsed <= t
<1>3. PInv /\ NotOverdue /\ [Next]_vars => [A]_vars
  <2> SUFFICES ASSUME PInv, NotOverdue, [Next]_vars,
                      cpc = "waiting", cpc' = "start", faults' = faults, T1s(cfg.gen) # {}
               PROVE  elapsed \in T1s(cfg.gen) /\ \A t \in T1s(cfg.gen) : elapsed <= t
    OBVIOUS
  <2>1. elapsed >= RenewAfter(cfg.gen) /\ elapsed <= RenewAfter(cfg.gen)
    BY WaitStep DEF NotOverdue
  <2>2. elapsed \in Nat /\ cfg.gen \in Gens
    BY DEF PInv, TypeOK
  <2>3. elapsed = RenewAfter(cfg.gen)
    BY <2>1, <2>2, RenewAfterIsLeast
  <2> QED BY <2>2, <2>3, RenewAfterIsLeast
<1> QED
  BY <1>1, <1>2, <1>3, DelegationInvariant, PTL DEF Spec, RenewsAtFirstT1
=============================================================================
