------------------------------- MODULE DNSProofs -------------------------------
(***************************************************************************)
(* Proofs about the two parts of internal/dns that share no state: the     *)
(* list of upstreams (module DNSUpstream), for every configured list and   *)
(* every set of concurrent queries, and the local names (module DNSHosts), *)
(* for every set of names, addresses and leases.                           *)
(***************************************************************************)
EXTENDS DNSUpstream, DNSHosts, FiniteSetTheorems, WellFoundedInduction, TLAPS

-----------------------------------------------------------------------------
(* The upstreams.                                                           *)

\* The configured list is one of the lists, and it has a first position.
LEMMA ConfiguredIsList ==
    /\ Len(Configured) \in Nat \ {0}
    /\ Configured \in Lists
    /\ 1 \in Positions
    /\ \A list \in Lists : Len(list) = Len(Configured) /\ list \in Seq(Upstreams)
<1>1. Len(Configured) \in Nat \ {0}
  BY ConfiguredAssumption
<1>2. Configured \in Lists
  BY <1>1, ConfiguredAssumption DEF Lists, Positions
<1>3. \A list \in Lists : Len(list) = Len(Configured) /\ list \in Seq(Upstreams)
  BY <1>1 DEF Lists, Positions
<1> QED
  BY <1>1, <1>2, <1>3 DEF Positions

\* The slices of dns.go:431 put u first and shift the entries before idx by one.
LEMMA MoveToFrontEntries ==
    ASSUME NEW list \in Lists, NEW idx \in Positions, NEW u \in Upstreams
    PROVE  /\ MoveToFront(list, idx, u) \in Lists
           /\ MoveToFront(list, idx, u) =
                 [i \in Positions |-> IF i = 1 THEN u ELSE IF i <= idx THEN list[i - 1] ELSE list[i]]
<1> DEFINE N == Len(Configured)
           front == SubSeq(list, 1, idx - 1)
           back == SubSeq(list, idx + 1, Len(list))
           moved == MoveToFront(list, idx, u)
<1>1. N \in Nat \ {0} /\ Len(list) = N /\ list \in Seq(Upstreams) /\ idx \in 1 .. N
  BY ConfiguredIsList DEF Positions
<1>2. /\ front \in Seq(Upstreams) /\ Len(front) = idx - 1
      /\ \A i \in 1 .. idx - 1 : front[i] = list[i]
  BY <1>1
<1>3. /\ back \in Seq(Upstreams) /\ Len(back) = N - idx
      /\ \A i \in 1 .. N - idx : back[i] = list[idx + i]
  BY <1>1
<1>4. moved = (<<u>> \o front) \o back
  BY DEF MoveToFront
<1> HIDE DEF front, back
<1>5. /\ <<u>> \o front \in Seq(Upstreams) /\ Len(<<u>> \o front) = idx
      /\ (<<u>> \o front)[1] = u
      /\ \A i \in 2 .. idx : (<<u>> \o front)[i] = list[i - 1]
  BY <1>1, <1>2
<1> DEFINE head == <<u>> \o front
<1> HIDE DEF head
<1>6. /\ head \in Seq(Upstreams) /\ Len(head) = idx /\ head[1] = u
      /\ \A i \in 2 .. idx : head[i] = list[i - 1]
      /\ moved = head \o back
  BY <1>4, <1>5 DEF head
<1> HIDE DEF moved
<1>7. moved \in Seq(Upstreams) /\ Len(moved) = N
  BY <1>1, <1>3, <1>6
<1>8. \A i \in 1 .. N :
         moved[i] = IF i = 1 THEN u ELSE IF i <= idx THEN list[i - 1] ELSE list[i]
  BY <1>1, <1>3, <1>6
<1>9. moved \in Lists
  BY <1>1, <1>7 DEF Lists, Positions
<1> QED
  BY <1>1, <1>8, <1>9 DEF Lists, Positions, moved

\* Moving an upstream from its position to the front loses none (dns.go:431).
LEMMA MoveToFrontComplete ==
    ASSUME NEW list \in Lists, NEW idx \in Positions, Complete(list)
    PROVE  Complete(MoveToFront(list, idx, list[idx]))
<1> DEFINE moved == MoveToFront(list, idx, list[idx])
<1>0. Positions = 1 .. Len(Configured) /\ Len(Configured) \in Nat \ {0}
  BY ConfiguredIsList DEF Positions
<1>1. moved = [i \in Positions |-> IF i = 1 THEN list[idx]
                                   ELSE IF i <= idx THEN list[i - 1] ELSE list[i]]
  <2>1. list[idx] \in Upstreams
    BY DEF Lists
  <2> QED
    BY <2>1, MoveToFrontEntries
<1> SUFFICES ASSUME NEW u \in Upstreams PROVE \E i \in Positions : moved[i] = u
  BY DEF Complete
<1> HIDE DEF moved
<1>2. PICK j \in Positions : list[j] = u
  BY DEF Complete
<1>3. CASE j = idx
  BY <1>0, <1>1, <1>2, <1>3
<1>4. CASE j < idx
  <2>1. j + 1 \in Positions /\ moved[j + 1] = list[j]
    BY <1>0, <1>1, <1>4
  <2> QED
    BY <1>2, <2>1
<1>5. CASE j > idx
  BY <1>0, <1>1, <1>2, <1>5
<1> QED
  BY <1>0, <1>3, <1>4, <1>5

\* Sorting the measurements loses none: an order of the positions reaches each of them.
LEMMA SortedComplete ==
    ASSUME NEW list \in Lists, NEW rtt, NEW result \in Sorted(list, rtt)
    PROVE  result \in Lists /\ (Complete(list) => Complete(result))
<1>1. PICK p \in Orders : result = [i \in Positions |-> list[p[i]]]
  BY DEF Sorted
<1>2. p \in [Positions -> Positions]
  BY DEF Orders
<1>3. p \in Injection(Positions, Positions)
  BY <1>2 DEF Orders, Injection, IsInjective
<1>4. IsFiniteSet(Positions)
  BY FS_Interval, ConfiguredIsList DEF Positions
<1>5. p \in Surjection(Positions, Positions)
  BY <1>3, <1>4, FS_Injection
<1>6. \A j \in Positions : \E i \in Positions : p[i] = j
  BY <1>5 DEF Surjection
<1>7. result \in Lists
  BY <1>1, <1>2 DEF Lists
<1> QED
  BY <1>1, <1>2, <1>6, <1>7 DEF Complete

-----------------------------------------------------------------------------
\* What is proved of every state.
UpstreamInv == TypeOK /\ NoneLostUnlessStale

\* The idle record of a goroutine has its type.
LEMMA IdleType == ASSUME TypeOK, NEW q \in Queries PROVE Idle(q) \in [Queries -> Query]
BY ConfiguredIsList DEF Idle, TypeOK, Query

\* So does that of a probe that is not running, and one whose goroutine is done.
LEMMA ProbeType ==
    /\ NoProbe \in Probe
    /\ TypeOK => \A i \in Positions, rtt \in 0 .. MaxRtt :
                     Measured(i, rtt) \in Probe /\ Measured(i, rtt).list = probe.list
<1>1. NoProbe \in Probe
  <2>1. 0 \in 0 .. MaxRtt
    BY RttAssumption
  <2> QED BY <2>1, ConfiguredIsList DEF NoProbe, Probe
<1>2. ASSUME TypeOK, NEW i \in Positions, NEW rtt \in 0 .. MaxRtt
      PROVE  Measured(i, rtt) \in Probe /\ Measured(i, rtt).list = probe.list
  <2>1. probe \in Probe
    BY <1>2 DEF TypeOK
  <2>2. [probe.rtt EXCEPT ![i] = rtt] \in [Positions -> 0 .. MaxRtt]
    BY <2>1 DEF Probe
  <2>3. probe.waiting \ {i} \in SUBSET Positions
    BY <2>1 DEF Probe
  <2> QED BY <2>1, <2>2, <2>3 DEF Measured, Probe
<1> QED BY <1>1, <1>2

\* The invariant holds after NewServer (dns.go:68-122).
LEMMA UpstreamInitInv == UpstreamInit => UpstreamInv
<1> SUFFICES ASSUME UpstreamInit PROVE UpstreamInv
  OBVIOUS
<1>1. TypeOK
  BY ConfiguredIsList, ProbeType DEF UpstreamInit, TypeOK, Query
<1>2. Complete(Configured)
  BY DEF Complete, Upstreams
<1> QED
  BY <1>1, <1>2 DEF UpstreamInit, UpstreamInv, NoneLostUnlessStale, NoProbe

\* Every step of a query and of the probe preserves it.
LEMMA UpstreamNextInv == UpstreamInv /\ [UpstreamNext]_upstreamVars => UpstreamInv'
<1> SUFFICES ASSUME UpstreamInv, [UpstreamNext]_upstreamVars PROVE UpstreamInv'
  OBVIOUS
<1>0. TypeOK
  BY DEF UpstreamInv
<1>1. ASSUME NEW q \in Queries, Accept(q) PROVE UpstreamInv'
  BY <1>1, ConfiguredIsList DEF Accept, UpstreamInv, TypeOK, NoneLostUnlessStale, Complete, Query
<1>2. ASSUME NEW q \in Queries, ExchangeFails(q) PROVE UpstreamInv'
  <2>1. query[q] \in Query /\ Len(query[q].list) = Len(Configured)
    BY <1>0, ConfiguredIsList DEF TypeOK, Query
  <2>2. query[q].idx < Len(query[q].list) => query[q].idx + 1 \in Positions
    BY <2>1, ConfiguredIsList DEF Query, Positions
  <2>3. query' \in [Queries -> Query]
    BY <1>0, <1>2, <2>1, <2>2, IdleType DEF ExchangeFails, TypeOK, Query
  <2> QED
    BY <1>2, <2>3 DEF ExchangeFails, UpstreamInv, TypeOK, NoneLostUnlessStale, Complete
<1>3. ASSUME NEW q \in Queries, ExchangeAnswers(q) PROVE UpstreamInv'
  <2>1. query' \in [Queries -> Query]
    BY <1>0, <1>3, IdleType DEF ExchangeAnswers, TypeOK, Query
  <2> QED
    BY <1>3, <2>1 DEF ExchangeAnswers, UpstreamInv, TypeOK, NoneLostUnlessStale, Complete
<1>4. ASSUME NEW q \in Queries, Reorder(q) PROVE UpstreamInv'
  <2> DEFINE idx == query[q].idx
             u == query[q].list[idx]
  <2>1. idx \in Positions /\ u \in Upstreams /\ upstream \in Lists
    BY <1>0 DEF TypeOK, Query, Lists
  <2>2. upstream' = MoveToFront(upstream, idx, u) /\ query' = Idle(q) /\ probe' = probe /\ answering' = answering
    BY <1>4 DEF Reorder
  <2>3. upstream' \in Lists
    BY <2>1, <2>2, MoveToFrontEntries
  <2>4. ~stale' => ~stale /\ upstream[idx] = u
    BY <1>4 DEF Reorder
  <2>5. stale' \in BOOLEAN
    BY <1>4 DEF Reorder
  <2>6. ~stale' => Complete(upstream)' /\ Complete(probe.list)'
    <3> HIDE DEF idx, u
    <3> SUFFICES ASSUME ~stale' PROVE Complete(upstream') /\ Complete(probe'.list)
      BY DEF Complete
    <3>1. Complete(upstream) /\ Complete(probe.list)
      BY <2>4 DEF UpstreamInv, NoneLostUnlessStale
    <3> QED
      BY <2>1, <2>2, <2>4, <3>1, MoveToFrontComplete
  <2>7. TypeOK'
    BY <1>0, <2>2, <2>3, <2>5, IdleType DEF TypeOK
  <2> QED
    BY <2>6, <2>7 DEF UpstreamInv, NoneLostUnlessStale
<1>5. CASE StartProbe
  <2>1. probe' \in Probe /\ probe'.list = upstream
    BY <1>0, <1>5, ProbeType DEF StartProbe, TypeOK, Probe, NoProbe
  <2> QED
    BY <1>5, <2>1 DEF StartProbe, UpstreamInv, TypeOK, NoneLostUnlessStale, Complete
<1>8. ASSUME NEW i \in Positions, ProbeAnswers(i) \/ ProbeFails(i) PROVE UpstreamInv'
  <2>1. PICK rtt \in 0 .. MaxRtt : probe' = Measured(i, rtt)
    BY <1>8, RttAssumption DEF ProbeAnswers, ProbeFails
  <2>2. probe' \in Probe /\ probe'.list = probe.list
    BY <1>0, <2>1, ProbeType
  <2>3. UNCHANGED <<upstream, query, answering, stale>>
    BY <1>8 DEF ProbeAnswers, ProbeFails
  <2> QED
    BY <2>2, <2>3 DEF UpstreamInv, TypeOK, NoneLostUnlessStale, Complete
<1>6. CASE FinishProbe
  <2>1. upstream' \in Lists /\ (Complete(probe.list) => Complete(upstream'))
    BY <1>0, <1>6, SortedComplete DEF FinishProbe, TypeOK, Probe
  <2>2. probe' \in Probe /\ probe'.list = Configured
    BY <1>6, ProbeType DEF FinishProbe, NoProbe
  <2>3. Complete(Configured)
    BY DEF Complete, Upstreams
  <2>4. TypeOK'
    BY <1>0, <1>6, <2>1, <2>2 DEF FinishProbe, TypeOK
  <2>5. ~stale' => Complete(upstream') /\ Complete(probe'.list)
    BY <1>6, <2>1, <2>2, <2>3 DEF FinishProbe, UpstreamInv, NoneLostUnlessStale
  <2> QED
    BY <2>4, <2>5 DEF UpstreamInv, NoneLostUnlessStale, Complete
<1>9. CASE UpstreamsChange
  BY <1>9 DEF UpstreamsChange, UpstreamInv, TypeOK, NoneLostUnlessStale, Complete
<1>7. CASE UNCHANGED upstreamVars
  BY <1>7 DEF upstreamVars, UpstreamInv, TypeOK, NoneLostUnlessStale, Complete
<1> QED
  BY <1>1, <1>2, <1>3, <1>4, <1>5, <1>6, <1>7, <1>8, <1>9 DEF UpstreamNext, Step

\* The list keeps its length and holds only configured upstreams, for any number of concurrent
\* queries and probes; so the slices of dns.go:431 stay within bounds.
THEOREM ListWellFormed == UpstreamSpec => []TypeOK
<1>1. UpstreamInv => TypeOK
  BY DEF UpstreamInv
<1> QED
  BY <1>1, UpstreamInitInv, UpstreamNextInv, PTL DEF UpstreamSpec

\* An upstream can be lost only by a query that applies its index to a list that has changed
\* (dns.go:419-433).
THEOREM OnlyStaleIndexLoses == UpstreamSpec => []NoneLostUnlessStale
<1>1. UpstreamInv => NoneLostUnlessStale
  BY DEF UpstreamInv
<1> QED
  BY <1>1, UpstreamInitInv, UpstreamNextInv, PTL DEF UpstreamSpec

-----------------------------------------------------------------------------
(* Induction on the numbers up to a bound, for a set of numbers.            *)

\* A set of numbers that is not empty has a least element.
LEMMA LeastNumber ==
    ASSUME NEW T \in SUBSET Nat, T # {}
    PROVE  \E m \in T : \A k \in T : m <= k
<1> DEFINE R == {ss \in Nat \X Nat : ss[1] < ss[2]}
<1>1. IsWellFoundedOn(R, Nat)
  BY NatLessThanWellFounded, Zenon DEF OpToRel
<1>2. PICK x \in T : \A y \in T : ~ (<<y, x>> \in R)
  <2> HIDE DEF R
  <2> QED BY <1>1, WFMin
<1>3. ASSUME NEW k \in T, k < x PROVE FALSE
  <2>1. <<k, x>> \in R BY <1>3, Zenon
  <2> QED BY <1>2, <2>1
<1>4. \A k \in T : x <= k BY <1>3
<1> QED BY <1>4

\* What holds of 0 and goes from n to n + 1 holds up to the bound.
LEMMA UpTo ==
    ASSUME NEW N \in Nat, NEW P, 0 \in P, \A n \in 0 .. N - 1 : n \in P => n + 1 \in P
    PROVE  \A n \in 0 .. N : n \in P
<1> DEFINE T == {n \in 0 .. N : n \notin P}
<1>1. SUFFICES ASSUME T # {} PROVE FALSE
  OBVIOUS
<1>2. T \in SUBSET Nat
  OBVIOUS
<1>3. PICK m \in T : \A k \in T : m <= k
  <2> HIDE DEF T
  <2> QED BY <1>1, <1>2, LeastNumber
<1>4. m - 1 \in 0 .. N - 1 /\ m - 1 \notin T
  BY <1>3
<1> QED BY <1>4

-----------------------------------------------------------------------------
(* The local names: leases.json and its order.                              *)

Lease == [addr: LeaseAddrs, hostname: LeaseNames \cup {NoName}, expiry: Expiries]

LEMMA ToLowerIs ==
    ASSUME NEW n \in Name
    PROVE  ToLower(n) \in Lower /\ ToLower(n).base = n.base /\ ToLower(n) \in Name
BY DEF Name, ToLower, Lower

LEMMA LowerIsLower ==
    ASSUME NEW l \in Lower
    PROVE  ToLower(l) = l /\ l \in Name /\ l # NoName
<1>1. l \in Name
  BY DEF Lower, Name
<1>2. ToLower(l) = l
  BY DEF Lower, ToLower
<1> QED BY <1>1, <1>2, NameAssumption

LEMMA FileFacts ==
    ASSUME NEW file \in LeaseFiles
    PROVE  /\ file \subseteq Lease
           /\ IsFiniteSet(file)
           /\ \A j, k \in file : j.addr = k.addr => j = k
<1> DEFINE Entry == [hostname: LeaseNames \cup {NoName}, expiry: Expiries]
           L(f, a) == [addr |-> a, hostname |-> f[a].hostname, expiry |-> f[a].expiry]
<1>1. PICK A \in SUBSET LeaseAddrs : \E f \in [A -> Entry] : file = {L(f, a) : a \in A}
  <2>1. PICK f \in UNION {[A -> Entry] : A \in SUBSET LeaseAddrs} : file = {L(f, a) : a \in DOMAIN f}
    BY DEF LeaseFiles
  <2>2. PICK A \in SUBSET LeaseAddrs : f \in [A -> Entry]
    BY <2>1
  <2>3. DOMAIN f = A
    BY <2>2
  <2> QED BY <2>1, <2>2, <2>3
<1>0. PICK f \in [A -> Entry] : file = {L(f, a) : a \in A}
  BY <1>1
<1>2. \A a \in A : L(f, a).addr = a /\ L(f, a) \in Lease
  BY DEF Lease
<1>3. IsFiniteSet(A)
  BY AddrAssumption, FS_Subset
<1> DEFINE g == [a \in A |-> L(f, a)]
<1>4. g \in Surjection(A, file)
  BY <1>0 DEF Surjection
<1>5. IsFiniteSet(file)
  <2> HIDE DEF g
  <2> QED BY <1>3, <1>4, FS_Surjection
<1> HIDE DEF L
<1> QED BY <1>0, <1>2, <1>5

\* The sorted leases hold each lease once, and no two of one address.
LEMMA OrderFacts ==
    ASSUME NEW file \in LeaseFiles, NEW order \in SortedLeases(file)
    PROVE  /\ Len(order) \in Nat
           /\ order \in [1 .. Len(order) -> file]
           /\ \A i, j \in 1 .. Len(order) : i # j => order[i].addr # order[j].addr
           /\ \A i, j \in 1 .. Len(order) : i < j => order[j].expiry <= order[i].expiry
           /\ \A k \in file : \E i \in 1 .. Len(order) : order[i] = k
<1> DEFINE N == Cardinality(file)
<1>1. IsFiniteSet(file) /\ N \in Nat /\ \A j, k \in file : j.addr = k.addr => j = k
  BY FileFacts, FS_CardinalityType
<1>2. /\ order \in [1 .. N -> file]
      /\ \A i, j \in 1 .. N : i # j => order[i] # order[j]
      /\ \A i, j \in 1 .. Len(order) : i < j => order[j].expiry <= order[i].expiry
  BY DEF SortedLeases, SetToSeqs
<1>3. order \in Injection(1 .. N, file)
  BY <1>2 DEF Injection, IsInjective
<1>4. Cardinality(1 .. N) = N
  BY <1>1, FS_Interval
<1>5. order \in Surjection(1 .. N, file)
  <2> HIDE DEF N
  <2> QED BY <1>1, <1>3, <1>4, FS_Injection DEF N
<1> HIDE DEF N
<1>6. Len(order) = N
  BY <1>1, <1>2
<1> QED BY <1>1, <1>2, <1>5, <1>6 DEF Surjection

-----------------------------------------------------------------------------
(* The loop of SetLeases.                                                   *)

\* A lease that the loop may enter for a name.
For(k, l) == k.hostname # NoName /\ ToLower(k.hostname) = l /\ ~Expired(k, now)

\* What holds of the tables after i of the sorted leases; handlers is the mux before.
Entered(order, handlers, i, t) ==
    /\ t \in Tables
    /\ LeadBack(t)
    /\ Handled(t)
    /\ \A a \in LeaseAddrs : t.byIP[a] # NoName => \E j \in 1 .. i : order[j].addr = a
    /\ \A l \in Lower : handlers[l] # NoName => t.mux[l] # NoName
    /\ t.byName[ToLower(hostname)] = RouterAddr
    /\ \A l \in Lower \ {ToLower(hostname)} :
          \/ t.byName[l] = NoAddr /\ \A j \in 1 .. i : ~For(order[j], l)
          \/ \E k \in 1 .. i : /\ For(order[k], l) /\ t.byName[l] = order[k].addr
                               /\ \A j \in 1 .. i : For(order[j], l) => order[j].expiry <= order[k].expiry

LEMMA RouterFacts ==
    ASSUME hostname \in Hostnames
    PROVE  /\ hostname \in Name /\ ToLower(hostname) \in Lower /\ hostname # NoName
           /\ RouterAddr \in Addrs /\ RouterAddr # NoAddr /\ RouterAddr \notin LeaseAddrs
           /\ LeaseAddrs \subseteq Addrs /\ NoAddr \notin LeaseAddrs
BY NameAssumption, AddrAssumption, ToLowerIs DEF Addrs

\* initHostsLocked enters the router alone.
LEMMA InitEntered ==
    ASSUME hostname \in Hostnames, NEW handlers \in [Lower -> Name \cup {NoName}],
           \A l \in Lower : handlers[l] \in {NoName, Spelling(l)},
           NEW order
    PROVE  Entered(order, handlers, 0, initHostsLocked(handlers))
<1> DEFINE t == initHostsLocked(handlers)
           r == ToLower(hostname)
<1>0. r \in Lower
  BY RouterFacts
<1>1. /\ t.byName = [l \in Lower |-> IF l = r THEN RouterAddr ELSE NoAddr]
      /\ t.byIP = [a \in Addrs |-> IF a = RouterAddr THEN hostname ELSE NoName]
      /\ t.mux = [handlers EXCEPT ![r] = hostname]
      /\ t = [byName |-> t.byName, byIP |-> t.byIP, mux |-> t.mux]
  BY DEF initHostsLocked
<1> HIDE DEF t
<1>2. t.byName \in [Lower -> LeaseAddrs \cup {RouterAddr, NoAddr}]
  BY <1>1
<1>3. t.byIP \in [Addrs -> Name \cup {NoName}] /\ t.mux \in [Lower -> Name \cup {NoName}]
  BY <1>0, <1>1, RouterFacts
<1>4. t \in Tables
  BY <1>1, <1>2, <1>3 DEF Tables
<1>5. LeadBack(t)
  BY <1>0, <1>1, RouterFacts DEF LeadBack
<1>6. Handled(t) /\ \A l \in Lower : handlers[l] # NoName => t.mux[l] # NoName
  BY <1>0, <1>1, RouterFacts DEF Handled, Spelling
<1>7. \A a \in LeaseAddrs : t.byIP[a] = NoName
  BY <1>1, RouterFacts
<1>8. t.byName[r] = RouterAddr /\ \A l \in Lower \ {r} : t.byName[l] = NoAddr
  BY <1>0, <1>1
<1>9. \A j \in 1 .. 0 : FALSE
  OBVIOUS
<1> QED BY <1>4, <1>5, <1>6, <1>7, <1>8, <1>9 DEF Entered, t

\* One round of the loop: the first lease that can be entered for a name is entered, and stays.
LEMMA EnterKeeps ==
    ASSUME hostname \in Hostnames, NEW file \in LeaseFiles, NEW order \in SortedLeases(file),
           NEW handlers, NEW i \in 0 .. Len(order) - 1, NEW t, Entered(order, handlers, i, t)
    PROVE  Entered(order, handlers, i + 1, Enter(t, order[i + 1]))
<1> DEFINE k == order[i + 1]
           h == ToLower(k.hostname)
           r == ToLower(hostname)
<1>0. Len(order) \in Nat /\ i \in Nat /\ i + 1 \in 1 .. Len(order)
  BY OrderFacts
<1>1. /\ \A j \in 1 .. i : j \in 1 .. Len(order) /\ j # i + 1 /\ j < i + 1 /\ j \in 1 .. i + 1
      /\ \A j \in 1 .. i + 1 : j \in 1 .. i \/ j = i + 1
      /\ i + 1 \in 1 .. i + 1
  BY <1>0
<1>2. k \in Lease /\ \A j \in 1 .. i : order[j] \in Lease /\ order[j].addr # k.addr /\ k.expiry <= order[j].expiry
  <2>1. /\ order \in [1 .. Len(order) -> file] /\ file \subseteq Lease
        /\ \A m, j \in 1 .. Len(order) : m # j => order[m].addr # order[j].addr
        /\ \A m, j \in 1 .. Len(order) : m < j => order[j].expiry <= order[m].expiry
    BY OrderFacts, FileFacts
  <2> QED BY <1>0, <1>1, <2>1
<1>3. k.addr \in LeaseAddrs /\ k.hostname \in Name \cup {NoName} /\ k.expiry \in Nat
  BY <1>2, NameAssumption, TimeAssumption DEF Lease
<1>4. k.hostname # NoName => k.hostname \in Name /\ h \in Lower
  BY <1>3, ToLowerIs
<1>5. CASE Expired(k, now) \/ k.hostname = NoName \/ t.byName[h] # NoAddr
  <2>1. Enter(t, k) = t
    BY <1>5 DEF Enter
  <2>2. \A a \in LeaseAddrs : t.byIP[a] # NoName => \E j \in 1 .. i + 1 : order[j].addr = a
    BY <1>1 DEF Entered
  <2>3. ASSUME NEW l \in Lower \ {r}
        PROVE  \/ t.byName[l] = NoAddr /\ \A j \in 1 .. i + 1 : ~For(order[j], l)
               \/ \E m \in 1 .. i + 1 : /\ For(order[m], l) /\ t.byName[l] = order[m].addr
                                        /\ \A j \in 1 .. i + 1 : For(order[j], l) => order[j].expiry <= order[m].expiry
    <3>1. CASE t.byName[l] = NoAddr /\ \A j \in 1 .. i : ~For(order[j], l)
      <4>1. ~For(k, l)
        BY <1>5, <3>1 DEF For
      <4> QED BY <1>1, <3>1, <4>1
    <3>2. ASSUME NEW m \in 1 .. i, For(order[m], l), t.byName[l] = order[m].addr,
                 \A j \in 1 .. i : For(order[j], l) => order[j].expiry <= order[m].expiry
          PROVE  \E n \in 1 .. i + 1 : /\ For(order[n], l) /\ t.byName[l] = order[n].addr
                                       /\ \A j \in 1 .. i + 1 : For(order[j], l) => order[j].expiry <= order[n].expiry
      <4>1. k.expiry <= order[m].expiry /\ m \in 1 .. i + 1
        BY <1>1, <1>2, <3>2
      <4> QED BY <1>1, <3>2, <4>1
    <3> QED BY <3>1, <3>2 DEF Entered
  <2> HIDE DEF k, h
  <2>4. Entered(order, handlers, i + 1, t)
    BY <2>2, <2>3 DEF Entered
  <2> QED BY <2>1, <2>4 DEF k
<1>6. CASE ~Expired(k, now) /\ k.hostname # NoName /\ t.byName[h] = NoAddr
  <2> DEFINE u == Enter(t, k)
  <2>1. /\ u.byName = [t.byName EXCEPT ![h] = k.addr]
        /\ u.byIP = [t.byIP EXCEPT ![k.addr] = k.hostname]
        /\ u.mux = [t.mux EXCEPT ![h] = h]
        /\ u = [byName |-> u.byName, byIP |-> u.byIP, mux |-> u.mux]
    BY <1>6 DEF Enter
  <2>2. /\ t.byName \in [Lower -> LeaseAddrs \cup {RouterAddr, NoAddr}]
        /\ t.byIP \in [Addrs -> Name \cup {NoName}]
        /\ t.mux \in [Lower -> Name \cup {NoName}]
        /\ t.byName[r] = RouterAddr
    BY DEF Entered, Tables
  <2>3. h \in Lower /\ h # r /\ k.addr \in Addrs /\ k.addr # NoAddr /\ k.hostname \in Name /\ h \in Name /\ h # NoName
    BY <1>3, <1>4, <1>6, <2>2, RouterFacts, LowerIsLower
  <2> HIDE DEF u
  <2>4. /\ \A l \in Lower : u.byName[l] = IF l = h THEN k.addr ELSE t.byName[l]
        /\ \A a \in Addrs : u.byIP[a] = IF a = k.addr THEN k.hostname ELSE t.byIP[a]
        /\ \A l \in Lower : u.mux[l] = IF l = h THEN h ELSE t.mux[l]
    <3> HIDE DEF h, k
    <3> QED BY <2>1, <2>2
  <2>5. u \in Tables
    <3>1. u.byName \in [Lower -> LeaseAddrs \cup {RouterAddr, NoAddr}]
      BY <1>3, <2>1, <2>2
    <3>2. u.byIP \in [Addrs -> Name \cup {NoName}]
      BY <2>1, <2>2, <2>3
    <3>3. u.mux \in [Lower -> Name \cup {NoName}]
      BY <2>1, <2>2, <2>3
    <3> QED BY <2>1, <3>1, <3>2, <3>3 DEF Tables
  <2>6. t.byIP[k.addr] = NoName
    BY <1>2, <1>3 DEF Entered
  <2>7. LeadBack(u)
    <3>1. ASSUME NEW a \in Addrs, u.byIP[a] # NoName PROVE u.byName[ToLower(u.byIP[a])] = a
      <4>1. CASE a = k.addr
        BY <2>3, <2>4, <4>1
      <4>2. CASE a # k.addr
        <5>1. u.byIP[a] = t.byIP[a] /\ t.byIP[a] \in Name /\ t.byName[ToLower(t.byIP[a])] = a
          BY <2>2, <2>4, <3>1, <4>2 DEF Entered, LeadBack
        <5>2. a # NoAddr /\ ToLower(t.byIP[a]) \in Lower
          BY <5>1, AddrAssumption, ToLowerIs
        <5>3. ToLower(t.byIP[a]) # h
          BY <1>6, <5>1, <5>2
        <5> QED BY <2>4, <5>1, <5>2, <5>3
      <4> QED BY <4>1, <4>2
    <3>2. ASSUME NEW l \in Lower, u.byName[l] # NoAddr
          PROVE  u.byIP[u.byName[l]] # NoName /\ ToLower(u.byIP[u.byName[l]]) = l
      <4>1. CASE l = h
        BY <1>6, <2>3, <2>4, <4>1
      <4>2. CASE l # h
        <5>1. u.byName[l] = t.byName[l] /\ t.byIP[t.byName[l]] # NoName /\ ToLower(t.byIP[t.byName[l]]) = l
          BY <2>4, <3>2, <4>2 DEF Entered, LeadBack
        <5>2. t.byName[l] \in Addrs /\ t.byName[l] # k.addr
          BY <2>2, <2>6, <3>2, <5>1, RouterFacts
        <5> QED BY <2>4, <5>1, <5>2
      <4> QED BY <4>1, <4>2
    <3> QED BY <3>1, <3>2 DEF LeadBack
  <2>8. Handled(u) /\ \A l \in Lower : handlers[l] # NoName => u.mux[l] # NoName
    <3> HIDE DEF k, h
    <3> QED BY <2>3, <2>4 DEF Entered, Handled, Spelling
  <2>9. \A a \in LeaseAddrs : u.byIP[a] # NoName => \E j \in 1 .. i + 1 : order[j].addr = a
    <3> TAKE a \in LeaseAddrs
    <3>1. CASE a = k.addr
      BY <1>1, <3>1
    <3>2. CASE a # k.addr
      <4>1. u.byIP[a] = t.byIP[a]
        BY <2>4, <3>2, RouterFacts
      <4> QED BY <1>1, <4>1 DEF Entered
    <3> QED BY <3>1, <3>2
  <2>10. u.byName[r] = RouterAddr
    BY <2>2, <2>3, <2>4, RouterFacts
  <2>11. ASSUME NEW l \in Lower \ {r}
         PROVE  \/ u.byName[l] = NoAddr /\ \A j \in 1 .. i + 1 : ~For(order[j], l)
                \/ \E m \in 1 .. i + 1 : /\ For(order[m], l) /\ u.byName[l] = order[m].addr
                                         /\ \A j \in 1 .. i + 1 : For(order[j], l) => order[j].expiry <= order[m].expiry
    <3>1. CASE l = h
      <4>1. For(k, l) /\ u.byName[l] = k.addr
        BY <1>6, <2>4, <3>1 DEF For
      <4>2. t.byName[l] = NoAddr /\ \A j \in 1 .. i : order[j].addr # NoAddr
        BY <1>2, <1>6, <3>1, RouterFacts DEF Lease
      <4>3. \A j \in 1 .. i : ~For(order[j], l)
        BY <4>2 DEF Entered
      <4>4. k.expiry <= k.expiry
        BY <1>3
      <4> QED BY <1>1, <4>1, <4>3, <4>4
    <3>2. CASE l # h
      <4>1. ~For(k, l) /\ u.byName[l] = t.byName[l]
        BY <2>4, <3>2 DEF For
      <4> QED BY <1>1, <4>1 DEF Entered
    <3> QED BY <3>1, <3>2
  <2>12. Entered(order, handlers, i + 1, u)
    <3> HIDE DEF k, h
    <3> QED BY <2>5, <2>7, <2>8, <2>9, <2>10, <2>11 DEF Entered
  <2> QED BY <2>12 DEF u, k
<1> QED BY <1>5, <1>6

\* g holds the tables after each of the first n rounds of the loop.
Rounds(g, start, order, n) ==
    g = [i \in 0 .. n |-> IF i = 0 THEN start ELSE Enter(g[i - 1], order[i])]

\* There are such tables: those of n + 1 rounds extend those of n.
LEMMA LoopExists ==
    ASSUME NEW N \in Nat, NEW start, NEW order
    PROVE  \E g : Rounds(g, start, order, N)
<1> DEFINE P == {n \in 0 .. N : \E g : Rounds(g, start, order, n)}
<1>1. 0 \in P
  <2> DEFINE g == [i \in 0 .. 0 |-> start]
  <2>1. Rounds(g, start, order, 0)
    BY DEF Rounds
  <2> HIDE DEF g
  <2> QED BY <2>1
<1>2. ASSUME NEW n \in 0 .. N - 1, n \in P PROVE n + 1 \in P
  <2>1. PICK g : Rounds(g, start, order, n)
    BY <1>2
  <2> DEFINE h == [i \in 0 .. n + 1 |-> IF i = n + 1 THEN Enter(g[n], order[n + 1]) ELSE g[i]]
  <2>2. \A i \in 0 .. n : g[i] = IF i = 0 THEN start ELSE Enter(g[i - 1], order[i])
    BY <2>1 DEF Rounds
  <2>3. n + 1 \in 0 .. N /\ n \in Nat
    BY <1>2
  <2>4. ASSUME NEW i \in 0 .. n + 1
        PROVE  h[i] = IF i = 0 THEN start ELSE Enter(h[i - 1], order[i])
    <3>1. CASE i = n + 1
      <4>1. i # 0 /\ i - 1 = n /\ n \in 0 .. n + 1 /\ n # n + 1
        BY <2>3, <3>1
      <4> QED BY <3>1, <4>1
    <3>2. CASE i = 0
      BY <2>2, <2>3, <3>2
    <3>3. CASE i # n + 1 /\ i # 0
      <4>1. i \in 0 .. n /\ i - 1 \in 0 .. n + 1 /\ i - 1 # n + 1
        BY <2>3, <3>3
      <4> QED BY <2>2, <3>3, <4>1
    <3> QED BY <3>1, <3>2, <3>3
  <2>5. Rounds(h, start, order, n + 1)
    BY <2>4 DEF Rounds
  <2> HIDE DEF h
  <2> QED BY <2>3, <2>5
<1>3. N \in P
  <2>1. N \in 0 .. N
    OBVIOUS
  <2> HIDE DEF P
  <2> QED BY <1>1, <1>2, <2>1, UpTo
<1> QED BY <1>3

\* What SetLeases installs.
LEMMA EnterAllEntered ==
    ASSUME NEW file \in LeaseFiles, NEW order \in SortedLeases(file), TablesOK, Handled(Installed)
    PROVE  Entered(order, mux, Len(order), EnterAll(order))
<1> DEFINE N == Len(order)
           start == initHostsLocked(mux)
           f == CHOOSE g : Rounds(g, start, order, N)
           P == {i \in 0 .. N : Entered(order, mux, i, f[i])}
<1>0. N \in Nat
  BY OrderFacts
<1>1. Rounds(f, start, order, N)
  <2> HIDE DEF N, start
  <2>1. \E g : Rounds(g, start, order, N)
    BY <1>0, LoopExists
  <2> QED BY <2>1
<1>2. EnterAll(order) = f[N]
  BY DEF EnterAll, Rounds
<1> HIDE DEF f
<1>3. 0 \in P
  <2>1. f[0] = start
    BY <1>0, <1>1 DEF Rounds
  <2>2. /\ mux \in [Lower -> Name \cup {NoName}]
        /\ \A l \in Lower : mux[l] \in {NoName, Spelling(l)}
    BY DEF TablesOK, Tables, Installed, Handled
  <2>3. Entered(order, mux, 0, start)
    BY <2>2, InitEntered DEF TablesOK
  <2> HIDE DEF start
  <2> QED BY <1>0, <2>1, <2>3
<1>4. ASSUME NEW i \in 0 .. N - 1, i \in P PROVE i + 1 \in P
  <2>1. i + 1 \in 0 .. N /\ i + 1 # 0 /\ (i + 1) - 1 = i
    BY <1>0
  <2>2. f[i + 1] = Enter(f[i], order[i + 1])
    BY <1>1, <2>1 DEF Rounds
  <2>3. Entered(order, mux, i, f[i])
    BY <1>4
  <2>4. Entered(order, mux, i + 1, Enter(f[i], order[i + 1]))
    BY <2>3, EnterKeeps DEF TablesOK
  <2> QED BY <2>1, <2>2, <2>4
<1>5. N \in P
  <2>1. N \in 0 .. N
    BY <1>0
  <2> HIDE DEF P, N
  <2> QED BY <1>0, <1>3, <1>4, <2>1, UpTo
<1> QED BY <1>2, <1>5

-----------------------------------------------------------------------------
(* The invariant.                                                           *)

LEMMA NoLeases == {} \in LeaseFiles
<1> DEFINE Entry == [hostname: LeaseNames \cup {NoName}, expiry: Expiries]
           L(f, a) == [addr |-> a, hostname |-> f[a].hostname, expiry |-> f[a].expiry]
           f == [a \in {} |-> 0]
<1>1. f \in [{} -> Entry] /\ DOMAIN f = {}
  OBVIOUS
<1>2. f \in UNION {[A -> Entry] : A \in SUBSET LeaseAddrs}
  BY <1>1
<1>3. {} = {L(f, a) : a \in DOMAIN f}
  BY <1>1
<1> HIDE DEF f
<1> QED BY <1>2, <1>3 DEF LeaseFiles

LEMMA HostsInit == Init => HostsInv
<1> SUFFICES ASSUME Init PROVE HostsInv
  OBVIOUS
<1> DEFINE none == [l \in Lower |-> NoName]
           t == initHostsLocked(none)
<1>0. hostname \in Hostnames
  BY DEF Init
<1>1. Entered(<<>>, none, 0, t)
  BY <1>0, InitEntered
<1>2. Installed = t
  BY DEF Init, Installed, initHostsLocked
<1>3. TablesOK
  <2>1. Installed \in Tables
    BY <1>1, <1>2 DEF Entered
  <2>2. hostname \in Hostnames /\ now \in Nat /\ readAt \in Nat /\ leases \in LeaseFiles
    BY NoLeases DEF Init
  <2>3. subnames \in [Lower -> [Subs -> Addrs \cup {NoAddr}]]
    BY DEF Init
  <2> QED BY <2>1, <2>2, <2>3 DEF TablesOK
<1>4. LeadBack(Installed) /\ Handled(Installed)
  BY <1>1, <1>2 DEF Entered
<1>5. LabelsHandled
  BY DEF Init, LabelsHandled
<1>6. Newest
  <2>1. \A l \in Lower : Candidates(l) = {}
    BY DEF Init, Candidates
  <2>2. hostsByName = [l \in Lower |-> IF l = ToLower(hostname) THEN RouterAddr ELSE NoAddr]
    BY DEF Init, initHostsLocked
  <2> QED BY <1>0, <2>1, <2>2, RouterFacts DEF Newest
<1> QED BY <1>3, <1>4, <1>5, <1>6 DEF HostsInv

LEMMA SetLeasesKeeps ==
    ASSUME HostsInv, NEW file \in LeaseFiles, SetLeases(file)
    PROVE  HostsInv'
<1> USE DEF HostsInv
<1>1. PICK order \in SortedLeases(file) : Install(EnterAll(order))
  BY DEF SetLeases
<1> DEFINE t == EnterAll(order)
<1>2. Entered(order, mux, Len(order), t)
  BY EnterAllEntered
<1> HIDE DEF t
<1>3. hostsByName' = t.byName /\ hostsByIP' = t.byIP /\ mux' = t.mux
  BY <1>1 DEF Install, t
<1>4. t \in Tables /\ Installed' = t
  <2>1. t \in Tables
    BY <1>2 DEF Entered
  <2>2. t = [byName |-> t.byName, byIP |-> t.byIP, mux |-> t.mux]
    BY <2>1 DEF Tables
  <2>3. Installed' = [byName |-> t.byName, byIP |-> t.byIP, mux |-> t.mux]
    BY <1>3 DEF Installed
  <2> QED BY <2>1, <2>2, <2>3
<1>5. leases' = file /\ readAt' = now /\ now' = now /\ subnames' = subnames /\ hostname' = hostname
  BY DEF SetLeases
<1>6. TablesOK'
  <2>1. Installed' \in Tables
    BY <1>4
  <2> QED BY <1>5, <2>1 DEF TablesOK
<1>7. LeadBack(Installed)' /\ Handled(Installed)'
  <2>1. LeadBack(Installed') /\ Handled(Installed')
    BY <1>2, <1>4 DEF Entered
  <2> QED BY <1>5, <2>1 DEF LeadBack, Handled, Spelling
<1>8. LabelsHandled'
  BY <1>2, <1>3, <1>5 DEF LabelsHandled, Entered
<1>9. Newest'
  <2>1. hostsByName'[ToLower(hostname)] = RouterAddr
    BY <1>2, <1>3 DEF Entered
  <2> SUFFICES ASSUME NEW l \in Lower \ {ToLower(hostname)}
               PROVE  IF Candidates(l)' = {} THEN hostsByName'[l] = NoAddr
                      ELSE \E k \in Candidates(l)' : /\ hostsByName'[l] = k.addr
                                                     /\ \A j \in Candidates(l)' : j.expiry <= k.expiry
    BY <1>5, <2>1 DEF Newest
  <2>2. Candidates(l)' = {k \in file : For(k, l)}
    BY <1>5 DEF Candidates, For, Expired
  <2>3. /\ order \in [1 .. Len(order) -> file]
        /\ \A k \in file : \E i \in 1 .. Len(order) : order[i] = k
    BY OrderFacts
  <2>4. CASE t.byName[l] = NoAddr /\ \A j \in 1 .. Len(order) : ~For(order[j], l)
    BY <1>3, <2>2, <2>3, <2>4
  <2>5. ASSUME NEW m \in 1 .. Len(order), For(order[m], l), t.byName[l] = order[m].addr,
               \A j \in 1 .. Len(order) : For(order[j], l) => order[j].expiry <= order[m].expiry
        PROVE  /\ order[m] \in Candidates(l)' /\ hostsByName'[l] = order[m].addr
               /\ \A j \in Candidates(l)' : j.expiry <= order[m].expiry
    BY <1>3, <2>2, <2>3, <2>5
  <2>6. \/ t.byName[l] = NoAddr /\ \A j \in 1 .. Len(order) : ~For(order[j], l)
        \/ \E k \in 1 .. Len(order) :
              /\ For(order[k], l) /\ t.byName[l] = order[k].addr
              /\ \A j \in 1 .. Len(order) : For(order[j], l) => order[j].expiry <= order[k].expiry
    BY <1>2 DEF Entered
  <2> QED BY <2>4, <2>5, <2>6
<1> QED BY <1>6, <1>7, <1>8, <1>9

LEMMA DyndnsKeeps ==
    ASSUME HostsInv, NEW remote \in Addrs, NEW host \in Subs, NEW ip \in Addrs,
           DyndnsHandler(remote, host, ip)
    PROVE  HostsInv'
<1> DEFINE l == ToLower(hostsByIP[remote])
<1>1. hostsByIP[remote] \in Name /\ l \in Lower
  <2>1. hostsByIP[remote] \in Name
    BY DEF HostsInv, TablesOK, Tables, Installed, DyndnsHandler
  <2> QED BY <2>1, ToLowerIs
<1>2. hostsByName[l] = remote /\ remote # NoAddr
  BY AddrAssumption DEF HostsInv, LeadBack, Installed, DyndnsHandler
<1>3. mux[l] # NoName
  BY <1>1, <1>2 DEF HostsInv, Handled, Installed
<1>4. subnames' = [subnames EXCEPT ![l][host] = ip] /\ UNCHANGED <<hostname, now, leases, readAt, hostsByName, hostsByIP, mux>>
  BY DEF DyndnsHandler
<1> HIDE DEF l
<1>5. subnames' \in [Lower -> [Subs -> Addrs \cup {NoAddr}]]
  BY <1>1, <1>4 DEF HostsInv, TablesOK
<1>6. LabelsHandled'
  <2> SUFFICES ASSUME NEW m \in Lower, NEW s \in Subs, subnames'[m][s] # NoAddr PROVE mux[m] # NoName
    BY <1>4 DEF LabelsHandled
  <2>1. CASE m = l
    BY <1>3, <2>1
  <2>2. CASE m # l
    BY <1>1, <1>4, <2>2 DEF HostsInv, TablesOK, LabelsHandled
  <2> QED BY <2>1, <2>2
<1>7. Installed' = Installed
  BY <1>4 DEF Installed
<1>8. TablesOK'
  BY <1>4, <1>5, <1>7 DEF HostsInv, TablesOK
<1>9. Newest'
  BY <1>4 DEF HostsInv, Newest, Candidates
<1> QED BY <1>4, <1>6, <1>7, <1>8, <1>9 DEF HostsInv, LeadBack, Handled, Spelling

LEMMA HostsNext == HostsInv /\ [Next]_vars => HostsInv'
<1> SUFFICES ASSUME HostsInv, [Next]_vars PROVE HostsInv'
  OBVIOUS
<1>1. CASE Tick
  BY <1>1 DEF Tick, HostsInv, TablesOK, Installed, LeadBack, Handled, Spelling, LabelsHandled, Newest, Candidates
<1>2. CASE UNCHANGED vars
  BY <1>2 DEF vars, HostsInv, TablesOK, Installed, LeadBack, Handled, Spelling, LabelsHandled, Newest, Candidates
<1> QED BY <1>1, <1>2, SetLeasesKeeps, DyndnsKeeps DEF Next

\* The tables of forward and reverse names are inverse to each other, every name in them and every
\* registered label has its handler, and each name is that of its newest lease, whatever sequence of
\* leases and registrations (dns.go:124-136, 210-279).
THEOREM HostsInductive == Spec => []HostsInv
BY HostsInit, HostsNext, PTL DEF Spec

-----------------------------------------------------------------------------
(* What queries are answered.  subnameHandler compares the lower-case query *)
(* with the router's name as it is spelt; any other handler has its name in *)
(* lower case.                                                              *)

\* The handler of a name, and what it answers for the host itself.
LEMMA HandlerAnswers ==
    ASSUME HostsInv, NEW q \in Question, mux[ToLower(q.name)] # NoName
    PROVE  /\ ToLower(q.name) \in Lower
           /\ mux[ToLower(q.name)] = Spelling(ToLower(q.name))
           /\ q.sub = NoSub => Answer(q) = IF Spelling(ToLower(q.name)) = ToLower(q.name)
                                           THEN HostAnswer(hostsByName[ToLower(q.name)], q.type)
                                           ELSE NXDOMAIN
<1>1. q.name \in Name /\ ToLower(q.name) \in Lower
  BY ToLowerIs DEF Question
<1>2. mux[ToLower(q.name)] = Spelling(ToLower(q.name))
  BY <1>1 DEF HostsInv, Handled, Installed
<1>3. ToLower(ToLower(q.name)) = ToLower(q.name)
  BY <1>1, LowerIsLower
<1> QED BY <1>1, <1>2, <1>3 DEF Answer, resolveSubname

\* A name is spelt in lower case on its handler, unless it is that of a router with capitals.
LEMMA SpellingIs ==
    ASSUME hostname \in Hostnames, NEW l \in Lower
    PROVE  /\ Spelling(l) \in Name /\ ToLower(Spelling(l)) = l
           /\ (l = ToLower(hostname) => hostname.lower) => Spelling(l) = l
<1>1. hostname \in Name
  BY RouterFacts
<1>2. hostname.lower => ToLower(hostname) = hostname
  BY <1>1 DEF Name, ToLower
<1> QED BY <1>1, <1>2, LowerIsLower DEF Spelling

\* The name that dnsd gives for an address resolves to it, and the address that it gives for a name
\* leads back to that name, after any sequence of leases and registrations and however the router
\* and the leases spell their names (dns.go:124-136, 261-278); of a router with capitals in its name
\* only the second is claimed for its own address (dns.go:133, 449).
THEOREM HostsAgree == Spec => []ForwardReverseAgree
<1>1. HostsInv => ForwardReverseAgree
  <2> SUFFICES ASSUME HostsInv PROVE ForwardReverseAgree
    OBVIOUS
  <2>0. hostname \in Hostnames
    BY DEF HostsInv, TablesOK
  <2>1. ASSUME NEW a \in Private, ReverseAnswer(a).kind = "name", a = RouterAddr => hostname.lower,
               NEW d \in BOOLEAN
        PROVE  Answer([name |-> ReverseAnswer(a).name, sub |-> NoSub, domain |-> d, type |-> "A"]) = Address(a)
    <3> DEFINE n == hostsByIP[a]
               q == [name |-> n, sub |-> NoSub, domain |-> d, type |-> "A"]
    <3>1. a \in Addrs /\ a # Loopback /\ a # NoAddr
      BY AddrAssumption
    <3>2. n # NoName /\ ReverseAnswer(a).name = n
      BY <2>1, <3>1 DEF ReverseAnswer, Forwarded, NXDOMAIN
    <3>3. n \in Name /\ hostsByName[ToLower(n)] = a
      BY <3>1, <3>2 DEF HostsInv, TablesOK, Tables, Installed, LeadBack
    <3>4. q \in Question /\ q.name = n /\ q.sub = NoSub /\ q.type = "A"
      BY <3>3 DEF Question
    <3>5. mux[ToLower(n)] # NoName
      BY <3>1, <3>3, ToLowerIs DEF HostsInv, Handled, Installed
    <3>6. ToLower(n) = ToLower(hostname) => a = RouterAddr
      BY <3>3 DEF HostsInv, Newest
    <3> HIDE DEF n, q
    <3>7. Spelling(ToLower(n)) = ToLower(n)
      BY <2>0, <2>1, <3>3, <3>6, SpellingIs, ToLowerIs
    <3>8. Answer(q) = HostAnswer(hostsByName[ToLower(n)], "A")
      BY <3>4, <3>5, <3>7, HandlerAnswers
    <3> QED BY <3>1, <3>2, <3>3, <3>8 DEF HostAnswer, q
  <2>2. ASSUME NEW q \in Question, NEW a \in Private, q.sub = NoSub, Answer(q) = Address(a)
        PROVE  ReverseAnswer(a).kind = "name" /\ ToLower(ReverseAnswer(a).name) = ToLower(q.name)
    <3> DEFINE l == ToLower(q.name)
    <3>1. a \in Addrs /\ a # Loopback /\ a # NoAddr
      BY AddrAssumption
    <3>2. l \in Lower
      BY ToLowerIs DEF Question
    <3>3. hostsByName[l] = a
      <4>1. ASSUME HostAnswer(hostsByName[l], q.type) = Address(a) PROVE hostsByName[l] = a
        BY <4>1 DEF HostAnswer, Address, NXDOMAIN, Empty
      <4>2. CASE mux[l] # NoName
        <5>1. NXDOMAIN # Address(a)
          BY DEF NXDOMAIN, Address
        <5> QED BY <2>2, <4>1, <4>2, <5>1, HandlerAnswers
      <4>3. CASE mux[l] = NoName
        <5>1. Forwarded # Address(a) /\ Address(Loopback) # Address(a)
          BY <3>1 DEF Forwarded, Address
        <5> QED BY <2>2, <4>1, <4>3, <5>1 DEF Answer, resolve
      <4> QED BY <4>2, <4>3
    <3>4. hostsByIP[a] # NoName /\ ToLower(hostsByIP[a]) = l
      BY <3>1, <3>2, <3>3 DEF HostsInv, LeadBack, Installed
    <3> QED BY <3>1, <3>4 DEF ReverseAnswer
  <2> QED BY <2>1, <2>2 DEF ForwardReverseAgree
<1> QED BY <1>1, HostsInductive, PTL

\* A name resolves to the newest of the leases for it that had not expired, or to NXDOMAIN, and the
\* router's own to the router if it is spelt in lower case (dns.go:256-257, 449-455).
THEOREM HostsNewest == Spec => []NewestEntryAnswers
<1>1. HostsInv => NewestEntryAnswers
  <2> SUFFICES ASSUME HostsInv, NEW q \in Question, q.sub = NoSub, q.type = "A", mux[ToLower(q.name)] # NoName
               PROVE  LET best == {k \in Candidates(ToLower(q.name)) :
                                     \A j \in Candidates(ToLower(q.name)) : j.expiry <= k.expiry}
                      IN  IF ToLower(q.name) = ToLower(hostname)
                          THEN hostname.lower => Answer(q) = Address(RouterAddr)
                          ELSE IF best = {} THEN Answer(q) = NXDOMAIN
                          ELSE \E k \in best : Answer(q) = Address(k.addr)
    BY DEF NewestEntryAnswers
  <2> DEFINE l == ToLower(q.name)
             best == {k \in Candidates(l) : \A j \in Candidates(l) : j.expiry <= k.expiry}
  <2>0. hostname \in Hostnames
    BY DEF HostsInv, TablesOK
  <2>1. l \in Lower /\ ((l = ToLower(hostname) => hostname.lower) => Answer(q) = HostAnswer(hostsByName[l], "A"))
    BY <2>0, HandlerAnswers, SpellingIs
  <2>2. HostAnswer(NoAddr, "A") = NXDOMAIN /\ \A a \in Addrs : HostAnswer(a, "A") = Address(a)
    BY AddrAssumption DEF HostAnswer
  <2>3. CASE l = ToLower(hostname)
    BY <2>0, <2>1, <2>2, <2>3, RouterFacts DEF HostsInv, Newest
  <2>4. CASE l # ToLower(hostname) /\ Candidates(l) = {}
    BY <2>1, <2>2, <2>4 DEF HostsInv, Newest
  <2>5. CASE l # ToLower(hostname) /\ Candidates(l) # {}
    <3>1. PICK k \in Candidates(l) : hostsByName[l] = k.addr /\ \A j \in Candidates(l) : j.expiry <= k.expiry
      BY <2>1, <2>5 DEF HostsInv, Newest
    <3>2. k.addr \in Addrs
      <4>1. k \in leases /\ leases \in LeaseFiles
        BY DEF Candidates, HostsInv, TablesOK
      <4>2. k \in Lease
        BY <4>1, FileFacts
      <4> QED BY <2>0, <4>2, RouterFacts DEF Lease
    <3> QED BY <2>1, <2>2, <2>5, <3>1, <3>2
  <2> QED BY <2>3, <2>4, <2>5
<1> QED BY <1>1, HostsInductive, PTL

\* A registered label resolves to its address whatever leases were read since, if the query spells
\* the host above it as its handler does (dns.go:229-241, 446, 463-471).
THEOREM HostsLabels == Spec => []RegisteredLabelResolves
<1>1. HostsInv => RegisteredLabelResolves
  <2> SUFFICES ASSUME HostsInv, NEW l \in Lower, NEW q \in Question,
                      q.sub # NoSub, q.name = Spelling(l), subnames[l][q.sub] # NoAddr
               PROVE  Answer(q) = IF (q.type = "AAAA") = (subnames[l][q.sub] \in V6)
                                  THEN Address(subnames[l][q.sub]) ELSE Empty
    BY DEF RegisteredLabelResolves
  <2>1. q.sub \in Subs /\ ToLower(q.name) = l
    BY SpellingIs DEF Question, HostsInv, TablesOK
  <2>2. mux[l] # NoName
    BY <2>1 DEF HostsInv, LabelsHandled
  <2>3. mux[l] = q.name
    BY <2>1, <2>2, HandlerAnswers
  <2> QED BY <2>1, <2>2, <2>3 DEF Answer, resolveSubname, SubnameAnswer
<1> QED BY <1>1, HostsInductive, PTL
================================================================================
