---------------------------- MODULE CapturedProofs ----------------------------
(***************************************************************************)
(* Proofs about packet capture (module Captured), for every set of         *)
(* interfaces and sessions and every size of the ring.                     *)
(***************************************************************************)
EXTENDS Captured, FiniteSetTheorems, SequenceTheorems, WellFoundedInduction, TLAPS

-----------------------------------------------------------------------------
(* Induction on the numbers up to a bound, for a set of numbers.            *)

\* A set of numbers that is not empty has a least element.
LEMMA LeastNumber ==
    ASSUME NEW T \in SUBSET Nat, T # {}
    PROVE  \E m \in T : \A k \in T : m <= k
<1> DEFINE R == {ss \in Nat \X Nat : ss[1] < ss[2]}
<1>1. IsWellFoundedOn(R, Nat)
  BY NatLessThanWellFounded, Zenon DEF OpToRel
<1>2. PICK x \in T : \A y \in T : ~ (<<y, x>> \in R)
  <2> HIDE DEF R
  <2> QED BY <1>1, WFMin
<1>3. ASSUME NEW k \in T, k < x PROVE FALSE
  <2>1. <<k, x>> \in R BY <1>3, Zenon
  <2> QED BY <1>2, <2>1
<1>4. \A k \in T : x <= k BY <1>3
<1> QED BY <1>4

\* What holds of 0 and goes from n to n + 1 holds up to the bound.
LEMMA UpTo ==
    ASSUME NEW N \in Nat, NEW P, 0 \in P, \A n \in 0 .. N - 1 : n \in P => n + 1 \in P
    PROVE  \A n \in 0 .. N : n \in P
<1> DEFINE T == {n \in 0 .. N : n \notin P}
<1>1. SUFFICES ASSUME T # {} PROVE FALSE
  OBVIOUS
<1>2. T \in SUBSET Nat
  OBVIOUS
<1>3. PICK m \in T : \A k \in T : m <= k
  <2> HIDE DEF T
  <2> QED BY <1>1, <1>2, LeastNumber
<1>4. m - 1 \in 0 .. N - 1 /\ m - 1 \notin T
  BY <1>3
<1> QED BY <1>4

-----------------------------------------------------------------------------
(* Sequences.                                                               *)

LEMMA AppendIs ==
    ASSUME NEW S, NEW q \in Seq(S), NEW p \in S
    PROVE  /\ Append(q, p) = [j \in 1 .. Len(q) + 1 |-> IF j = Len(q) + 1 THEN p ELSE q[j]]
           /\ ToSet(Append(q, p)) = ToSet(q) \cup {p}
<1>1. Append(q, p) = [j \in 1 .. Len(q) + 1 |-> IF j = Len(q) + 1 THEN p ELSE q[j]]
  <2>1. /\ Append(q, p) \in Seq(S) /\ Len(Append(q, p)) = Len(q) + 1 /\ Len(q) \in Nat
        /\ \A j \in 1 .. Len(q) + 1 : Append(q, p)[j] = IF j = Len(q) + 1 THEN p ELSE q[j]
    OBVIOUS
  <2>2. Append(q, p) \in [1 .. Len(q) + 1 -> S]
    BY <2>1, LenProperties
  <2> QED BY <2>1, <2>2
<1>2. Len(q) \in Nat /\ DOMAIN q = 1 .. Len(q)
  OBVIOUS
<1>3. 1 .. Len(q) + 1 = 1 .. Len(q) \cup {Len(q) + 1} /\ Len(q) + 1 \notin 1 .. Len(q)
  BY <1>2
<1> QED BY <1>1, <1>2, <1>3 DEF ToSet

LEMMA TailIs ==
    ASSUME NEW S, NEW q \in Seq(S), q # <<>>
    PROVE  /\ Tail(q) = [j \in 1 .. Len(q) - 1 |-> q[j + 1]]
           /\ ToSet(q) = {q[1]} \cup ToSet(Tail(q))
<1>1. Tail(q) = [j \in 1 .. Len(q) - 1 |-> q[j + 1]]
  <2>1. /\ Tail(q) \in Seq(S) /\ Len(Tail(q)) = Len(q) - 1 /\ Len(q) \in Nat
        /\ \A j \in 1 .. Len(q) - 1 : Tail(q)[j] = q[j + 1]
    OBVIOUS
  <2>2. Tail(q) \in [1 .. Len(q) - 1 -> S]
    BY <2>1, LenProperties
  <2> QED BY <2>1, <2>2
<1>2. Len(q) \in Nat \ {0} /\ DOMAIN q = 1 .. Len(q)
  OBVIOUS
<1>3. ToSet(q) \subseteq {q[1]} \cup ToSet(Tail(q))
  <2> SUFFICES ASSUME NEW k \in 1 .. Len(q), k # 1 PROVE q[k] \in ToSet(Tail(q))
    BY <1>2 DEF ToSet
  <2>1. k - 1 \in 1 .. Len(q) - 1 /\ (k - 1) + 1 = k
    BY <1>2
  <2> QED BY <1>1, <2>1 DEF ToSet
<1>4. ToSet(Tail(q)) \subseteq ToSet(q) /\ q[1] \in ToSet(q)
  <2>1. \A k \in 1 .. Len(q) - 1 : k + 1 \in 1 .. Len(q)
    BY <1>2
  <2>2. 1 \in 1 .. Len(q)
    BY <1>2
  <2> QED BY <1>1, <1>2, <2>1, <2>2 DEF ToSet
<1> QED BY <1>1, <1>3, <1>4

-----------------------------------------------------------------------------
(* The ring.                                                                *)

Slot == Packet \cup {None}

LEMMA NoneIsNoPacket == None \notin Packet
BY DEF None, Packet

\* When the e empty slots come first, what is left out is just those.
LEMMA AppendedIsSuffix ==
    ASSUME NEW D \in [1 .. Size -> Slot], NEW e \in 0 .. Size,
           \A k \in 1 .. Size : D[k] = None <=> k <= e
    PROVE  Appended(D) = [j \in 1 .. Size - e |-> D[e + j]]
<1> DEFINE S(k) == [j \in 1 .. k - e |-> D[e + j]]
           Loop(f) == [k \in 0 .. Size |-> IF k = 0 THEN <<>>
                                           ELSE IF D[k] # None THEN Append(f[k - 1], D[k])
                                           ELSE f[k - 1]]
           g == [k \in 0 .. Size |-> S(k)]
           f == CHOOSE p : p = Loop(p)
           P == {k \in 0 .. Size : f[k] = g[k]}
<1>0. Size \in Nat
  BY SizeAssumption
<1>1. \A k \in 0 .. e : S(k) = <<>>
  BY <1>0
<1>2. \A k \in e + 1 .. Size : S(k) = Append(S(k - 1), D[k])
  <2> TAKE k \in e + 1 .. Size
  <2>1. S(k - 1) \in Seq(Slot) /\ Len(S(k - 1)) = k - 1 - e
    BY <1>0
  <2>2. Append(S(k - 1), D[k]) = [j \in 1 .. k - e |-> IF j = k - e THEN D[k] ELSE S(k - 1)[j]]
    BY <1>0, <2>1
  <2> QED BY <1>0, <2>2
<1>3. g = Loop(g)
  <2> SUFFICES ASSUME NEW k \in 0 .. Size PROVE g[k] = Loop(g)[k]
    OBVIOUS
  <2>1. g[k] = S(k) /\ (k # 0 => k - 1 \in 0 .. Size /\ g[k - 1] = S(k - 1))
    BY <1>0
  <2>2. k # 0 => k \in 1 .. e \/ k \in e + 1 .. Size
    BY <1>0
  <2>3. k \in 1 .. e => D[k] = None /\ S(k) = S(k - 1)
    BY <1>0, <1>1
  <2>4. k \in e + 1 .. Size => D[k] # None /\ S(k) = Append(S(k - 1), D[k])
    BY <1>0, <1>2
  <2>5. S(0) = <<>>
    BY <1>0, <1>1
  <2> HIDE DEF g, S
  <2> QED BY <2>1, <2>2, <2>3, <2>4, <2>5
<1>4. f = Loop(f)
  <2> HIDE DEF g, Loop
  <2> QED BY <1>3
<1>5. \A n \in 0 .. Size : n \in P
  <2> HIDE DEF f
  <2>1. 0 \in P
    BY <1>0, <1>1, <1>4
  <2>2. ASSUME NEW n \in 0 .. Size - 1, n \in P PROVE n + 1 \in P
    <3>1. n + 1 \in 0 .. Size /\ n + 1 # 0 /\ (n + 1) - 1 = n
      BY <1>0
    <3>2. f[n + 1] = IF D[n + 1] # None THEN Append(f[n], D[n + 1]) ELSE f[n]
      BY <1>4, <3>1
    <3>3. g[n + 1] = IF D[n + 1] # None THEN Append(g[n], D[n + 1]) ELSE g[n]
      BY <1>3, <3>1
    <3> QED BY <2>2, <3>1, <3>2, <3>3
  <2> HIDE DEF P
  <2> QED BY <1>0, <2>1, <2>2, UpTo
<1>6. Appended(D) = f[Size]
  BY DEF Appended
<1>7. Size \in 0 .. Size
  BY <1>0
<1> QED BY <1>5, <1>6, <1>7

LEMMA Mod ==
    ASSUME NEW a \in 0 .. Size + Size - 1
    PROVE  a % Size = IF a < Size THEN a ELSE a - Size
BY SizeAssumption

LEMMA Around ==
    ASSUME NEW p \in 0 .. Size - 1
    PROVE  /\ (p + 1) % Size \in 0 .. Size - 1
           /\ \A k \in 1 .. Size :
                 /\ (((p + 1) % Size) + k - 1) % Size = (p + k) % Size
                 /\ (p + k) % Size \in 0 .. Size - 1
                 /\ (p + k) % Size = p <=> k = Size
<1> DEFINE q == (p + 1) % Size
<1>0. Size \in Nat /\ Size >= 1
  BY SizeAssumption
<1>1. p + 1 \in 0 .. Size + Size - 1
  BY <1>0
<1>2. q = IF p + 1 < Size THEN p + 1 ELSE p + 1 - Size
  BY <1>0, <1>1, Mod
<1>3. q = IF p + 1 < Size THEN p + 1 ELSE 0
  BY <1>0, <1>2
<1> HIDE DEF q
<1>4. q \in 0 .. Size - 1
  BY <1>0, <1>3
<1>5. ASSUME NEW k \in 1 .. Size
      PROVE  /\ (q + k - 1) % Size = (p + k) % Size
             /\ (p + k) % Size \in 0 .. Size - 1
             /\ (p + k) % Size = p <=> k = Size
  <2>0. p + k \in 0 .. Size + Size - 1
    BY <1>0
  <2>1. q + k - 1 \in 0 .. Size + Size - 1
    BY <1>0, <1>3
  <2>2. (p + k) % Size = IF p + k < Size THEN p + k ELSE p + k - Size
    BY <1>0, <2>0, Mod
  <2>3. (q + k - 1) % Size = IF q + k - 1 < Size THEN q + k - 1 ELSE q + k - 1 - Size
    BY <1>0, <1>4, <2>1, Mod
  <2>4. (q + k - 1) % Size = (p + k) % Size
    BY <1>0, <1>3, <2>2, <2>3
  <2> QED BY <1>0, <2>2, <2>4
<1> QED BY <1>4, <1>5 DEF q

LEMMA DoType ==
    ASSUME TypeOK
    PROVE  /\ Do \in [1 .. Size -> Slot]
           /\ \A k \in 1 .. Size : Line[k] = Do[k]
           /\ Line[Size + 1] = held
           /\ Line \in [1 .. Size + 1 -> Slot]
<1>1. ASSUME NEW k \in 1 .. Size PROVE ring[(pos + k - 1) % Size] \in Slot
  <2>1. pos + k - 1 \in 0 .. Size + Size - 1
    BY SizeAssumption DEF TypeOK
  <2>2. (pos + k - 1) % Size \in 0 .. Size - 1
    BY <2>1, Mod, SizeAssumption
  <2> QED BY <2>2 DEF TypeOK, Slot
<1>2. Do \in [1 .. Size -> Slot]
  BY <1>1 DEF Do
<1>3. held \in Slot
  BY DEF TypeOK, Slot
<1> QED BY <1>2, <1>3, SizeAssumption DEF Line

\* Nothing but writePacket changes the ring.
LEMMA SameRing ==
    ASSUME UNCHANGED <<ring, pos>>
    PROVE  Do' = Do /\ packetsLocked' = packetsLocked /\ (held' = held => Line' = Line)
<1>1. Do' = Do
  BY DEF Do
<1> QED BY <1>1 DEF packetsLocked, Line

\* A recorded packet moves the line up by one.
LEMMA writePacketShifts ==
    ASSUME TypeOK, writePacket
    PROVE  /\ pos' \in 0 .. Size - 1
           /\ \A k \in 1 .. Size : Do'[k] = Line[k + 1]
           /\ \A k \in 1 .. Size : Line'[k] = Line[k + 1]
           /\ Line'[Size + 1] = None
<1>0. Size \in Nat /\ Size >= 1 /\ pos \in 0 .. Size - 1 /\ ring \in [0 .. Size - 1 -> Slot]
  BY SizeAssumption DEF TypeOK, Slot
<1>1. pos' = (pos + 1) % Size
  BY DEF writePacket
<1>2. /\ pos' \in 0 .. Size - 1
      /\ \A k \in 1 .. Size :
            /\ (pos' + k - 1) % Size = (pos + k) % Size
            /\ (pos + k) % Size \in 0 .. Size - 1
            /\ (pos + k) % Size = pos <=> k = Size
  <2>1. pos \in 0 .. Size - 1
    BY <1>0
  <2>2. /\ (pos + 1) % Size \in 0 .. Size - 1
        /\ \A k \in 1 .. Size :
              /\ (((pos + 1) % Size) + k - 1) % Size = (pos + k) % Size
              /\ (pos + k) % Size \in 0 .. Size - 1
              /\ (pos + k) % Size = pos <=> k = Size
    BY <2>1, Around, Zenon
  <2> QED BY <1>1, <2>2, Zenon
<1>3. ASSUME NEW k \in 1 .. Size PROVE Do'[k] = Line[k + 1]
  <2>2. Do'[k] = ring'[(pos + k) % Size]
    BY <1>2 DEF Do
  <2>5. ring'[(pos + k) % Size] = IF k = Size THEN held ELSE ring[(pos + k) % Size]
    BY <1>0, <1>2 DEF writePacket
  <2>7. Line[k + 1] = IF k < Size THEN ring[(pos + k) % Size] ELSE held
    <3>1. k < Size => Do[k + 1] = ring[(pos + k) % Size]
      BY <1>0 DEF Do
    <3> QED BY <1>0, <3>1 DEF Line
  <2> QED BY <1>0, <2>2, <2>5, <2>7
<1>4. ASSUME NEW k \in 1 .. Size + 1 PROVE Line'[k] = IF k <= Size THEN Do'[k] ELSE held'
  BY <1>0 DEF Line
<1>5. held' = None
  BY DEF writePacket
<1> QED BY <1>0, <1>2, <1>3, <1>4, <1>5

-----------------------------------------------------------------------------
(* Types.                                                                   *)

\* The bound on the packets of all interfaces bounds those of each.
LEMMA RoomForOne ==
    ASSUME TypeOK, NEW i \in Ifaces, Arrive(i)
    PROVE  arrived[i] < MaxArrived
<1> DEFINE A == {p \in Packet : p.n <= arrived[p.iface]}
           B == {[iface |-> i, n |-> n] : n \in 1 .. MaxArrived}
<1> USE SizeAssumption
<1>1. SUFFICES ASSUME arrived[i] = MaxArrived PROVE FALSE
  BY DEF TypeOK
<1>2. B \subseteq A
  BY <1>1 DEF Packet
<1>3. IsFiniteSet(Packet)
  <2>1. IsFiniteSet(Ifaces \X (1 .. MaxArrived))
    <3>1. IsFiniteSet(1 .. MaxArrived)
      BY FS_Interval
    <3> QED BY <3>1, FS_Product, IfaceAssumption
  <2> DEFINE pairs == Ifaces \X (1 .. MaxArrived)
             f == [q \in pairs |-> [iface |-> q[1], n |-> q[2]]]
  <2>2. f \in Surjection(pairs, Packet)
    <3>1. f \in [pairs -> Packet]
      BY DEF Packet
    <3>2. ASSUME NEW p \in Packet PROVE \E q \in pairs : f[q] = p
      <4>1. <<p.iface, p.n>> \in pairs /\ p = [iface |-> p.iface, n |-> p.n]
        BY DEF Packet
      <4> QED BY <4>1
    <3> QED BY <3>1, <3>2 DEF Surjection
  <2> HIDE DEF f, pairs
  <2> QED BY <2>1, <2>2, FS_Surjection DEF pairs
<1>4. IsFiniteSet(A) /\ Cardinality(B) <= Cardinality(A)
  <2>1. IsFiniteSet(A)
    BY <1>3, FS_Subset
  <2> HIDE DEF A, B
  <2> QED BY <1>2, <2>1, FS_Subset
<1>5. Cardinality(B) = MaxArrived
  <2> DEFINE g == [n \in 1 .. MaxArrived |-> [iface |-> i, n |-> n]]
  <2>1. g \in Bijection(1 .. MaxArrived, B)
    <3>1. g \in [1 .. MaxArrived -> B]
      OBVIOUS
    <3>2. \A m, n \in 1 .. MaxArrived : g[m] = g[n] => m = n
      <4> TAKE m, n \in 1 .. MaxArrived
      <4>1. g[m].n = m /\ g[n].n = n
        OBVIOUS
      <4> QED BY <4>1
    <3>3. \A b \in B : \E n \in 1 .. MaxArrived : g[n] = b
      OBVIOUS
    <3> QED BY <3>1, <3>2, <3>3 DEF Bijection, Injection, IsInjective, Surjection
  <2>2. IsFiniteSet(1 .. MaxArrived) /\ Cardinality(1 .. MaxArrived) = MaxArrived
    BY FS_Interval
  <2> HIDE DEF g, B
  <2> QED BY <2>1, <2>2, FS_Bijection DEF ExistsBijection
<1>6. Cardinality(A) < MaxArrived
  BY DEF Arrive
<1>7. Cardinality(A) \in Nat
  <2> HIDE DEF A
  <2> QED BY <1>4, FS_CardinalityType
<1> HIDE DEF A, B
<1> QED BY <1>4, <1>5, <1>6, <1>7

LEMMA InitType == Init => TypeOK
<1> SUFFICES ASSUME Init PROVE TypeOK
  OBVIOUS
<1>1. arrived \in [Ifaces -> 0 .. MaxArrived] /\ open \in [Readers -> SUBSET Ifaces]
  BY SizeAssumption DEF Init
<1>2. /\ next \in [Readers -> [Ifaces -> Nat \ {0}]]
      /\ \A r \in Readers, i \in Ifaces : next[r][i] <= arrived[i] + 1
  BY DEF Init
<1>3. gap \in [Sessions -> [Ifaces -> SUBSET Nat]]
  BY DEF Init
<1>6. buffered \in [Sessions -> Seq(Packet)] /\ out \in [Sessions -> Seq(Packet)]
  <2> DEFINE none == <<>>
  <2>1. none \in Seq(Packet)
    OBVIOUS
  <2>2. buffered = [s \in Sessions |-> none] /\ out = [s \in Sessions |-> none]
    BY DEF Init
  <2> HIDE DEF none
  <2> QED BY <2>1, <2>2
<1>4. /\ ready \in BOOLEAN /\ held \in Packet \cup {None}
      /\ ring \in [0 .. Size - 1 -> Packet \cup {None}] /\ pos \in 0 .. Size - 1
  <2>1. ready \in BOOLEAN /\ held \in Packet \cup {None}
    BY Zenon DEF Init
  <2>2. ring \in [0 .. Size - 1 -> Packet \cup {None}] /\ pos \in 0 .. Size - 1
    BY SizeAssumption DEF Init
  <2> QED BY <2>1, <2>2
<1>5. /\ lock \in Sessions \cup {Nobody}
      /\ spc \in [Sessions -> {"header", "locked", "replaying", "streaming", "ended"}]
  BY DEF Init
<1> QED BY <1>1, <1>2, <1>3, <1>4, <1>5, <1>6 DEF TypeOK

\* packetsLocked is the part of the ring behind the empty slots.
LEMMA PacketsAre ==
    ASSUME TypeOK, NEW e \in 0 .. Size, \A k \in 1 .. Size : Do[k] = None <=> k <= e
    PROVE  /\ packetsLocked = [j \in 1 .. Size - e |-> Do[e + j]]
           /\ \A j \in 1 .. Size - e : e + j \in 1 .. Size /\ Do[e + j] \in Packet
           /\ packetsLocked \in Seq(Packet)
           /\ ToSet(packetsLocked) = {Do[k] : k \in e + 1 .. Size}
<1>1. Do \in [1 .. Size -> Slot]
  BY DoType
<1>2. packetsLocked = [j \in 1 .. Size - e |-> Do[e + j]]
  BY <1>1, AppendedIsSuffix DEF packetsLocked
<1>3. ASSUME NEW j \in 1 .. Size - e PROVE e + j \in 1 .. Size /\ Do[e + j] \in Packet
  <2>1. e + j \in 1 .. Size /\ ~ (e + j <= e)
    BY SizeAssumption
  <2> QED BY <1>1, <2>1 DEF Slot
<1>4. Size - e \in Nat
  BY SizeAssumption
<1>5. ToSet(packetsLocked) = {Do[k] : k \in e + 1 .. Size}
  <2>1. ToSet(packetsLocked) = {Do[e + j] : j \in 1 .. Size - e}
    BY <1>2 DEF ToSet
  <2>2. \A k \in e + 1 .. Size : k - e \in 1 .. Size - e /\ k = e + (k - e)
    BY SizeAssumption
  <2>3. \A j \in 1 .. Size - e : e + j \in e + 1 .. Size
    BY SizeAssumption
  <2> QED BY <2>1, <2>2, <2>3
<1> QED BY <1>2, <1>3, <1>4, <1>5

LEMMA PacketsType ==
    ASSUME TypeOK, Filled
    PROVE  packetsLocked \in Seq(Packet)
BY PacketsAre DEF Filled

\* Where the readers are, one reader and interface at a time.
LEMMA NextAt ==
    ASSUME TypeOK, NEW r \in Readers, NEW i \in Ifaces
    PROVE  /\ next[r][i] \in Nat \ {0} /\ arrived[i] \in 0 .. MaxArrived
           /\ next[r][i] <= arrived[i] + 1
           /\ Pending(r, i) => [iface |-> i, n |-> next[r][i]] \in Packet
<1>1. next[r][i] \in Nat \ {0} /\ arrived[i] \in 0 .. MaxArrived /\ next[r][i] <= arrived[i] + 1
  BY DEF TypeOK
<1>2. Pending(r, i) => next[r][i] \in 1 .. MaxArrived
  BY <1>1, SizeAssumption DEF Pending
<1> QED BY <1>1, <1>2 DEF Packet

\* A reader that moves on leaves the others where they are.
LEMMA NextMoves ==
    ASSUME TypeOK, NEW r \in Readers, NEW i \in Ifaces, NEW v \in Nat \ {0}, v <= arrived[i] + 1,
           next' = [next EXCEPT ![r][i] = v]
    PROVE  /\ next' \in [Readers -> [Ifaces -> Nat \ {0}]]
           /\ next'[r][i] = v
           /\ \A q \in Readers, j \in Ifaces :
                 next'[q][j] = (IF q = r /\ j = i THEN v ELSE next[q][j]) /\ next'[q][j] <= arrived[j] + 1
<1>1. next \in [Readers -> [Ifaces -> Nat \ {0}]]
  BY DEF TypeOK
<1>2. next' \in [Readers -> [Ifaces -> Nat \ {0}]]
  BY <1>1
<1>3. ASSUME NEW q \in Readers, NEW j \in Ifaces
      PROVE  next'[q][j] = IF q = r /\ j = i THEN v ELSE next[q][j]
  BY <1>1
<1>4. \A q \in Readers, j \in Ifaces : next[q][j] <= arrived[j] + 1
  BY NextAt
<1> QED BY <1>2, <1>3, <1>4

LEMMA NextType ==
    ASSUME TypeOK, Filled, [Next]_vars
    PROVE  TypeOK'
<1> USE DEF TypeOK
<1>1. ASSUME NEW i \in Ifaces, Arrive(i) PROVE TypeOK'
  <2>1. arrived[i] + 1 \in 0 .. MaxArrived
    BY <1>1, RoomForOne, SizeAssumption
  <2> QED BY <1>1, <2>1, SizeAssumption DEF Arrive
<1>2. ASSUME NEW i \in Ifaces, MainHandle(i) PROVE TypeOK'
  <2>1. Main \in Readers /\ next' = [next EXCEPT ![Main][i] = arrived[i] + 1]
    BY <1>2 DEF MainHandle, Readers
  <2>2. arrived[i] + 1 \in Nat \ {0} /\ arrived[i] + 1 <= arrived[i] + 1
    BY <2>1, NextAt, SizeAssumption
  <2>3. /\ next' \in [Readers -> [Ifaces -> Nat \ {0}]]
        /\ \A q \in Readers, j \in Ifaces : next'[q][j] <= arrived[j] + 1
    <3> HIDE DEF TypeOK
    <3> QED BY <2>1, <2>2, NextMoves
  <2> QED BY <1>2, <2>1, <2>3 DEF MainHandle
<1>3. ASSUME NEW i \in Ifaces, Receive(i) PROVE TypeOK'
  <2>1. Main \in Readers /\ Pending(Main, i) /\ next' = [next EXCEPT ![Main][i] = next[Main][i] + 1]
    BY <1>3 DEF Receive, Readers
  <2>2. held' \in Packet
    BY <1>3, <2>1, NextAt DEF Receive
  <2>3. next[Main][i] + 1 \in Nat \ {0} /\ next[Main][i] + 1 <= arrived[i] + 1
    BY <2>1, NextAt, SizeAssumption DEF Pending
  <2>4. /\ next' \in [Readers -> [Ifaces -> Nat \ {0}]]
        /\ \A q \in Readers, j \in Ifaces : next'[q][j] <= arrived[j] + 1
    <3> HIDE DEF TypeOK
    <3> QED BY <2>1, <2>3, NextMoves
  <2> QED BY <1>3, <2>2, <2>4 DEF Receive
<1>4. CASE writePacket
  <2>1. pos' \in 0 .. Size - 1
    BY <1>4, writePacketShifts
  <2> QED BY <1>4, <2>1, SizeAssumption DEF writePacket
<1>5. ASSUME NEW r \in Readers, NEW i \in Ifaces, NextPacketFails(r, i) PROVE TypeOK'
  BY <1>5 DEF NextPacketFails
<1>6. ASSUME NEW s \in Sessions, Lock(s) PROVE TypeOK'
  BY <1>6 DEF Lock
<1>7. ASSUME NEW s \in Sessions, NEW i \in Ifaces, NewEthernetHandle(s, i) PROVE TypeOK'
  <2>1. s \in Readers /\ next' = [next EXCEPT ![s][i] = arrived[i] + 1]
    BY <1>7 DEF NewEthernetHandle, Readers
  <2>2. arrived[i] + 1 \in Nat \ {0} /\ arrived[i] + 1 <= arrived[i] + 1
    BY <2>1, NextAt, SizeAssumption
  <2>3. /\ next' \in [Readers -> [Ifaces -> Nat \ {0}]]
        /\ \A q \in Readers, j \in Ifaces : next'[q][j] <= arrived[j] + 1
    <3> HIDE DEF TypeOK
    <3> QED BY <2>1, <2>2, NextMoves
  <2>4. OnItsWay(i) \subseteq Nat
    BY DEF OnItsWay
  <2> QED BY <1>7, <2>1, <2>3, <2>4 DEF NewEthernetHandle
<1>8. ASSUME NEW s \in Sessions, Unlock(s) PROVE TypeOK'
  BY <1>8, PacketsType DEF Unlock
<1>9. ASSUME NEW s \in Sessions, Replay(s) PROVE TypeOK'
  BY <1>9 DEF Replay
<1>10. ASSUME NEW s \in Sessions, Replayed(s) PROVE TypeOK'
  BY <1>10 DEF Replayed
<1>11. ASSUME NEW s \in Sessions, NEW i \in Ifaces, Stream(s, i) PROVE TypeOK'
  <2>0. s \in Readers /\ Pending(s, i) /\ next' = [next EXCEPT ![s][i] = next[s][i] + 1]
    BY <1>11 DEF Stream, Readers
  <2>1. [iface |-> i, n |-> next[s][i]] \in Packet
    BY <2>0, NextAt
  <2>2. out' \in [Sessions -> Seq(Packet)]
    BY <1>11, <2>1 DEF Stream
  <2>3. next[s][i] + 1 \in Nat \ {0} /\ next[s][i] + 1 <= arrived[i] + 1
    BY <2>0, NextAt, SizeAssumption DEF Pending
  <2>4. /\ next' \in [Readers -> [Ifaces -> Nat \ {0}]]
        /\ \A q \in Readers, j \in Ifaces : next'[q][j] <= arrived[j] + 1
    <3> HIDE DEF TypeOK
    <3> QED BY <2>0, <2>3, NextMoves
  <2> QED BY <1>11, <2>2, <2>4 DEF Stream
<1>12. ASSUME NEW s \in Sessions, Hangup(s) PROVE TypeOK'
  BY <1>12 DEF Hangup
<1>13. ASSUME NEW s \in Sessions, NEW i \in Ifaces, Done(s, i) PROVE TypeOK'
  BY <1>13 DEF Done, Readers
<1>14. CASE UNCHANGED vars
  BY <1>14 DEF vars
<1> QED BY <1>1, <1>2, <1>3, <1>4, <1>5, <1>6, <1>7, <1>8, <1>9, <1>10, <1>11, <1>12, <1>13, <1>14
        DEF Next, Session

-----------------------------------------------------------------------------
(* The line of packets at the ring.                                         *)

\* Only the main goroutine moves the line.
LEMMA MainMoves ==
    ASSUME TypeOK, [Next]_vars
    PROVE  \/ \E i \in Ifaces : MainHandle(i) \/ Receive(i)
           \/ writePacket
           \/ /\ UNCHANGED <<ready, held, ring, pos>>
              /\ next'[Main] = next[Main]
<1> DEFINE Q == UNCHANGED <<ready, held, ring, pos>> /\ next'[Main] = next[Main]
<1>1. ASSUME NEW s \in Sessions, NEW i \in Ifaces, NewEthernetHandle(s, i) \/ Stream(s, i) PROVE Q
  BY <1>1, MainAssumption DEF NewEthernetHandle, Stream, TypeOK, Readers
<1>2. ASSUME NEW s \in Sessions, NEW i \in Ifaces, Done(s, i) PROVE Q
  BY <1>2 DEF Done
<1>3. ASSUME NEW s \in Sessions, Lock(s) \/ Unlock(s) \/ Replay(s) \/ Replayed(s) \/ Hangup(s) PROVE Q
  BY <1>3 DEF Lock, Unlock, Replay, Replayed, Hangup
<1>4. ASSUME NEW i \in Ifaces, Arrive(i) PROVE Q
  BY <1>4 DEF Arrive
<1>5. ASSUME NEW r \in Readers, NEW i \in Ifaces, NextPacketFails(r, i) PROVE Q
  BY <1>5 DEF NextPacketFails
<1>6. CASE UNCHANGED vars
  BY <1>6 DEF vars
<1>7. SUFFICES ASSUME ~ \E i \in Ifaces : MainHandle(i) \/ Receive(i), ~ writePacket
               PROVE  Q
  OBVIOUS
<1> QED BY <1>1, <1>2, <1>3, <1>4, <1>5, <1>6, <1>7 DEF Next, Session

LEMMA NextFilled ==
    ASSUME TypeOK, Filled, [Next]_vars
    PROVE  Filled'
<1>1. PICK e \in 0 .. Size : \A k \in 1 .. Size : Do[k] = None <=> k <= e
  BY DEF Filled
<1>2. ASSUME NEW i \in Ifaces, MainHandle(i) PROVE Filled'
  <2>1. Do' = Do /\ Line' = Line
    BY <1>2, SameRing DEF MainHandle
  <2> QED BY <1>2, <2>1 DEF Filled, MainHandle
<1>3. ASSUME NEW i \in Ifaces, Receive(i) PROVE Filled'
  <2>1. Do' = Do
    BY <1>3, SameRing DEF Receive
  <2> QED BY <1>3, <2>1 DEF Filled, Receive
<1>4. CASE writePacket
  <2> DEFINE d == IF e = 0 THEN 0 ELSE e - 1
  <2>1. d \in 0 .. Size
    BY SizeAssumption
  <2>2. Line[Size + 1] # None
    BY <1>4, DoType DEF writePacket
  <2>3. ASSUME NEW k \in 1 .. Size PROVE Do'[k] = None <=> k <= d
    <3>1. Do'[k] = Line[k + 1]
      BY <1>4, writePacketShifts
    <3>2. CASE k = Size
      BY <2>2, <3>1, <3>2, SizeAssumption
    <3>3. CASE k # Size
      <4>1. k + 1 \in 1 .. Size
        BY <3>3, SizeAssumption
      <4>2. Line[k + 1] = Do[k + 1]
        BY <4>1, DoType
      <4> QED BY <1>1, <3>1, <4>1, <4>2, SizeAssumption
    <3> QED BY <3>2, <3>3
  <2>4. ready'
    <3>1. ready
      BY <2>2, SizeAssumption DEF Filled, TypeOK
    <3> QED BY <1>4, <3>1 DEF writePacket
  <2> HIDE DEF d
  <2> QED BY <2>1, <2>3, <2>4 DEF Filled
<1>5. CASE UNCHANGED <<ready, held, ring, pos>>
  <2>1. Do' = Do /\ Line' = Line
    BY <1>5, SameRing
  <2> QED BY <1>5, <2>1 DEF Filled
<1> QED BY <1>2, <1>3, <1>4, <1>5, MainMoves

LEMMA NextInLine ==
    ASSUME TypeOK, Filled, InLine, [Next]_vars
    PROVE  InLine'
<1> USE DEF InLine
<1>0. Size \in Nat /\ Size >= 1
  BY SizeAssumption
<1>1. /\ Line \in [1 .. Size + 1 -> Slot]
      /\ \A k \in 1 .. Size : Line[k] = Do[k]
      /\ Line[Size + 1] = held
  BY DoType
<1>2. ASSUME NEW i \in Ifaces, MainHandle(i) PROVE InLine'
  <2>1. Line' = Line
    BY <1>2, SameRing DEF MainHandle
  <2>2. \A k \in 1 .. Size + 1 : Line[k] = None
    BY <1>2 DEF MainHandle, Filled
  <2> QED BY <2>1, <2>2
<1>3. ASSUME NEW i \in Ifaces, Receive(i) PROVE InLine'
  <2> DEFINE new == [iface |-> i, n |-> next[Main][i]]
  <2>1. /\ held = None /\ held' = new /\ new # None
        /\ next[Main][i] \in Nat \ {0}
        /\ next'[Main][i] = next[Main][i] + 1
        /\ \A j \in Ifaces : j # i => next'[Main][j] = next[Main][j]
    BY <1>3 DEF Receive, TypeOK, Readers, None
  <2>2. \A k \in 1 .. Size : Line'[k] = Line[k]
    <3>1. Do' = Do
      BY <1>3, SameRing DEF Receive
    <3> QED BY <1>0, <3>1 DEF Line
  <2>3. Line'[Size + 1] = new
    BY <1>0, <2>1 DEF Line
  <2> SUFFICES ASSUME NEW k \in 1 .. Size + 1, Line'[k] # None
               PROVE  /\ Line'[k].n < next'[Main][Line'[k].iface]
                      /\ \A j \in 1 .. k - 1 : Line'[j].iface = Line'[k].iface => Line'[j].n < Line'[k].n
                      /\ \A n \in Line'[k].n .. next'[Main][Line'[k].iface] - 1 :
                            \E j \in k .. Size + 1 : Line'[j] = [iface |-> Line'[k].iface, n |-> n]
    OBVIOUS
  <2>4. CASE k = Size + 1
    <3>1. \A j \in 1 .. Size : Line[j].iface = i => Line[j].n < next[Main][i]
      <4> TAKE j \in 1 .. Size
      <4>1. CASE Line[j] = None
        BY <2>1, <4>1 DEF None
      <4>2. CASE Line[j] # None
        BY <1>0, <4>2
      <4> QED BY <4>1, <4>2
    <3>2. new.iface = i /\ new.n = next[Main][i]
      OBVIOUS
    <3> HIDE DEF new
    <3>3. \A j \in 1 .. k - 1 : Line'[j].iface = Line'[k].iface => Line'[j].n < Line'[k].n
      BY <1>0, <2>2, <2>3, <2>4, <3>1, <3>2
    <3>4. \A n \in Line'[k].n .. next'[Main][Line'[k].iface] - 1 : n = next[Main][i]
      BY <2>1, <2>3, <2>4, <3>2
    <3>5. \A n \in Line'[k].n .. next'[Main][Line'[k].iface] - 1 :
             \E j \in k .. Size + 1 : Line'[j] = [iface |-> Line'[k].iface, n |-> n]
      BY <1>0, <2>3, <2>4, <3>2, <3>4 DEF new
    <3> QED BY <2>1, <2>3, <2>4, <3>2, <3>3, <3>5
  <2>5. CASE k \in 1 .. Size
    <3> DEFINE f == Line[k].iface
    <3>1. Line'[k] = Line[k] /\ Line[k] \in Packet
      BY <1>0, <1>1, <2>2, <2>5 DEF Slot
    <3>2. f \in Ifaces /\ Line[k].n \in Nat \ {0} /\ next[Main][f] \in Nat \ {0}
      <4>1. f \in Ifaces /\ Line[k].n \in Nat \ {0}
        BY <3>1, SizeAssumption DEF Packet
      <4>2. Main \in Readers
        BY DEF Readers
      <4> HIDE DEF f
      <4> QED BY <4>1, <4>2, NextAt
    <3>3. Line[k].n < next'[Main][f]
      BY <2>1, <3>1, <3>2
    <3>4. \A j \in 1 .. k - 1 : Line'[j].iface = f => Line'[j].n < Line[k].n
      BY <1>0, <2>2, <2>5, <3>1
    <3>5. ASSUME NEW n \in Line[k].n .. next'[Main][f] - 1
          PROVE  \E j \in k .. Size + 1 : Line'[j] = [iface |-> f, n |-> n]
      <4>1. CASE n <= next[Main][f] - 1
        <5>1. PICK j \in k .. Size + 1 : Line[j] = [iface |-> f, n |-> n]
          BY <3>1, <3>2, <4>1
        <5>2. j # Size + 1
          BY <1>1, <2>1, <3>2, <5>1 DEF None
        <5> QED BY <1>0, <2>2, <2>5, <5>1, <5>2
      <4>2. CASE n > next[Main][f] - 1
        <5>1. f = i /\ n = next[Main][i]
          BY <2>1, <3>2, <4>2
        <5> QED BY <1>0, <2>3, <2>5, <5>1
      <4> QED BY <3>2, <4>1, <4>2
    <3> QED BY <3>1, <3>2, <3>3, <3>4, <3>5
  <2> QED BY <1>0, <2>4, <2>5
<1>4. CASE writePacket
  <2>1. (\A k \in 1 .. Size : Line'[k] = Line[k + 1]) /\ Line'[Size + 1] = None
    BY <1>4, writePacketShifts
  <2>2. next' = next
    BY <1>4 DEF writePacket
  <2> SUFFICES ASSUME NEW k \in 1 .. Size, Line[k + 1] # None
               PROVE  /\ Line[k + 1].n < next[Main][Line[k + 1].iface]
                      /\ \A j \in 1 .. k - 1 : Line[j + 1].iface = Line[k + 1].iface => Line[j + 1].n < Line[k + 1].n
                      /\ \A n \in Line[k + 1].n .. next[Main][Line[k + 1].iface] - 1 :
                            \E j \in k .. Size : Line[j + 1] = [iface |-> Line[k + 1].iface, n |-> n]
    <3>1. \A k \in 1 .. Size + 1 : Line'[k] # None => k \in 1 .. Size
      BY <1>0, <2>1
    <3>2. ASSUME NEW k \in 1 .. Size
          PROVE  /\ \A j \in 1 .. k - 1 : Line'[j] = Line[j + 1]
                 /\ \A j \in k .. Size : Line'[j] = Line[j + 1] /\ j \in k .. Size + 1
      BY <1>0, <2>1
    <3> QED BY <2>1, <2>2, <3>1, <3>2
  <2>3. k + 1 \in 1 .. Size + 1 /\ \A j \in 1 .. k - 1 : j + 1 \in 1 .. (k + 1) - 1
    BY <1>0
  <2>4. ASSUME NEW n \in Line[k + 1].n .. next[Main][Line[k + 1].iface] - 1
        PROVE  \E j \in k .. Size : Line[j + 1] = [iface |-> Line[k + 1].iface, n |-> n]
    <3>1. PICK j \in k + 1 .. Size + 1 : Line[j] = [iface |-> Line[k + 1].iface, n |-> n]
      BY <2>3
    <3>2. j - 1 \in k .. Size /\ (j - 1) + 1 = j
      BY <1>0
    <3> QED BY <3>1, <3>2
  <2> QED BY <2>3, <2>4
<1>5. CASE UNCHANGED <<ready, held, ring, pos>> /\ next'[Main] = next[Main]
  <2>1. Line' = Line
    BY <1>5, SameRing
  <2> QED BY <1>5, <2>1
<1> QED BY <1>2, <1>3, <1>4, <1>5, MainMoves

-----------------------------------------------------------------------------
(* A session that holds the mutex.                                          *)

LEMMA NextMutex ==
    ASSUME TypeOK, Mutex, [Next]_vars
    PROVE  Mutex'
<1> USE DEF TypeOK, Mutex
<1>1. ASSUME NEW s \in Sessions, Lock(s) PROVE Mutex'
  BY <1>1, MainAssumption DEF Lock
<1>2. ASSUME NEW s \in Sessions, Unlock(s) PROVE Mutex'
  BY <1>2, MainAssumption DEF Unlock
<1>3. ASSUME NEW s \in Sessions, Replayed(s) \/ Hangup(s) PROVE Mutex'
  BY <1>3 DEF Replayed, Hangup
<1>4. CASE UNCHANGED <<lock, spc>>
  BY <1>4
<1>5. ASSUME NEW s \in Sessions, NEW i \in Ifaces, NewEthernetHandle(s, i) \/ Stream(s, i) \/ Done(s, i)
      PROVE  UNCHANGED <<lock, spc>>
  BY <1>5 DEF NewEthernetHandle, Stream, Done
<1>6. ASSUME NEW s \in Sessions, Replay(s) PROVE UNCHANGED <<lock, spc>>
  BY <1>6 DEF Replay
<1>7. ASSUME NEW i \in Ifaces, Arrive(i) \/ MainHandle(i) \/ Receive(i) PROVE UNCHANGED <<lock, spc>>
  BY <1>7 DEF Arrive, MainHandle, Receive
<1>8. CASE writePacket \/ UNCHANGED vars
  BY <1>8 DEF writePacket, vars
<1>9. ASSUME NEW r \in Readers, NEW i \in Ifaces, NextPacketFails(r, i) PROVE UNCHANGED <<lock, spc>>
  BY <1>9 DEF NextPacketFails
<1> QED BY <1>1, <1>2, <1>3, <1>4, <1>5, <1>6, <1>7, <1>8, <1>9 DEF Next, Session

\* The main goroutine may lose a socket; nothing else disturbs a session that waits.
LEMMA StaysBehind ==
    ASSUME NEW s \in Sessions, RingBehind(s), UNCHANGED <<ring, pos>>, open'[s] = open[s],
           open'[Main] \subseteq open[Main], next'[s] = next[s], gap'[s] = gap[s]
    PROVE  RingBehind(s)'
<1>1. Do' = Do
  BY SameRing
<1> QED BY <1>1 DEF RingBehind

\* A socket that is opened now comes after all of the ring, and what is not in the ring yet is in the gap.
LEMMA NewHandleBehind ==
    ASSUME TypeOK, InLine, NEW s \in Sessions, RingBehind(s), NEW i \in Ifaces, NewEthernetHandle(s, i)
    PROVE  RingBehind(s)'
<1>0. Size \in Nat /\ Size >= 1
  BY SizeAssumption
<1>1. Do' = Do
  BY SameRing DEF NewEthernetHandle
<1>2. /\ open'[Main] = open[Main]
      /\ open'[s] = open[s] \cup {i}
      /\ next'[s][i] = arrived[i] + 1
      /\ \A f \in Ifaces : f # i => next'[s][f] = next[s][f] /\ gap'[s][f] = gap[s][f]
      /\ gap'[s][i] = OnItsWay(i)
  BY MainAssumption DEF NewEthernetHandle, TypeOK, Readers
<1>3. \A k \in 1 .. Size : Do[k] # None => Do[k] \in Packet /\ Line[k] = Do[k]
  BY DoType DEF Slot
<1> SUFFICES ASSUME NEW k \in 1 .. Size, Do[k] # None, Do[k].iface \in open[s] \cup {i}
             PROVE  /\ Do[k].n < next'[s][Do[k].iface]
                    /\ Do[k].iface \in open[Main] =>
                          \A n \in Do[k].n .. next'[s][Do[k].iface] - 1 :
                              \/ n \in gap'[s][Do[k].iface]
                              \/ \E j \in 1 .. Size : Do[j] = [iface |-> Do[k].iface, n |-> n]
  BY <1>1, <1>2 DEF RingBehind
<1>4. Do[k].iface \in Ifaces /\ Do[k].n \in Nat \ {0}
  BY <1>3, SizeAssumption DEF Packet
<1>5. CASE Do[k].iface # i
  BY <1>2, <1>4, <1>5 DEF RingBehind
<1>6. CASE Do[k].iface = i
  <2>1. arrived[i] \in Nat /\ next[Main][i] \in Nat \ {0} /\ next[Main][i] <= arrived[i] + 1
    BY SizeAssumption DEF TypeOK, Readers
  <2>2. Do[k].n < next[Main][i]
    BY <1>0, <1>3, <1>6 DEF InLine
  <2>3. ASSUME i \in open[Main], NEW n \in Do[k].n .. arrived[i], n \notin OnItsWay(i)
        PROVE  \E j \in 1 .. Size : Do[j] = [iface |-> i, n |-> n]
    <3>1. n \in 1 .. arrived[i]
      BY <1>4, <2>1
    <3>2. n < next[Main][i] /\ held # [iface |-> i, n |-> n]
      BY <2>1, <2>3, <3>1 DEF OnItsWay
    <3>3. n \in Line[k].n .. next[Main][Line[k].iface] - 1
      BY <1>3, <1>4, <1>6, <2>1, <3>2
    <3>4. PICK j \in k .. Size + 1 : Line[j] = [iface |-> i, n |-> n]
      BY <1>0, <1>3, <1>6, <3>3 DEF InLine
    <3>5. j # Size + 1
      BY <3>2, <3>4, DoType
    <3>6. j \in 1 .. Size /\ Line[j] = Do[j]
      BY <1>0, <3>5, DoType
    <3> QED BY <3>4, <3>6
  <2> QED BY <1>2, <1>4, <1>6, <2>1, <2>2, <2>3
<1> QED BY <1>5, <1>6

-----------------------------------------------------------------------------
(* What a session keeps while others take their steps.                      *)

LEMMA OthersKeep ==
    ASSUME TypeOK, [Next]_vars, NEW s \in Sessions
    PROVE  \/ Session(s)
           \/ /\ spc'[s] = spc[s] /\ next'[s] = next[s] /\ gap'[s] = gap[s]
              /\ buffered'[s] = buffered[s] /\ out'[s] = out[s]
              /\ open'[s] \subseteq open[s]
              /\ spc[s] \notin {"replaying", "streaming"} => open'[s] = open[s]
<1> DEFINE Q == /\ spc'[s] = spc[s] /\ next'[s] = next[s] /\ gap'[s] = gap[s]
                /\ buffered'[s] = buffered[s] /\ out'[s] = out[s]
                /\ open'[s] \subseteq open[s]
                /\ spc[s] \notin {"replaying", "streaming"} => open'[s] = open[s]
<1> USE DEF TypeOK, Readers
<1>1. ASSUME NEW t \in Sessions, t # s, Lock(t) \/ Unlock(t) \/ Replay(t) \/ Replayed(t) \/ Hangup(t)
      PROVE  Q
  BY <1>1 DEF Lock, Unlock, Replay, Replayed, Hangup
<1>2. ASSUME NEW t \in Sessions, t # s, NEW i \in Ifaces, NewEthernetHandle(t, i) \/ Stream(t, i) \/ Done(t, i)
      PROVE  Q
  BY <1>2 DEF NewEthernetHandle, Stream, Done
<1>3. ASSUME NEW i \in Ifaces, Arrive(i) \/ MainHandle(i) \/ Receive(i) PROVE Q
  BY <1>3, MainAssumption DEF Arrive, MainHandle, Receive
<1>4. CASE writePacket \/ UNCHANGED vars
  BY <1>4 DEF writePacket, vars
<1>5. ASSUME NEW r \in Readers, NEW i \in Ifaces, NextPacketFails(r, i) PROVE Q
  BY <1>5, MainAssumption DEF NextPacketFails
<1>6. SUFFICES ASSUME ~ Session(s) PROVE Q
  OBVIOUS
<1>7. ASSUME NEW t \in Sessions, Session(t) PROVE Q
  BY <1>1, <1>2, <1>6, <1>7 DEF Session
<1> HIDE DEF TypeOK, Readers
<1> QED BY <1>3, <1>4, <1>5, <1>7 DEF Next

\* The main goroutine opens its sockets before it records anything, and may lose them later.
LEMMA MainSockets ==
    ASSUME TypeOK, [Next]_vars
    PROVE  \/ \E i \in Ifaces : MainHandle(i)
           \/ open'[Main] \subseteq open[Main] /\ ready' = ready
<1> DEFINE Q == open'[Main] \subseteq open[Main] /\ ready' = ready
<1> USE DEF TypeOK, Readers
<1>1. ASSUME NEW t \in Sessions, Lock(t) \/ Unlock(t) \/ Replay(t) \/ Replayed(t) \/ Hangup(t)
      PROVE  Q
  BY <1>1 DEF Lock, Unlock, Replay, Replayed, Hangup
<1>2. ASSUME NEW t \in Sessions, NEW i \in Ifaces, NewEthernetHandle(t, i) \/ Stream(t, i) \/ Done(t, i)
      PROVE  Q
  BY <1>2, MainAssumption DEF NewEthernetHandle, Stream, Done
<1>3. ASSUME NEW i \in Ifaces, Arrive(i) \/ Receive(i) PROVE Q
  BY <1>3 DEF Arrive, Receive
<1>4. CASE writePacket \/ UNCHANGED vars
  BY <1>4 DEF writePacket, vars
<1>5. ASSUME NEW r \in Readers, NEW i \in Ifaces, NextPacketFails(r, i) PROVE Q
  BY <1>5 DEF NextPacketFails
<1>6. SUFFICES ASSUME ~ \E i \in Ifaces : MainHandle(i) PROVE Q
  OBVIOUS
<1> HIDE DEF TypeOK, Readers
<1> QED BY <1>1, <1>2, <1>3, <1>4, <1>5, <1>6 DEF Next, Session

LEMMA NextAheadOfRing ==
    ASSUME TypeOK, Mutex, Filled, InLine, AheadOfRing, AheadOfOut, [Next]_vars
    PROVE  AheadOfRing'
<1> SUFFICES ASSUME NEW s \in Sessions, spc'[s] = "locked" PROVE RingBehind(s)'
  BY DEF AheadOfRing
<1>1. CASE Lock(s)
  <2>1. open[s] = {} /\ open' = open
    BY <1>1 DEF Lock, AheadOfOut, Ordered
  <2> QED BY <2>1 DEF RingBehind
<1>2. ASSUME NEW i \in Ifaces, NewEthernetHandle(s, i) PROVE RingBehind(s)'
  <2>1. RingBehind(s)
    BY <1>2 DEF NewEthernetHandle, AheadOfRing
  <2> QED BY <1>2, <2>1, NewHandleBehind
<1>3. CASE Unlock(s) \/ Replay(s) \/ Replayed(s) \/ Hangup(s)
  BY <1>3 DEF Unlock, Replay, Replayed, Hangup, TypeOK
<1>4. ASSUME NEW i \in Ifaces, Stream(s, i) \/ Done(s, i) PROVE FALSE
  BY <1>4 DEF Stream, Done
<1>5. CASE /\ spc'[s] = spc[s] /\ next'[s] = next[s] /\ gap'[s] = gap[s]
           /\ spc[s] \notin {"replaying", "streaming"} => open'[s] = open[s]
  <2>1. spc[s] = "locked" /\ open'[s] = open[s] /\ RingBehind(s)
    BY <1>5 DEF AheadOfRing
  <2>2. lock # Nobody
    BY <2>1, MainAssumption DEF Mutex
  <2>3. UNCHANGED <<ring, pos>>
    <3>1. ASSUME NEW i \in Ifaces, MainHandle(i) \/ Receive(i) PROVE UNCHANGED <<ring, pos>>
      BY <3>1 DEF MainHandle, Receive
    <3>2. ~ writePacket
      BY <2>2 DEF writePacket
    <3> QED BY <3>1, <3>2, MainMoves
  <2>4. CASE open'[Main] \subseteq open[Main]
    BY <1>5, <2>1, <2>3, <2>4, StaysBehind
  <2>5. ASSUME NEW i \in Ifaces, MainHandle(i) PROVE RingBehind(s)'
    <3>1. \A k \in 1 .. Size : Do[k] = None
      BY <2>5, DoType, SizeAssumption DEF MainHandle, Filled
    <3>2. Do' = Do
      BY <2>3, SameRing
    <3> QED BY <3>1, <3>2 DEF RingBehind
  <2> QED BY <2>4, <2>5, MainSockets
<1> QED BY <1>1, <1>2, <1>3, <1>4, <1>5, OthersKeep DEF Session

-----------------------------------------------------------------------------
(* What a session writes.                                                   *)

LEMMA PacketsInOrder ==
    ASSUME TypeOK, Filled, InLine
    PROVE  InOrder(packetsLocked)
<1>1. PICK e \in 0 .. Size : \A k \in 1 .. Size : Do[k] = None <=> k <= e
  BY DEF Filled
<1>2. /\ packetsLocked = [j \in 1 .. Size - e |-> Do[e + j]]
      /\ \A j \in 1 .. Size - e : e + j \in 1 .. Size /\ Do[e + j] \in Packet
  BY <1>1, PacketsAre
<1> SUFFICES ASSUME NEW k \in 1 .. Size - e, NEW j \in 1 .. k - 1, Do[e + j].iface = Do[e + k].iface
             PROVE  Do[e + j].n < Do[e + k].n
  <2>1. \A k \in 1 .. Size - e : \A j \in 1 .. k - 1 : j \in 1 .. Size - e
    BY SizeAssumption
  <2> QED BY <1>2, <2>1 DEF InOrder
<1>3. e + k \in 1 .. Size + 1 /\ e + j \in 1 .. (e + k) - 1 /\ e + j \in 1 .. Size /\ e + k \in 1 .. Size
  BY SizeAssumption
<1>4. Line[e + k] = Do[e + k] /\ Line[e + j] = Do[e + j] /\ Line[e + k] # None
  BY <1>2, <1>3, DoType, NoneIsNoPacket
<1> QED BY <1>3, <1>4 DEF InLine

LEMMA PacketsBehind ==
    ASSUME TypeOK, Filled, NEW s \in Sessions, RingBehind(s), open[s] = Ifaces
    PROVE  \A k \in DOMAIN packetsLocked : packetsLocked[k].n < next[s][packetsLocked[k].iface]
<1>1. PICK e \in 0 .. Size : \A k \in 1 .. Size : Do[k] = None <=> k <= e
  BY DEF Filled
<1>2. /\ packetsLocked = [j \in 1 .. Size - e |-> Do[e + j]]
      /\ \A j \in 1 .. Size - e : e + j \in 1 .. Size /\ Do[e + j] \in Packet
  BY <1>1, PacketsAre
<1> SUFFICES ASSUME NEW k \in 1 .. Size - e PROVE Do[e + k].n < next[s][Do[e + k].iface]
  BY <1>2
<1>3. e + k \in 1 .. Size /\ Do[e + k] # None /\ Do[e + k].iface \in open[s]
  BY <1>2, NoneIsNoPacket DEF Packet
<1> QED BY <1>3 DEF RingBehind

LEMMA NextAheadOfOut ==
    ASSUME TypeOK, Filled, InLine, AheadOfRing, AheadOfOut, [Next]_vars
    PROVE  AheadOfOut'
<1> SUFFICES ASSUME NEW s \in Sessions PROVE Ordered(s)'
  BY DEF AheadOfOut
<1>0. /\ Ordered(s)
      /\ buffered[s] \in Seq(Packet) /\ out[s] \in Seq(Packet)
      /\ next[s] \in [Ifaces -> Nat \ {0}]
  BY DEF AheadOfOut, TypeOK, Readers
<1>1. CASE Lock(s)
  BY <1>0, <1>1 DEF Lock, Ordered, TypeOK
<1>2. ASSUME NEW i \in Ifaces, NewEthernetHandle(s, i) PROVE Ordered(s)'
  BY <1>0, <1>2 DEF NewEthernetHandle, Ordered, TypeOK
<1>3. CASE Unlock(s)
  <2>1. spc'[s] = "ended" \/ (spc'[s] = "replaying" /\ open[s] = Ifaces)
    BY <1>3 DEF Unlock, TypeOK
  <2>2. buffered'[s] = packetsLocked /\ out'[s] = <<>> /\ next' = next /\ RingBehind(s)
    BY <1>0, <1>3 DEF Unlock, TypeOK, Ordered, AheadOfRing
  <2>3. InOrder(packetsLocked)
    BY PacketsInOrder
  <2>4. open[s] = Ifaces =>
            \A k \in DOMAIN packetsLocked : packetsLocked[k].n < next[s][packetsLocked[k].iface]
    BY <2>2, PacketsBehind
  <2> QED BY <2>1, <2>2, <2>3, <2>4 DEF Ordered
<1>4. CASE Replay(s)
  <2> DEFINE b == buffered[s]
             o == out[s]
  <2>1. /\ spc'[s] = "replaying" /\ next' = next /\ b # <<>>
        /\ buffered'[s] = Tail(b) /\ out'[s] = Append(o, Head(b))
    BY <1>4 DEF Replay, TypeOK
  <2>2. /\ InOrder(b)
        /\ \A j \in DOMAIN o : o[j].n < next[s][o[j].iface]
        /\ \A k \in DOMAIN b : b[k].n < next[s][b[k].iface]
        /\ \A j \in DOMAIN o, k \in DOMAIN b : o[j].iface = b[k].iface => o[j].n < b[k].n
    BY <1>0, <1>4 DEF Replay, Ordered
  <2> HIDE DEF b, o
  <2>3. /\ b \in Seq(Packet) /\ Len(b) \in Nat \ {0} /\ DOMAIN b = 1 .. Len(b)
        /\ DOMAIN Tail(b) = 1 .. Len(b) - 1 /\ \A k \in 1 .. Len(b) - 1 : Tail(b)[k] = b[k + 1]
        /\ Head(b) = b[1]
    BY <1>0, <2>1 DEF b
  <2>4. /\ DOMAIN Append(o, Head(b)) = 1 .. Len(o) + 1 /\ Len(o) \in Nat /\ DOMAIN o = 1 .. Len(o)
        /\ \A j \in 1 .. Len(o) : Append(o, Head(b))[j] = o[j]
        /\ Append(o, Head(b))[Len(o) + 1] = b[1]
    BY <1>0, <2>3 DEF o
  <2>5. InOrder(Tail(b))
    <3> SUFFICES ASSUME NEW k \in 1 .. Len(b) - 1, NEW j \in 1 .. k - 1, b[j + 1].iface = b[k + 1].iface
                 PROVE  b[j + 1].n < b[k + 1].n
      BY <2>3 DEF InOrder
    <3>1. k + 1 \in DOMAIN b /\ j + 1 \in 1 .. (k + 1) - 1
      BY <2>3
    <3> QED BY <2>2, <3>1 DEF InOrder
  <2>6. \A j \in 1 .. Len(o) + 1 : Append(o, Head(b))[j].n < next[s][Append(o, Head(b))[j].iface]
    BY <2>2, <2>3, <2>4
  <2>7. \A k \in 1 .. Len(b) - 1 : k + 1 \in DOMAIN b /\ 1 \in 1 .. (k + 1) - 1
    BY <2>3
  <2>8. \A k \in DOMAIN Tail(b) : Tail(b)[k].n < next[s][Tail(b)[k].iface]
    BY <2>2, <2>3, <2>7
  <2>9. \A j \in 1 .. Len(o) + 1, k \in 1 .. Len(b) - 1 :
           Append(o, Head(b))[j].iface = b[k + 1].iface => Append(o, Head(b))[j].n < b[k + 1].n
    <3> TAKE j \in 1 .. Len(o) + 1, k \in 1 .. Len(b) - 1
    <3>1. CASE j \in 1 .. Len(o)
      BY <2>2, <2>4, <2>7, <3>1
    <3>2. CASE j = Len(o) + 1
      BY <2>2, <2>4, <2>7, <3>2 DEF InOrder
    <3> QED BY <2>4, <3>1, <3>2
  <2> QED BY <2>1, <2>3, <2>4, <2>5, <2>6, <2>8, <2>9 DEF Ordered
<1>5. CASE Replayed(s)
  BY <1>0, <1>5 DEF Replayed, Ordered, TypeOK
<1>6. ASSUME NEW i \in Ifaces, Stream(s, i) PROVE Ordered(s)'
  <2> DEFINE o == out[s]
             new == [iface |-> i, n |-> next[s][i]]
  <2>1. /\ spc[s] = "streaming" /\ spc'[s] = "streaming" /\ buffered[s] = <<>> /\ buffered'[s] = <<>>
        /\ out'[s] = Append(o, new)
        /\ next'[s][i] = next[s][i] + 1
        /\ \A f \in Ifaces : f # i => next'[s][f] = next[s][f]
    BY <1>0, <1>6 DEF Stream, TypeOK, Ordered, Readers
  <2>2. \A j \in DOMAIN o : o[j].n < next[s][o[j].iface]
    BY <1>0, <2>1 DEF Ordered
  <2>3. new.iface = i /\ new.n = next[s][i]
    OBVIOUS
  <2> HIDE DEF o, new
  <2>4. /\ DOMAIN Append(o, new) = 1 .. Len(o) + 1 /\ Len(o) \in Nat /\ DOMAIN o = 1 .. Len(o)
        /\ \A j \in 1 .. Len(o) : Append(o, new)[j] = o[j] /\ o[j] \in Packet
        /\ Append(o, new)[Len(o) + 1] = new
    BY <1>0 DEF o
  <2>5. \A j \in 1 .. Len(o) + 1 : Append(o, new)[j].n < next'[s][Append(o, new)[j].iface]
    <3> TAKE j \in 1 .. Len(o) + 1
    <3>1. CASE j = Len(o) + 1
      BY <1>0, <2>1, <2>3, <2>4, <3>1
    <3>2. CASE j \in 1 .. Len(o)
      <4>1. /\ o[j].n < next[s][o[j].iface] /\ next[s][o[j].iface] \in Nat
            /\ o[j].iface \in Ifaces /\ o[j].n \in Nat
        BY <1>0, <2>2, <2>4, <3>2, SizeAssumption DEF Packet
      <4> QED BY <2>1, <2>4, <3>2, <4>1
    <3> QED BY <2>4, <3>1, <3>2
  <2> QED BY <2>1, <2>4, <2>5 DEF Ordered, InOrder
<1>7. CASE Hangup(s)
  BY <1>0, <1>7 DEF Hangup, Ordered, TypeOK
<1>8. ASSUME NEW i \in Ifaces, Done(s, i) PROVE Ordered(s)'
  BY <1>0, <1>8 DEF Done, Ordered, TypeOK
<1>9. CASE /\ spc'[s] = spc[s] /\ next'[s] = next[s]
           /\ buffered'[s] = buffered[s] /\ out'[s] = out[s] /\ open'[s] \subseteq open[s]
  BY <1>0, <1>9 DEF Ordered
<1> QED BY <1>1, <1>2, <1>3, <1>4, <1>5, <1>6, <1>7, <1>8, <1>9, OthersKeep DEF Session

\* A packet that is later than all before it keeps a sequence in order.
LEMMA AppendInOrder ==
    ASSUME NEW q \in Seq(Packet), InOrder(q), NEW p \in Packet,
           \A j \in DOMAIN q : q[j].iface = p.iface => q[j].n < p.n
    PROVE  InOrder(Append(q, p))
<1>1. /\ DOMAIN Append(q, p) = 1 .. Len(q) + 1 /\ Len(q) \in Nat /\ DOMAIN q = 1 .. Len(q)
      /\ \A j \in 1 .. Len(q) : Append(q, p)[j] = q[j]
      /\ Append(q, p)[Len(q) + 1] = p
  OBVIOUS
<1> SUFFICES ASSUME NEW k \in 1 .. Len(q) + 1, NEW j \in 1 .. k - 1,
                    Append(q, p)[j].iface = Append(q, p)[k].iface
             PROVE  Append(q, p)[j].n < Append(q, p)[k].n
  BY <1>1 DEF InOrder
<1>2. j \in 1 .. Len(q)
  BY <1>1
<1>3. CASE k = Len(q) + 1
  BY <1>1, <1>2, <1>3
<1>4. CASE k \in 1 .. Len(q)
  BY <1>1, <1>2, <1>4 DEF InOrder
<1> QED BY <1>1, <1>3, <1>4

LEMMA NextNoPacketTwice ==
    ASSUME TypeOK, AheadOfOut, NoPacketTwice, [Next]_vars
    PROVE  NoPacketTwice'
<1> SUFFICES ASSUME NEW s \in Sessions PROVE InOrder(out'[s])
  BY DEF NoPacketTwice, InOrder
<1>0. /\ InOrder(out[s]) /\ Ordered(s)
      /\ buffered[s] \in Seq(Packet) /\ out[s] \in Seq(Packet)
      /\ next[s] \in [Ifaces -> Nat \ {0}]
  BY DEF NoPacketTwice, InOrder, AheadOfOut, TypeOK, Readers
<1>1. CASE Replay(s)
  <2>1. out'[s] = Append(out[s], Head(buffered[s])) /\ buffered[s] # <<>> /\ spc[s] = "replaying"
    BY <1>1 DEF Replay, TypeOK
  <2>2. 1 \in DOMAIN buffered[s] /\ Head(buffered[s]) = buffered[s][1] /\ Head(buffered[s]) \in Packet
    BY <1>0, <2>1
  <2>3. \A j \in DOMAIN out[s] : out[s][j].iface = buffered[s][1].iface => out[s][j].n < buffered[s][1].n
    BY <1>0, <2>1, <2>2 DEF Ordered
  <2> QED BY <1>0, <2>1, <2>2, <2>3, AppendInOrder
<1>2. ASSUME NEW i \in Ifaces, Stream(s, i) PROVE InOrder(out'[s])
  <2> DEFINE new == [iface |-> i, n |-> next[s][i]]
  <2>1. out'[s] = Append(out[s], new) /\ spc[s] = "streaming"
    BY <1>2 DEF Stream, TypeOK
  <2>2. new \in Packet /\ new.iface = i /\ new.n = next[s][i]
    BY <1>2, SizeAssumption DEF Stream, Pending, Packet, TypeOK, Readers
  <2>3. \A j \in DOMAIN out[s] : out[s][j].n < next[s][out[s][j].iface]
    BY <1>0, <2>1 DEF Ordered
  <2> HIDE DEF new
  <2>4. \A j \in DOMAIN out[s] : out[s][j].iface = new.iface => out[s][j].n < new.n
    BY <2>2, <2>3
  <2> QED BY <1>0, <2>1, <2>2, <2>4, AppendInOrder
<1>3. CASE out'[s] = out[s]
  BY <1>0, <1>3
<1>4. CASE Lock(s) \/ Unlock(s) \/ Replayed(s) \/ Hangup(s)
  BY <1>3, <1>4 DEF Lock, Unlock, Replayed, Hangup
<1>5. ASSUME NEW i \in Ifaces, NewEthernetHandle(s, i) \/ Done(s, i) PROVE InOrder(out'[s])
  BY <1>3, <1>5 DEF NewEthernetHandle, Done
<1> QED BY <1>1, <1>2, <1>3, <1>4, <1>5, OthersKeep DEF Session

-----------------------------------------------------------------------------
(* What a session misses.                                                   *)

\* A session that has just copied the ring misses only what was on its way.
LEMMA UnlockGap ==
    ASSUME TypeOK, Filled, AheadOfOut, NEW s \in Sessions, RingBehind(s), Unlock(s), NEW i \in Ifaces,
           i \in open[s], i \in open[Main] \/ ~ready
    PROVE  GapOnly(s, i)'
<1>1. PICK e \in 0 .. Size : \A k \in 1 .. Size : Do[k] = None <=> k <= e
  BY DEF Filled
<1>2. /\ ToSet(packetsLocked) = {Do[k] : k \in e + 1 .. Size}
      /\ \A k \in e + 1 .. Size : k \in 1 .. Size /\ Do[k] # None
      /\ \A k \in 1 .. Size : Do[k] # None => k \in e + 1 .. Size
  <2>1. ToSet(packetsLocked) = {Do[k] : k \in e + 1 .. Size}
    BY <1>1, PacketsAre
  <2> QED BY <1>1, <2>1, SizeAssumption
<1>3. /\ buffered'[s] = packetsLocked /\ out'[s] = <<>>
      /\ next' = next /\ arrived' = arrived /\ gap' = gap
  BY DEF Unlock, TypeOK, AheadOfOut, Ordered
<1>4. Seen(s, i)' = {n \in 1 .. arrived[i] : \/ \E k \in e + 1 .. Size : Do[k] = [iface |-> i, n |-> n]
                                            \/ n >= next[s][i]}
  <2>1. ToSet(out'[s]) = {}
    BY <1>3 DEF ToSet
  <2>2. \A p : p \in ToSet(buffered'[s]) <=> \E k \in e + 1 .. Size : Do[k] = p
    BY <1>2, <1>3
  <2> QED BY <1>3, <2>1, <2>2 DEF Seen
<1>5. arrived[i] \in Nat /\ next[s][i] \in Nat
  BY SizeAssumption DEF TypeOK, Readers
<1> SUFFICES ASSUME NEW m \in Seen(s, i)', NEW n \in m .. arrived[i], n \notin gap[s][i]
             PROVE  n \in Seen(s, i)'
  BY <1>3 DEF GapOnly
<1>6. m \in 1 .. arrived[i] /\ n \in 1 .. arrived[i]
  BY <1>4, <1>5
<1>7. CASE n >= next[s][i]
  BY <1>4, <1>6, <1>7
<1>8. CASE n < next[s][i]
  <2>1. PICK k \in e + 1 .. Size : Do[k] = [iface |-> i, n |-> m]
    BY <1>4, <1>5, <1>6, <1>8
  <2>2. Do[k].iface = i /\ Do[k].n = m /\ Do[k] # None /\ k \in 1 .. Size
    BY <1>2, <2>1
  <2>3. i \in open[Main]
    BY <2>2, DoType, SizeAssumption DEF Filled
  <2>4. n \in m .. next[s][i] - 1
    BY <1>5, <1>6, <1>8
  <2>5. PICK j \in 1 .. Size : Do[j] = [iface |-> i, n |-> n]
    BY <2>2, <2>3, <2>4 DEF RingBehind
  <2>6. Do[j] # None
    BY <1>6, <2>5 DEF None
  <2> QED BY <1>2, <1>4, <1>6, <2>5, <2>6
<1> QED BY <1>5, <1>6, <1>7, <1>8

\* A session that writes a packet has seen as much as before.
LEMMA SameSeen ==
    ASSUME TypeOK, AheadOfOut, NEW s \in Sessions, NEW i \in Ifaces,
           Replay(s) \/ Replayed(s) \/ \E f \in Ifaces : Stream(s, f)
    PROVE  /\ Seen(s, i)' = Seen(s, i) /\ arrived' = arrived /\ gap' = gap
           /\ UNCHANGED <<open, ready>> /\ spc[s] \in {"replaying", "streaming"}
<1>0. buffered[s] \in Seq(Packet) /\ out[s] \in Seq(Packet)
  BY DEF TypeOK
<1>1. CASE Replayed(s)
  BY <1>1 DEF Replayed, Seen
<1>2. CASE Replay(s)
  <2> DEFINE b == buffered[s]
             o == out[s]
  <2>1. /\ next' = next /\ arrived' = arrived /\ gap' = gap /\ b # <<>>
        /\ buffered'[s] = Tail(b) /\ out'[s] = Append(o, Head(b))
        /\ UNCHANGED <<open, ready>> /\ spc[s] \in {"replaying", "streaming"}
    BY <1>2 DEF Replay, TypeOK
  <2> HIDE DEF b, o
  <2>2. ToSet(Append(o, Head(b))) = ToSet(o) \cup {b[1]}
    <3>1. Head(b) = b[1] /\ Head(b) \in Packet
      BY <1>0, <2>1 DEF b
    <3> QED BY <1>0, <3>1, AppendIs DEF o
  <2>3. ToSet(b) = {b[1]} \cup ToSet(Tail(b))
    BY <1>0, <2>1, TailIs DEF b
  <2>4. ToSet(out'[s]) \cup ToSet(buffered'[s]) = ToSet(out[s]) \cup ToSet(buffered[s])
    BY <2>1, <2>2, <2>3 DEF b, o
  <2> QED BY <2>1, <2>4 DEF Seen
<1>3. ASSUME NEW f \in Ifaces, Stream(s, f)
      PROVE  /\ Seen(s, i)' = Seen(s, i) /\ arrived' = arrived /\ gap' = gap
             /\ UNCHANGED <<open, ready>> /\ spc[s] \in {"replaying", "streaming"}
  <2> DEFINE o == out[s]
             new == [iface |-> f, n |-> next[s][f]]
  <2>1. /\ out'[s] = Append(o, new) /\ buffered' = buffered
        /\ arrived' = arrived /\ gap' = gap /\ next[s][f] \in 1 .. arrived[f]
        /\ next'[s][f] = next[s][f] + 1
        /\ \A j \in Ifaces : j # f => next'[s][j] = next[s][j]
        /\ UNCHANGED <<open, ready>> /\ spc[s] \in {"replaying", "streaming"}
    <3>1. s \in Readers /\ Pending(s, f) /\ next' = [next EXCEPT ![s][f] = next[s][f] + 1]
      BY <1>3 DEF Stream, Readers
    <3>2. next[s][f] + 1 \in Nat \ {0} /\ next[s][f] + 1 <= arrived[f] + 1 /\ next[s][f] \in 1 .. arrived[f]
      <4>1. next[s][f] \in Nat \ {0} /\ arrived[f] \in 0 .. MaxArrived /\ s \in Readers
        BY <3>1, NextAt, Zenon
      <4>2. next[s][f] <= arrived[f]
        BY <3>1, Zenon DEF Pending
      <4> QED BY <4>1, <4>2, SizeAssumption
    <3>3. ASSUME NEW j \in Ifaces PROVE next'[s][j] = IF j = f THEN next[s][f] + 1 ELSE next[s][j]
      <4>1. next \in [Readers -> [Ifaces -> Nat \ {0}]]
        BY DEF TypeOK
      <4> QED BY <3>1, <4>1
    <3>4. out'[s] = Append(o, new)
      BY <1>3 DEF Stream, TypeOK
    <3> QED BY <1>3, <3>2, <3>3, <3>4 DEF Stream
  <2>2. ToSet(Append(o, new)) = ToSet(o) \cup {new}
    <3>1. new \in Packet
      BY <1>3, NextAt DEF Stream, Readers
    <3> HIDE DEF new
    <3> QED BY <1>0, <3>1, AppendIs
  <2>3. next[s][i] \in Nat /\ arrived[i] \in Nat
    BY SizeAssumption DEF TypeOK, Readers
  <2>4. ASSUME NEW n \in 1 .. arrived[i]
        PROVE  /\ [iface |-> i, n |-> n] = new <=> (i = f /\ n = next[s][f])
               /\ n >= next[s][i] <=> (n >= next'[s][i] \/ [iface |-> i, n |-> n] = new)
    <3>1. [iface |-> i, n |-> n] = new <=> (i = f /\ n = next[s][f])
      OBVIOUS
    <3> HIDE DEF new
    <3> QED BY <2>1, <2>3, <3>1
  <2> HIDE DEF new, o
  <2> QED BY <2>1, <2>2, <2>4 DEF Seen, o
<1> QED BY <1>1, <1>2, <1>3

\* A packet that arrives is one that the sockets of a session have yet to read.
LEMMA ArrivalGap ==
    ASSUME TypeOK, NEW s \in Sessions, NEW i \in Ifaces, GapOnly(s, i),
           arrived'[i] \in {arrived[i], arrived[i] + 1},
           next'[s] = next[s], gap'[s] = gap[s], buffered'[s] = buffered[s], out'[s] = out[s]
    PROVE  GapOnly(s, i)'
<1>1. arrived[i] \in Nat /\ next[s][i] \in Nat /\ next[s][i] <= arrived[i] + 1
  BY SizeAssumption DEF TypeOK, Readers
<1>2. Seen(s, i) \subseteq Seen(s, i)' /\ \A n \in Seen(s, i)' : n <= arrived[i] => n \in Seen(s, i)
  BY <1>1 DEF Seen
<1>3. arrived'[i] = arrived[i] + 1 => arrived[i] + 1 \in Seen(s, i)'
  BY <1>1 DEF Seen
<1>4. Seen(s, i)' \subseteq 1 .. arrived'[i] /\ arrived'[i] \in Nat
  BY <1>1 DEF Seen
<1> SUFFICES ASSUME NEW m \in Seen(s, i)', NEW n \in m .. arrived'[i]
             PROVE  n \in Seen(s, i)' \cup gap[s][i]
  BY DEF GapOnly
<1>5. CASE n <= arrived[i]
  <2>1. m \in Seen(s, i) /\ n \in m .. arrived[i]
    BY <1>1, <1>2, <1>4, <1>5
  <2> QED BY <1>2, <2>1 DEF GapOnly
<1>6. CASE n > arrived[i]
  <2>1. n = arrived[i] + 1 /\ arrived'[i] = arrived[i] + 1
    BY <1>1, <1>4, <1>6
  <2> QED BY <1>3, <2>1
<1> QED BY <1>1, <1>4, <1>5, <1>6

LEMMA Arrivals ==
    ASSUME TypeOK, [Next]_vars, NEW i \in Ifaces
    PROVE  arrived'[i] \in {arrived[i], arrived[i] + 1}
<1>1. ASSUME NEW f \in Ifaces, Arrive(f) PROVE arrived'[i] \in {arrived[i], arrived[i] + 1}
  BY <1>1 DEF Arrive, TypeOK
<1>2. ASSUME NEW f \in Ifaces, MainHandle(f) \/ Receive(f) PROVE arrived' = arrived
  BY <1>2 DEF MainHandle, Receive
<1>3. CASE writePacket \/ UNCHANGED vars
  BY <1>3 DEF writePacket, vars
<1>4. ASSUME NEW r \in Readers, NEW f \in Ifaces, NextPacketFails(r, f) PROVE arrived' = arrived
  BY <1>4 DEF NextPacketFails
<1>5. ASSUME NEW s \in Sessions, Session(s) PROVE arrived' = arrived
  BY <1>5 DEF Session, Lock, Unlock, Replay, Replayed, Hangup, NewEthernetHandle, Stream, Done
<1> QED BY <1>1, <1>2, <1>3, <1>4, <1>5 DEF Next

LEMMA NextOnlyGap ==
    ASSUME TypeOK, Filled, AheadOfRing, AheadOfOut, OnlyGapMissing, [Next]_vars
    PROVE  OnlyGapMissing'
<1> SUFFICES ASSUME NEW s \in Sessions, NEW i \in Ifaces,
                    spc'[s] \in {"replaying", "streaming"},
                    i \in open'[s],
                    i \in open'[Main] \/ ~ready'
             PROVE  GapOnly(s, i)'
  BY DEF OnlyGapMissing
<1>1. CASE Unlock(s)
  <2>1. RingBehind(s) /\ i \in open[s] /\ (i \in open[Main] \/ ~ready)
    BY <1>1 DEF Unlock, AheadOfRing
  <2> QED BY <1>1, <2>1, UnlockGap
<1>2. CASE Replay(s) \/ Replayed(s) \/ \E f \in Ifaces : Stream(s, f)
  <2>1. /\ Seen(s, i)' = Seen(s, i) /\ arrived' = arrived /\ gap' = gap
        /\ UNCHANGED <<open, ready>> /\ spc[s] \in {"replaying", "streaming"}
    BY <1>2, SameSeen
  <2>2. GapOnly(s, i)
    BY <2>1 DEF OnlyGapMissing
  <2> QED BY <2>1, <2>2 DEF GapOnly
<1>3. CASE Lock(s) \/ Hangup(s)
  BY <1>3 DEF Lock, Hangup, TypeOK
<1>4. ASSUME NEW f \in Ifaces, NewEthernetHandle(s, f) \/ Done(s, f) PROVE FALSE
  BY <1>4 DEF NewEthernetHandle, Done
<1>5. CASE /\ spc'[s] = spc[s] /\ next'[s] = next[s] /\ gap'[s] = gap[s]
           /\ buffered'[s] = buffered[s] /\ out'[s] = out[s]
           /\ open'[s] \subseteq open[s]
  <2>1. i \in open[Main] \/ ~ready
    <3>1. ASSUME NEW f \in Ifaces, MainHandle(f) PROVE ~ready
      BY <3>1 DEF MainHandle
    <3> QED BY <3>1, MainSockets
  <2>2. GapOnly(s, i)
    BY <1>5, <2>1 DEF OnlyGapMissing
  <2> QED BY <1>5, <2>2, Arrivals, ArrivalGap
<1> QED BY <1>1, <1>2, <1>3, <1>4, <1>5, OthersKeep DEF Session

-----------------------------------------------------------------------------
(* The theorems.                                                            *)

LEMMA InitInv == Init => IInv
<1> SUFFICES ASSUME Init PROVE IInv
  OBVIOUS
<1>1. TypeOK
  BY InitType
<1>2. \A k \in 1 .. Size : Do[k] = None
  <2> TAKE k \in 1 .. Size
  <2>1. pos + k - 1 \in 0 .. Size + Size - 1
    BY SizeAssumption DEF Init
  <2>2. (pos + k - 1) % Size \in 0 .. Size - 1
    BY <2>1, Mod, SizeAssumption
  <2> QED BY <2>2 DEF Do, Init
<1>3. \A k \in 1 .. Size + 1 : Line[k] = None
  BY <1>2, SizeAssumption DEF Line, Init
<1>4. Filled
  <2>1. Size \in 0 .. Size
    BY SizeAssumption
  <2> QED BY <1>2, <1>3, <2>1 DEF Filled
<1>5. InLine
  BY <1>3 DEF InLine
<1>6. Mutex /\ AheadOfRing
  BY MainAssumption DEF Init, Mutex, AheadOfRing
<1>7. AheadOfOut
  BY DEF Init, AheadOfOut, Ordered, Readers
<1>8. NoPacketTwice /\ OnlyGapMissing
  BY DEF Init, NoPacketTwice, OnlyGapMissing
<1> QED BY <1>1, <1>4, <1>5, <1>6, <1>7, <1>8 DEF IInv

\* The packets line up in order from the wire to the ring and to the sessions, whatever the
\* interleaving of main goroutine and sessions (captured.go:89-104, ssh.go:85-115).
THEOREM CaptureInductive == Spec => []IInv
<1>1. IInv /\ [Next]_vars => IInv'
  BY NextType, NextFilled, NextInLine, NextMutex, NextAheadOfRing, NextAheadOfOut,
     NextNoPacketTwice, NextOnlyGap DEF IInv
<1> QED BY <1>1, InitInv, PTL DEF Spec

\* No packet is replayed and then captured again by a session (ssh.go:85-88).
THEOREM CaptureNoPacketTwice == Spec => []NoPacketTwice
<1>1. IInv => NoPacketTwice
  BY DEF IInv
<1> QED BY <1>1, CaptureInductive, PTL

\* Between its replay and its sockets a session misses only what was read from the main goroutine's
\* sockets or was waiting there, and not in the ring, when it opened its own (ssh.go:85-88).
THEOREM CaptureOnlyUnrecordedMissing == Spec => []OnlyUnrecordedMissing
<1>1. IInv => OnlyUnrecordedMissing
  BY DEF IInv, OnlyUnrecordedMissing, OnlyGapMissing, GapOnly
<1> QED BY <1>1, CaptureInductive, PTL

-----------------------------------------------------------------------------
(* The ring implements the history of the last packets.                     *)

LEMMA InitHistory == Init => History!Init
<1> SUFFICES ASSUME Init PROVE packetsLocked = <<>>
  BY DEF History!Init
<1>1. TypeOK /\ Filled
  BY InitInv DEF IInv
<1>2. PICK e \in 0 .. Size : \A k \in 1 .. Size : Do[k] = None <=> k <= e
  BY <1>1 DEF Filled
<1>3. Do[Size] = None
  <2>1. \A k \in 1 .. Size + 1 : Line[k] = None
    BY <1>1 DEF Filled, Init
  <2> QED BY <1>1, <2>1, DoType, SizeAssumption
<1>4. e = Size
  BY <1>2, <1>3, SizeAssumption
<1>5. packetsLocked = [j \in 1 .. Size - e |-> Do[e + j]]
  BY <1>1, <1>2, PacketsAre
<1>6. Size - e = 0
  BY <1>4, SizeAssumption
<1> QED BY <1>5, <1>6

LEMMA RecordStep ==
    ASSUME TypeOK, Filled, TypeOK', writePacket
    PROVE  History!Record(held)
<1>0. Size \in Nat /\ Size >= 1
  BY SizeAssumption
<1>1. PICK e \in 0 .. Size : \A k \in 1 .. Size : Do[k] = None <=> k <= e
  BY DEF Filled
<1> DEFINE d == IF e = 0 THEN 0 ELSE e - 1
           longer == Append(packetsLocked, held)
<1>2. /\ packetsLocked = [j \in 1 .. Size - e |-> Do[e + j]]
      /\ packetsLocked \in Seq(Packet)
  BY <1>1, PacketsAre
<1>3. d \in 0 .. Size
  BY <1>0
<1>4. \A k \in 1 .. Size : Do'[k] = Line[k + 1]
  BY writePacketShifts
<1>5. \A k \in 1 .. Size : Line[k] = Do[k]
  BY DoType
<1>6. Line[Size + 1] = held /\ held # None
  BY DoType DEF writePacket
<1>7. ASSUME NEW k \in 1 .. Size PROVE Do'[k] = None <=> k <= d
  <2>1. CASE k = Size
    BY <1>0, <1>4, <1>6, <2>1
  <2>2. CASE k # Size
    <3>1. k + 1 \in 1 .. Size /\ Do'[k] = Do[k + 1]
      BY <1>0, <1>4, <1>5, <2>2
    <3> QED BY <1>0, <1>1, <3>1
  <2> QED BY <2>1, <2>2
<1>8. Do' \in [1 .. Size -> Slot]
  <2>1. \A k \in 1 .. Size : k + 1 \in 1 .. Size + 1
    BY <1>0
  <2>2. Line \in [1 .. Size + 1 -> Slot]
    BY DoType
  <2>3. Do' = [k \in 1 .. Size |-> Do'[k]]
    BY DEF Do
  <2> QED BY <1>4, <2>1, <2>2, <2>3
<1>9. packetsLocked' = [j \in 1 .. Size - d |-> Do'[d + j]]
  <2> HIDE DEF d
  <2>1. Appended(Do') = [j \in 1 .. Size - d |-> Do'[d + j]]
    BY <1>3, <1>7, <1>8, AppendedIsSuffix
  <2> QED BY <2>1 DEF packetsLocked
<1>10. longer = [j \in 1 .. Size - e + 1 |-> Line[e + j]]
  <2>1. Len(packetsLocked) = Size - e
    BY <1>0, <1>2
  <2>2. longer = [j \in 1 .. Size - e + 1 |-> IF j = Size - e + 1 THEN held ELSE packetsLocked[j]]
    <3>1. held \in Packet
      BY <1>6 DEF TypeOK
    <3>2. longer = [j \in 1 .. Len(packetsLocked) + 1 |->
                      IF j = Len(packetsLocked) + 1 THEN held ELSE packetsLocked[j]]
      <4>1. packetsLocked \in Seq(Packet)
        BY <1>2
      <4>2. \A q \in Seq(Packet), p \in Packet :
               Append(q, p) = [j \in 1 .. Len(q) + 1 |-> IF j = Len(q) + 1 THEN p ELSE q[j]]
        BY AppendIs
      <4> QED BY <3>1, <4>1, <4>2, Zenon
    <3> QED BY <2>1, <3>2
  <2>3. \A j \in 1 .. Size - e + 1 :
           (IF j = Size - e + 1 THEN held ELSE packetsLocked[j]) = Line[e + j]
    <3> TAKE j \in 1 .. Size - e + 1
    <3>1. CASE j = Size - e + 1
      BY <1>0, <1>6, <3>1
    <3>2. CASE j # Size - e + 1
      <4>1. j \in 1 .. Size - e /\ e + j \in 1 .. Size
        BY <1>0, <3>2
      <4> QED BY <1>2, <1>5, <3>2, <4>1
    <3> QED BY <3>1, <3>2
  <2> QED BY <2>2, <2>3
<1>11. longer \in Seq(Packet) /\ Len(longer) = Size - e + 1
  <2>1. held \in Packet
    BY <1>6 DEF TypeOK
  <2>2. longer \in Seq(Packet)
    BY <1>2, <2>1
  <2> HIDE DEF longer
  <2> QED BY <1>0, <1>10, <2>2
<1>12. \A j \in 1 .. Size - d : d + j \in 1 .. Size /\ Do'[d + j] = Line[d + j + 1]
  BY <1>0, <1>4
<1>13. CASE e = 0
  <2>1. Tail(longer) = [j \in 1 .. Size |-> longer[j + 1]]
    <3> HIDE DEF longer
    <3>1. longer # <<>> /\ Len(longer) - 1 = Size
      BY <1>0, <1>11, <1>13
    <3> QED BY <1>11, <3>1, TailIs
  <2>2. packetsLocked' = Tail(longer)
    BY <1>0, <1>9, <1>10, <1>12, <1>13, <2>1
  <2>3. Len(longer) > Size
    BY <1>0, <1>11, <1>13
  <2> QED BY <2>2, <2>3 DEF History!Record
<1>14. CASE e # 0
  <2>1. Size - d = Size - e + 1 /\ \A j \in 1 .. Size - d : d + j + 1 = e + j
    BY <1>0, <1>14
  <2>2. packetsLocked' = longer
    BY <1>9, <1>10, <1>12, <2>1
  <2>3. ~ (Len(longer) > Size)
    BY <1>0, <1>11, <1>14
  <2> QED BY <2>2, <2>3 DEF History!Record
<1> QED BY <1>13, <1>14

\* Every step of captured records one packet in the history or leaves it alone: the ring is the last
\* Size packets recorded, oldest first (captured.go:78-104).
THEOREM CaptureKeepsTheLast == Spec => KeepsTheLast
<1>1. ASSUME IInv, IInv', [Next]_vars PROVE [History!Next]_packetsLocked
  <2>1. CASE writePacket
    <3>1. held \in Packet
      BY <1>1, <2>1 DEF writePacket, IInv, TypeOK
    <3>2. History!Record(held)
      BY <1>1, <2>1, RecordStep DEF IInv
    <3> QED BY <3>1, <3>2 DEF History!Next
  <2>2. CASE UNCHANGED <<ring, pos>>
    BY <2>2, SameRing
  <2>3. ASSUME NEW i \in Ifaces, MainHandle(i) \/ Receive(i) PROVE UNCHANGED <<ring, pos>>
    BY <2>3 DEF MainHandle, Receive
  <2> QED BY <1>1, <2>1, <2>2, <2>3, MainMoves DEF IInv
<1> QED BY <1>1, InitHistory, CaptureInductive, PTL DEF Spec, KeepsTheLast, History!Spec
===============================================================================
