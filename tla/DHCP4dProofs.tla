---------------------------- MODULE DHCP4dProofs ----------------------------
(***************************************************************************)
(* Proofs about DHCP4d, for every number of clients, size of the pool,     *)
(* lease periods, names and initial leases.json, and without a bound on    *)
(* time other than MaxTime, whose value no proof uses.                     *)
(***************************************************************************)
EXTENDS DHCP4d, FiniteSetTheorems, TLAPS

USE DEF NoNum

\* The periods are positive numbers.
LEMMA PeriodNat == \A c \in HW : leasePeriodForDevice(c) \in Nat
BY PeriodAssumption DEF leasePeriodForDevice

\* canLease (dhcp4d.go:165-191) returns NoNum or the number asked for, which is then one of
\* the pool and available or the client's own.
LEMMA CanLeaseResult ==
    ASSUME NEW asked, NEW hw
    PROVE  /\ canLease(asked, hw) \in Nums \cup {NoNum}
           /\ canLease(asked, hw) # NoNum => /\ asked \in Nums
                                             /\ canLease(asked, hw) = asked
                                             /\ Available(asked) \/ leasesIP[asked].hw = hw
BY DEF canLease, Nums

\* leaseHW (dhcp4d.go:242-251) returns NoNum or the number of a lease of that client.
LEMMA LeaseHWResult ==
    ASSUME TypeOK, NEW hw \in HW
    PROVE  /\ leaseHW(hw) \in Nums \cup {NoNum}
           /\ leaseHW(hw) # NoNum => /\ leaseHW(hw) \in Nums
                                     /\ leasesIP[leaseHW(hw)].hw = hw
BY DEF leaseHW, TypeOK, Nums

\* The numbers of offers (dhcp4d.go:281-304) are numbers of the pool, or NoNum.
LEMMA OffersResult ==
    ASSUME TypeOK, NEW hw \in HW, NEW asked
    PROVE  Offers(hw, asked) \subseteq Nums \cup {NoNum}
BY LeaseHWResult, CanLeaseResult DEF Offers, findLease

\* The index that SetLeases (dhcp4d.go:114-123) builds has the type of leasesHW, and finds
\* every lease if there is at most one per client.
LEMMA IndexOfResult ==
    ASSUME NEW leases \in [Nums -> Lease]
    PROVE  /\ IndexOf(leases) \in [HW -> Nums \cup {NoNum}]
           /\ (\A m, n \in Nums : leases[m].hw = leases[n].hw /\ leases[m].hw # NoHW => m = n)
              => \A c \in HW, n \in Nums : leases[n].hw = c => IndexOf(leases)[c] = n
<1>1. IndexOf(leases) \in [HW -> Nums \cup {NoNum}]
  BY DEF IndexOf
<1>2. ASSUME \A m, n \in Nums : leases[m].hw = leases[n].hw /\ leases[m].hw # NoHW => m = n,
             NEW c \in HW, NEW n \in Nums, leases[n].hw = c
      PROVE  IndexOf(leases)[c] = n
  <2>1. IndexOf(leases)[c] = CHOOSE m \in Nums : leases[m].hw = c
    BY <1>2 DEF IndexOf
  <2>2. (CHOOSE m \in Nums : leases[m].hw = c) \in Nums
        /\ leases[CHOOSE m \in Nums : leases[m].hw = c].hw = c
    BY <1>2
  <2> QED
    BY <1>2, <2>1, <2>2, HWAssumption
<1> QED
  BY <1>1, <1>2

\* A rename that races with a request (dhcp4d.go:139-142, 337-339) disturbs only the names
\* that the request copies.
LEMMA HostnameRaces ==
    ASSUME TypeOK, NEW hw, NEW name \in Hostnames, SetHostname(hw, name)
    PROVE  /\ req' \in Request
           /\ req'.hw = req.hw /\ req'.num = req.num /\ req'.old = req.old
           /\ req'.expiry = req.expiry /\ req'.until = req.until
<1>1. req \in Request
  BY DEF TypeOK
<1>2. {req.override, name, Garbled} \ {NoName} \subseteq Names
  BY <1>1 DEF Request, Names
<1>3. \/ req' = req
      \/ \E h, o \in Names : req' = [req EXCEPT !.hostname = h, !.override = o]
      \/ \E h \in Names : req' = [req EXCEPT !.hostname = h]
  BY <1>2 DEF SetHostname, CopyRaces, Names
<1>4. CASE req' = req
  BY <1>1, <1>4
<1>5. CASE \E h, o \in Names : req' = [req EXCEPT !.hostname = h, !.override = o]
  <2>1. PICK h \in Names, o \in Names : req' = [req EXCEPT !.hostname = h, !.override = o]
    BY <1>5
  <2> QED
    BY <1>1, <2>1 DEF Request
<1>6. CASE \E h \in Names : req' = [req EXCEPT !.hostname = h]
  <2>1. PICK h \in Names : req' = [req EXCEPT !.hostname = h]
    BY <1>6
  <2> QED
    BY <1>1, <2>1 DEF Request
<1> QED
  BY <1>3, <1>4, <1>5, <1>6

-----------------------------------------------------------------------------
\* The state after NewHandler and loadLeases is well typed (dhcp4d.go:70-123).
LEMMA InitType == Init => TypeOK
<1> SUFFICES ASSUME Init PROVE TypeOK
  OBVIOUS
<1>1. leasesHW \in [HW -> Nums \cup {NoNum}]
  BY IndexOfResult, InitialAssumption DEF Init
<1>2. req \in Request /\ ~(req.hw \in HW)
  BY HWAssumption DEF Init, NoRequest, Request, Names
<1>3. reply \in Reply
  BY DEF Init, NoReply, Reply
<1>4. held \in [HW -> Promise]
  BY DEF Init, NoPromise, Promise
<1> QED
  BY <1>1, <1>2, <1>3, <1>4, InitialAssumption DEF Init, TypeOK

\* So is the state after a restart (cmd/dhcp4d/dhcp4d.go:194-212).
LEMMA RestartType ==
    ASSUME TypeOK, Restart, now' = now, reply' \in Reply, held' \in [HW -> Promise],
           static' = static, intact' \in BOOLEAN
    PROVE  TypeOK'
<1>1. leasesHW' \in [HW -> Nums \cup {NoNum}]
  BY IndexOfResult DEF TypeOK, Restart
<1>2. req' \in Request /\ ~(req'.hw \in HW)
  BY HWAssumption DEF Restart, NoRequest, Request, Names
<1> QED
  BY <1>1, <1>2 DEF TypeOK, Restart

\* Every step keeps the maps, the file and the request in flight well typed.
LEMMA NextType == TypeOK /\ [Next]_vars => TypeOK'
<1> SUFFICES ASSUME TypeOK, [Next]_vars PROVE TypeOK'
  OBVIOUS
<1>0. NoReply \in Reply
  BY DEF NoReply, Reply
<1>1. CASE Tick
  BY <1>1, <1>0 DEF Tick, TypeOK
<1>2. CASE ReadOldLease
  <2>1. leaseHW(req.hw) \in Nums \cup {NoNum}
    BY <1>2, LeaseHWResult DEF ReadOldLease, TypeOK
  <2>2. leaseHW(req.hw) \in Nums => leasesIP[leaseHW(req.hw)] \in Lease
    BY DEF TypeOK
  <2>3. req' \in Request /\ req'.hw = req.hw /\ req'.num = req.num
    BY <1>2, <2>1, <2>2 DEF ReadOldLease, TypeOK, Inherit, Request, Lease
  <2> QED
    BY <1>2, <1>0, <2>3 DEF ReadOldLease, TypeOK
<1>3. CASE ReleaseOldLease
  <2>1. req.old \in Nums
    BY <1>3 DEF ReleaseOldLease, TypeOK, Request
  <2>2. NoLease \in Lease
    BY DEF NoLease, Lease, Names
  <2> QED
    BY <1>3, <1>0, <2>1, <2>2 DEF ReleaseOldLease, TypeOK
<1>4. ASSUME NEW d \in BOOLEAN, StoreLease(d) PROVE TypeOK'
  <2>1. req.hw \in HW /\ req.num \in Nums
    BY <1>4 DEF StoreLease, ReadyToStore, TypeOK
  <2>2. NewLease \in Lease
    BY <2>1 DEF NewLease, Lease, TypeOK, Request
  <2>3. req' \in Request /\ ~(req'.hw \in HW)
    BY <1>4, HWAssumption DEF StoreLease, NoRequest, Request, Names
  <2>4. reply' \in Reply
    BY <1>4, <2>1 DEF StoreLease, Acknowledge, Reply
  <2>5. held' \in [HW -> Promise]
    BY <1>4, <2>1 DEF StoreLease, Acknowledge, Promise, TypeOK, Request
  <2> QED
    BY <1>4, <2>1, <2>2, <2>3, <2>4, <2>5 DEF StoreLease, callLeasesLocked, TypeOK
<1>5. CASE StoreLeaseWriteFails
  <2>1. req.hw \in HW /\ req.num \in Nums
    BY <1>5 DEF StoreLeaseWriteFails, ReadyToStore, TypeOK
  <2>2. reply' \in Reply
    BY <1>5, <2>1 DEF StoreLeaseWriteFails, Acknowledge, Reply
  <2>3. held' \in [HW -> Promise]
    BY <1>5, <2>1 DEF StoreLeaseWriteFails, Acknowledge, Promise, TypeOK, Request
  <2> QED
    BY <1>5, <2>2, <2>3, RestartType DEF StoreLeaseWriteFails
<1>6. CASE CrashRestart
  <2>1. intact' \in BOOLEAN
    BY <1>6 DEF CrashRestart
  <2> QED
    BY <1>6, <1>0, <2>1, RestartType DEF CrashRestart, TypeOK
<1>7. ASSUME NEW hw \in HW, NEW asked \in -1 .. LeaseRange, Discover(hw, asked) PROVE TypeOK'
  BY <1>7, OffersResult DEF Discover, TypeOK, Reply
<1>8. ASSUME NEW hw \in HW, NEW asked \in -1 .. LeaseRange, RefuseRequest(hw, asked)
      PROVE  TypeOK'
  BY <1>8 DEF RefuseRequest, TypeOK, Reply, NoPromise, Promise
<1>9. ASSUME NEW hw \in HW, NEW asked \in -1 .. LeaseRange,
             NEW hostname \in ClientNames \cup {NoName}, CheckRequest(hw, asked, hostname)
      PROVE  TypeOK'
  <2>1. canLease(asked, hw) \in Nums
    BY <1>9, CanLeaseResult DEF CheckRequest
  <2>2. now + leasePeriodForDevice(hw) \in Nat
    BY PeriodNat DEF TypeOK
  <2>3. req' \in Request /\ req'.hw \in HW /\ req'.num \in Nums
    BY <1>9, <2>1, <2>2 DEF CheckRequest, Request, Names
  <2>4. held' \in [HW -> Promise]
    BY <1>9 DEF CheckRequest, Abandon, TypeOK, NoPromise, Promise
  <2> QED
    BY <1>9, <1>0, <2>3, <2>4 DEF CheckRequest, TypeOK
<1>10. ASSUME NEW hw \in HW, Decline(hw) PROVE TypeOK'
  <2>1. leasesIP' \in [Nums -> Lease]
    BY <1>10, LeaseHWResult DEF Decline, expireLease, TypeOK, Lease
  <2>2. held' \in [HW -> Promise]
    BY <1>10 DEF Decline, TypeOK, NoPromise, Promise
  <2> QED
    BY <1>10, <1>0, <2>1, <2>2 DEF Decline, TypeOK
<1>11. ASSUME NEW hw \in HW, NEW name \in Hostnames, SetHostname(hw, name) PROVE TypeOK'
  <2>1. HostnameTarget(hw) \in Nums
    BY RangeAssumption DEF HostnameTarget, TypeOK, Nums
  <2>2. leasesIP' \in [Nums -> Lease]
    BY <1>11, <2>1 DEF SetHostname, TypeOK, Lease, Names
  <2>3. /\ req' \in Request
        /\ req'.hw = req.hw /\ req'.num = req.num /\ req'.old = req.old
    BY <1>11, HostnameRaces
  <2> QED
    BY <1>11, <1>0, <2>2, <2>3 DEF SetHostname, callLeasesLocked, TypeOK
<1>12. CASE UNCHANGED vars
  BY <1>12 DEF vars, TypeOK
<1> QED
  BY <1>1, <1>2, <1>3, <1>4, <1>5, <1>6, <1>7, <1>8, <1>9, <1>10, <1>11, <1>12
  DEF Next, Serve

\* Every reachable state of the server is well typed: both maps, leases.json and the request
\* in flight (dhcp4d.go:114-391).
THEOREM TypeCorrect == Spec => []TypeOK
BY InitType, NextType, PTL DEF Spec

-----------------------------------------------------------------------------
(* The inductive invariant IInv, one lemma per action.                      *)

\* What Init and the invariant say when everything they mention is unchanged.
LEMMA StutterInv ==
    ASSUME IInv, UNCHANGED <<now, leasesHW, leasesIP, disk, pc, req, held, static, intact>>
    PROVE  IInv'
BY DEF IInv, IndexConsistent, DiskUnique, StillLeasable, OldLeaseKnown, PromiseBounded,
       MemoryPromises, DurablePromises, PermanentLeaseKept, PermanentOnDisk, Available,
       Expired, Relies, Keeps, Torn, HasPermanentLease

\* Time only makes promises end and leases expire.
LEMMA TickInv == ASSUME TypeOK, TypeOK', IInv, Tick PROVE IInv'
<1> USE DEF Tick
<1>1. IndexConsistent' /\ DiskUnique' /\ OldLeaseKnown'
  BY DEF IInv, IndexConsistent, DiskUnique, OldLeaseKnown
<1>2. StillLeasable'
  BY DEF IInv, StillLeasable, Available, Expired, TypeOK, Lease
<1>3. PromiseBounded'
  BY PeriodNat DEF IInv, PromiseBounded, TypeOK, Promise, Request
<1>4. \A c \in HW, n \in Nums : Relies(c, n)' => Relies(c, n)
  BY DEF Relies, TypeOK, Promise
<1>5. MemoryPromises' /\ DurablePromises'
  BY <1>4 DEF IInv, MemoryPromises, DurablePromises, Keeps, Torn
<1>6. PermanentLeaseKept' /\ PermanentOnDisk'
  BY DEF IInv, PermanentLeaseKept, PermanentOnDisk, HasPermanentLease, Torn
<1> QED
  BY <1>1, <1>2, <1>3, <1>5, <1>6 DEF IInv

\* leaseHW finds the client's lease if it has one, because the index is consistent.
LEMMA ReadInv == ASSUME TypeOK, TypeOK', IInv, ReadOldLease PROVE IInv'
<1> USE DEF ReadOldLease
<1> DEFINE n == leaseHW(req.hw)
<1>1. req.hw \in HW /\ req \in Request
  BY DEF TypeOK
<1>2. n \in Nums \cup {NoNum} /\ (n # NoNum => n \in Nums /\ leasesIP[n].hw = req.hw)
  BY <1>1, LeaseHWResult
<1>3. n = NoNum => \A m \in Nums : leasesIP[m].hw # req.hw
  BY <1>1 DEF IInv, IndexConsistent, leaseHW, Nums
<1>4. /\ req'.hw = req.hw /\ req'.num = req.num /\ req'.until = req.until
      /\ req'.expiry = req.expiry \/ req'.expiry = 0
      /\ n = NoNum => req' = req
      /\ n # NoNum => req'.old = n /\ (leasesIP[n].expiry = 0 => req'.expiry = 0)
  BY <1>1, <1>2 DEF Inherit, Request
<1>5. IndexConsistent' /\ DiskUnique' /\ StillLeasable'
  BY <1>4 DEF IInv, IndexConsistent, DiskUnique, StillLeasable, Available, Expired
<1>6. req.old = NoNum
  BY DEF IInv, OldLeaseKnown
<1>7. OldLeaseKnown'
  BY <1>2, <1>3, <1>4, <1>6 DEF OldLeaseKnown
<1>8. PromiseBounded'
  BY <1>4 DEF IInv, PromiseBounded
<1>9. MemoryPromises' /\ DurablePromises'
  BY <1>4 DEF IInv, MemoryPromises, DurablePromises, Relies, Keeps, Torn
<1>10. PermanentLeaseKept' /\ PermanentOnDisk'
  BY <1>4 DEF IInv, PermanentLeaseKept, PermanentOnDisk, HasPermanentLease, Torn
<1> QED
  BY <1>5, <1>7, <1>8, <1>9, <1>10 DEF IInv
\* Releasing the old lease leaves the client in flight as the only one without its lease.
LEMMA ReleaseInv == ASSUME TypeOK, TypeOK', IInv, ReleaseOldLease PROVE IInv'
<1> USE DEF ReleaseOldLease
<1>1. req.old \in Nums /\ req.hw \in HW /\ leasesIP[req.old].hw = req.hw
  BY DEF TypeOK, Request, IInv, OldLeaseKnown
<1>2. \A n \in Nums : leasesIP'[n] = IF n = req.old THEN NoLease ELSE leasesIP[n]
  BY DEF TypeOK
<1>3. NoLease.hw = NoHW
  BY DEF NoLease
<1>4. IndexConsistent'
  BY <1>2, <1>3, HWAssumption DEF IInv, IndexConsistent
<1>5. DiskUnique'
  BY DEF IInv, DiskUnique
<1>6. StillLeasable'
  BY <1>2, <1>3 DEF IInv, StillLeasable, Available, Expired, TypeOK
<1>7. \A n \in Nums : leasesIP'[n].hw # req.hw
  BY <1>1, <1>2, <1>3, HWAssumption DEF IInv, IndexConsistent
<1>8. OldLeaseKnown'
  BY <1>7 DEF OldLeaseKnown
<1>9. PromiseBounded'
  BY DEF IInv, PromiseBounded
<1>10. MemoryPromises'
  BY <1>1, <1>2 DEF IInv, MemoryPromises, Relies, Keeps
<1>11. DurablePromises'
  BY DEF IInv, DurablePromises, Relies, Keeps, Torn
<1>12. PermanentLeaseKept'
  <2> SUFFICES ASSUME intact, NEW c \in static, c # req.hw \/ req.expiry # 0
               PROVE  HasPermanentLease(leasesIP', c)
    BY DEF PermanentLeaseKept, HasPermanentLease
  <2>1. PICK n \in Nums : leasesIP[n].hw = c /\ leasesIP[n].expiry = 0
    BY DEF IInv, PermanentLeaseKept, HasPermanentLease
  <2>2. n # req.old
    BY <1>1, <2>1 DEF IInv, OldLeaseKnown
  <2> QED
    BY <1>2, <2>1, <2>2 DEF HasPermanentLease
<1>13. PermanentOnDisk'
  BY DEF IInv, PermanentOnDisk, HasPermanentLease, Torn
<1> QED
  BY <1>4, <1>5, <1>6, <1>8, <1>9, <1>10, <1>11, <1>12, <1>13 DEF IInv

\* Storing the lease puts the client in flight back into the map and brings leases.json up to
\* date; the number is taken only from an expired lease, on which nobody relies.
LEMMA StoreInv ==
    ASSUME TypeOK, TypeOK', IInv, NEW d \in BOOLEAN, StoreLease(d)
    PROVE  IInv'
<1> USE DEF StoreLease, ReadyToStore
<1>1. req.hw \in HW /\ req.num \in Nums /\ req \in Request
  BY DEF TypeOK
<1>2. \A n \in Nums : leasesIP'[n] = IF n = req.num THEN NewLease ELSE leasesIP[n]
  BY DEF TypeOK
<1>3. NewLease.hw = req.hw /\ NewLease.expiry = req.expiry
  BY DEF NewLease
<1>4. \A n \in Nums : leasesIP[n].hw # req.hw
  BY DEF IInv, OldLeaseKnown
<1>5. disk' = leasesIP' /\ pc' = "idle" /\ now' = now
  BY DEF callLeasesLocked
<1>6. \A c \in HW : leasesHW'[c] = IF c = req.hw THEN req.num ELSE leasesHW[c]
  BY DEF TypeOK
<1>7. IndexConsistent'
  BY <1>2, <1>3, <1>4, <1>6 DEF IInv, IndexConsistent
<1>8. DiskUnique'
  BY <1>5, <1>7 DEF DiskUnique, IndexConsistent, TypeOK, Lease
<1>9. StillLeasable' /\ OldLeaseKnown'
  BY <1>5 DEF StillLeasable, OldLeaseKnown
<1>10. \A c \in HW : \/ held'[c] = held[c]
                     \/ /\ c = req.hw
                        /\ held'[c].num = req.num
                        /\ held'[c].until = req.until
  BY <1>1 DEF Acknowledge, TypeOK
<1>11. PromiseBounded'
  BY <1>1, <1>5, <1>10, PeriodNat DEF IInv, PromiseBounded
<1>12. ASSUME NEW c \in HW, NEW n \in Nums, c = req.hw, Relies(c, n)'
       PROVE  Keeps(leasesIP, c, n)'
  <2>1. held'[c].num = n /\ n = req.num
    BY <1>1, <1>10, <1>12 DEF IInv, PromiseBounded, Relies
  <2>2. held'[c].until <= req.until
    BY <1>1, <1>10, <1>12 DEF IInv, PromiseBounded, TypeOK, Request
  <2>3. req.expiry = 0 \/ held'[c].until <= req.expiry
    BY <1>1, <1>12, <2>2 DEF IInv, PromiseBounded, TypeOK, Request, Promise
  <2> QED
    BY <1>2, <1>3, <1>12, <2>1, <2>3 DEF Keeps
<1>13. ASSUME intact, NEW c \in HW, NEW n \in Nums, c # req.hw, Relies(c, n)'
       PROVE  Keeps(leasesIP, c, n)'
  <2>1. held'[c] = held[c] /\ Relies(c, n)
    BY <1>5, <1>10, <1>13 DEF Relies
  <2>2. Keeps(leasesIP, c, n)
    BY <1>13, <2>1 DEF IInv, MemoryPromises
  <2>3. n # req.num
    BY <1>1, <1>13, <2>1, <2>2, HWAssumption
       DEF IInv, StillLeasable, Available, Expired, Relies, Keeps, TypeOK, Lease, Promise
  <2> QED
    BY <1>2, <2>1, <2>2, <2>3 DEF Keeps
<1>14. MemoryPromises' /\ DurablePromises'
  BY <1>5, <1>12, <1>13 DEF MemoryPromises, DurablePromises, Keeps
<1>15. ASSUME intact, NEW c \in static PROVE HasPermanentLease(leasesIP', c)
  <2>1. CASE pc = "released" /\ req.hw = c /\ req.expiry = 0
    BY <1>1, <1>2, <1>3, <2>1 DEF HasPermanentLease
  <2>2. CASE HasPermanentLease(leasesIP, c)
    <3>1. PICK n \in Nums : leasesIP[n].hw = c /\ leasesIP[n].expiry = 0
      BY <2>2 DEF HasPermanentLease
    <3>2. n # req.num
      BY <1>1, <1>4, <1>15, <3>1, HWAssumption
         DEF IInv, StillLeasable, Available, Expired, TypeOK
    <3> QED
      BY <1>2, <3>1, <3>2 DEF HasPermanentLease
  <2> QED
    BY <1>15, <2>1, <2>2 DEF IInv, PermanentLeaseKept
<1>16. PermanentLeaseKept' /\ PermanentOnDisk'
  BY <1>5, <1>15 DEF PermanentLeaseKept, PermanentOnDisk, HasPermanentLease
<1> QED
  BY <1>7, <1>8, <1>9, <1>11, <1>14, <1>16 DEF IInv

\* A restart from a file that keeps every promise keeps them; held may change only when the
\* database is no longer intact.
LEMMA RestartInv ==
    ASSUME TypeOK, TypeOK', IInv, Restart, now' = now, static' = static,
           intact' => intact /\ ~Torn /\ held' = held,
           \A c \in HW : held'[c].until <= now + leasePeriodForDevice(c)
    PROVE  IInv'
<1> USE DEF Restart
<1>1. IndexConsistent'
  BY IndexOfResult DEF IInv, DiskUnique, IndexConsistent, TypeOK
<1>2. DiskUnique' /\ StillLeasable' /\ OldLeaseKnown' /\ PromiseBounded'
  BY DEF IInv, DiskUnique, StillLeasable, OldLeaseKnown, PromiseBounded
<1>3. MemoryPromises' /\ DurablePromises'
  BY DEF IInv, MemoryPromises, DurablePromises, Relies, Keeps
<1>4. PermanentLeaseKept' /\ PermanentOnDisk'
  BY DEF IInv, PermanentLeaseKept, PermanentOnDisk, HasPermanentLease
<1> QED
  BY <1>1, <1>2, <1>3, <1>4 DEF IInv
\* A DHCPNAK only ends a promise.
LEMMA RefuseInv ==
    ASSUME TypeOK, TypeOK', IInv, NEW hw \in HW, NEW asked, RefuseRequest(hw, asked)
    PROVE  IInv'
<1> USE DEF RefuseRequest
<1>1. \A c \in HW : held'[c] = IF c = hw THEN NoPromise ELSE held[c]
  BY DEF TypeOK
<1>2. \A c \in HW, n \in Nums : Relies(c, n)' => Relies(c, n) /\ held'[c] = held[c]
  BY <1>1 DEF Relies, NoPromise
<1>3. IndexConsistent' /\ DiskUnique' /\ StillLeasable' /\ OldLeaseKnown'
  BY DEF IInv, IndexConsistent, DiskUnique, StillLeasable, OldLeaseKnown
<1>4. PromiseBounded'
  BY <1>1, PeriodNat DEF IInv, PromiseBounded, NoPromise, TypeOK
<1>5. MemoryPromises' /\ DurablePromises'
  BY <1>2 DEF IInv, MemoryPromises, DurablePromises, Keeps, Torn
<1>6. PermanentLeaseKept' /\ PermanentOnDisk'
  BY DEF IInv, PermanentLeaseKept, PermanentOnDisk, HasPermanentLease, Torn
<1> QED
  BY <1>3, <1>4, <1>5, <1>6 DEF IInv

\* canLease found the number available or owned by the client, and the new expiry is not
\* earlier than any promise the client relies on.
LEMMA CheckInv ==
    ASSUME TypeOK, TypeOK', IInv, NEW hw \in HW, NEW asked, NEW hostname,
           CheckRequest(hw, asked, hostname)
    PROVE  IInv'
<1> USE DEF CheckRequest
<1>1. /\ req'.hw = hw /\ req'.num = asked /\ asked \in Nums /\ req'.old = NoNum
      /\ req'.expiry = now + leasePeriodForDevice(hw)
      /\ req'.until = now + leasePeriodForDevice(hw)
      /\ Available(asked) \/ leasesIP[asked].hw = hw
  BY CanLeaseResult
<1>2. \A c \in HW : held'[c] = IF c = hw THEN Abandon(hw, asked) ELSE held[c]
  BY DEF TypeOK
<1>3. Abandon(hw, asked) = NoPromise \/ (Abandon(hw, asked) = held[hw] /\ held[hw].num = asked)
  BY DEF Abandon
<1>4. \A c \in HW, n \in Nums : Relies(c, n)' => Relies(c, n) /\ held'[c] = held[c]
  BY <1>2, <1>3 DEF Relies, NoPromise
<1>5. IndexConsistent' /\ DiskUnique' /\ OldLeaseKnown'
  BY <1>1 DEF IInv, IndexConsistent, DiskUnique, OldLeaseKnown
<1>6. StillLeasable'
  BY <1>1 DEF StillLeasable, Available, Expired
<1>7. \A c \in HW : held'[c].until <= now + leasePeriodForDevice(c)
  BY <1>2, <1>3, PeriodNat DEF IInv, PromiseBounded, NoPromise, TypeOK
<1>8. now + leasePeriodForDevice(hw) \in Nat
  BY PeriodNat DEF TypeOK
<1>9. held'[hw].num \in {NoNum, asked}
  BY <1>2, <1>3 DEF NoPromise
<1>10. PromiseBounded'
  BY <1>1, <1>7, <1>8, <1>9 DEF PromiseBounded
<1>11. MemoryPromises' /\ DurablePromises'
  BY <1>4 DEF IInv, MemoryPromises, DurablePromises, Keeps, Torn
<1>12. PermanentLeaseKept' /\ PermanentOnDisk'
  BY DEF IInv, PermanentLeaseKept, PermanentOnDisk, HasPermanentLease, Torn
<1> QED
  BY <1>5, <1>6, <1>10, <1>11, <1>12 DEF IInv

\* A DHCPDECLINE ends a lease on which its client no longer relies.
LEMMA DeclineInv ==
    ASSUME TypeOK, TypeOK', IInv, NEW hw \in HW, Decline(hw)
    PROVE  IInv'
<1> USE DEF Decline
<1>1. \A n \in Nums : /\ leasesIP'[n].hw = leasesIP[n].hw
                      /\ leasesIP[n].hw # hw => leasesIP'[n] = leasesIP[n]
  BY LeaseHWResult DEF expireLease, TypeOK, Lease
<1>2. \A c \in HW : held'[c] = IF c = hw THEN NoPromise ELSE held[c]
  BY DEF TypeOK
<1>3. \A c \in HW, n \in Nums :
         Relies(c, n)' => c # hw /\ Relies(c, n) /\ held'[c] = held[c]
  BY <1>2 DEF Relies, NoPromise
<1>4. IndexConsistent' /\ DiskUnique' /\ StillLeasable' /\ OldLeaseKnown'
  BY <1>1 DEF IInv, IndexConsistent, DiskUnique, StillLeasable, OldLeaseKnown
<1>5. PromiseBounded'
  BY <1>2, PeriodNat DEF IInv, PromiseBounded, NoPromise, TypeOK
<1>6. MemoryPromises' /\ DurablePromises'
  BY <1>1, <1>3 DEF IInv, MemoryPromises, DurablePromises, Keeps, Torn
<1>7. PermanentLeaseKept' /\ PermanentOnDisk'
  BY <1>1 DEF IInv, PermanentLeaseKept, PermanentOnDisk, HasPermanentLease, Torn
<1> QED
  BY <1>4, <1>5, <1>6, <1>7 DEF IInv

\* A rename changes names only, in whichever lease it hits, and writes to leases.json what is
\* in memory, without the lease of a client in flight.
LEMMA RenameInv ==
    ASSUME TypeOK, TypeOK', IInv, NEW hw \in HW, NEW name \in Hostnames, SetHostname(hw, name)
    PROVE  IInv'
<1>1. \A n \in Nums : /\ leasesIP'[n].hw = leasesIP[n].hw
                      /\ leasesIP'[n].expiry = leasesIP[n].expiry
  BY DEF SetHostname, TypeOK, Lease
<1>2. /\ req'.hw = req.hw /\ req'.num = req.num /\ req'.old = req.old
      /\ req'.expiry = req.expiry /\ req'.until = req.until
  BY HostnameRaces
<1>3. /\ disk' = leasesIP'
      /\ UNCHANGED <<leasesHW, pc, now, held, static, intact>>
  BY DEF SetHostname, callLeasesLocked
<1>4. IndexConsistent'
  BY <1>1, <1>3 DEF IInv, IndexConsistent
<1>5. DiskUnique'
  BY <1>3, <1>4 DEF DiskUnique, IndexConsistent, TypeOK, Lease
<1>6. StillLeasable' /\ OldLeaseKnown' /\ PromiseBounded'
  <2>1. pc # "idle" => req.num \in Nums
    BY DEF TypeOK
  <2>2. pc = "read" /\ req.old # NoNum => req.old \in Nums
    BY DEF TypeOK, Request
  <2>3. StillLeasable'
    BY <1>1, <1>2, <1>3, <2>1 DEF IInv, StillLeasable, Available, Expired
  <2>4. OldLeaseKnown'
    BY <1>1, <1>2, <1>3, <2>2 DEF IInv, OldLeaseKnown
  <2>5. PromiseBounded'
    BY <1>2, <1>3 DEF IInv, PromiseBounded
  <2> QED
    BY <2>3, <2>4, <2>5
<1>7. MemoryPromises'
  <2> SUFFICES ASSUME intact, NEW c \in HW, NEW n \in Nums, Relies(c, n)
               PROVE  Keeps(leasesIP', c, n) \/ (pc = "released" /\ req.hw = c)
    BY <1>2, <1>3 DEF MemoryPromises, Relies, Keeps
  <2>1. Keeps(leasesIP, c, n) \/ (pc = "released" /\ req.hw = c)
    BY DEF IInv, MemoryPromises
  <2> QED
    BY <1>1, <2>1 DEF Keeps
<1>8. pc = "released" => Torn'
  <2>1. pc = "released" => req.old \in Nums
    BY DEF TypeOK
  <2>2. pc = "released" => leasesIP[req.old].hw # req.hw
    BY <2>1 DEF IInv, OldLeaseKnown
  <2> QED
    BY <1>1, <1>2, <1>3, <2>1, <2>2 DEF Torn
<1>9. DurablePromises'
  BY <1>2, <1>3, <1>7, <1>8 DEF DurablePromises, MemoryPromises, Relies, Keeps
<1>10. PermanentLeaseKept'
  <2>1. \A c : HasPermanentLease(leasesIP, c) => HasPermanentLease(leasesIP', c)
    BY <1>1 DEF HasPermanentLease
  <2> QED
    BY <1>2, <1>3, <2>1 DEF IInv, PermanentLeaseKept, HasPermanentLease
<1>11. PermanentOnDisk'
  BY <1>2, <1>3, <1>8, <1>10 DEF PermanentLeaseKept, PermanentOnDisk, HasPermanentLease
<1> QED
  BY <1>4, <1>5, <1>6, <1>7, <1>9, <1>10, <1>11 DEF IInv
\* A promise in flight of an acknowledgement stays within the period granted now.
LEMMA AcknowledgeBounded ==
    ASSUME TypeOK, IInv, pc # "idle", NEW d \in BOOLEAN, Acknowledge(d)
    PROVE  \A c \in HW : held'[c].until <= now + leasePeriodForDevice(c)
BY DEF IInv, PromiseBounded, Acknowledge, TypeOK

-----------------------------------------------------------------------------
\* The invariant holds when the server has loaded leases.json (dhcp4d.go:114-123).
LEMMA InitInv == Init => IInv
<1> SUFFICES ASSUME Init PROVE IInv
  OBVIOUS
<1>1. IndexConsistent
  BY IndexOfResult, InitialAssumption DEF Init, IndexConsistent
<1>2. DiskUnique /\ StillLeasable /\ OldLeaseKnown
  BY InitialAssumption DEF Init, DiskUnique, StillLeasable, OldLeaseKnown
<1>3. PromiseBounded
  BY PeriodNat DEF Init, PromiseBounded, NoPromise
<1>4. MemoryPromises /\ DurablePromises
  BY DEF Init, MemoryPromises, DurablePromises, Relies, NoPromise
<1>5. PermanentLeaseKept /\ PermanentOnDisk
  BY DEF Init, PermanentLeaseKept, PermanentOnDisk, HasPermanentLease
<1> QED
  BY <1>1, <1>2, <1>3, <1>4, <1>5 DEF IInv

\* Every step of the server, of /sethostname and of the process preserves it.
LEMMA NextInv == TypeOK /\ IInv /\ [Next]_vars => IInv'
<1> SUFFICES ASSUME TypeOK, IInv, [Next]_vars PROVE IInv'
  OBVIOUS
<1>0. TypeOK'
  BY NextType
<1>1. CASE Tick
  BY <1>0, <1>1, TickInv
<1>2. CASE ReadOldLease
  BY <1>0, <1>2, ReadInv
<1>3. CASE ReleaseOldLease
  BY <1>0, <1>3, ReleaseInv
<1>4. ASSUME NEW d \in BOOLEAN, StoreLease(d) PROVE IInv'
  BY <1>0, <1>4, StoreInv
<1>5. CASE StoreLeaseWriteFails
  <2>1. \A c \in HW : held'[c].until <= now + leasePeriodForDevice(c)
    BY <1>5, AcknowledgeBounded DEF StoreLeaseWriteFails, ReadyToStore
  <2> QED
    BY <1>0, <1>5, <2>1, RestartInv DEF StoreLeaseWriteFails
<1>6. CASE CrashRestart
  <2>1. \A c \in HW : held'[c].until <= now + leasePeriodForDevice(c)
    BY <1>6 DEF CrashRestart, IInv, PromiseBounded
  <2>2. intact' => intact /\ ~Torn /\ held' = held
    BY <1>6 DEF CrashRestart
  <2> QED
    BY <1>0, <1>6, <2>1, <2>2, RestartInv DEF CrashRestart
<1>7. ASSUME NEW hw \in HW, NEW asked, Discover(hw, asked) PROVE IInv'
  BY <1>7, StutterInv DEF Discover
<1>8. ASSUME NEW hw \in HW, NEW asked, RefuseRequest(hw, asked) PROVE IInv'
  BY <1>0, <1>8, RefuseInv
<1>9. ASSUME NEW hw \in HW, NEW asked, NEW hostname, CheckRequest(hw, asked, hostname)
      PROVE  IInv'
  BY <1>0, <1>9, CheckInv
<1>10. ASSUME NEW hw \in HW, Decline(hw) PROVE IInv'
  BY <1>0, <1>10, DeclineInv
<1>11. ASSUME NEW hw \in HW, NEW name \in Hostnames, SetHostname(hw, name) PROVE IInv'
  BY <1>0, <1>11, RenameInv
<1>12. CASE UNCHANGED vars
  BY <1>12, StutterInv DEF vars
<1> QED
  BY <1>1, <1>2, <1>3, <1>4, <1>5, <1>6, <1>7, <1>8, <1>9, <1>10, <1>11, <1>12
  DEF Next, Serve

\* The inductive invariant holds in every reachable state; with it hold its conjuncts, among
\* them that leasesHW finds every lease, that leases.json keeps every promise outside the torn
\* window, and that a static lease stays permanent (dhcp4d.go:114-391).
THEOREM Inductive == Spec => []IInv
<1>1. Init => TypeOK /\ IInv
  BY InitType, InitInv
<1>2. TypeOK /\ IInv /\ [Next]_vars => (TypeOK /\ IInv)'
  BY NextType, NextInv
<1> QED
  BY <1>1, <1>2, PTL DEF Spec

\* leasesHW finds every lease, so no client owns two numbers (dhcp4d.go:242-251, 331-351).
THEOREM IndexAlwaysConsistent == Spec => []IndexConsistent
<1>1. IInv => IndexConsistent
  BY DEF IInv
<1> QED
  BY <1>1, Inductive, PTL

\* What a client relies on survives a restart, outside the torn window (dhcp4d.go:343-352).
THEOREM PromisesAreDurable == Spec => []DurablePromises
<1>1. IInv => DurablePromises
  BY DEF IInv
<1> QED
  BY <1>1, Inductive, PTL

\* A static lease that its client did not decline stays permanent (dhcp4d.go:332-336).
THEOREM PermanentLeasesAreKept == Spec => []PermanentLeaseKept
<1>1. IInv => PermanentLeaseKept
  BY DEF IInv
<1> QED
  BY <1>1, Inductive, PTL

\* If the map in memory, or the request in flight, keeps every promise, a client that relies
\* on a number which is leasable by another is the one in flight itself.
LEMMA RelyingOwner ==
    ASSUME TypeOK, IInv, intact, NEW c \in HW, NEW n \in Nums, Relies(c, n)
    PROVE  \/ leasesIP[n].hw = c /\ ~Available(n)
           \/ pc = "released" /\ req.hw = c /\ req.num = n
<1>1. CASE Keeps(leasesIP, c, n)
  BY <1>1, HWAssumption DEF Keeps, Relies, Available, Expired, TypeOK, Lease, Promise
<1>2. CASE pc = "released" /\ req.hw = c
  BY <1>2 DEF IInv, PromiseBounded, Relies
<1> QED
  BY <1>1, <1>2 DEF IInv, MemoryPromises

\* A number is owned in the map by one client, and the one in flight is available, so the
\* invariant excludes that two clients rely on one number.
LEMMA InvImpliesNoDoubleBooking == TypeOK /\ IInv => NoDoubleBooking
<1> SUFFICES ASSUME TypeOK, IInv, intact, NEW c \in HW, NEW d \in HW, NEW n \in Nums,
                    Relies(c, n), Relies(d, n)
             PROVE  c = d
  BY DEF NoDoubleBooking
<1>1. \/ leasesIP[n].hw = c /\ ~Available(n)
      \/ pc = "released" /\ req.hw = c /\ req.num = n
  BY RelyingOwner
<1>2. \/ leasesIP[n].hw = d /\ ~Available(n)
      \/ pc = "released" /\ req.hw = d /\ req.num = n
  BY RelyingOwner
<1>3. pc = "released" => Available(req.num)
  BY DEF IInv, StillLeasable, OldLeaseKnown, TypeOK
<1> QED
  BY <1>1, <1>2, <1>3

\* No two clients ever rely on the same address, for any pool, any number of clients and any
\* interleaving of requests, renames, declines and restarts that loses nothing
\* (dhcp4d.go:165-191, 313-359).
THEOREM NeverDoubleBooked == Spec => []NoDoubleBooking
BY TypeCorrect, Inductive, InvImpliesNoDoubleBooking, PTL

\* No renewal of a running lease is refused (dhcp4d.go:317-320).
THEOREM RenewalsNotRefused == Spec => RenewalNotRefused
<1>1. TypeOK /\ IInv =>
         \A c \in HW, n \in Nums : intact /\ Relies(c, n) => ~RefuseRequest(c, n)
  <2> SUFFICES ASSUME TypeOK, IInv, NEW c \in HW, NEW n \in Nums, intact, Relies(c, n),
                      RefuseRequest(c, n)
               PROVE  FALSE
    OBVIOUS
  <2>1. leasesIP[n].hw = c
    BY RelyingOwner DEF RefuseRequest
  <2>2. canLease(n, c) = n
    BY <2>1 DEF canLease
  <2> QED
    BY <2>2 DEF RefuseRequest, Nums
<1>2. TypeOK /\ IInv /\ [Next]_vars =>
         [\A c \in HW, n \in Nums : intact /\ Relies(c, n) => ~RefuseRequest(c, n)]_vars
  BY <1>1
<1> QED
  BY <1>2, TypeCorrect, Inductive, PTL DEF Spec, RenewalNotRefused
\* An offer names a number that is available or that is the client's own, so between two
\* requests no other client relies on it.
LEMMA OfferUnused ==
    ASSUME TypeOK, IInv, NEW hw \in HW, NEW asked, Discover(hw, asked),
           reply'.type = "offer", NEW c \in HW, intact, Relies(c, reply'.num)
    PROVE  c = reply'.hw
<1>1. PICK n \in Offers(hw, asked) : reply' = [type |-> IF n = NoNum THEN "refused" ELSE "offer",
                                               hw |-> hw, num |-> n]
  BY DEF Discover
<1>2. reply'.hw = hw /\ reply'.num = n /\ n # NoNum
  BY <1>1
<1>3. n \in Nums /\ (Available(n) \/ leasesIP[n].hw = hw)
  BY <1>2, LeaseHWResult, CanLeaseResult DEF Offers, findLease
<1>4. leasesIP[n].hw = c /\ ~Available(n)
  BY <1>2, <1>3, RelyingOwner DEF Discover
<1> QED
  BY <1>2, <1>3, <1>4

\* Only a DHCPDISCOVER is answered with an offer, or refused (dhcp4d.go:281-311).
LEMMA OnlyDiscoverAnswers ==
    ASSUME Next, reply'.type \in {"offer", "refused"}
    PROVE  \E hw \in HW, asked \in -1 .. LeaseRange : Discover(hw, asked)
<1>0. NoReply.type = "none"
  BY DEF NoReply
<1>1. ~Tick /\ ~ReadOldLease /\ ~ReleaseOldLease /\ ~CrashRestart
  BY <1>0 DEF Tick, ReadOldLease, ReleaseOldLease, CrashRestart
<1>2. ASSUME NEW d, Acknowledge(d) PROVE FALSE
  BY <1>2 DEF Acknowledge
<1>3. ~StoreLeaseWriteFails /\ \A d \in BOOLEAN : ~StoreLease(d)
  BY <1>2 DEF StoreLease, StoreLeaseWriteFails
<1>4. \A hw \in HW, asked \in -1 .. LeaseRange : ~RefuseRequest(hw, asked)
  BY DEF RefuseRequest
<1>5. \A hw, asked, hostname : ~CheckRequest(hw, asked, hostname)
  BY <1>0 DEF CheckRequest
<1>6. \A hw, name : ~Decline(hw) /\ ~SetHostname(hw, name)
  BY <1>0 DEF Decline, SetHostname
<1> QED
  BY <1>1, <1>3, <1>4, <1>5, <1>6 DEF Next, Serve

\* No offer ever names an address on which another client relies (dhcp4d.go:281-311).
THEOREM OffersNotInUse == Spec => OfferNotInUse
<1> DEFINE Unused == reply'.type = "offer" =>
                        \A c \in HW : intact /\ Relies(c, reply'.num) => c = reply'.hw
<1>1. ASSUME TypeOK, IInv, Next PROVE Unused
  <2> SUFFICES ASSUME reply'.type = "offer", NEW c \in HW, intact, Relies(c, reply'.num)
               PROVE  c = reply'.hw
    OBVIOUS
  <2>1. \E hw \in HW, asked \in -1 .. LeaseRange : Discover(hw, asked)
    BY <1>1, OnlyDiscoverAnswers
  <2> QED
    BY <1>1, <2>1, OfferUnused
<1>2. TypeOK /\ IInv /\ [Next]_vars => [Unused]_vars
  BY <1>1
<1> QED
  BY <1>2, TypeCorrect, Inductive, PTL DEF Spec, OfferNotInUse
\* With fewer clients than numbers a DHCPDISCOVER always finds a number: by IndexConsistent
\* there are no more leases than clients (dhcp4d.go:146-163).
LEMMA DiscoverAnswered ==
    ASSUME TypeOK, IInv, IsFiniteSet(HW), Cardinality(HW) < LeaseRange,
           NEW hw \in HW, NEW asked, Discover(hw, asked)
    PROVE  reply'.type # "refused"
<1> DEFINE Leased == {n \in Nums : leasesIP[n].hw # NoHW}
           Owner == [n \in Leased |-> leasesIP[n].hw]
<1>1. IsFiniteSet(Nums)
  BY FS_Interval, RangeAssumption DEF Nums
<1>2. IsFiniteSet(Leased)
  BY <1>1, FS_Subset
<1>3. Cardinality(Leased) \in Nat /\ Cardinality(HW) \in Nat
  BY <1>2, FS_CardinalityType
<1>4. Owner \in [Leased -> HW]
  BY DEF TypeOK, Lease
<1>5. \A m, n \in Leased : Owner[m] = Owner[n] => m = n
  BY <1>4 DEF IInv, IndexConsistent
<1>6. ~(Cardinality(HW) < Cardinality(Leased))
  <2> HIDE DEF Leased, Owner
  <2> QED
    BY <1>2, <1>4, <1>5, FS_PigeonHole
<1>7. Cardinality(Leased) < LeaseRange
  BY <1>3, <1>6, RangeAssumption
<1>8. NoNum \notin findLease
  BY <1>7 DEF findLease, Nums
<1>9. NoNum \notin Offers(hw, asked)
  BY <1>8 DEF Offers
<1> QED
  BY <1>9 DEF Discover

\* With fewer clients than numbers no DHCPDISCOVER is refused (dhcp4d.go:150, 302, 344).
THEOREM RoomForEveryClient == ASSUME IsFiniteSet(HW) PROVE Spec => []NeverRefused
<1>1. Init => NeverRefused
  BY DEF Init, NeverRefused, NoReply
<1>2. TypeOK /\ IInv /\ NeverRefused /\ [Next]_vars => NeverRefused'
  <2> SUFFICES ASSUME TypeOK, IInv, NeverRefused, [Next]_vars, Cardinality(HW) < LeaseRange
               PROVE  reply'.type # "refused"
    BY DEF NeverRefused
  <2>1. CASE UNCHANGED vars
    BY <2>1 DEF vars, NeverRefused
  <2>2. CASE Next
    BY <2>2, OnlyDiscoverAnswers, DiscoverAnswered
  <2> QED
    BY <2>1, <2>2
<1> QED
  BY <1>1, <1>2, TypeCorrect, Inductive, PTL DEF Spec

-----------------------------------------------------------------------------
(* The server implements the abstract pool.                                 *)

\* The server starts as the pool does, with no promise made.
LEMMA InitRefines == Init => Pool!Init
BY DEF Init, Pool!Init, NoPromise, Pool!NoPromise

\* A lease is stored only while no other client relies on its number.
LEMMA GrantIsFree ==
    ASSUME TypeOK, IInv, ReadyToStore, intact, NEW c \in HW, c # req.hw
    PROVE  ~Relies(c, req.num)
<1>1. req.num \in Nums /\ Available(req.num)
  BY DEF ReadyToStore, IInv, StillLeasable, OldLeaseKnown, TypeOK
<1> QED
  BY <1>1, RelyingOwner

\* An acknowledgement changes nothing but the promise to the client in flight.
LEMMA AcknowledgeRefines ==
    ASSUME TypeOK, ReadyToStore, NEW d \in BOOLEAN, Acknowledge(d)
    PROVE  \/ held' = held
           \/ req.hw \in HW /\ req.num \in Nums /\ Pool!Promised(req.hw, req.num)
<1>1. req.hw \in HW /\ req.num \in Nums /\ req.until \in Nat
  BY DEF ReadyToStore, TypeOK, Request
<1>2. CASE d
  <2>1. held' = [held EXCEPT ![req.hw] = [num |-> req.num, until |-> req.until]]
    BY <1>2 DEF Acknowledge
  <2>2. held'[req.hw] = [num |-> req.num, until |-> req.until]
    BY <1>1, <2>1 DEF TypeOK
  <2>3. held'[req.hw] \in [num: {req.num}, until: Nat]
    BY <1>1, <2>2
  <2> QED
    BY <1>1, <2>1, <2>2, <2>3 DEF Pool!Promised
<1>3. CASE ~d
  BY <1>3 DEF Acknowledge
<1> QED
  BY <1>2, <1>3

\* Every step of the server is a step of the pool or leaves it unchanged.
LEMMA NextRefines == TypeOK /\ IInv /\ [Next]_vars => [Pool!Next]_(Pool!vars)
<1> SUFFICES ASSUME TypeOK, IInv, [Next]_vars PROVE [Pool!Next]_(Pool!vars)
  OBVIOUS
<1>1. CASE Tick
  BY <1>1 DEF Tick, Pool!Next, Pool!Tick
<1>2. CASE ReadOldLease \/ ReleaseOldLease
  BY <1>2 DEF ReadOldLease, ReleaseOldLease, Pool!vars
<1>3. ASSUME NEW d \in BOOLEAN, StoreLease(d) PROVE [Pool!Next]_(Pool!vars)
  <2>1. UNCHANGED <<now, intact>> /\ ReadyToStore /\ Acknowledge(d)
    BY <1>3 DEF StoreLease
  <2>2. CASE held' = held
    BY <2>1, <2>2 DEF Pool!vars
  <2>3. CASE req.hw \in HW /\ req.num \in Nums /\ Pool!Promised(req.hw, req.num)
    <3>1. intact => \A c \in HW \ {req.hw} : ~Pool!Relies(c, req.num)
      BY <2>1, GrantIsFree DEF Relies, Pool!Relies
    <3>2. Pool!Grant(req.hw, req.num)
      BY <2>1, <2>3, <3>1 DEF Pool!Grant
    <3> QED
      BY <2>3, <3>2 DEF Pool!Next
  <2> QED
    BY <2>1, <2>2, <2>3, AcknowledgeRefines
<1>4. CASE StoreLeaseWriteFails
  <2>1. UNCHANGED now /\ intact' = FALSE /\ ReadyToStore /\ Acknowledge(TRUE)
    BY <1>4 DEF StoreLeaseWriteFails
  <2>2. Pool!Lose
    BY <2>1, AcknowledgeRefines DEF Pool!Lose
  <2> QED
    BY <2>2 DEF Pool!Next
<1>5. CASE CrashRestart
  <2>1. UNCHANGED <<now, held>> /\ intact' = (intact /\ ~Torn)
    BY <1>5 DEF CrashRestart
  <2>2. CASE intact' = FALSE
    BY <2>1, <2>2 DEF Pool!Next, Pool!Lose
  <2>3. CASE intact' # FALSE
    BY <2>1, <2>3 DEF Pool!vars, TypeOK
  <2> QED
    BY <2>2, <2>3
<1>6. ASSUME NEW hw \in HW, NEW asked, Discover(hw, asked) PROVE [Pool!Next]_(Pool!vars)
  BY <1>6 DEF Discover, Pool!vars
<1>7. ASSUME NEW hw \in HW, held' = [held EXCEPT ![hw] = NoPromise], UNCHANGED <<now, intact>>
      PROVE  [Pool!Next]_(Pool!vars)
  <2>1. Pool!GiveUp(hw)
    BY <1>7 DEF Pool!GiveUp, NoPromise, Pool!NoPromise
  <2> QED
    BY <2>1 DEF Pool!Next
<1>8. ASSUME NEW hw \in HW, NEW asked, RefuseRequest(hw, asked) PROVE [Pool!Next]_(Pool!vars)
  BY <1>7, <1>8 DEF RefuseRequest
<1>9. ASSUME NEW hw \in HW, NEW asked, NEW hostname, CheckRequest(hw, asked, hostname)
      PROVE  [Pool!Next]_(Pool!vars)
  <2>1. UNCHANGED <<now, intact>> /\ held' = [held EXCEPT ![hw] = Abandon(hw, asked)]
    BY <1>9 DEF CheckRequest
  <2>2. CASE Abandon(hw, asked) = NoPromise
    BY <1>7, <2>1, <2>2
  <2>3. CASE Abandon(hw, asked) = held[hw]
    <3>1. held' = held
      BY <2>1, <2>3 DEF TypeOK
    <3> QED
      BY <2>1, <3>1 DEF Pool!vars
  <2> QED
    BY <2>2, <2>3 DEF Abandon
<1>10. ASSUME NEW hw \in HW, Decline(hw) PROVE [Pool!Next]_(Pool!vars)
  BY <1>7, <1>10 DEF Decline
<1>11. ASSUME NEW hw \in HW, NEW name, SetHostname(hw, name) PROVE [Pool!Next]_(Pool!vars)
  BY <1>11 DEF SetHostname, Pool!vars
<1>12. CASE UNCHANGED vars
  BY <1>12 DEF vars, Pool!vars
<1> QED
  BY <1>1, <1>2, <1>3, <1>4, <1>5, <1>6, <1>8, <1>9, <1>10, <1>11, <1>12 DEF Next, Serve

\* The server implements the abstract address pool: every step of it grants a number that no
\* other client relies on, ends a promise, lets time pass, loses the database, or does not
\* change what the clients see (dhcp4d.go:281-391).
THEOREM Refinement == Spec => ImplementsPool
BY InitRefines, NextRefines, TypeCorrect, Inductive, PTL DEF Spec, ImplementsPool, Pool!Spec
=============================================================================
