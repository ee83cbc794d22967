--------------------------- MODULE ListenersProofs ---------------------------
(***************************************************************************)
(* Proofs about the pool of listeners, for any addresses and any number of *)
(* listeners, on top of the proofs about the notifications.                *)
(***************************************************************************)
EXTENDS Listeners, StateNotifyProofs

-----------------------------------------------------------------------------
(* Types.                                                                   *)

\* An id that is not in use can be chosen where there is one.
LEMMA FreshUnused ==
    ASSUME NEW h \in Hosts, Unused(h) # {} PROVE Fresh(h) \in Ids /\ inst[h][Fresh(h)] = "none"
BY DEF Fresh, Unused

\* Close takes a listener to one of the known states.
LEMMA CloseState == ASSUME NEW s \in States PROVE Close(s) \in States
BY DEF Close, States

\* The variables of the notifications take a step of StateNotify, or the service restarts.
LEMMA NotifyStep == LNext => \/ [Next]_vars
                             \/ Restarted(Service) /\ UNCHANGED <<version, pending, missed, crashes>>
                             \/ \E h \in Hosts, i \in Ids : Dies(h, i)
<1> SUFFICES ASSUME LNext
             PROVE  \/ [Next]_vars
                    \/ Restarted(Service) /\ UNCHANGED <<version, pending, missed, crashes>>
                    \/ \E h \in Hosts, i \in Ids : Dies(h, i)
  OBVIOUS
<1>0. Service \in Consumers
  BY ServiceAssumption
<1>1. CASE ChangeAddrs
  BY <1>1 DEF ChangeAddrs, Next
<1>2. CASE ReadAddrs \/ UpdateListeners
  BY <1>0, <1>2 DEF ReadAddrs, UpdateListeners, Next, Step
<1>3. CASE UpdatePanics
  BY <1>3 DEF UpdatePanics
<1>4. CASE ServiceCrash
  BY <1>0, <1>4 DEF ServiceCrash, Next
<1>5. CASE Notification
  BY <1>0, <1>5 DEF Notification, Next, Step
<1>6. ASSUME NEW h \in Hosts, NEW i \in Ids, Goroutine(h, i) PROVE UNCHANGED vars
  BY <1>6 DEF Goroutine, Bind, BindFails, Serve, ServeClosed, Reap
<1> QED
  BY <1>1, <1>2, <1>3, <1>4, <1>5, <1>6 DEF LNext, ServiceStep

\* The pool's variables keep their types in an update.
LEMMA UpdateType == LTypeOK /\ ListenAndServe =>
    /\ kind' = kind
    /\ entry' \in [Hosts -> Ids \cup {NoId}]
    /\ inst' \in [Hosts -> [Ids -> States]]
    /\ dark' \subseteq Hosts
<1> SUFFICES ASSUME LTypeOK, ListenAndServe
             PROVE  /\ kind' = kind
                    /\ entry' \in [Hosts -> Ids \cup {NoId}]
                    /\ inst' \in [Hosts -> [Ids -> States]]
                    /\ dark' \subseteq Hosts
  OBVIOUS
<1>1. \A h \in Added : Fresh(h) \in Ids
  BY FreshUnused DEF ListenAndServe, Added, LTypeOK
<1>2. \A h \in Vanished : entry[h] \in Ids /\ Close(inst[h][entry[h]]) \in States
  BY CloseState DEF Vanished, LTypeOK
<1>3. entry' \in [Hosts -> Ids \cup {NoId}]
  BY <1>1 DEF ListenAndServe, LTypeOK
<1>4. inst' \in [Hosts -> [Ids -> States]]
  <2> DEFINE R(h) == CASE h \in Added -> [inst[h] EXCEPT ![Fresh(h)] = "new"]
                       [] h \in Vanished -> [inst[h] EXCEPT ![entry[h]] = Close(@)]
                       [] OTHER -> inst[h]
  <2>1. ASSUME NEW h \in Hosts PROVE R(h) \in [Ids -> States]
    <3>1. inst[h] \in [Ids -> States]
      BY DEF LTypeOK
    <3>2. CASE h \in Added
      <4>1. h \notin Vanished
        BY <3>2 DEF Added, Vanished
      <4>2. R(h) = [inst[h] EXCEPT ![Fresh(h)] = "new"]
        BY <3>2, <4>1
      <4>3. "new" \in States /\ Fresh(h) \in Ids
        BY <1>1, <3>2 DEF States
      <4> HIDE DEF R
      <4> QED
        BY <3>1, <4>2, <4>3
    <3>3. CASE h \in Vanished /\ h \notin Added
      BY <1>2, <3>1, <3>3
    <3>4. CASE h \notin Vanished /\ h \notin Added
      BY <3>1, <3>4
    <3> HIDE DEF R
    <3> QED
      BY <3>2, <3>3, <3>4
  <2>2. inst' = [h \in Hosts |-> R(h)]
    BY DEF ListenAndServe
  <2> QED
    BY <2>1, <2>2
<1> QED
  BY <1>3, <1>4 DEF ListenAndServe, LTypeOK

\* Every step keeps the types.
LEMMA LNextType == LTypeOK /\ [LNext]_pvars => LTypeOK'
<1> SUFFICES ASSUME LTypeOK, [LNext]_pvars PROVE LTypeOK'
  OBVIOUS
<1>0. TypeOK'
  <2>1. CASE [Next]_vars
    BY <2>1, NextType DEF LTypeOK
  <2>2. CASE Restarted(Service) /\ UNCHANGED <<version, pending, missed, crashes>>
    BY <2>2 DEF Restarted, LTypeOK, TypeOK
  <2>3. ASSUME NEW h \in Hosts, NEW i \in Ids, Dies(h, i) PROVE TypeOK'
    BY <2>3 DEF Dies, LTypeOK, TypeOK
  <2>4. CASE UNCHANGED pvars
    BY <2>1, <2>4 DEF pvars
  <2> QED
    BY <2>1, <2>2, <2>3, <2>4, NotifyStep
<1>1. CASE ChangeAddrs
  BY <1>0, <1>1 DEF ChangeAddrs, pool, LTypeOK
<1>2. CASE ReadAddrs
  BY <1>0, <1>2 DEF ReadAddrs, pool, LTypeOK
<1>3. CASE UpdateListeners
  BY <1>0, <1>3, UpdateType DEF UpdateListeners, LTypeOK
<1>4. CASE UpdatePanics \/ ServiceCrash
  BY <1>0, <1>4 DEF UpdatePanics, ServiceCrash, PoolLost, LTypeOK, States
<1>5. CASE Notification
  BY <1>0, <1>5 DEF Notification, pool, LTypeOK
<1>6. ASSUME NEW h \in Hosts, NEW i \in Ids, Goroutine(h, i) \/ Dies(h, i) PROVE LTypeOK'
  <2>1. PICK s \in States : Becomes(h, i, s)
    BY <1>6 DEF Goroutine, Dies, Bind, BindFails, Serve, ServeClosed, Reap, States
  <2>2. inst' \in [Hosts -> [Ids -> States]]
    BY <2>1 DEF Becomes, LTypeOK
  <2>3. entry' \in [Hosts -> Ids \cup {NoId}] /\ dark' \subseteq Hosts /\ UNCHANGED <<addrs, hosts, kind>>
    BY <1>6 DEF Goroutine, Dies, Bind, BindFails, Serve, ServeClosed, Reap, LTypeOK
  <2> QED
    BY <1>0, <2>2, <2>3 DEF LTypeOK
<1>7. CASE UNCHANGED pvars
  BY <1>0, <1>7 DEF pvars, pool, LTypeOK
<1> QED
  BY <1>1, <1>2, <1>3, <1>4, <1>5, <1>6, <1>7 DEF LNext, ServiceStep

\* Every variable keeps its type, so a listener is in one of the states the code can be in
\* (multilisten.go:34-75).
THEOREM PoolTypeCorrect == LSpec => []LTypeOK
<1>1. LInit => LTypeOK
  BY DEF LInit, Init, LTypeOK, TypeOK, States
<1> QED
  BY <1>1, LNextType, PTL DEF LSpec

-----------------------------------------------------------------------------
(* Safety.                                                                  *)

\* A listener that was just added is alive, and one whose entry stays is left alone.
LEMMA UpdateServes ==
    ASSUME LTypeOK, LInv, ListenAndServe, NEW h \in Hosts
    PROVE  /\ entry'[h] # NoId => inst'[h][entry'[h]] # "none"
           /\ h \in hosts \ dark' => Served(h)'
           /\ entry'[h] # NoId => h \in hosts
<1>0. /\ h \in Added => h \notin Vanished /\ h \in hosts
      /\ h \in Vanished => h \notin hosts
      /\ h \notin Added /\ h \notin Vanished => (h \in hosts <=> entry[h] # NoId)
  BY DEF Added, Vanished, LTypeOK
<1>1. CASE h \in Added
  <2>1. Fresh(h) \in Ids
    BY <1>1, FreshUnused DEF ListenAndServe
  <2>2. entry'[h] = Fresh(h) /\ inst'[h] = [inst[h] EXCEPT ![Fresh(h)] = "new"]
    BY <1>0, <1>1 DEF ListenAndServe
  <2>3. inst'[h][Fresh(h)] = "new"
    BY <2>1, <2>2 DEF LTypeOK
  <2> QED
    BY <1>0, <1>1, <2>1, <2>2, <2>3 DEF Served, Alive
<1>2. CASE h \in Vanished
  <2>1. entry'[h] = NoId
    BY <1>0, <1>2 DEF ListenAndServe
  <2> QED
    BY <1>0, <1>2, <2>1
<1>3. CASE h \notin Added /\ h \notin Vanished
  <2>1. entry'[h] = entry[h] /\ inst'[h] = inst[h]
    BY <1>3 DEF ListenAndServe
  <2>2. h \in hosts /\ h \notin dark' => h \notin dark
    BY <1>3 DEF ListenAndServe
  <2> QED
    BY <1>0, <1>3, <2>1, <2>2 DEF LInv, NoDeadEntry, EntryServed, Served
<1> QED
  BY <1>1, <1>2, <1>3

\* A step of one goroutine, seen from the hosts: it serves as before, or has gone dark.
LEMMA GoroutineServes ==
    ASSUME LTypeOK, LInv, NEW g \in Hosts, NEW i \in Ids, Goroutine(g, i) \/ Dies(g, i),
           NEW h \in Hosts
    PROVE  /\ entry'[h] # NoId => entry'[h] = entry[h] /\ inst'[h][entry[h]] # "none"
           /\ h \notin dark' => h \notin dark /\ (Served(h) => Served(h)')
<1>1. /\ entry \in [Hosts -> Ids \cup {NoId}]
      /\ inst \in [Hosts -> [Ids -> States]]
      /\ entry[h] # NoId => inst[h][entry[h]] # "none"
  BY DEF LTypeOK, LInv, NoDeadEntry
<1>2. CASE Bind(g, i) \/ Serve(g, i) \/ ServeClosed(g, i)
  BY <1>1, <1>2 DEF Bind, Serve, ServeClosed, Becomes, Served, Alive
<1>3. CASE BindFails(g, i)
  BY <1>1, <1>3 DEF BindFails, Becomes, Served, Alive
<1>4. CASE Reap(g, i)
  BY <1>1, <1>4 DEF Reap, Becomes, Served, Alive, Returned
<1>5. CASE Dies(g, i)
  BY <1>1, <1>5 DEF Dies, Becomes, Served, Alive
<1> QED
  BY <1>2, <1>3, <1>4, <1>5 DEF Goroutine

\* The invariant is inductive relative to the types.
LEMMA LNextInv == LTypeOK /\ LInv /\ [LNext]_pvars => LInv'
<1> SUFFICES ASSUME LTypeOK, LInv, [LNext]_pvars PROVE LInv'
  OBVIOUS
<1>0. Service \in Consumers /\ TypeOK
  BY ServiceAssumption DEF LTypeOK
<1>1. CASE ChangeAddrs
  BY <1>1 DEF ChangeAddrs, WriteFile, pool, LInv, NoDeadEntry, EntryServed, StaysServed, Served
<1>2. CASE ReadAddrs
  <2>1. pc'[Service] \in {"half", "applying"}
    BY <1>0, <1>2 DEF ReadAddrs, BootRead, ReadAgain, TypeOK
  <2> QED
    BY <1>2, <2>1 DEF ReadAddrs, pool, LInv, NoDeadEntry, EntryServed, StaysServed, Served
<1>3. CASE UpdateListeners
  <2>1. ListenAndServe /\ hosts' = hosts
    BY <1>3 DEF UpdateListeners
  <2>2. hosts \subseteq Hosts
    BY DEF LTypeOK
  <2> QED
    BY <2>1, <2>2, UpdateServes DEF LInv, NoDeadEntry, EntryServed, StaysServed
<1>4. CASE UpdatePanics \/ ServiceCrash
  BY <1>4 DEF UpdatePanics, ServiceCrash, PoolLost, LInv, NoDeadEntry, EntryServed, StaysServed
<1>5. CASE Notification
  <2>1. pc'[Service] \in {"waiting", "received"} => pc[Service] \in {"waiting", "received"}
    BY <1>0, <1>5 DEF Notification, Renew, WriterCrash, Process, ProcessFails, Receive, ReadFails,
                      TypeOK
  <2> QED
    BY <1>5, <2>1 DEF Notification, pool, LInv, NoDeadEntry, EntryServed, StaysServed, Served
<1>6. ASSUME NEW g \in Hosts, NEW i \in Ids, Goroutine(g, i) \/ Dies(g, i) PROVE LInv'
  <2>1. pc' = pc /\ hosts' = hosts
    BY <1>6 DEF Goroutine, Dies, Bind, BindFails, Serve, ServeClosed, Reap, vars
  <2>2. hosts \subseteq Hosts
    BY DEF LTypeOK
  <2> QED
    BY <1>6, <2>1, <2>2, GoroutineServes DEF LInv, NoDeadEntry, EntryServed, StaysServed
<1>7. CASE UNCHANGED pvars
  BY <1>7 DEF pvars, vars, pool, LInv, NoDeadEntry, EntryServed, StaysServed, Served
<1> QED
  BY <1>1, <1>2, <1>3, <1>4, <1>5, <1>6, <1>7 DEF LNext, ServiceStep

\* The inductive invariant holds in every reachable state (multilisten.go:45-75).
THEOREM PoolInductive == LSpec => []LInv
<1>1. LInit => LInv
  BY DEF LInit, Init, LInv, NoDeadEntry, EntryServed, StaysServed
<1> QED
  BY <1>1, LNextInv, PoolTypeCorrect, PTL DEF LSpec

\* No entry of the pool outlives its listener, whichever goroutine deletes which entry
\* (multilisten.go:61-67).
THEOREM EntriesAreAlive == LSpec => []NoDeadEntry
<1>1. LInv => NoDeadEntry
  BY DEF LInv
<1> QED
  BY <1>1, PoolInductive, PTL

\* Between two updates every address that was asked for has a listener, unless its listener
\* failed (multilisten.go:66).
THEOREM HostsStayServed == LSpec => []StaysServed
<1>1. LInv => StaysServed
  BY DEF LInv
<1> QED
  BY <1>1, PoolInductive, PTL
=============================================================================
