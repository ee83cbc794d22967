-------------------------- MODULE StateNotifyProofs --------------------------
(***************************************************************************)
(* Proof that no wakeup is lost, for any set of consumers and without the  *)
(* bounds on writes and restarts.                                          *)
(***************************************************************************)
EXTENDS StateNotify, TLAPS

\* NoLostWakeup is inductive together with the types.
IInv == TypeOK /\ NoLostWakeup

\* The invariant holds when the processes start.
LEMMA InitInv == Init => IInv
BY DEF Init, IInv, TypeOK, NoLostWakeup, WillBeWoken

\* The types are preserved by every step.
LEMMA NextType == TypeOK /\ [Next]_vars => TypeOK'
<1> SUFFICES ASSUME TypeOK, [Next]_vars PROVE TypeOK'
  OBVIOUS
<1>1. CASE WriteFile
  BY <1>1 DEF WriteFile, TypeOK
<1>2. CASE Renew \/ WriterCrash
  BY <1>2 DEF Renew, WriterCrash, TypeOK
<1>3. ASSUME NEW c \in Consumers, Process(c) PROVE TypeOK'
  BY <1>3 DEF Process, Deliver, TypeOK
<1>4. ASSUME NEW c \in Consumers, ProcessFails(c) PROVE TypeOK'
  BY <1>4 DEF ProcessFails, TypeOK
<1>5. ASSUME NEW c \in Consumers, Step(c) \/ ReadFails(c) PROVE TypeOK'
  BY <1>5 DEF Step, BootRead, BootSubscribe, SubscribeFirst, FirstRead, Receive, ReadAgain,
              ReadFails, Applied, Read, TypeOK
<1>6. ASSUME NEW c \in Consumers, ConsumerCrash(c) PROVE TypeOK'
  BY <1>6 DEF ConsumerCrash, Restarted, TypeOK
<1>7. CASE UNCHANGED vars
  BY <1>7 DEF vars, TypeOK
<1> QED
  BY <1>1, <1>2, <1>3, <1>4, <1>5, <1>6, <1>7 DEF Next

\* No step takes the last reason to wake up from a consumer that waits with an old file.
LEMMA NextWakeup == IInv /\ [Next]_vars => NoLostWakeup'
<1> SUFFICES ASSUME IInv, [Next]_vars, NEW c \in Consumers \ ReadsFirst PROVE WillBeWoken(c)'
  BY DEF NoLostWakeup
<1>0. TypeOK /\ WillBeWoken(c)
  BY DEF IInv, NoLostWakeup
<1>1. CASE WriteFile
  BY <1>1 DEF WriteFile, WillBeWoken
<1>2. CASE Renew \/ WriterCrash
  BY <1>0, <1>2 DEF Renew, WriterCrash, WillBeWoken
<1>3. ASSUME NEW d \in Consumers, Process(d) PROVE WillBeWoken(c)'
  BY <1>0, <1>3 DEF Process, Deliver, Subscribed, WillBeWoken, TypeOK
<1>4. ASSUME NEW d \in Consumers, ProcessFails(d) PROVE WillBeWoken(c)'
  BY <1>0, <1>4 DEF ProcessFails, WillBeWoken
<1>5. ASSUME NEW d \in Consumers, BootRead(d) \/ BootSubscribe(d) \/ SubscribeFirst(d)
      PROVE  WillBeWoken(c)'
  BY <1>0, <1>5 DEF BootRead, BootSubscribe, SubscribeFirst, Read, WillBeWoken, TypeOK
<1>6. ASSUME NEW d \in Consumers, FirstRead(d) \/ ReadAgain(d) PROVE WillBeWoken(c)'
  BY <1>0, <1>6 DEF FirstRead, ReadAgain, Read, WillBeWoken, TypeOK
<1>7. ASSUME NEW d \in Consumers, Receive(d) \/ ReadFails(d) \/ Applied(d) PROVE WillBeWoken(c)'
  BY <1>0, <1>7 DEF Receive, ReadFails, Applied, WillBeWoken, TypeOK
<1>8. ASSUME NEW d \in Consumers, ConsumerCrash(d) PROVE WillBeWoken(c)'
  BY <1>0, <1>8 DEF ConsumerCrash, Restarted, WillBeWoken, TypeOK
<1>9. CASE UNCHANGED vars
  BY <1>0, <1>9 DEF vars, WillBeWoken
<1> QED
  BY <1>1, <1>2, <1>3, <1>4, <1>5, <1>6, <1>7, <1>8, <1>9 DEF Next, Step

\* Every variable of writers and consumers keeps its type (notify.go:29-56).
THEOREM TypeCorrect == Spec => []TypeOK
<1>1. Init => TypeOK
  BY DEF Init, TypeOK
<1> QED
  BY <1>1, NextType, PTL DEF Spec

\* A consumer that calls signal.Notify before its first read never waits for ever with an old
\* file that it was told about (netconfigd.go:134-158).
THEOREM WakeupsNotLost == Spec => []NoLostWakeup
<1>1. IInv /\ [Next]_vars => IInv'
  BY NextType, NextWakeup DEF IInv
<1>2. IInv => NoLostWakeup
  BY DEF IInv
<1> QED
  BY <1>1, <1>2, InitInv, PTL DEF Spec
=============================================================================
