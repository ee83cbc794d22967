----------------------------- MODULE StateNotify -----------------------------
(***************************************************************************)
(* How the services of router7 tell each other about state: one service    *)
(* replaces a file under /perm and then sends SIGUSR1 to the services that *)
(* read it (internal/notify); each of these receives the signal through a  *)
(* channel of capacity one and reads the file again.                       *)
(*                                                                         *)
(* The writer stands for dhcp4, dhcp6, dhcp4d or netconfigd.  All of them  *)
(* write and notify again when a lease is renewed, changed or not.  A      *)
(* consumer reads the file once when it starts: dnsd and radvd             *)
(* (ReadsFirst) before they call signal.Notify, netconfigd after it.       *)
(* gokrazy restarts processes that end.                                    *)
(***************************************************************************)
EXTENDS Integers

CONSTANTS
    Consumers,   \* the services that read the file
    ReadsFirst,  \* those that read it before they call signal.Notify
    MaxVersion,  \* bound on the number of writes, for model checking
    MaxCrashes   \* bound on the number of process ends, for model checking

ASSUME ConsumerAssumption == ReadsFirst \subseteq Consumers

VARIABLES
    version, \* how often the file was replaced
    pending, \* the consumers that the writer has still to notify
    missed,  \* the consumers whose notification for this version was never sent
    pc,      \* what each consumer does
    signal,  \* whether the channel of the consumer holds a signal
    seen,    \* the version each consumer has read
    crashes  \* how many processes have ended

vars == <<version, pending, missed, pc, signal, seen, crashes>>

Init ==
    /\ version = 0
    /\ pending = {}
    /\ missed = {}
    /\ pc = [c \in Consumers |-> "booting"]
    /\ signal = [c \in Consumers |-> FALSE]
    /\ seen = [c \in Consumers |-> 0]
    /\ crashes = 0

\* The consumer has called signal.Notify; before that Go ignores SIGUSR1.
Subscribed(c) == pc[c] \in {"waiting", "received", "applying"} \/ (pc[c] = "half" /\ c \notin ReadsFirst)

-----------------------------------------------------------------------------
(* The writer.                                                              *)

\* The file is replaced atomically (renameio), after the previous round of notifications.
WriteFile ==
    /\ pending = {}
    /\ version < MaxVersion
    /\ version' = version + 1
    /\ pending' = Consumers
    /\ missed' = {}
    /\ UNCHANGED <<pc, signal, seen, crashes>>

\* Mutant: a renewal that brings nothing new is not worth a notification.
RenewQuietly == UNCHANGED vars

\* A renewal replaces the file by one that says the same, and notifies all the same.
Renew ==
    /\ pending = {}
    /\ pending' = Consumers
    /\ missed' = {}
    /\ UNCHANGED <<version, pc, signal, seen, crashes>>

\* Mutant: the signal is kept only if the consumer is blocked in its receive.
DeliverUnbuffered(c) == [signal EXCEPT ![c] = pc[c] = "waiting"]

\* The signal enters the channel; if the channel is full it is dropped, if the consumer does
\* not run or has not called signal.Notify it is ignored.
Deliver(c) == IF Subscribed(c) THEN [signal EXCEPT ![c] = TRUE] ELSE signal

\* notify.Process finds the consumer in /proc and signals it.
Process(c) ==
    /\ c \in pending
    /\ signal' = Deliver(c)
    /\ pending' = pending \ {c}
    /\ UNCHANGED <<version, missed, pc, seen, crashes>>

\* The scan of /proc fails (reading the cmdline of a process that ends): the error is logged.
ProcessFails(c) ==
    /\ c \in pending
    /\ pending' = pending \ {c}
    /\ missed' = missed \cup {c}
    /\ UNCHANGED <<version, pc, signal, seen, crashes>>

\* The writer ends between writing the file and notifying; it does not notify when it is back.
WriterCrash ==
    /\ crashes < MaxCrashes
    /\ pending # {}
    /\ missed' = missed \cup pending
    /\ pending' = {}
    /\ crashes' = crashes + 1
    /\ UNCHANGED <<version, pc, signal, seen>>

-----------------------------------------------------------------------------
(* A consumer.                                                              *)

\* Mutant: the file is still the one from before the rename.
ReadBefore(c) == seen' = [seen EXCEPT ![c] = version - 1]

Read(c) == seen' = [seen EXCEPT ![c] = version]

\* dnsd, radvd: read the file, then call signal.Notify.
BootRead(c) ==
    /\ c \in ReadsFirst
    /\ pc[c] = "booting"
    /\ Read(c)
    /\ pc' = [pc EXCEPT ![c] = "half"]
    /\ UNCHANGED <<version, pending, missed, signal, crashes>>

BootSubscribe(c) ==
    /\ c \in ReadsFirst
    /\ pc[c] = "half"
    /\ pc' = [pc EXCEPT ![c] = "waiting"]
    /\ UNCHANGED <<version, pending, missed, signal, seen, crashes>>

\* netconfigd: call signal.Notify, then Apply reads the file.
SubscribeFirst(c) ==
    /\ c \notin ReadsFirst
    /\ pc[c] = "booting"
    /\ pc' = [pc EXCEPT ![c] = "half"]
    /\ UNCHANGED <<version, pending, missed, signal, seen, crashes>>

FirstRead(c) ==
    /\ c \notin ReadsFirst
    /\ pc[c] = "half"
    /\ Read(c)
    /\ pc' = [pc EXCEPT ![c] = "applying"]
    /\ UNCHANGED <<version, pending, missed, signal, crashes>>

\* The receive on the channel, and the read that follows it.
Receive(c) ==
    /\ pc[c] = "waiting"
    /\ signal[c]
    /\ signal' = [signal EXCEPT ![c] = FALSE]
    /\ pc' = [pc EXCEPT ![c] = "received"]
    /\ UNCHANGED <<version, pending, missed, seen, crashes>>

ReadAgain(c) ==
    /\ pc[c] = "received"
    /\ Read(c)
    /\ pc' = [pc EXCEPT ![c] = "applying"]
    /\ UNCHANGED <<version, pending, missed, signal, crashes>>

\* dnsd, radvd and the services that listen on addresses log an error and wait for the next
\* signal; netconfigd ends.
ReadFails(c) ==
    /\ c \in ReadsFirst
    /\ pc[c] = "received"
    /\ pc' = [pc EXCEPT ![c] = "waiting"]
    /\ UNCHANGED <<version, pending, missed, signal, seen, crashes>>

\* What was read is put to use (Apply, SetLeases, SetPrefixes), which takes a while; only then
\* the consumer is back at its receive.
Applied(c) ==
    /\ pc[c] = "applying"
    /\ pc' = [pc EXCEPT ![c] = "waiting"]
    /\ UNCHANGED <<version, pending, missed, signal, seen, crashes>>

\* The process is started again; signals and what it has read are gone.
Restarted(c) ==
    /\ pc' = [pc EXCEPT ![c] = "booting"]
    /\ signal' = [signal EXCEPT ![c] = FALSE]
    /\ seen' = [seen EXCEPT ![c] = 0]

ConsumerCrash(c) ==
    /\ crashes < MaxCrashes
    /\ Restarted(c)
    /\ crashes' = crashes + 1
    /\ UNCHANGED <<version, pending, missed>>

-----------------------------------------------------------------------------
Step(c) == \/ BootRead(c) \/ BootSubscribe(c) \/ SubscribeFirst(c) \/ FirstRead(c)
           \/ Receive(c) \/ ReadAgain(c) \/ Applied(c)

Next ==
    \/ WriteFile
    \/ Renew
    \/ WriterCrash
    \/ \E c \in Consumers :
          Process(c) \/ ProcessFails(c) \/ Step(c) \/ ReadFails(c) \/ ConsumerCrash(c)

\* The processes run: a consumer takes its next step, a writer its next notification; leases
\* are renewed; and neither a notification nor a read fails every time.
Fairness ==
    /\ WF_vars(Renew)
    /\ \A c \in Consumers :
          /\ WF_vars(Step(c))
          /\ WF_vars(Process(c) \/ ProcessFails(c))
          /\ SF_vars(Process(c))
          /\ SF_vars(ReadAgain(c))

Spec == Init /\ [][Next]_vars /\ Fairness

-----------------------------------------------------------------------------
TypeOK ==
    /\ version \in Nat
    /\ pending \subseteq Consumers
    /\ missed \subseteq Consumers
    /\ pc \in [Consumers -> {"booting", "half", "waiting", "received", "applying"}]
    /\ signal \in [Consumers -> BOOLEAN]
    /\ seen \in [Consumers -> Nat]
    /\ crashes \in Nat

\* A consumer that has read an older file will be woken: a signal is in its channel,
\* or the writer has still to send it, or it was never sent.
WillBeWoken(c) ==
    pc[c] \in {"applying", "waiting"} /\ seen[c] # version => signal[c] \/ c \in pending \/ c \in missed

\* One slot in the channel is enough for a consumer that calls signal.Notify before its first
\* read: however writes, notifications, reads and restarts interleave, no wakeup is lost
\* (netconfigd.go:134-158, notify.go:29-56).
NoLostWakeup == \A c \in Consumers \ ReadsFirst : WillBeWoken(c)

\* Renewals heal what the notifications lose: every consumer, also one that reads the file
\* before it calls signal.Notify, and also after notifications or reads that failed, ends up
\* with the last version of the file (cmd/dhcp6/dhcp6.go:57-79, dnsd.go:95-112).
RenewalHeals == \A c \in Consumers : <>[](seen[c] = version)
=============================================================================
