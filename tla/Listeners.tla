------------------------------ MODULE Listeners ------------------------------
(***************************************************************************)
(* A service that listens on every private address of the router (dnsd,    *)
(* dhcp4d, diagd, backupd, netconfigd, captured): its pool of listeners    *)
(* (internal/multilisten), composed with StateNotify, whose file is here   *)
(* the set of addresses and whose notifications make the service bring its *)
(* listeners in line (updateListeners).                                    *)
(*                                                                         *)
(* Every listener has a goroutine of its own.  When ListenAndServe returns *)
(* there, the goroutine takes the pool's mutex and deletes the entry of    *)
(* its host, whichever listener the entry is by then.                      *)
(***************************************************************************)
EXTENDS StateNotify

CONSTANTS
    Service,  \* the consumer that has the pool
    Hosts,    \* the addresses that come and go
    Ids,      \* tells the listeners of one host apart; bounds how many there are at a time
    NoId      \* no entry in the map

\* Other consumers change nothing for this one.
ASSUME ServiceAssumption == Consumers = {Service} /\ ReadsFirst = {Service}
ASSUME IdAssumption == NoId \notin Ids

(***************************************************************************)
(* A listener is "new" until its socket is bound, "open" until Close can   *)
(* find the socket, then "bound".  "shut" and "closing" were closed        *)
(* before that, without and with a socket; "failed" could not bind;        *)
(* "ended" has returned from serving.  "none" is an id that is not in use. *)
(***************************************************************************)
States == {"none", "new", "open", "bound", "shut", "closing", "failed", "ended"}
Alive == {"new", "open", "bound"}
HasSocket == {"open", "bound", "closing"}
Returned == {"shut", "failed", "ended"}

VARIABLES
    addrs,  \* the router's addresses
    hosts,  \* what updateListeners has read of them
    kind,   \* which type implements Listener: net/http, miekg/dns or captured's own
    entry,  \* the map Pool.listeners
    inst,   \* the listeners and their goroutines
    dark    \* the hosts that lost their listener through a failure

pool == <<kind, entry, inst, dark>>
pvars == <<vars, addrs, hosts, pool>>

LInit ==
    /\ Init
    /\ addrs = Hosts
    /\ hosts = {}
    /\ kind \in {"http", "dns", "ssh"}
    /\ entry = [h \in Hosts |-> NoId]
    /\ inst = [h \in Hosts |-> [i \in Ids |-> "none"]]
    /\ dark = {}

-----------------------------------------------------------------------------
(* Pool.ListenAndServe, under the mutex.                                    *)

Unused(h) == {i \in Ids : inst[h][i] = "none"}
Fresh(h) == CHOOSE i \in Unused(h) : TRUE

Added == {h \in hosts : entry[h] = NoId}
Vanished == {h \in Hosts \ hosts : entry[h] # NoId}

\* Close of a listener in state s: an http.Server remembers it; a dns.Server that has not
\* started returns an error that nobody reads, one that is about to makes Close wait.
Close(s) ==
    CASE s = "bound" \/ (s = "open" /\ kind = "dns") -> "ended"
      [] s = "new" /\ kind = "http" -> "shut"
      [] s = "open" /\ kind = "http" -> "closing"
      [] OTHER -> s

\* captured's listener has no socket to close yet, or never got one.
ClosePanics(h) == kind = "ssh" /\ inst[h][entry[h]] \in {"new", "open", "failed"}

ListenAndServe ==
    /\ \A h \in Added : Unused(h) # {}
    /\ ~\E h \in Vanished : ClosePanics(h)
    /\ entry' = [h \in Hosts |-> CASE h \in Added -> Fresh(h)
                                   [] h \in Vanished -> NoId
                                   [] OTHER -> entry[h]]
    /\ inst' = [h \in Hosts |->
                  CASE h \in Added -> [inst[h] EXCEPT ![Fresh(h)] = "new"]
                    [] h \in Vanished -> [inst[h] EXCEPT ![entry[h]] = Close(@)]
                    [] OTHER -> inst[h]]
    /\ dark' = (dark \cap hosts) \ Added
    /\ UNCHANGED kind

-----------------------------------------------------------------------------
(* The goroutine of a listener: ListenAndServe of the Listener.             *)

Becomes(h, i, s) == inst' = [inst EXCEPT ![h][i] = s]

\* Another listener of this service has the port of h.
InUse(h) == \E i \in Ids : inst[h][i] \in HasSocket

\* net.Listen succeeds.
Bind(h, i) ==
    /\ inst[h][i] = "new"
    /\ h \in addrs
    /\ ~InUse(h)
    /\ Becomes(h, i, "open")
    /\ UNCHANGED <<vars, addrs, hosts, kind, entry, dark>>

\* The port is in use, the address is gone, or it cannot be bound yet.
BindFails(h, i) ==
    /\ inst[h][i] = "new"
    /\ Becomes(h, i, "failed")
    /\ dark' = IF \E j \in Ids \ {i} : inst[h][j] \in {"open", "bound"} THEN dark ELSE dark \cup {h}
    /\ UNCHANGED <<vars, addrs, hosts, kind, entry>>

\* The socket is stored where Close finds it.
Serve(h, i) ==
    /\ inst[h][i] = "open"
    /\ Becomes(h, i, "bound")
    /\ UNCHANGED <<vars, addrs, hosts, kind, entry, dark>>

\* An http.Server that was closed in the meantime closes the socket and returns.
ServeClosed(h, i) ==
    /\ inst[h][i] = "closing"
    /\ Becomes(h, i, "ended")
    /\ UNCHANGED <<vars, addrs, hosts, kind, entry, dark>>

\* Accept fails for good.
Dies(h, i) ==
    /\ crashes < MaxCrashes
    /\ crashes' = crashes + 1
    /\ inst[h][i] = "bound"
    /\ Becomes(h, i, "ended")
    /\ dark' = dark \cup {h}
    /\ UNCHANGED <<version, pending, missed, pc, signal, seen, addrs, hosts, kind, entry>>

\* Mutant: the entry is closed too, to be sure that its listener ends.
ReapEntry(h, i) ==
    /\ inst[h][i] \in Returned
    /\ inst' = [inst EXCEPT ![h] = [j \in Ids |-> IF j = i THEN "none"
                                                  ELSE IF j = entry[h] THEN Close(@[j]) ELSE @[j]]]
    /\ entry' = [entry EXCEPT ![h] = NoId]
    /\ UNCHANGED <<vars, addrs, hosts, kind, dark>>

\* Mutant: the goroutine ends and leaves the entry to the next update.
ReapLater(h, i) ==
    /\ inst[h][i] \in Returned
    /\ Becomes(h, i, "none")
    /\ UNCHANGED <<vars, addrs, hosts, kind, entry, dark>>

\* ListenAndServe has returned: delete the entry of the host, and the goroutine ends.
Reap(h, i) ==
    /\ inst[h][i] \in Returned
    /\ Becomes(h, i, "none")
    /\ entry' = [entry EXCEPT ![h] = NoId]
    /\ UNCHANGED <<vars, addrs, hosts, kind, dark>>

Goroutine(h, i) ==
    Bind(h, i) \/ BindFails(h, i) \/ Serve(h, i) \/ ServeClosed(h, i) \/ Reap(h, i)

-----------------------------------------------------------------------------
(* The service: StateNotify's consumer, whose read is PrivateInterfaceAddrs.*)

\* Addresses come or go; netconfigd notifies afterwards.
ChangeAddrs ==
    /\ WriteFile
    /\ addrs' \in SUBSET Hosts
    /\ UNCHANGED <<hosts, pool>>

ReadAddrs ==
    /\ BootRead(Service) \/ ReadAgain(Service)
    /\ hosts' = addrs
    /\ UNCHANGED <<addrs, pool>>

\* updateListeners, when the service starts and for every signal.
UpdateListeners ==
    /\ BootSubscribe(Service) \/ Applied(Service)
    /\ ListenAndServe
    /\ UNCHANGED <<addrs, hosts>>

\* All listeners end with the process.
PoolLost ==
    /\ hosts' = {}
    /\ entry' = [h \in Hosts |-> NoId]
    /\ inst' = [h \in Hosts |-> [i \in Ids |-> "none"]]
    /\ dark' = {}
    /\ UNCHANGED <<addrs, kind>>

\* sl.ln is nil when Close is called.
UpdatePanics ==
    /\ pc[Service] = "applying"
    /\ \E h \in Vanished : ClosePanics(h)
    /\ Restarted(Service)
    /\ PoolLost
    /\ UNCHANGED <<version, pending, missed, crashes>>

ServiceCrash == ConsumerCrash(Service) /\ PoolLost

\* The writer's steps, and those of the service that concern the signal only.
Notification ==
    /\ \/ Renew
       \/ WriterCrash
       \/ Process(Service)
       \/ ProcessFails(Service)
       \/ Receive(Service)
       \/ ReadFails(Service)
    /\ UNCHANGED <<addrs, hosts, pool>>

ServiceStep == ReadAddrs \/ UpdateListeners \/ UpdatePanics

LNext ==
    \/ ChangeAddrs
    \/ ServiceStep
    \/ ServiceCrash
    \/ Notification
    \/ \E h \in Hosts, i \in Ids : Goroutine(h, i) \/ Dies(h, i)

\* As in StateNotify; goroutines run, and an address cannot be bound for a while only.
LFairness ==
    /\ WF_pvars(Notification /\ Renew)
    /\ WF_pvars(Notification /\ (Process(Service) \/ ProcessFails(Service)))
    /\ SF_pvars(Notification /\ Process(Service))
    /\ WF_pvars(ServiceStep \/ (Notification /\ Receive(Service)))
    /\ SF_pvars(ReadAddrs)
    /\ \A h \in Hosts, i \in Ids : WF_pvars(Goroutine(h, i))
    /\ \A h \in Hosts : SF_pvars(\E i \in Ids : Bind(h, i))

LSpec == LInit /\ [][LNext]_pvars /\ LFairness

-----------------------------------------------------------------------------
LTypeOK ==
    /\ TypeOK
    /\ addrs \subseteq Hosts
    /\ hosts \subseteq Hosts
    /\ kind \in {"http", "dns", "ssh"}
    /\ entry \in [Hosts -> Ids \cup {NoId}]
    /\ inst \in [Hosts -> [Ids -> States]]
    /\ dark \subseteq Hosts

Served(h) == \E i \in Ids : inst[h][i] \in Alive

\* An entry never outlives its listener, although goroutines delete entries that are not
\* theirs: otherwise the host would be taken for listened on and never be tried again
\* (multilisten.go:53-55, 61-67).
NoDeadEntry == \A h \in Hosts : entry[h] # NoId => inst[h][entry[h]] # "none"

\* The wrong entry that a dying listener deletes (multilisten.go:66) does not silence the host:
\* between two updates every host that was asked for has a listener, in the map or not, unless
\* its listener failed.
StaysServed ==
    pc[Service] \in {"waiting", "received"} => \A h \in hosts \ dark : Served(h)

\* Whatever addresses come and go, listeners fail, signals get lost and the process panics, the
\* service ends up listening on every address the router has (multilisten.go:45-75).
EventuallyServed == \A h \in Hosts : <>[](h \in addrs => \E i \in Ids : inst[h][i] = "bound")

-----------------------------------------------------------------------------
(* The inductive invariant behind the safety properties.                    *)

\* A host with an entry is served, if only by a listener that lost its entry.
EntryServed == \A h \in Hosts \ dark : entry[h] # NoId => Served(h)

\* Preserved by every step of the service, its listeners and the notifications
\* (multilisten.go:45-75).
LInv == NoDeadEntry /\ EntryServed /\ StaysServed
=============================================================================
