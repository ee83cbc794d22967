------------------------------- MODULE Captured -------------------------------
(***************************************************************************)
(* Packet capture in router7 (cmd/captured): the main goroutine records    *)
(* the packets of all interfaces in a ring, and an SSH session replays the *)
(* ring and goes on with the packets its own sockets capture.  The session *)
(* opens its sockets and copies the ring under the mutex of the ring.      *)
(*                                                                         *)
(* The packets of an interface are numbered as they arrive.  What a socket *)
(* and its goroutine hold are the packets from `next' to the last arrived. *)
(* Sockets lose nothing here: what the kernel drops for want of room is    *)
(* not modelled.                                                           *)
(***************************************************************************)
EXTENDS Integers, Sequences, FiniteSets, SequencesExt

CONSTANTS
    Ifaces,    \* uplink0 and lan0
    Sessions,  \* the exec requests of SSH clients
    Main,      \* the main goroutine
    Size,      \* the size of the ring
    MaxArrived \* bound on the packets, for model checking

Nobody == "nobody"

ASSUME SizeAssumption == Size \in Nat \ {0} /\ MaxArrived \in Nat
ASSUME MainAssumption == Main \notin Sessions /\ Nobody \notin Sessions
ASSUME IfaceAssumption == IsFiniteSet(Ifaces)

Readers == Sessions \cup {Main}
Packet == [iface: Ifaces, n: 1 .. MaxArrived]
None == [iface |-> Main, n |-> 0]   \* an empty slot of the ring, or no packet at hand

VARIABLES
    arrived,  \* interface -> the number of its last packet
    open,     \* reader -> the interfaces it has an open socket on
    next,     \* reader, interface -> the first packet it has not read
    ready,    \* the main goroutine's sockets are open, and it records
    held,     \* the packet the main goroutine has yet to record
    ring,     \* the slots of the ring
    pos,      \* the slot that r points at
    lock,     \* the session that holds the mutex of the ring
    spc,      \* what a session does
    buffered, \* the packets a session has yet to replay
    out,      \* what a session wrote
    gap       \* session, interface -> what was on its way to the ring when the session opened its socket

vars == <<arrived, open, next, ready, held, ring, pos, lock, spc, buffered, out, gap>>

Init ==
    /\ arrived = [i \in Ifaces |-> 0]
    /\ open = [r \in Readers |-> {}]
    /\ next = [r \in Readers |-> [i \in Ifaces |-> 1]]
    /\ ready = FALSE
    /\ held = None
    /\ ring = [k \in 0 .. Size - 1 |-> None]
    /\ pos = 0
    /\ lock = Nobody
    /\ spc = [s \in Sessions |-> "header"]
    /\ buffered = [s \in Sessions |-> <<>>]
    /\ out = [s \in Sessions |-> <<>>]
    /\ gap = [s \in Sessions |-> [i \in Ifaces |-> {}]]

-----------------------------------------------------------------------------
(* Sockets.                                                                 *)

Arrive(i) ==
    /\ Cardinality({p \in Packet : p.n <= arrived[p.iface]}) < MaxArrived
    /\ arrived' = [arrived EXCEPT ![i] = @ + 1]
    /\ UNCHANGED <<open, next, ready, held, ring, pos, lock, spc, buffered, out, gap>>

Pending(r, i) == i \in open[r] /\ next[r][i] <= arrived[i]

\* NextPacket fails: the goroutine closes its socket and ends.  Nobody is told; the channel stays open.
NextPacketFails(r, i) ==
    /\ i \in open[r]
    /\ IF r = Main THEN ready ELSE spc[r] \in {"replaying", "streaming"}
    /\ open' = [open EXCEPT ![r] = @ \ {i}]
    /\ UNCHANGED <<arrived, next, ready, held, ring, pos, lock, spc, buffered, out, gap>>

-----------------------------------------------------------------------------
(* The ring.                                                                *)

\* The slots in the order of ring.Do: the oldest first.
Do == [k \in 1 .. Size |-> ring[(pos + k - 1) % Size]]

\* What the function that ring.Do calls appends, slot by slot: it leaves out the empty ones.
Appended(slots) ==
    LET packets[k \in 0 .. Size] ==
            IF k = 0 THEN <<>>
            ELSE IF slots[k] # None THEN Append(packets[k - 1], slots[k])
            ELSE packets[k - 1]
    IN  packets[Size]

packetsLocked == Appended(Do)

\* capturePackets of the main goroutine, without the mutex; sessions may have begun before.
MainHandle(i) ==
    /\ ~ready
    /\ i \notin open[Main]
    /\ open' = [open EXCEPT ![Main] = @ \cup {i}]
    /\ next' = [next EXCEPT ![Main][i] = arrived[i] + 1]
    /\ ready' = (open'[Main] = Ifaces)
    /\ UNCHANGED <<arrived, held, ring, pos, lock, spc, buffered, out, gap>>

\* for packet := range packets
Receive(i) ==
    /\ ready
    /\ held = None
    /\ Pending(Main, i)
    /\ held' = [iface |-> i, n |-> next[Main][i]]
    /\ next' = [next EXCEPT ![Main][i] = @ + 1]
    /\ UNCHANGED <<arrived, open, ready, ring, pos, lock, spc, buffered, out, gap>>

\* Mutant: the mutex is not taken.
writePacketUnlocked ==
    /\ held # None
    /\ ring' = [ring EXCEPT ![pos] = held]
    /\ pos' = (pos + 1) % Size
    /\ held' = None
    /\ UNCHANGED <<arrived, open, next, ready, lock, spc, buffered, out, gap>>

\* Mutant: the ring is moved before the packet is stored.
writePacketNext ==
    /\ held # None
    /\ lock = Nobody
    /\ ring' = [ring EXCEPT ![(pos + 1) % Size] = held]
    /\ pos' = (pos + 1) % Size
    /\ held' = None
    /\ UNCHANGED <<arrived, open, next, ready, lock, spc, buffered, out, gap>>

\* Mutant: a packet is not recorded while the ring is full.
writePacketIfRoom ==
    /\ held # None
    /\ lock = Nobody
    /\ ring' = IF ring[pos] = None THEN [ring EXCEPT ![pos] = held] ELSE ring
    /\ pos' = IF ring[pos] = None THEN (pos + 1) % Size ELSE pos
    /\ held' = None
    /\ UNCHANGED <<arrived, open, next, ready, lock, spc, buffered, out, gap>>

writePacket ==
    /\ held # None
    /\ lock = Nobody
    /\ ring' = [ring EXCEPT ![pos] = held]
    /\ pos' = (pos + 1) % Size
    /\ held' = None
    /\ UNCHANGED <<arrived, open, next, ready, lock, spc, buffered, out, gap>>

-----------------------------------------------------------------------------
(* A session: the exec request.                                             *)

Lock(s) ==
    /\ spc[s] = "header"
    /\ lock = Nobody
    /\ lock' = s
    /\ spc' = [spc EXCEPT ![s] = "locked"]
    /\ UNCHANGED <<arrived, open, next, ready, held, ring, pos, buffered, out, gap>>

OnItsWay(i) ==
    {n \in 1 .. arrived[i] : \/ i \in open[Main] /\ n >= next[Main][i]
                            \/ held = [iface |-> i, n |-> n]}

\* One round of the loop of capturePackets: from now on the socket of s sees what arrives on i.
NewEthernetHandle(s, i) ==
    /\ spc[s] = "locked"
    /\ i \notin open[s]
    /\ open' = [open EXCEPT ![s] = @ \cup {i}]
    /\ next' = [next EXCEPT ![s][i] = arrived[i] + 1]
    /\ gap' = [gap EXCEPT ![s][i] = OnItsWay(i)]
    /\ UNCHANGED <<arrived, ready, held, ring, pos, lock, spc, buffered, out>>

\* packetsLocked and Unlock; with an error of capturePackets the session is over.
Unlock(s) ==
    /\ spc[s] = "locked"
    /\ lock' = Nobody
    /\ \/ open[s] = Ifaces /\ spc' = [spc EXCEPT ![s] = "replaying"]
       \/ open[s] # Ifaces /\ spc' = [spc EXCEPT ![s] = "ended"]
    /\ buffered' = [buffered EXCEPT ![s] = packetsLocked]
    /\ UNCHANGED <<arrived, open, next, ready, held, ring, pos, out, gap>>

Replay(s) ==
    /\ spc[s] = "replaying"
    /\ buffered[s] # <<>>
    /\ out' = [out EXCEPT ![s] = Append(@, Head(buffered[s]))]
    /\ buffered' = [buffered EXCEPT ![s] = Tail(@)]
    /\ UNCHANGED <<arrived, open, next, ready, held, ring, pos, lock, spc, gap>>

Replayed(s) ==
    /\ spc[s] = "replaying"
    /\ buffered[s] = <<>>
    /\ spc' = [spc EXCEPT ![s] = "streaming"]
    /\ UNCHANGED <<arrived, open, next, ready, held, ring, pos, lock, buffered, out, gap>>

Stream(s, i) ==
    /\ spc[s] = "streaming"
    /\ Pending(s, i)
    /\ out' = [out EXCEPT ![s] = Append(@, [iface |-> i, n |-> next[s][i]])]
    /\ next' = [next EXCEPT ![s][i] = @ + 1]
    /\ UNCHANGED <<arrived, open, ready, held, ring, pos, lock, spc, buffered, gap>>

\* The client is gone: the next write fails, and the context is cancelled.
Hangup(s) ==
    /\ spc[s] \in {"replaying", "streaming"}
    /\ spc' = [spc EXCEPT ![s] = "ended"]
    /\ UNCHANGED <<arrived, open, next, ready, held, ring, pos, lock, buffered, out, gap>>

\* ctx.Done: a goroutine of the session that has a packet closes its socket.
Done(s, i) ==
    /\ spc[s] = "ended"
    /\ Pending(s, i)
    /\ open' = [open EXCEPT ![s] = @ \ {i}]
    /\ UNCHANGED <<arrived, next, ready, held, ring, pos, lock, spc, buffered, out, gap>>

Session(s) ==
    \/ Lock(s) \/ Unlock(s) \/ Replay(s) \/ Replayed(s) \/ Hangup(s)
    \/ \E i \in Ifaces : NewEthernetHandle(s, i) \/ Stream(s, i) \/ Done(s, i)

Next ==
    \/ \E i \in Ifaces : Arrive(i) \/ MainHandle(i) \/ Receive(i)
    \/ writePacket
    \/ \E r \in Readers, i \in Ifaces : NextPacketFails(r, i)
    \/ \E s \in Sessions : Session(s)

Spec == Init /\ [][Next]_vars

-----------------------------------------------------------------------------
(* Properties.                                                              *)

\* A session never sees a packet twice, and those of one interface in their order: what its sockets
\* capture is what the ring it replays did not have yet (ssh.go:85-88).
NoPacketTwice ==
    \A s \in Sessions : \A k \in DOMAIN out[s] : \A j \in 1 .. k - 1 :
        out[s][j].iface = out[s][k].iface => out[s][j].n < out[s][k].n

\* What a session has seen or has yet to see of an interface.
Seen(s, i) ==
    {n \in 1 .. arrived[i] :
        \/ [iface |-> i, n |-> n] \in ToSet(out[s]) \cup ToSet(buffered[s])
        \/ n >= next[s][i]}

\* From the first packet that it replays a session sees every packet, but for those which the main
\* goroutine had captured and not recorded when the session opened its own socket (ssh.go:85-88,
\* captured.go:89-94).
OnlyUnrecordedMissing ==
    \A s \in Sessions, i \in Ifaces :
        spc[s] \in {"replaying", "streaming"} /\ i \in open[s] \cap open[Main] =>
            \A m \in Seen(s, i) : \A n \in m .. arrived[i] : n \in Seen(s, i) \cup gap[s][i]

History == INSTANCE PacketHistory WITH history <- packetsLocked, Packet <- Packet, Size <- Size

\* The ring is the last Size packets recorded, oldest first, before and after it wraps around
\* (captured.go:78-104).
KeepsTheLast == History!Spec

-----------------------------------------------------------------------------
(* The inductive invariant behind the properties.                           *)

\* Every variable has its type, and nobody has read what has not arrived.
TypeOK ==
    /\ arrived \in [Ifaces -> 0 .. MaxArrived]
    /\ open \in [Readers -> SUBSET Ifaces]
    /\ next \in [Readers -> [Ifaces -> Nat \ {0}]]
    /\ \A r \in Readers, i \in Ifaces : next[r][i] <= arrived[i] + 1
    /\ ready \in BOOLEAN
    /\ held \in Packet \cup {None}
    /\ ring \in [0 .. Size - 1 -> Packet \cup {None}]
    /\ pos \in 0 .. Size - 1
    /\ lock \in Sessions \cup {Nobody}
    /\ spc \in [Sessions -> {"header", "locked", "replaying", "streaming", "ended"}]
    /\ buffered \in [Sessions -> Seq(Packet)]
    /\ out \in [Sessions -> Seq(Packet)]
    /\ gap \in [Sessions -> [Ifaces -> SUBSET Nat]]

Mutex == \A s \in Sessions : spc[s] = "locked" <=> lock = s

\* The ring, and behind it the packet to be recorded next.
Line == [k \in 1 .. Size + 1 |-> IF k <= Size THEN Do[k] ELSE held]

\* The empty slots come first, and nothing is recorded before the main goroutine is ready.
Filled ==
    /\ \E e \in 0 .. Size : \A k \in 1 .. Size : Do[k] = None <=> k <= e
    /\ ~ready => \A k \in 1 .. Size + 1 : Line[k] = None

\* The packets of an interface line up in their order, without a gap up to the last one read.
InLine ==
    \A k \in 1 .. Size + 1 : Line[k] # None =>
        /\ Line[k].n < next[Main][Line[k].iface]
        /\ \A j \in 1 .. k - 1 : Line[j].iface = Line[k].iface => Line[j].n < Line[k].n
        /\ \A n \in Line[k].n .. next[Main][Line[k].iface] - 1 :
              \E j \in k .. Size + 1 : Line[j] = [iface |-> Line[k].iface, n |-> n]

\* The sockets of a session are ahead of the ring, and what is between them was on its way.
RingBehind(s) ==
    \A k \in 1 .. Size : Do[k] # None /\ Do[k].iface \in open[s] =>
        /\ Do[k].n < next[s][Do[k].iface]
        /\ Do[k].iface \in open[Main] =>
              \A n \in Do[k].n .. next[s][Do[k].iface] - 1 :
                  \/ n \in gap[s][Do[k].iface]
                  \/ \E j \in 1 .. Size : Do[j] = [iface |-> Do[k].iface, n |-> n]

AheadOfRing == \A s \in Sessions : spc[s] = "locked" => RingBehind(s)

InOrder(q) == \A k \in DOMAIN q : \A j \in 1 .. k - 1 : q[j].iface = q[k].iface => q[j].n < q[k].n

\* What a session replays comes after what it wrote, and before what its sockets see.
Ordered(s) ==
    /\ spc[s] = "header" => open[s] = {}
    /\ spc[s] \in {"header", "locked"} => out[s] = <<>>
    /\ spc[s] = "streaming" => buffered[s] = <<>>
    /\ spc[s] \in {"replaying", "streaming"} =>
          /\ InOrder(buffered[s])
          /\ \A j \in DOMAIN out[s] : out[s][j].n < next[s][out[s][j].iface]
          /\ \A k \in DOMAIN buffered[s] : buffered[s][k].n < next[s][buffered[s][k].iface]
          /\ \A j \in DOMAIN out[s], k \in DOMAIN buffered[s] :
                out[s][j].iface = buffered[s][k].iface => out[s][j].n < buffered[s][k].n

AheadOfOut == \A s \in Sessions : Ordered(s)

\* From the first packet it sees of an interface a session misses only those of the gap.
GapOnly(s, i) == \A m \in Seen(s, i) : \A n \in m .. arrived[i] : n \in Seen(s, i) \cup gap[s][i]

\* OnlyUnrecordedMissing, also for an interface whose socket the main goroutine has yet to open.
OnlyGapMissing ==
    \A s \in Sessions, i \in Ifaces :
        /\ spc[s] \in {"replaying", "streaming"}
        /\ i \in open[s]
        /\ i \in open[Main] \/ ~ready
        => GapOnly(s, i)

IInv ==
    /\ TypeOK /\ Mutex /\ Filled /\ InLine /\ AheadOfRing /\ AheadOfOut
    /\ NoPacketTwice /\ OnlyGapMissing
=============================================================================
