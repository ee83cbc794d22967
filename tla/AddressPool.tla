---------------------------- MODULE AddressPool ----------------------------
(***************************************************************************)
(* What the DHCPv4 server promises its clients, without a lease database,  *)
(* goroutines or a file: a number is granted to a client for a while, and  *)
(* never to a client while another one still relies on it.  If a restart   *)
(* has lost part of the database (intact is FALSE) nothing is promised.    *)
(***************************************************************************)
EXTENDS Integers

CONSTANTS
    HW,    \* the clients
    Nums,  \* the numbers of the pool
    NoNum  \* no number

VARIABLES
    now,    \* the clock
    held,   \* the promise each client relies on: a number, and until when
    intact  \* nothing has been lost yet

vars == <<now, held, intact>>

NoPromise == [num |-> NoNum, until |-> 0]

Relies(c, n) == held[c].num = n /\ held[c].num # NoNum /\ now <= held[c].until

Init ==
    /\ now = 1
    /\ held = [c \in HW |-> NoPromise]
    /\ intact = TRUE

Tick ==
    /\ now' = now + 1
    /\ UNCHANGED <<held, intact>>

\* The client gives its number up, or is told to.
GiveUp(c) ==
    /\ held' = [held EXCEPT ![c] = NoPromise]
    /\ UNCHANGED <<now, intact>>

\* Only the promise to c changes, to number n until some time.
Promised(c, n) ==
    /\ held'[c] \in [num: {n}, until: Nat]
    /\ held' = [held EXCEPT ![c] = held'[c]]

\* A client is granted a number on which no other client relies.
Grant(c, n) ==
    /\ intact => \A d \in HW \ {c} : ~Relies(d, n)
    /\ Promised(c, n)
    /\ UNCHANGED <<now, intact>>

\* The database loses a lease; the DHCPACK of the step that loses it may still arrive.
Lose ==
    /\ UNCHANGED held \/ \E c \in HW, n \in Nums : Promised(c, n)
    /\ intact' = FALSE
    /\ UNCHANGED now

Next ==
    \/ Tick
    \/ \E c \in HW : GiveUp(c)
    \/ \E c \in HW, n \in Nums : Grant(c, n)
    \/ Lose

Spec == Init /\ [][Next]_vars
=============================================================================
