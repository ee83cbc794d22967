----------------------------- MODULE PrefixRelay -----------------------------
(***************************************************************************)
(* What the DHCPv6 client and radvd promise together, without packets,     *)
(* files, signals or processes: the LAN hears of the provider's            *)
(* delegations in their order.  One may be skipped, none comes back, and   *)
(* nothing is announced before it is leased or leased before it is         *)
(* delegated.                                                              *)
(***************************************************************************)
EXTENDS Integers

VARIABLES
    delegated, \* how often the provider has changed its mind
    leased,    \* the delegation the router has a lease for
    announced  \* the delegation the LAN knows

vars == <<delegated, leased, announced>>

Init ==
    /\ delegated = 0
    /\ leased = -1
    /\ announced = -1

Delegate ==
    /\ delegated' = delegated + 1
    /\ UNCHANGED <<leased, announced>>

\* From some delegation since the last lease on, perhaps the same one again.
Lease ==
    /\ leased' \in leased .. delegated
    /\ UNCHANGED <<delegated, announced>>

Announce ==
    /\ announced' \in announced .. leased
    /\ UNCHANGED <<delegated, leased>>

Next == Delegate \/ Lease \/ Announce

Spec == Init /\ [][Next]_vars
=============================================================================
