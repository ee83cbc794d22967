------------------------------ MODULE MCDHCP4d ------------------------------
(* Instances of DHCP4d for TLC.                                             *)
EXTENDS DHCP4d

CONSTANTS c1, c2, printer

\* Nothing was leased yet.
EmptyFile == [n \in Nums |-> NoLease]

\* The administrator gave c1 a static lease on number 0.
StaticFile ==
    [n \in Nums |-> IF n = 0
                    THEN [hw |-> c1, hostname |-> printer, override |-> NoName, expiry |-> 0]
                    ELSE NoLease]
=============================================================================
