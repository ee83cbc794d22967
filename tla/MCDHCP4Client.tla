--------------------------- MODULE MCDHCP4Client ---------------------------
(* Instances of DHCP4Client for TLC.                                        *)
EXTENDS DHCP4Client

CONSTANTS s1, s2, a1, a2

\* Every server has an address of its own.
OwnAddress == [s \in Alive |-> IF s = s1 THEN {a1} ELSE {a2}]

\* A lease from a server that is not there any more.
OldAck == [xid |-> 1, server |-> s1, addr |-> a1]
=============================================================================
