------------------------------ MODULE MCDNSHosts ------------------------------
(* Instances of DNSHosts for TLC.                                             *)
EXTENDS DNSHosts, TLC

CONSTANTS router, laptop, localhost

lc(b) == [base |-> b, lower |-> TRUE]
uc(b) == [base |-> b, lower |-> FALSE]

BothSpellings == {lc(router), uc(router)}
\* Nothing tells the addresses of leases apart.
LeaseSymmetry == Permutations(LeaseAddrs)
SharedNames == {lc(laptop), uc(laptop), uc(router), lc(localhost)}
===============================================================================
