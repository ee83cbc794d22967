----------------------------- MODULE MCNetconfig -----------------------------
(* Instances of Netconfig for TLC.                                          *)
EXTENDS Netconfig

Good(l) == [link |-> l, ok |-> TRUE]
Malformed(l) == [link |-> l, ok |-> FALSE]

\* No file; both links; both, one of them malformed.
SomeInterfaces == {{}, {Good(Uplink), Good(Lan)}, {Good(Uplink), Malformed(Lan)}}
=============================================================================
