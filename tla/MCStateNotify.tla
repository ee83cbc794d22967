---------------------------- MODULE MCStateNotify ----------------------------
(* Instances of StateNotify for TLC.                                        *)
EXTENDS StateNotify

CONSTANTS netconfigd, radvd
=============================================================================
