----------------------------- MODULE MCListeners -----------------------------
(* Instances of Listeners for TLC.  *)
EXTENDS Listeners

CONSTANTS captured, lan
=============================================================================
