----------------------------- MODULE PacketHistory -----------------------------
(***************************************************************************)
(* What captured's ring buffer promises: the last Size packets recorded,   *)
(* oldest first.                                                           *)
(***************************************************************************)
EXTENDS Integers, Sequences, SequencesExt

CONSTANTS
    Packet,
    Size      \* how many packets are kept

VARIABLE
    history   \* the packets kept

Init == history = <<>>

Record(p) ==
    LET longer == Append(history, p)
    IN  history' = IF Len(longer) > Size THEN Tail(longer) ELSE longer

Next == \E p \in Packet : Record(p)

Spec == Init /\ [][Next]_history
=============================================================================
