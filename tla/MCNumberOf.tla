---------------------------- MODULE MCNumberOf ----------------------------
(* numberOf alone on its page.  Frames carry 0 or 1 hands (draw() only    *)
(* tests hands for truthiness) and 0 to 3 pointables.                     *)
EXTENDS NumberOf

CONSTANTS no

MCOrder == <<no>>

MCKind == [t \in {no} |-> "numberOf"]

MCActive == {no}

MCFrames == [hands : 0 .. 1, pointables : 0 .. 3]

=============================================================================
