---------------------------- MODULE MCDispatcher ----------------------------
(* Four tutorials registered in the order t1, t2, t3, t4; t2 is inactive *)
(* (the spec's dispatcher example); t3 is built by numberOfTutorial.  Two  *)
(* active TUTORIAL tutorials let their timers interleave with each other   *)
(* and with the device events; frames only move currentFrame and oldFrame, *)
(* which the lifecycle properties do not read, so two frames suffice.     *)
EXTENDS Dispatcher

CONSTANTS t1, t2, t3, t4, f1, f2

MCOrder == <<t1, t2, t3, t4>>

MCKind == [t \in {t1, t2, t3, t4} |-> IF t = t3 THEN "numberOf" ELSE "TUTORIAL"]

MCActive == {t1, t3, t4}

MCFrames == {f1, f2}

=============================================================================
