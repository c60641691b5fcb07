---------------------------- MODULE MCReadMore ----------------------------
(* readMore alone on the page, with the canvas and interaction box of      *)
(* MCTouchSpeed: a device point (x, y) is at scene (3x, 2y - 200), bsc     *)
(* covers device y 220 .. 270 and adv 165 .. 215.                          *)
EXTENDS ReadMore

CONSTANTS rm

MCOrder == <<rm>>

MCKind == [t \in {rm} |-> "TUTORIAL"]

MCActive == {rm}

MCIBox == [width |-> 200, height |-> 200, centerY |-> 200]

(* Over bsc, and over adv.                                                  *)
MCPositions == {<<0, 250>>, <<0, 190>>}

MCFrames == {NoPointable} \cup PointableFrames

ASSUME \A p \in MCPositions :
         /\ (p[1] * WidthSc) % MCIBox.width = 0
         /\ ((2 * p[2] - 2 * MCIBox.centerY + MCIBox.height) * HeightSc)
              % (2 * MCIBox.height) = 0

=============================================================================
