--------------------------- MODULE MCTouchSpeed ---------------------------
(* touchSpeed alone on the page (its own tutorials array), with a canvas   *)
(* 400 pixels high (600 wide) and an interaction box 200 mm wide and high  *)
(* centred at 200 mm, so a device point (x, y) is at scene (3x, 2y - 200). *)
(* The layout is exact in 1/32 pixel for any integer height.               *)
EXTENDS TouchSpeed

CONSTANTS ts

MCOrder == <<ts>>

MCKind == [t \in {ts} |-> "TUTORIAL"]

MCActive == {ts}

MCIBox == [width |-> 200, height |-> 200, centerY |-> 200]

(* Over buttons[1] (top row, left), over buttons[2] (its first child) and *)
(* in the gap between the two halves of the second row.                   *)
MCPositions == {<<-90, 280>>, <<-90, 225>>, <<0, 225>>}

(* A still tip and a fast push towards the screen.                         *)
MCVelocities == {0, -400}

MCFrames == {NoPointable} \cup PointableFrames

(* Canvas heights from the smallest whose grandchild buttons have a       *)
(* positive width (47 px: width2 = 3 * 47 / 16 - 35 / 4 = .0625 px; at    *)
(* 46 px it is -.125) up to the one the run's page uses.                  *)
MCHeights == {47, 48, 100, 400}

(* The layouts of all those canvases are nested (a constant, so TLC      *)
(* evaluates it once).                                                     *)
NestedAtEveryHeight == \A h \in MCHeights : LayoutNested(h * Scale)

(* touchSpeed.init() builds a properly nested tree of fourteen buttons on *)
(* every canvas from 47 px high: each button non-empty, each child inside *)
(* its parent's columns in the row below, siblings apart.  init() runs    *)
(* once, before any event, so every step of the page sees such a layout.  *)
LayoutNestedFromMinHeight == [][NestedAtEveryHeight]_vars

ASSUME \A p \in MCPositions :
         /\ (p[1] * WidthSc) % MCIBox.width = 0
         /\ ((2 * p[2] - 2 * MCIBox.centerY + MCIBox.height) * HeightSc)
              % (2 * MCIBox.height) = 0

=============================================================================
