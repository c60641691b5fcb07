----------------------------- MODULE TouchScroll -----------------------------
(***************************************************************************)
(* touchScroll.draw() of mac/static-docs/jsg/touchScrollTutorial.js: while *)
(* any pointable touches, a tenth of the hand's translation since the      *)
(* previous frame is added to the scroll speed; every frame adds the speed *)
(* to the grid offset, wraps the offset once into the cell, and multiplies *)
(* the speed by the momentum .98.                                          *)
(*                                                                         *)
(* A frame is whether some pointable touches and frame.translation(        *)
(* oFrame) in millimetres.  Lengths are exact rationals: integers in units *)
(* of 1 / Unit pixel, where Unit = 10 * 50^MaxFrames holds every tenth and *)
(* every product by 49/50 of the first MaxFrames frames.                   *)
(***************************************************************************)
EXTENDS Controller, Integers

CONSTANTS
  CellSize,    \* touchScroll.size[0] = size[1] (100 pixels)
  MaxFrames    \* the number of frame events the model delivers

Axes == {1, 2}

Unit == 10 * 50 ^ MaxFrames

Cell == CellSize * Unit

VARIABLES
  offset,    \* touchScroll.offset, per axis, in 1 / Unit pixel
  speed,     \* touchScroll.speed, per axis, in 1 / Unit pixel per frame
  frames,    \* the number of frame events so far (bounded by MaxFrames)
  fast       \* history: some frame moved the offset by more than a cell

scrollVars == <<offset, speed, frames, fast>>

vars == <<tutorialVars, controllerVars, scrollVars>>

Init ==
  /\ TutorialInit
  /\ ControllerInit
  /\ offset = [a \in Axes |-> 0]
  /\ speed = [a \in Axes |-> 0]
  /\ frames = 0
  /\ fast = FALSE

(* frame.translation( oFrame ): on the first frame oFrame is the frame     *)
(* itself and the translation is zero.                                     *)
Translation(f, first) == IF first THEN <<0, 0>> ELSE f.tr

(* Variant: only a positive overflow is wrapped.                           *)
WrapPositiveOnly(x) == IF x > Cell THEN x - Cell ELSE x

(* if( offset > size ) offset -= size; else if( offset < 0 ) offset +=     *)
(* size: one subtraction or addition, whatever the overshoot.              *)
Wrap(x) ==
  IF x > Cell THEN x - Cell
  ELSE IF x < 0 THEN x + Cell ELSE x

(* touchScroll.draw() on frame f (scrollInX and scrollInY are both true).  *)
(* The grid and the fingers are painted without changing state.            *)
Draw(f, first) ==
  LET tr == Translation(f, first)
      pushed == [a \in Axes |-> IF f.touching
                                  THEN speed[a] + tr[a] * (Unit \div 10)
                                  ELSE speed[a]]
  IN /\ offset' = [a \in Axes |-> Wrap(offset[a] + pushed[a])]
     /\ speed' = [a \in Axes |-> (pushed[a] \div 50) * 49]
     /\ fast' = (fast \/ \E a \in Axes : pushed[a] > Cell \/ pushed[a] < -Cell)

Frame(f) ==
  /\ frames < MaxFrames
  /\ frames' = frames + 1
  /\ OnFrame(f)
  /\ Draw(f, oldFrame = NoFrame)

DeviceConnected == OnDeviceConnected /\ UNCHANGED scrollVars

DeviceDisconnected == OnDeviceDisconnected /\ UNCHANGED scrollVars

Timeout(t) == OnPlugInTimeout(t) /\ UNCHANGED scrollVars

Next ==
  \/ \E f \in Frames : Frame(f)
  \/ DeviceConnected
  \/ DeviceDisconnected
  \/ \E t \in Tutorials : Timeout(t)

Spec == Init /\ [][Next]_vars

-----------------------------------------------------------------------------
(* Properties *)

(* As long as no frame's speed has exceeded one cell, the single wrap     *)
(* keeps both offsets within [0, size], in either direction of scrolling.  *)
OffsetInCellWhileSlow ==
  ~fast => \A a \in Axes : offset[a] \in 0 .. Cell

(* spec.md 4.5 and 8: the scrolling grid's offset wraps modulo the cell   *)
(* size in both directions, so it stays within one cell.                   *)
OffsetWrapsModulo == \A a \in Axes : offset[a] \in 0 .. Cell

=============================================================================
