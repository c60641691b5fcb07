------------------------------- MODULE Scene -------------------------------
(***************************************************************************)
(* What every canvas tutorial shares (mac/static-docs/jsg/TUTORIAL.js):    *)
(* the canvas size and leapToScene(), and the part of a device frame the   *)
(* tutorials read, its first pointable.  A frame is NoPointable or the     *)
(* pointable's touch zone, stabilized tip position (device millimetres)    *)
(* and tip velocity z.  Canvas lengths are integers in units of 1/Scale    *)
(* pixel, which keeps every halving of the button layouts exact.          *)
(***************************************************************************)
EXTENDS Integers

CONSTANTS
  CanvasHeight,   \* this.height in pixels (window.innerHeight * .8)
  IBox,           \* frame.interactionBox: [width, height, centerY]
  Positions,      \* stabilizedTipPosition values <<x, y>>
  Velocities,     \* tipVelocity[2] values
  NoPointable     \* a frame whose pointables[0] is undefined

Zones == {"hovering", "touching"}

PointableFrames == [zone : Zones, pos : Positions, vz : Velocities]

Scale == 32

(* this.height and this.width = this.height * 1.5, scaled.                *)
HeightSc == CanvasHeight * Scale
WidthSc == (3 * HeightSc) \div 2

(* leapToScene( pos ): x / iBox.width * width and                          *)
(* (y - (iBox.center[1] - iBox.height / 2)) / iBox.height * height, scaled. *)
LeapToScene(pos) ==
  << (pos[1] * WidthSc) \div IBox.width,
     ((2 * pos[2] - 2 * IBox.centerY + IBox.height) * HeightSc)
       \div (2 * IBox.height) >>

(* this.frame.pointables[0] && this.oFrame.pointables[0]                   *)
BothPointed(f, of) == f # NoPointable /\ of # NoPointable

=============================================================================
