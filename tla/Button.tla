------------------------------- MODULE Button -------------------------------
(***************************************************************************)
(* The BUTTON object of win/static-docs/jsg/BUTTON.js.                     *)
(*                                                                         *)
(* A button is a rectangle [left, right, top, bottom] in canvas            *)
(* coordinates (y grows downward; the finger's scene y is negated before   *)
(* the comparison).  Its mutable state lives in the owning tutorial, one   *)
(* entry per button index: hovered (color.b is 150, not 200) and the       *)
(* click box's colour and alpha.  Alpha is counted in steps of the         *)
(* decrement .01, so 1 is AlphaSteps and .01 is 1.  The tutorial's         *)
(* currentButton is an index or NoButton (undefined).                      *)
(***************************************************************************)
EXTENDS Integers, SequencesExt

CONSTANTS
  NoButton,    \* whichTutorial.currentButton when it is undefined
  AlphaSteps   \* the number of .01 decrements in an alpha of 1 (100)

(* new BUTTON( tutorial, [x, y], width, height ): the bounding box.        *)
MakeButton(x, y, w, h) ==
  [left |-> x - w \div 2, right |-> x + w \div 2,
   top |-> y + h \div 2, bottom |-> y - h \div 2]

(* The four tests of checkInside( position ).                              *)
Inside(b, pos) ==
  /\ pos[1] >= b.left
  /\ pos[1] <= b.right
  /\ -pos[2] <= b.top
  /\ -pos[2] >= b.bottom

(* Variant: on mouse out the button clears currentButton even when another *)
(* button holds it.                                                        *)
CheckInsideAlwaysClear(btns, i, pos, cur) ==
  IF Inside(btns[i], pos) THEN i ELSE NoButton

(* currentButton after buttons[i].checkInside( pos ): mouse over makes i   *)
(* current; mouse out clears it only if i holds it.                        *)
CheckInside(btns, i, pos, cur) ==
  IF Inside(btns[i], pos) THEN i
  ELSE IF cur = i THEN NoButton ELSE cur

(* currentButton after the loop that calls checkInside on every button in  *)
(* order.                                                                  *)
HoverPass(btns, pos, cur) ==
  FoldLeft(LAMBDA c, i : CheckInside(btns, i, pos, c), cur,
           [i \in 1 .. Len(btns) |-> i])

(* The hover colour after checkInside: hovered exactly when inside.        *)
Hovered(btns, pos) == [i \in 1 .. Len(btns) |-> Inside(btns[i], pos)]

(* Variant: the fade without its test.                                     *)
FadeAlphaUnguarded(a) == a - 1

(* draw(): if( clickBoxColor.a >= 0 ) clickBoxColor.a -= .01               *)
FadeAlpha(a) == IF a >= 0 THEN a - 1 ELSE a

(* The click box a new BUTTON starts with: rgba(0, 0, 0, 0).               *)
NoFlash == [rgb |-> "none", a |-> 0]

=============================================================================
