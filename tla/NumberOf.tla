------------------------------ MODULE NumberOf ------------------------------
(***************************************************************************)
(* numberOf.draw() of win/static-docs/jsg/numberOfTutorial.js: the hands   *)
(* and pointables counts of the last frames, the rounded average finger    *)
(* count shown in #numberOfFingers, and the highlight classes of the       *)
(* static diagram.  A frame is the pair of counts draw() reads.            *)
(***************************************************************************)
EXTENDS Controller, SmoothingBuffer

CONSTANT FrameBuffer   \* numberOf.frameBuffer (20): the loop's top index

(* Math.round( total / length ) for a non-negative total: floor(x + .5).  *)
RoundedAverage(avg) == (2 * avg[1] + avg[2]) \div (2 * avg[2])

(* The diagram elements whose background draw() sets to '#afa'.           *)
Highlight(n) ==
  CASE n = 1 -> {"finger1", "touch", "clickScroll"}
    [] n = 2 -> {"finger2", "scroll", "zoomRotate"}
    [] n > 2 -> {"finger3", "scroll", "draw"}
    [] OTHER -> {}

VARIABLES
  hands,     \* numberOf.hands
  fingers,   \* numberOf.fingers
  display,   \* #numberOfFingers: Undefined before the first draw, else
             \* [count, lit (colour '#afa'), highlighted (diagram elements)]
  streak     \* history: how many frame events in a row delivered currentFrame

numberOfVars == <<hands, fingers, display, streak>>

vars == <<tutorialVars, controllerVars, numberOfVars>>

Init ==
  /\ TutorialInit
  /\ ControllerInit
  /\ hands = <<>>
  /\ fingers = <<>>
  /\ display = Undefined
  /\ streak = 0

(* Variant: each array is shifted before slot 0 is written (slot 0 of a   *)
(* still empty array reads as undefined, i.e. falsy).                     *)
ShiftFirstCounts(f) ==
  LET h == hands @@ (0 :> 0)
      g == fingers @@ (0 :> 0)
  IN << WithNewest(ShiftedFrom(h, h, FrameBuffer), f.hands),
        WithNewest(ShiftedFrom(g, h, FrameBuffer), f.pointables) >>

(* hands[0] and fingers[0] take this frame's counts; the loop from         *)
(* frameBuffer down to 1 copies both slots i - 1 when hands[i - 1] is      *)
(* truthy and zeroes both otherwise.                                       *)
PushCounts(f) ==
  LET h == WithNewest(hands, f.hands)
      g == WithNewest(fingers, f.pointables)
  IN << ShiftedFrom(h, h, FrameBuffer), ShiftedFrom(g, h, FrameBuffer) >>

(* numberOf.draw() on the frame f (oFrame is read but not used): push the *)
(* counts, round both averages, and update the counter and the diagram.   *)
Draw(f) ==
  LET counts == PushCounts(f)
      n == RoundedAverage(AverageOf(counts[2]))
  IN /\ hands' = counts[1]
     /\ fingers' = counts[2]
     /\ display' = [count |-> n, lit |-> n > 0, highlighted |-> Highlight(n)]

Frame(f) ==
  /\ OnFrame(f)
  /\ Draw(f)
  /\ streak' = IF f = currentFrame THEN IF streak < FrameBuffer
                                          THEN streak + 1 ELSE streak
                                   ELSE 1

DeviceConnected == OnDeviceConnected /\ UNCHANGED numberOfVars

DeviceDisconnected == OnDeviceDisconnected /\ UNCHANGED numberOfVars

Timeout(t) == OnPlugInTimeout(t) /\ UNCHANGED numberOfVars

Next ==
  \/ \E f \in Frames : Frame(f)
  \/ DeviceConnected
  \/ DeviceDisconnected
  \/ \E t \in Tutorials : Timeout(t)

Spec == Init /\ [][Next]_vars

-----------------------------------------------------------------------------
(* Properties *)

(* Once the same frame, with at least one hand, has been delivered         *)
(* frameBuffer times in a row, the counter shows exactly its number of     *)
(* pointables: by then the window holds nothing of older frames.          *)
SteadyHandCountShown ==
  (streak = FrameBuffer /\ currentFrame.hands > 0)
    => display.count = currentFrame.pointables

(* spec.md 4.5: the counter shows the smoothed count of detected           *)
(* pointables.  After frameBuffer identical frames it shows their count,  *)
(* whether or not the device reports a hand.                               *)
SteadyCountShown ==
  streak = FrameBuffer => display.count = currentFrame.pointables

=============================================================================
