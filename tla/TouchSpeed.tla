----------------------------- MODULE TouchSpeed -----------------------------
(***************************************************************************)
(* The touchSpeed tutorial (win/static-docs/jsg/touchSpeedTutorial.js) on  *)
(* a page where it is the only tutorial, driven by the controller of       *)
(* win/static-docs/jsg/init.js.                                            *)
(*                                                                         *)
(* A frame is its first pointable (Scene), the only one draw() reads.     *)
(***************************************************************************)
EXTENDS Controller, Button, SmoothingBuffer, Scene

CONSTANTS
  TipSpeedNum,           \* touchSpeed.tipSpeedNum (20)
  SpeedReductionFactor   \* touchSpeed.speedReductionFactor (300)

(* touchSpeed.barHeight = height / 4 - 8, for a scaled canvas height hs. *)
BarHeightOf(hs) == hs \div 4 - 8 * Scale

BarHeightSc == BarHeightOf(HeightSc)

(* Variant: the row below starts at its parent's centre, without the -5.  *)
ChildXNoOffset(x, j, w) == x + j * (w + 10 * Scale) - w \div 2

(* x1 = x - 5 + j * (width1 + 10) - width1 / 2, and x2 alike: the centre  *)
(* of child j of a button centred at x, for a child width w.              *)
ChildX(x, j, w) == x - 5 * Scale + j * (w + 10 * Scale) - w \div 2

(* width1 = width / 2 - 5, and width2 alike.                              *)
ChildWidth(w) == w \div 2 - 5 * Scale

(* touchSpeed.init() on a canvas of scaled height hs (width 1.5 hs): two  *)
(* top buttons, each with two buttons below it, each with two below that; *)
(* pushed depth first, so buttons[1] is the first top button and          *)
(* buttons[2] its first child.                                             *)
LayoutOf(hs) ==
  LET ws == (3 * hs) \div 2
      gap == 10 * Scale
      w0 == ws \div 2 - 5 * Scale
      w1 == ChildWidth(w0)
      w2 == ChildWidth(w1)
      h == BarHeightOf(hs)
      x0(i) == i * (w0 + gap) + w0 \div 2 - ws \div 2
      y0 == -hs + h \div 2
      x1(i, j) == ChildX(x0(i), j, w1)
      y1 == y0 + h + gap
      x2(i, j, k) == ChildX(x1(i, j), k, w2)
      y2 == y1 + h + gap
      Low(i, j) == <<MakeButton(x2(i, j, 0), y2, w2, h),
                     MakeButton(x2(i, j, 1), y2, w2, h)>>
      Mid(i, j) == <<MakeButton(x1(i, j), y1, w1, h)>> \o Low(i, j)
      Top(i) == <<MakeButton(x0(i), y0, w0, h)>> \o Mid(i, 0) \o Mid(i, 1)
  IN Top(0) \o Top(1)

(* touchSpeed.init(), called once on the page's canvas.                    *)
Layout == LayoutOf(HeightSc)

ButtonIds == 1 .. Len(Layout)

AbsVal(x) == IF x < 0 THEN -x ELSE x

(* getColorFromSpeed(): Math.abs( touchSpeed ) / speedReductionFactor      *)
(* <= .5 is good, anything else (NaN included) is bad.  speed is the exact *)
(* fraction <<total, length>> of getAverageFromArray, or Undefined.        *)
SpeedColor(speed) ==
  IF speed # Undefined
     /\ 2 * AbsVal(speed[1]) <= SpeedReductionFactor * speed[2]
  THEN "good" ELSE "bad"

VARIABLES
  fingerPos,          \* touchSpeed.fingerPos (scene coordinates, scaled)
  currentlyTouching,  \* touchSpeed.currentlyTouching
  touchSpeed,         \* touchSpeed.touchSpeed: Undefined or <<total, length>>
  frameTipSpeeds,     \* touchSpeed.frameTipSpeeds
  currentButton,      \* touchSpeed.currentButton: a button index or NoButton
  hovered,            \* hovered[i]: buttons[i].color is the hovered grey
  clickBox,           \* clickBox[i]: buttons[i].clickBoxColor as [rgb, a]
  recent              \* history: the last sample pushed and how many frames in
                      \* a row pushed it, up to TipSpeedNum

touchVars == <<fingerPos, currentlyTouching, touchSpeed, frameTipSpeeds,
               currentButton, hovered, clickBox, recent>>

vars == <<tutorialVars, controllerVars, touchVars>>

TouchInit ==
  /\ fingerPos = <<0, 0>>
  /\ currentlyTouching = FALSE
  /\ touchSpeed = Undefined
  /\ frameTipSpeeds = (0 :> 0)
  /\ currentButton = NoButton
  /\ hovered = [i \in ButtonIds |-> FALSE]
  /\ clickBox = [i \in ButtonIds |-> NoFlash]
  /\ recent = [v |-> 0, n |-> 0]

Init == TutorialInit /\ ControllerInit /\ TouchInit

(* Variant: a click is any frame whose first pointable is touching.        *)
TouchStartedNoZoneChange(f, of) ==
  f # NoPointable /\ of # NoPointable /\ f.zone = "touching"

(* difZones && touching: both frames have a first pointable, its zone     *)
(* changed, and it is now touching.                                        *)
TouchStarted(f, of) ==
  /\ f # NoPointable
  /\ of # NoPointable
  /\ f.zone # of.zone
  /\ f.zone = "touching"

(* Variant: the click frame's own sample is pushed before averaging.      *)
ClickSpeedPushFirst(history, sample) ==
  AverageOf(PushSample(history, sample, TipSpeedNum))

(* this.touchSpeed = getAverageFromArray( frameTipSpeeds ), read in the   *)
(* click test before this frame's sample is pushed.                       *)
ClickSpeed(history, sample) == AverageOf(history)

(* The sample draw() pushes: the first pointable's tipVelocity[2], or 0.  *)
TipSample(f) == IF f # NoPointable THEN f.vz ELSE 0

(* touchSpeed.draw() on the frames <<frame, oFrame>>, in the code's order: *)
(* take the finger position, test for a click against currentButton,      *)
(* push this frame's tip speed, run checkInside and draw() on every        *)
(* button.  The canvas drawing itself (clearRect, the touch bar, the       *)
(* finger) changes no state and is left out.                               *)
Draw(fr) ==
  LET f == fr[1]
      of == fr[2]
      both == BothPointed(f, of)
      pos == IF both THEN LeapToScene(f.pos) ELSE fingerPos
      click == TouchStarted(f, of) /\ currentButton # NoButton
      speed == ClickSpeed(frameTipSpeeds, TipSample(f))
      flashed == IF click
                   THEN [clickBox EXCEPT ![currentButton] =
                           [rgb |-> SpeedColor(speed), a |-> AlphaSteps]]
                   ELSE clickBox
  IN /\ fingerPos' = pos
     /\ currentlyTouching' = IF both /\ f.zone # of.zone
                               THEN f.zone = "touching"
                               ELSE currentlyTouching
     /\ touchSpeed' = IF click THEN speed ELSE touchSpeed
     /\ frameTipSpeeds' = PushSample(frameTipSpeeds, TipSample(f), TipSpeedNum)
     /\ currentButton' = HoverPass(Layout, pos, currentButton)
     /\ hovered' = Hovered(Layout, pos)
     /\ clickBox' = [i \in ButtonIds |-> [flashed[i] EXCEPT !.a = FadeAlpha(@)]]

(* The history variable recent follows the samples draw() pushes.        *)
Recorded(v) ==
  LET run == IF v = recent.v THEN recent.n + 1 ELSE 1
  IN recent' = [v |-> v, n |-> IF run > TipSpeedNum THEN TipSpeedNum ELSE run]

Frame(f) ==
  /\ OnFrame(f)
  /\ Draw(DrawFrames(f))
  /\ Recorded(TipSample(DrawFrames(f)[1]))

DeviceConnected == OnDeviceConnected /\ UNCHANGED touchVars

DeviceDisconnected == OnDeviceDisconnected /\ UNCHANGED touchVars

Timeout(t) == OnPlugInTimeout(t) /\ UNCHANGED touchVars

Next ==
  \/ \E f \in Frames : Frame(f)
  \/ DeviceConnected
  \/ DeviceDisconnected
  \/ \E t \in Tutorials : Timeout(t)

Spec == Init /\ [][Next]_vars

-----------------------------------------------------------------------------
(* Properties *)

Flashed(i) == clickBox'[i].a > clickBox[i].a

TypeOK ==
  /\ TutorialTypeOK
  /\ ControllerTypeOK
  /\ fingerPos \in Int \X Int
  /\ currentlyTouching \in BOOLEAN
  /\ touchSpeed \in {Undefined} \cup (Int \X Nat)
  /\ currentButton \in ButtonIds \cup {NoButton}
  /\ hovered \in [ButtonIds -> BOOLEAN]
  /\ clickBox \in [ButtonIds -> [rgb : {"none", "good", "bad"},
                                  a : -1 .. AlphaSteps]]
  /\ recent \in [v : {0} \cup Velocities, n : 0 .. TipSpeedNum]

(* After every frame, currentButton is the button under the finger's       *)
(* position, or undefined when the finger is over none: the checkInside    *)
(* pass over all fourteen buttons, where a button only clears              *)
(* currentButton if it holds it, leaves the last button entered current.  *)
CurrentButtonIsUnderFinger ==
  currentButton =
    IF \E i \in ButtonIds : Inside(Layout[i], fingerPos)
    THEN CHOOSE i \in ButtonIds : Inside(Layout[i], fingerPos)
    ELSE NoButton

(* A button's click flash is only relit by a frame whose first pointable   *)
(* is touching when the previous frame's was hovering (difZones &&         *)
(* touching), and only on the button under the finger's position before   *)
(* that frame.                                                             *)
FlashFollowsTouchStart ==
  [][\A i \in ButtonIds :
       Flashed(i) =>
         /\ currentFrame \in PointableFrames
         /\ currentFrame.zone = "hovering"
         /\ currentFrame'.zone = "touching"
         /\ Inside(Layout[i], fingerPos)]_vars

(* The click colour is decided by the frames before the click, not by the  *)
(* click frame: getAverageFromArray runs before the click frame's tip      *)
(* velocity is pushed.  After tipSpeedNum frames in a row pushed the same  *)
(* tip speed, a click flashes the colour of that speed, whatever the speed *)
(* of the frame that clicks.                                               *)
FlashColourFromFramesBeforeClick ==
  [][\A i \in ButtonIds :
       Flashed(i) /\ recent.n = TipSpeedNum =>
         clickBox'[i].rgb = SpeedColor(<<recent.v, 1>>)]_vars

(* The layout as a tree: the pairs <<parent, child>> of indices into    *)
(* LayoutOf(hs), and the pairs <<left, right>> of buttons side by side.    *)
ChildOf == UNION {{<<t, t + 1>>, <<t, t + 4>>, <<t + 1, t + 2>>,
                   <<t + 1, t + 3>>, <<t + 4, t + 5>>, <<t + 4, t + 6>>} :
                  t \in {1, 8}}

SideBySide ==
  {<<1, 8>>} \cup UNION {{<<t + 1, t + 4>>, <<t + 2, t + 3>>, <<t + 5, t + 6>>} :
                         t \in {1, 8}}

(* The nesting touchSpeed's hover and click logic relies on: every button *)
(* has a positive width and height, each child lies within its parent's  *)
(* columns in the row below it, and buttons side by side do not overlap.  *)
LayoutNested(hs) ==
  LET L == LayoutOf(hs)
  IN /\ \A i \in DOMAIN L : L[i].left < L[i].right /\ L[i].bottom < L[i].top
     /\ \A pc \in ChildOf :
          /\ L[pc[1]].left <= L[pc[2]].left
          /\ L[pc[2]].right <= L[pc[1]].right
          /\ L[pc[1]].top < L[pc[2]].bottom
     /\ \A lr \in SideBySide : L[lr[1]].right < L[lr[2]].left

(* spec.md 4.4, 4.5: a click flashes the button the pointer is on. The flash   *)
(* lands on a button containing the finger's position in the click frame. *)
FlashHitsButtonUnderFinger ==
  [][\A i \in ButtonIds : Flashed(i) => Inside(Layout[i], fingerPos')]_vars

=============================================================================
