------------------------------ MODULE ReadMore ------------------------------
(***************************************************************************)
(* The readMore tutorial (win/static-docs/jsg/readMoreTutorial.js): two    *)
(* link buttons, bsc and adv; a touch that starts while a button is        *)
(* current assigns window.location.  location is the last page assigned   *)
(* ("readMore" while none is); the page is only left once the browser     *)
(* gets to it, so frames keep arriving meanwhile.  assigned is the page   *)
(* the last event assigned, or "none".  readMore never lights a click box; *)
(* each button's draw() still fades it, from 0 to one step below.         *)
(***************************************************************************)
EXTENDS Controller, Button, Scene

Pages == {"bsc", "adv"}

(* readMore.init(): buttons[1] is bsc, buttons[2] is adv, one under the    *)
(* other, both the canvas width less 20 and a quarter of its height.      *)
Layout ==
  LET h == HeightSc \div 4
      w == WidthSc - 20 * Scale
      y1 == -HeightSc + h + 10 * Scale
      y2 == y1 + h + 10 * Scale
  IN <<MakeButton(0, y1, w, h), MakeButton(0, y2, w, h)>>

PageOf == <<"bsc", "adv">>

ButtonIds == 1 .. Len(Layout)

VARIABLES
  fingerPosition,   \* readMore.fingerPosition (scene, scaled)
  currentButton,    \* readMore.currentButton: 1, 2 or NoButton
  hovered,          \* hovered[i]: buttons[i] has the hovered colour
  location,         \* the page window.location was last set to
  assigned,         \* the page this event assigned, or "none"
  clickBox          \* clickBox[i]: buttons[i].clickBoxColor as [rgb, a]

readMoreVars == <<fingerPosition, currentButton, hovered, location, assigned,
                  clickBox>>

vars == <<tutorialVars, controllerVars, readMoreVars>>

Init ==
  /\ TutorialInit
  /\ ControllerInit
  /\ fingerPosition = <<9999 * Scale, 0>>
  /\ currentButton = NoButton
  /\ hovered = [i \in ButtonIds |-> FALSE]
  /\ location = "readMore"
  /\ assigned = "none"
  /\ clickBox = [i \in ButtonIds |-> NoFlash]

(* Variant: the pass tests the position of the frame being drawn.         *)
PassPositionFresh(f, of) ==
  IF BothPointed(f, of) THEN LeapToScene(f.pos) ELSE fingerPosition

(* The position the checkInside pass tests: this.fingerPosition, which is *)
(* only updated at the end of draw().                                      *)
PassPosition(f, of) == fingerPosition

(* touching && oHovering                                                    *)
TouchBegins(f, of) ==
  BothPointed(f, of) /\ f.zone = "touching" /\ of.zone = "hovering"

(* readMore.draw() on <<frame, oFrame>>: the pass of checkInside and      *)
(* draw() over both buttons (drawText only paints), then the navigation   *)
(* test against the currentButton that pass left, then the     *)
(* position update.                                                        *)
Draw(fr) ==
  LET f == fr[1]
      of == fr[2]
      cur == HoverPass(Layout, PassPosition(f, of), currentButton)
      go == TouchBegins(f, of) /\ cur # NoButton
  IN /\ currentButton' = cur
     /\ hovered' = Hovered(Layout, PassPosition(f, of))
     /\ assigned' = IF go THEN PageOf[cur] ELSE "none"
     /\ location' = IF go THEN PageOf[cur] ELSE location
     /\ fingerPosition' = IF BothPointed(f, of) THEN LeapToScene(f.pos)
                                                ELSE fingerPosition
     /\ clickBox' = [i \in ButtonIds |-> [clickBox[i] EXCEPT !.a = FadeAlpha(@)]]

Frame(f) == OnFrame(f) /\ Draw(DrawFrames(f))

DeviceConnected ==
  /\ OnDeviceConnected
  /\ assigned' = "none"
  /\ UNCHANGED <<fingerPosition, currentButton, hovered, location, clickBox>>

DeviceDisconnected ==
  /\ OnDeviceDisconnected
  /\ assigned' = "none"
  /\ UNCHANGED <<fingerPosition, currentButton, hovered, location, clickBox>>

Timeout(t) ==
  /\ OnPlugInTimeout(t)
  /\ assigned' = "none"
  /\ UNCHANGED <<fingerPosition, currentButton, hovered, location, clickBox>>

Next ==
  \/ \E f \in Frames : Frame(f)
  \/ DeviceConnected
  \/ DeviceDisconnected
  \/ \E t \in Tutorials : Timeout(t)

Spec == Init /\ [][Next]_vars

-----------------------------------------------------------------------------
(* Properties *)

(* The button, if any, under a scene position.                            *)
ButtonAt(pos) ==
  IF \E i \in ButtonIds : Inside(Layout[i], pos)
  THEN CHOOSE i \in ButtonIds : Inside(Layout[i], pos)
  ELSE NoButton

(* A frame event assigns a page exactly when its first pointable starts   *)
(* touching (it hovered in the previous frame) while the finger position  *)
(* recorded before the frame lies on a button, and the page is that       *)
(* button's: the pass runs on the position the previous frame stored.     *)
NavigatesOnTouchStartOverButton ==
  [][\A f \in Frames :
       Frame(f) =>
         assigned' = IF TouchBegins(DrawFrames(f)[1], DrawFrames(f)[2])
                        /\ ButtonAt(fingerPosition) # NoButton
                     THEN PageOf[ButtonAt(fingerPosition)]
                     ELSE "none"]_vars

(* spec.md 4.5: a touch transition while hovering a button navigates to    *)
(* that button's page.  The page assigned is that of a button under the   *)
(* finger in the frame that starts the touch or in the frame before it.   *)
NavigatesToButtonTouched ==
  [][assigned' # "none" =>
       \E fr \in {currentFrame, currentFrame'} \cap PointableFrames :
         ButtonAt(LeapToScene(fr.pos)) # NoButton
         /\ PageOf[ButtonAt(LeapToScene(fr.pos))] = assigned']_vars

=============================================================================
