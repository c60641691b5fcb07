----------------------------- MODULE Dispatcher -----------------------------
(***************************************************************************)
(* The controller of win/static-docs/jsg/init.js driving any number of     *)
(* tutorials, with each tutorial's draw() abstracted away: it changes no  *)
(* state the controller or the lifecycle reads.  The environment delivers *)
(* frames, deviceConnected and deviceDisconnected in any order; the        *)
(* constructors' timers fire once each.                                    *)
(***************************************************************************)
EXTENDS Controller

vars == <<tutorialVars, controllerVars>>

Init ==
  /\ TutorialInit
  /\ ControllerInit

(* A frame event; the draw() calls of its loop are abstracted away.       *)
Frame(f) == OnFrame(f)

DeviceConnected == OnDeviceConnected

DeviceDisconnected == OnDeviceDisconnected

Timeout(t) == OnPlugInTimeout(t)

Next ==
  \/ \E f \in Frames : Frame(f)
  \/ DeviceConnected
  \/ DeviceDisconnected
  \/ \E t \in Tutorials : Timeout(t)

(* window.setTimeout guarantees that an armed callback eventually runs.    *)
Fairness == \A t \in Tutorials : WF_vars(Timeout(t))

Spec == Init /\ [][Next]_vars /\ Fairness

-----------------------------------------------------------------------------
(* Properties *)

TypeOK ==
  /\ TutorialTypeOK
  /\ ControllerTypeOK

(* A tutorial never shows its area (canvas or #interactiveArea) and the     *)
(* plug-in image at once, whatever the order of the device events and the  *)
(* constructor's timer.                                                    *)
ViewsExclusive == \A t \in Tutorials : ~(areaShown[t] /\ plugInShown[t])

(* Once the constructor's timer has run, every tutorial, active or not,    *)
(* shows either its area or the plug-in image, and keeps doing so.         *)
EventuallySettled ==
  \A t \in Tutorials : <>[](areaShown[t] \/ plugInShown[t])

(* The lifecycle refines DeviceView: pluggedIn = true is "connected", and   *)
(* the two displays give the view.  BaseTutorials are those built by the   *)
(* TUTORIAL constructor.                                                   *)
ConnOf(t) == IF pluggedIn[t] = TRUE THEN "connected" ELSE "disconnected"

ViewOf(t) == IF areaShown[t] THEN "area"
             ELSE IF plugInShown[t] THEN "plugIn" ELSE "blank"

BaseTutorials == {t \in Tutorials : Kind[t] = "TUTORIAL"}

BaseView == INSTANCE DeviceView
              WITH Tutorials <- BaseTutorials,
                   Active <- Active \cap BaseTutorials,
                   conn <- [t \in BaseTutorials |-> ConnOf(t)],
                   view <- [t \in BaseTutorials |-> ViewOf(t)]

AllView == INSTANCE DeviceView
             WITH conn <- [t \in Tutorials |-> ConnOf(t)],
                  view <- [t \in Tutorials |-> ViewOf(t)]

(* The tutorials built by TUTORIAL behave as DeviceView says: connected    *)
(* exactly after a connect, disconnected after a disconnect, all active    *)
(* ones together, with the view following.                                 *)
BaseViewRefined == BaseView!Spec

(* Every tutorial, numberOfTutorial included, behaves as DeviceView says.  *)
AllViewRefined == AllView!Spec

=============================================================================
