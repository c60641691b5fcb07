------------------------------ MODULE Tutorial ------------------------------
(***************************************************************************)
(* The connection lifecycle of the tutorial objects.                       *)
(*                                                                         *)
(* Two constructors build tutorials: TUTORIAL (mac/static-docs/jsg/        *)
(* TUTORIAL.js), used by every canvas tutorial, and numberOfTutorial       *)
(* (win/static-docs/jsg/numberOfTutorial.js), which shows a static page    *)
(* area instead of a canvas.  Each keeps a pluggedIn flag, the display of  *)
(* its area (the canvas, or #interactiveArea) and of its "plug in your     *)
(* device" image, and arms a one-second timer in its constructor.          *)
(*                                                                         *)
(* deviceConnect and deviceDisconnect are never called alone: the          *)
(* controller's handlers call them on every active tutorial in one         *)
(* callback, so they are written here over a set S of tutorials.           *)
(***************************************************************************)
EXTENDS Naturals, Sequences, FiniteSets

CONSTANTS
  Order,      \* the tutorials in registration order (tutorials.push( this ))
  Kind,       \* Kind[t] is "TUTORIAL" or "numberOf": the constructor of t
  Active,     \* the tutorials whose active flag is true
  Undefined   \* the value of t.pluggedIn before any assignment

Tutorials == {Order[i] : i \in DOMAIN Order}

ASSUME /\ Cardinality(Tutorials) = Len(Order)
       /\ Kind \in [Tutorials -> {"TUTORIAL", "numberOf"}]
       /\ Active \subseteq Tutorials
       /\ Undefined \notin BOOLEAN

VARIABLES
  pluggedIn,    \* t.pluggedIn: Undefined, TRUE or FALSE
  areaShown,    \* display of t.canvas (TUTORIAL) or of #interactiveArea (numberOf)
  plugInShown,  \* display of t.plugInDevice
  timerArmed    \* the constructor's setTimeout( ..., 1000 ) has not fired yet

tutorialVars == <<pluggedIn, areaShown, plugInShown, timerArmed>>

TutorialTypeOK ==
  /\ pluggedIn \in [Tutorials -> BOOLEAN \cup {Undefined}]
  /\ areaShown \in [Tutorials -> BOOLEAN]
  /\ plugInShown \in [Tutorials -> BOOLEAN]
  /\ timerArmed \in [Tutorials -> BOOLEAN]

(* The constructors: the canvas is created with display 'none'; the page  *)
(* decides whether #interactiveArea starts visible.  The image starts      *)
(* hidden and the timer is armed.                                          *)
TutorialInit ==
  /\ pluggedIn = [t \in Tutorials |-> Undefined]
  /\ areaShown \in {a \in [Tutorials -> BOOLEAN] :
                      \A t \in Tutorials : Kind[t] = "TUTORIAL" => ~a[t]}
  /\ plugInShown = [t \in Tutorials |-> FALSE]
  /\ timerArmed = [t \in Tutorials |-> TRUE]

(* deviceConnect() on every tutorial of S: both constructors' prototypes   *)
(* set pluggedIn, show the area and hide the image.                        *)
DeviceConnect(S) ==
  /\ pluggedIn' = [t \in Tutorials |-> IF t \in S THEN TRUE ELSE pluggedIn[t]]
  /\ areaShown' = [t \in Tutorials |-> IF t \in S THEN TRUE ELSE areaShown[t]]
  /\ plugInShown' = [t \in Tutorials |-> IF t \in S THEN FALSE ELSE plugInShown[t]]

(* Variant: both constructors store true on disconnect.                   *)
DisconnectedFlagAlwaysTrue(t) == TRUE

(* The value deviceDisconnect() stores in pluggedIn: TUTORIAL stores       *)
(* false, numberOfTutorial stores true.                                    *)
DisconnectedFlag(t) == Kind[t] = "numberOf"

(* deviceDisconnect() on every tutorial of S.                              *)
DeviceDisconnect(S) ==
  /\ pluggedIn' = [t \in Tutorials |->
                     IF t \in S THEN DisconnectedFlag(t) ELSE pluggedIn[t]]
  /\ areaShown' = [t \in Tutorials |-> IF t \in S THEN FALSE ELSE areaShown[t]]
  /\ plugInShown' = [t \in Tutorials |-> IF t \in S THEN TRUE ELSE plugInShown[t]]

(* Variant: the callback tests pluggedIn === false.                       *)
NotPluggedInStrict(t) == pluggedIn[t] = FALSE

(* The timer callback's test !self.pluggedIn: undefined and false are      *)
(* both falsy.                                                             *)
NotPluggedIn(t) == pluggedIn[t] # TRUE

(* Variant: numberOfTutorial's callback leaves #interactiveArea alone.     *)
TimeoutHidesAreaNever(t) == FALSE

(* Only numberOfTutorial's callback hides the area (#interactiveArea).     *)
TimeoutHidesArea(t) == Kind[t] = "numberOf"

(* The constructor's timer fires: if the tutorial is not plugged in it     *)
(* shows the image, and numberOfTutorial's also hides #interactiveArea.    *)
PlugInTimeout(t) ==
  /\ timerArmed[t]
  /\ timerArmed' = [timerArmed EXCEPT ![t] = FALSE]
  /\ IF NotPluggedIn(t)
       THEN /\ plugInShown' = [plugInShown EXCEPT ![t] = TRUE]
            /\ areaShown' = [areaShown EXCEPT ![t] =
                               IF TimeoutHidesArea(t) THEN FALSE ELSE @]
       ELSE UNCHANGED <<plugInShown, areaShown>>
  /\ UNCHANGED pluggedIn

=============================================================================
