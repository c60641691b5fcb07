----------------------------- MODULE Controller -----------------------------
(***************************************************************************)
(* The LeapController handlers of win/static-docs/jsg/init.js.             *)
(*                                                                         *)
(* The controller keeps currentFrame and oldFrame and fans the device's    *)
(* events out to the active tutorials in registration order.  The frame   *)
(* handler's calls of t.draw() are not written here: a module that         *)
(* composes a tutorial conjoins its draw step with OnFrame, and reads the  *)
(* frames the draw sees through DrawFrames.  Every handler runs to         *)
(* completion inside one callback of the single JavaScript thread, so      *)
(* each is one atomic step.                                                *)
(***************************************************************************)
EXTENDS Tutorial

CONSTANTS
  Frames,    \* the frame snapshots the device may deliver
  NoFrame    \* the value of controller.oldFrame before the first frame

ASSUME NoFrame \notin Frames

VARIABLES
  currentFrame,  \* LeapController.currentFrame
  oldFrame       \* LeapController.oldFrame

controllerVars == <<currentFrame, oldFrame>>

ControllerTypeOK ==
  /\ currentFrame \in Frames \cup {NoFrame}
  /\ oldFrame \in Frames \cup {NoFrame}

ControllerInit ==
  /\ currentFrame = NoFrame
  /\ oldFrame = NoFrame

(* The pair <<frame, oFrame>> a draw() reads while the handler for f runs: *)
(* on the first frame oldFrame was set to the current frame before the     *)
(* loop; afterwards it still holds the previous frame.                     *)
DrawFrames(f) == <<f, IF oldFrame = NoFrame THEN f ELSE oldFrame>>

(* The value the handler leaves in oldFrame: this.oldFrame =               *)
(* this.currentFrame after the draw loop.                                  *)
ArchivedFrame(f) == f

(* on('frame'): store the frame; on the first one, connect every active   *)
(* tutorial; (draw every active tutorial); archive the frame.              *)
OnFrame(f) ==
  /\ currentFrame' = f
  /\ oldFrame' = ArchivedFrame(f)
  /\ IF oldFrame = NoFrame
       THEN DeviceConnect(Active)
       ELSE UNCHANGED <<pluggedIn, areaShown, plugInShown>>
  /\ UNCHANGED timerArmed

(* on('deviceConnected'): deviceConnect() on every active tutorial.        *)
OnDeviceConnected ==
  /\ DeviceConnect(Active)
  /\ UNCHANGED <<timerArmed, currentFrame, oldFrame>>

(* on('deviceDisconnected'): deviceDisconnect() on every active tutorial.  *)
OnDeviceDisconnected ==
  /\ DeviceDisconnect(Active)
  /\ UNCHANGED <<timerArmed, currentFrame, oldFrame>>

(* A tutorial's constructor timer fires; the controller is untouched.      *)
OnPlugInTimeout(t) ==
  /\ PlugInTimeout(t)
  /\ UNCHANGED <<currentFrame, oldFrame>>

=============================================================================
