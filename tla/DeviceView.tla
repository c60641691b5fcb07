----------------------------- MODULE DeviceView -----------------------------
(***************************************************************************)
(* What the tutorials promise about the device connection (spec.md 4.5     *)
(* and 4.6), stated without the controller or the DOM.                     *)
(*                                                                         *)
(* Every tutorial is "disconnected" at first.  A connect (a deviceConnected *)
(* event, or the first frame) makes every active tutorial "connected" and  *)
(* shows its area; a disconnect makes every active tutorial                *)
(* "disconnected" and shows the plug-in image.  A disconnected tutorial    *)
(* may at any time give up waiting and show the image.  Inactive           *)
(* tutorials never change connection.                                      *)
(***************************************************************************)
CONSTANTS Tutorials, Active

VARIABLES
  conn,  \* conn[t] \in {"connected", "disconnected"}
  view   \* view[t] \in {"blank", "area", "plugIn"}: what t displays

Init ==
  /\ conn = [t \in Tutorials |-> "disconnected"]
  /\ view \in [Tutorials -> {"blank", "area"}]

Connect ==
  /\ conn' = [t \in Tutorials |-> IF t \in Active THEN "connected" ELSE conn[t]]
  /\ view' = [t \in Tutorials |-> IF t \in Active THEN "area" ELSE view[t]]

Disconnect ==
  /\ conn' = [t \in Tutorials |-> IF t \in Active THEN "disconnected" ELSE conn[t]]
  /\ view' = [t \in Tutorials |-> IF t \in Active THEN "plugIn" ELSE view[t]]

ShowPlugIn(t) ==
  /\ conn[t] = "disconnected"
  /\ view' = [view EXCEPT ![t] = "plugIn"]
  /\ UNCHANGED conn

Next == Connect \/ Disconnect \/ \E t \in Tutorials : ShowPlugIn(t)

Spec == Init /\ [][Next]_<<conn, view>>

=============================================================================
