-------------------------- MODULE MCSmoothingBuffer --------------------------
(* touchSpeed's frameTipSpeeds driven by a sequence of samples, next to   *)
(* the spec's reference window of the same number of slots.  The array    *)
(* starts as [0], as touchSpeed.frameTipSpeeds does.                      *)
EXTENDS SmoothingBuffer

CONSTANTS
  N,          \* tipSpeedNum: the loop's top index, so N + 1 slots
  Samples     \* the sample values a frame may contribute

VARIABLES buf, ref, pushed

vars == <<buf, ref, pushed>>

(* A silent frame (0), a slow and a fast tip speed of either sign.        *)
MCSamples == {0, 5, -10}

Init ==
  /\ buf = (0 :> 0)
  /\ ref = RefEmpty(N + 1)
  /\ pushed = FALSE

Push(v) ==
  /\ buf' = PushSample(buf, v, N)
  /\ ref' = RefPush(ref, v)
  /\ pushed' = TRUE

Next == \E v \in Samples : Push(v)

Spec == Init /\ [][Next]_vars

TypeOK ==
  /\ buf \in [0 .. N -> Samples \cup {0}] \/ buf = (0 :> 0)
  /\ ref \in [0 .. N -> Samples \cup {0}]
  /\ pushed \in BOOLEAN

(* After a push the code's array is the spec's window with its newest      *)
(* sample written twice: slot 0 and slot 1 both hold it, slots 2 .. N hold *)
(* the window's older samples, and the window's oldest sample is gone.     *)
(* So the average weighs the newest sample double and spans one sample     *)
(* less than the array's length.                                           *)
NewestCountedTwice ==
  pushed =>
    /\ DOMAIN buf = 0 .. N
    /\ buf[0] = ref[0]
    /\ \A i \in 1 .. N : buf[i] = ref[i - 1]

(* spec.md 4.2 and 8: after pushes the array holds the last N + 1 samples, *)
(* newest first (capacity 3, pushes 5, 10, 15 give [15, 10, 5]).          *)
MatchesSpecWindow == pushed => buf = ref

=============================================================================
