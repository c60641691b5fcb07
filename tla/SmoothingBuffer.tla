--------------------------- MODULE SmoothingBuffer ---------------------------
(***************************************************************************)
(* The per-frame history arrays of the tutorials: touchSpeed.frameTipSpeeds *)
(* (win/static-docs/jsg/touchSpeedTutorial.js) and numberOf.hands /         *)
(* numberOf.fingers (win/static-docs/jsg/numberOfTutorial.js), and         *)
(* getAverageFromArray (mac/static-docs/jsg/TUTORIAL.js).                   *)
(*                                                                         *)
(* A JavaScript array is a function from 0 .. k; a slot outside the domain *)
(* reads as undefined.  Samples are integers: the code only ever compares  *)
(* them with 0 (truthiness), adds them and divides the total.              *)
(***************************************************************************)
EXTENDS Integers, FiniteSets, Functions, TLC

(* if( a[i] ): a slot is truthy when it exists and is not 0.               *)
Truthy(a, i) == i \in DOMAIN a /\ a[i] # 0

(* a[0] = v, growing an empty array.                                       *)
WithNewest(a, v) == (0 :> v) @@ a

(* The loop  for( i = n; i >= 1; i-- )                                     *)
(*             if( g[i-1] ) a[i] = a[i-1]; else a[i] = 0;                  *)
(* run after slot 0 was written.  The loop counts down and writes only     *)
(* a[i], so every a[i-1] and g[i-1] it reads still holds its value from    *)
(* before the loop.  g is the array whose truthiness guards the copy: a    *)
(* itself for frameTipSpeeds, hands for both of numberOf's arrays.         *)
ShiftedFrom(a, g, n) ==
  [i \in 0 .. n |-> IF i = 0 THEN a[0]
                    ELSE IF Truthy(g, i - 1) THEN a[i - 1] ELSE 0]

(* Variant: shift first, then write slot 0 (the spec's push).            *)
PushSampleShiftFirst(a, v, n) == WithNewest(ShiftedFrom(a, a, n), v)

(* frameTipSpeeds[0] = v; then the loop guarded by frameTipSpeeds itself.  *)
PushSample(a, v, n) == ShiftedFrom(WithNewest(a, v), WithNewest(a, v), n)

(* getAverageFromArray( a ) = total / a.length, kept as the exact fraction *)
(* <<total, length>>.                                                      *)
AverageOf(a) == <<SumFunction(a), Cardinality(DOMAIN a)>>

-----------------------------------------------------------------------------
(* The reference of spec.md 4.2: a window of cap slots, zero-filled at      *)
(* first, newest first, where a push prepends and evicts the oldest.       *)

RefEmpty(cap) == [i \in 0 .. cap - 1 |-> 0]

RefPush(r, v) == [i \in DOMAIN r |-> IF i = 0 THEN v ELSE r[i - 1]]

=============================================================================
