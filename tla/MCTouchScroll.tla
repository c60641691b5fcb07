--------------------------- MODULE MCTouchScroll ---------------------------
(* touchScroll alone on its page, for three frames.  A translation of     *)
(* 1100 mm adds 110 px to the speed at once.  The speed tends to 4.9 px  *)
(* per mm of per-frame translation, so a hand held at 25 mm a frame needs *)
(* about 105 frames (over 2.5 m of travel) to build that speed, which     *)
(* exact arithmetic cannot follow: the large per-frame values stand for   *)
(* repeated fast flicks.                                                  *)
EXTENDS TouchScroll

CONSTANTS sc

MCOrder == <<sc>>

MCKind == [t \in {sc} |-> "TUTORIAL"]

MCActive == {sc}

(* No movement, a fast flick right, a fast flick down, a slow drag.        *)
MCTranslations == {<<0, 0>>, <<1100, 0>>, <<0, -1100>>, <<-500, 500>>}

MCFrames == [touching : BOOLEAN, tr : MCTranslations]

=============================================================================
