----------------------------- MODULE MCCapture -----------------------------
(***************************************************************************)
(* Two sources; runs capture one, the other, or both, so that a run may    *)
(* follow one with another list that did not finish.                       *)
(***************************************************************************)
EXTENDS Capture

MCLists == {<<"s1">>, <<"s2">>, <<"s1", "s2">>}
=============================================================================
