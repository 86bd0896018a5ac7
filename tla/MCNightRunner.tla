--------------------------- MODULE MCNightRunner ---------------------------
(***************************************************************************)
(* Mornings the runner may find: an uncommitted handoff it can apply, one  *)
(* it cannot, a committed one beside foreign changes, its page among them  *)
(* or not, and a report of the day that was edited since its commit.       *)
(***************************************************************************)
EXTENDS NightRunner

Day(event, mechanical, dirty, oriented) ==
    [event |-> event, mechanical |-> mechanical, dirty |-> dirty, oriented |-> oriented]

MCStarts == {Day("untracked", TRUE, {}, FALSE),
             Day("committed", TRUE, {}, TRUE),
             Day("committed", TRUE, {"page", "log"}, FALSE),
             Day("committed", FALSE, {"other", "log"}, FALSE)}

MCForeign == {Day("untracked", TRUE, {"report"}, FALSE)}
=============================================================================
