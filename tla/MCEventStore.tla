---------------------------- MODULE MCEventStore ----------------------------
(***************************************************************************)
(* Two workstreams, of which one exists.  h1 has a primary route to it; h2 *)
(* proposes the other as new; h3 has no workstream_state.                  *)
(***************************************************************************)
EXTENDS EventStore, TLC

CONSTANTS h1, h2, h3, old, new

Propose(name, relationship, action) ==
    [name |-> name, relationship |-> relationship, action |-> action]

AllProposed ==
       h1 :> <<Propose(old, "primary", "needs_review"), Propose(new, "related", "needs_review")>>
    @@ h2 :> <<Propose(old, "related", "needs_review"), Propose(new, "candidate_new", "needs_review")>>
    @@ h3 :> <<Propose(old, "primary", "needs_review")>>

MCProposed == [h \in Handoffs |-> AllProposed[h]]
MCHasState == Handoffs \ {h3}
MCWorkstreams == {old, new}
MCFirstPages == {old}

ProcSymmetry == Permutations(Procs)
=============================================================================
