------------------------------ MODULE Routing ------------------------------
(***************************************************************************)
(* Which workstream page a handoff is applied to: _target_workstream of    *)
(* scripts/wiki_garden.py.  A proposal is an entry of the event's          *)
(* proposed_workstreams: [name, relationship, action].                     *)
(***************************************************************************)
EXTENDS Sequences, FiniteSets, Naturals

CONSTANT NoName     \* "no --workstream given", and the page of a refusal

Relationships ==
    {"primary", "related", "candidate_new", "candidate_parent_theme", "scope_widening"}

\* Only one proposed_action means anything to the code.
Actions == {"needs_review", "candidate_new"}

Proposal(names) == [name : names, relationship : Relationships, action : Actions]

\* The places of the proposals with this relationship, and of the first one.
With(proposed, relationship) == {i \in DOMAIN proposed : proposed[i].relationship = relationship}

First(places) == CHOOSE i \in places : \A j \in places : i <= j

Route(name, new) == [routed |-> TRUE, name |-> name, new |-> new]
NoRoute == [routed |-> FALSE, name |-> NoName, new |-> FALSE]

\* --workstream: refused beside a primary, and when it names no proposal or
\* more than one.
ApprovedRoute(proposed, approved) ==
    LET matches == {i \in DOMAIN proposed : proposed[i].name = approved}
    IN  IF With(proposed, "primary") = {} /\ Cardinality(matches) = 1
        THEN Route(approved, \E i \in matches :
                 "candidate_new" \in {proposed[i].relationship, proposed[i].action})
        ELSE NoRoute

\* No --workstream: the first primary, else a sole candidate_new.
AutomaticRoute(proposed) ==
    LET primary    == With(proposed, "primary")
        candidates == With(proposed, "candidate_new")
        chosen     == proposed[First(primary)]
    IN  IF primary # {} THEN Route(chosen.name, chosen.action = "candidate_new")
        ELSE IF Cardinality(candidates) = 1 THEN Route(proposed[First(candidates)].name, TRUE)
        ELSE NoRoute

TargetWorkstream(proposed, approved) ==
    IF approved = NoName THEN AutomaticRoute(proposed) ELSE ApprovedRoute(proposed, approved)
=============================================================================
