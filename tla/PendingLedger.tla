--------------------------- MODULE PendingLedger ---------------------------
(***************************************************************************)
(* What the event store promises to those who read it: an append-only      *)
(* record of handoffs and of their dispositions, and two published lists   *)
(* of the pending handoffs, index.json for programs and latest.md for      *)
(* agents.  The lists may lag behind the record, but whenever one is       *)
(* published it is the list of the handoffs pending at that moment.        *)
(***************************************************************************)
CONSTANT Handoffs

VARIABLES
    emitted,    \* the handoffs ever recorded
    disposed,   \* those some disposition names
    index,      \* the published list index.json
    latest      \* the published list latest.md

vars == <<emitted, disposed, index, latest>>

Pending == emitted \ disposed

Init == emitted = {} /\ disposed = {} /\ index = {} /\ latest = {}

Emit(h) ==
    /\ h \notin emitted
    /\ emitted' = emitted \cup {h}
    /\ UNCHANGED <<disposed, index, latest>>

\* Only a recorded handoff is disposed of; doing it again changes nothing.
Dispose(h) ==
    /\ h \in emitted
    /\ disposed' = disposed \cup {h}
    /\ UNCHANGED <<emitted, index, latest>>

PublishIndex ==
    /\ index' = Pending
    /\ UNCHANGED <<emitted, disposed, latest>>

\* The second list repeats the first, which is still current.
PublishLatest ==
    /\ index = Pending
    /\ latest' = Pending
    /\ UNCHANGED <<emitted, disposed, index>>

Next ==
    \/ \E h \in Handoffs : Emit(h) \/ Dispose(h)
    \/ PublishIndex
    \/ PublishLatest

Spec == Init /\ [][Next]_vars
=============================================================================
