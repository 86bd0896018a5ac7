---------------------------- MODULE Projections ----------------------------
(***************************************************************************)
(* What the kit computes from a content tree: the loaded events            *)
(* (wiki_event.py load_events), the session log (wiki_render.py            *)
(* render_log) and the pending index (wiki_event.py build_pending_index).  *)
(* A tree is a record of the inputs:                                       *)
(*   events      what each event file holds, or Absent;                    *)
(*   quarantine  Absent, Invalid against its schema, Crossed (an entry's   *)
(*               path is not its id's, or an id is twice), or the          *)
(*               correcting event of each quarantined one;                 *)
(*   epoch       Absent, Invalid, or the boundary; legacy  Absent, a       *)
(*               headed text, or Headless;                                 *)
(*   manifests   the handoffs that have a capture manifest.                *)
(* An event's name fixes its stamp and target; its content is what else    *)
(* the file says.  The lists the kit sorts by stamp are sets here.         *)
(***************************************************************************)
EXTENDS Integers

CONSTANTS
    Handoffs, Applies,  \* the names of events
    Stamp,              \* the timestamp of each, no two alike
    Target,             \* the handoff an apply disposes of
    Fit,                \* contents a new event may have
    Applied,            \* a handoff with the status of old stores, not pending
    Corrupt,            \* no valid event
    Headless,           \* a legacy text that starts with no entry
    Absent, Invalid, Crossed, Failed

Events == Handoffs \cup Applies

ASSUME ProjectionsAssumption ==
    /\ Handoffs \cap Applies = {}
    /\ Stamp \in [Events -> Int]
    /\ \A d, e \in Events : Stamp[d] = Stamp[e] => d = e
    /\ Target \in [Applies -> Handoffs]
    /\ Applied \notin Fit /\ Corrupt \notin Fit /\ Absent \notin Fit

\* load_quarantine: the quarantined events, none without a ledger.
Quarantined(tree) ==
    IF tree.quarantine \in {Absent, Invalid, Crossed} THEN {} ELSE DOMAIN tree.quarantine

Stored(tree) == {e \in Events : tree.events[e] # Absent}
Loaded(tree) == Stored(tree) \ Quarantined(tree)

\* load_events: the ledger is valid and names files that are there, corrected by
\* events that load; every event that is not quarantined is valid.
Loads(tree) ==
    /\ tree.quarantine \notin {Invalid, Crossed}
    /\ \A e \in Loaded(tree) : tree.events[e] # Corrupt
    /\ \A e \in Quarantined(tree) :
          e \in Stored(tree) /\ tree.quarantine[e] \in Loaded(tree)

\* garden_dispositions: the latest apply of each target.
Disposition(tree, h) ==
    {a \in Loaded(tree) \cap Applies :
        /\ Target[a] = h
        /\ \A b \in Loaded(tree) \cap Applies : Target[b] = h => Stamp[b] <= Stamp[a]}

Entry(tree, h) ==
    [handoff |-> h, says |-> tree.events[h],
     garden |-> {<<a, tree.events[a]>> : a \in Disposition(tree, h)}]

\* render_log: the legacy text and the epoch are both there or both not; with
\* them, only the handoffs after the boundary have entries.
LogInputsFit(tree) ==
    /\ Loads(tree)
    /\ (tree.epoch = Absent) = (tree.legacy = Absent)
    /\ tree.epoch # Invalid /\ tree.legacy # Headless

Entered(tree) ==
    {h \in Loaded(tree) \cap Handoffs :
        tree.epoch \notin {Absent, Invalid} => Stamp[h] > tree.epoch}

LogOf(tree) ==
    IF ~LogInputsFit(tree) THEN Failed
    ELSE [boundary |-> tree.epoch, legacy |-> tree.legacy,
          entries |-> {Entry(tree, h) : h \in Entered(tree)}]

\* build_pending_index: the pending handoffs that no loaded apply disposes of,
\* each with whether it has captures.
Disposed(tree) == {Target[a] : a \in Loaded(tree) \cap Applies}

PendingOf(tree) ==
    IF ~Loads(tree) THEN Failed
    ELSE {<<h, tree.events[h], h \in tree.manifests>> :
            h \in {g \in Loaded(tree) \cap Handoffs :
                     tree.events[g] # Applied /\ g \notin Disposed(tree)}}
=============================================================================
