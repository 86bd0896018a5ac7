----------------------------- MODULE CommitHook -----------------------------
(***************************************************************************)
(* The pre-commit hook of a wiki repository (scripts/pre-commit): git runs *)
(* it on every commit, and it checks what is staged against HEAD.  The     *)
(* hook lists the staged changes, then copies the index out and checks the *)
(* copy; git reads the index again when the hook has passed.  Sessions     *)
(* share the index and may stage between any two of these reads.           *)
(*                                                                         *)
(* A tree is what Projections computes from, with its two projections,     *)
(* the workstream pages and wiki.toml.                                     *)
(***************************************************************************)
EXTENDS Projections

CONSTANTS
    HandEdited,  \* a projection nobody generated
    Ledgers,     \* quarantine ledgers a session may write
    Epochs,      \* boundaries it may write
    Texts,       \* legacy texts it may write
    Heads,       \* the trees a deployment may start from
    MaxMoves,    \* how many times sessions stage
    MaxCommits   \* how many commits are tried

Contents == Fit \cup {Applied, Corrupt}

Logs == [boundary : Epochs \cup {Absent}, legacy : Texts \cup {Absent},
         entries : SUBSET [handoff : Handoffs, says : Contents,
                           garden : SUBSET (Applies \X Contents)]]

ASSUME CommitHookAssumption ==
    /\ Heads \subseteq [events : [Events -> Contents \cup {Absent}], quarantine : Ledgers \cup {Absent},
                       epoch : Epochs \cup {Absent}, legacy : Texts \cup {Absent},
                       manifests : SUBSET Handoffs, log : {tree.log : tree \in Heads},
                       pending : {tree.pending : tree \in Heads},
                       pages : {"valid"}, toml : {"valid"}]
    /\ \A tree \in Heads : /\ tree.log \in {Absent, LogOf(tree)} \ {Failed}
                           /\ tree.pending = PendingOf(tree)
    /\ Absent \notin Logs /\ HandEdited \notin Logs /\ Failed \notin Logs
    /\ Failed \notin {Absent, HandEdited} /\ Invalid \notin Epochs /\ Headless \notin Texts
    /\ MaxMoves \in Nat /\ MaxCommits \in Nat

VARIABLES
    head,       \* the tree of HEAD
    index,      \* the staged tree
    pc, seen,   \* the commit under way, and the index its hook listed
    first,      \* ghost: the tree of the first HEAD
    slipped,    \* ghost: someone staged while a commit was under way
    unbuilt,    \* ghost: a ledger was committed with no event, capture or pending
    moves, tries

vars == <<head, index, pc, seen, first, slipped, unbuilt, moves, tries>>

Fields == {"events", "quarantine", "epoch", "legacy", "manifests", "log", "pending",
           "pages", "toml"}

\* A tree whose files are what sessions write, and whose projections came from
\* a generator that did not fail.
TreeOK(tree) ==
    /\ DOMAIN tree = Fields
    /\ tree.events \in [Events -> Contents \cup {Absent}]
    /\ tree.quarantine \in Ledgers \cup {Absent, Invalid, Crossed}
    /\ tree.epoch \in Epochs \cup {Absent, Invalid}
    /\ tree.legacy \in Texts \cup {Absent, Headless}
    /\ tree.manifests \in SUBSET Handoffs
    /\ tree.log # Failed /\ tree.pending # Failed
    /\ tree.pages \in {"valid", "broken"} /\ tree.toml \in {"valid", "broken"}

TypeOK ==
    /\ TreeOK(head) /\ TreeOK(index) /\ first \in Heads
    /\ slipped \/ seen \in {head, index}
    /\ pc \in {"idle", "hook", "write"}
    /\ slipped \in BOOLEAN /\ unbuilt \in BOOLEAN
    /\ moves \in 0..MaxMoves /\ tries \in 0..MaxCommits

Init ==
    /\ head \in Heads
    /\ index = head /\ seen = head /\ first = head
    /\ pc = "idle"
    /\ slipped = FALSE /\ unbuilt = FALSE
    /\ moves = 0 /\ tries = 0

-----------------------------------------------------------------------------
(***************************************************************************)
(* The checks.  "before" is HEAD, "listed" the index as its changes were   *)
(* listed, "staged" the copy of the index the checks read.                 *)
(***************************************************************************)
Changed(before, listed) == {e \in Events : before.events[e] # listed.events[e]}
Added(before, listed) == {e \in Changed(before, listed) : before.events[e] = Absent}

\* check_event_immutability, check_added_events.
EventsImmutable(before, listed) == Changed(before, listed) = Added(before, listed)

\* Mutant: an added event need only be valid.
AddedLoad(before, listed, staged) ==
    \A e \in Added(before, listed) : staged.events[e] # Corrupt

AddedFit(before, listed, staged) ==
    \A e \in Added(before, listed) : staged.events[e] \in Fit

\* check_legacy_immutable: the creation is the one write.
LegacyFrozen(before, listed) == before.legacy \in {Absent, listed.legacy}

\* check_log_projection: when an input or the log itself changes, a log that is
\* staged is what the renderer makes of the staged tree, and a log is not deleted.
LogRelevant(before, listed) ==
    \/ Changed(before, listed) # {}
    \/ before.log # listed.log
    \/ before.legacy # listed.legacy
    \/ before.epoch # listed.epoch
    \/ before.quarantine # listed.quarantine

\* Mutant: only events and the log itself make the log relevant.
LogEventsOnly(before, listed, staged) ==
    Changed(before, listed) # {} \/ before.log # listed.log =>
        /\ ~(before.log # Absent /\ listed.log = Absent)
        /\ staged.log # Absent => staged.log = LogOf(staged) /\ staged.toml = "valid"

\* Mutant: a log may be deleted.
LogDeletable(before, listed, staged) ==
    LogRelevant(before, listed) /\ staged.log # Absent =>
        staged.log = LogOf(staged) /\ staged.toml = "valid"

LogProjected(before, listed, staged) ==
    LogRelevant(before, listed) =>
        /\ ~(before.log # Absent /\ listed.log = Absent)
        /\ staged.log # Absent => staged.log = LogOf(staged) /\ staged.toml = "valid"

\* check_pending_projection: an event, a capture or the projection changes.
PendingRelevant(before, listed) ==
    \/ Changed(before, listed) # {}
    \/ before.pending # listed.pending
    \/ before.manifests # listed.manifests

PendingProjected(before, listed, staged) ==
    PendingRelevant(before, listed) => staged.pending = PendingOf(staged)

\* check_staged_artifacts, check_workstreams.  A ledger is held against its schema
\* only, so a crossed one passes here.
ArtifactsValid(before, listed, staged) ==
    /\ listed.quarantine \notin {before.quarantine, Absent} => staged.quarantine # Invalid
    /\ listed.epoch \notin {before.epoch, Absent} => staged.epoch # Invalid
    /\ listed.pages # before.pages => staged.pages = "valid"

Accepts(before, listed, staged) ==
    /\ EventsImmutable(before, listed) /\ AddedFit(before, listed, staged)
    /\ LegacyFrozen(before, listed)
    /\ LogProjected(before, listed, staged) /\ PendingProjected(before, listed, staged)
    /\ ArtifactsValid(before, listed, staged)

-----------------------------------------------------------------------------
Goto(place) == pc' = place

\* git commit runs the hook, which lists the changes.
CommitBegins ==
    /\ pc = "idle" /\ index # head
    /\ tries < MaxCommits /\ tries' = tries + 1
    /\ seen' = index
    /\ Goto("hook")
    /\ UNCHANGED <<head, index, first, slipped, unbuilt, moves>>

\* The hook copies the index out and decides.
HookDecides ==
    /\ pc = "hook"
    /\ Goto(IF Accepts(head, seen, index) THEN "write" ELSE "idle")
    /\ seen' = head
    /\ UNCHANGED <<head, index, first, slipped, unbuilt, moves, tries>>

\* git writes the index as it now is.
CommitWrites ==
    /\ pc = "write"
    /\ head' = index
    /\ unbuilt' = (~PendingRelevant(head, index)
                      /\ (unbuilt \/ head.quarantine # index.quarantine))
    /\ Goto("idle") /\ seen' = index
    /\ UNCHANGED <<index, first, slipped, moves, tries>>

\* A session stages something; while a commit runs this may go past its hook.
Stages(tree) ==
    /\ moves < MaxMoves /\ moves' = moves + 1
    /\ tree # index
    /\ index' = tree
    /\ slipped' = (slipped \/ pc # "idle")
    /\ UNCHANGED <<head, pc, seen, first, unbuilt, tries>>

StageEvent(e, content) == Stages([index EXCEPT !.events[e] = content])
StageLedger(ledger) == Stages([index EXCEPT !.quarantine = ledger])

\* The epoch file, the legacy text, or both of a deployment that begins with them.
StageEpoch(epoch) == Stages([index EXCEPT !.epoch = epoch])
StageLegacy(legacy) == Stages([index EXCEPT !.legacy = legacy])
StagePair(epoch, legacy) == Stages([index EXCEPT !.epoch = epoch, !.legacy = legacy])

StageCapture(h) == Stages([index EXCEPT !.manifests = @ \cup {h}])
StagePages(pages) == Stages([index EXCEPT !.pages = pages])
StageToml(toml) == Stages([index EXCEPT !.toml = toml])

\* A projection is regenerated from what is staged, edited by hand or removed.
Regenerated == [index EXCEPT !.log = LogOf(index), !.pending = PendingOf(index)]

StageLog(log) == Stages([index EXCEPT !.log = log])
StagePending(pending) == Stages([index EXCEPT !.pending = pending])

StageRegenerated ==
    /\ LogOf(index) # Failed
    /\ Stages(Regenerated)

Stage ==
    \/ \E e \in Events, content \in Contents \cup {Absent} : StageEvent(e, content)
    \/ \E ledger \in Ledgers \cup {Absent, Invalid, Crossed} : StageLedger(ledger)
    \/ \E epoch \in Epochs \cup {Absent, Invalid} : StageEpoch(epoch)
    \/ \E legacy \in Texts \cup {Absent, Headless} : StageLegacy(legacy)
    \/ \E epoch \in Epochs, legacy \in Texts : StagePair(epoch, legacy)
    \/ \E h \in Handoffs : StageCapture(h)
    \/ \E pages \in {"valid", "broken"} : StagePages(pages)
    \/ \E toml \in {"valid", "broken"} : StageToml(toml)
    \/ \E log \in {HandEdited, Absent} : StageLog(log)
    \/ \E pending \in {HandEdited, Absent} : StagePending(pending)
    \/ StageRegenerated

Next == CommitBegins \/ HookDecides \/ CommitWrites \/ Stage

Spec == Init /\ [][Next]_vars

-----------------------------------------------------------------------------
\* The committed events are those the deployment started with, each as it was,
\* and others that were fit when they were added, unless staging slipped past a
\* hook.
StoreSound ==
    ~slipped =>
        \A e \in Events : IF first.events[e] # Absent
                          THEN head.events[e] = first.events[e]
                          ELSE head.events[e] \in Fit \cup {Absent}

\* A committed log is what the renderer makes of the tree it was committed in,
\* whichever of its inputs changed since it was written.
LogIsProjection == ~slipped => head.log \in {Absent, LogOf(head)}

\* So is the committed pending index, but for a change of the quarantine ledger
\* alone, until the next commit of an event, a capture or the index.
PendingIsProjection == ~slipped /\ ~unbuilt => head.pending = PendingOf(head)

\* The legacy record, once committed, is neither rewritten nor dropped by any
\* later commit, whatever was staged and unstaged meanwhile.
LegacyKept ==
    [][head.legacy # Absent /\ ~slipped' => head'.legacy = head.legacy]_vars

\* A session that is in the committed log stays there, unless it is quarantined
\* or the boundary moves.
Sessions(tree) ==
    IF tree.log \in {Absent, HandEdited, Failed} THEN {}
    ELSE {entry.handoff : entry \in tree.log.entries}

LogKeepsSessions ==
    [][~slipped' /\ head'.epoch = head.epoch =>
         Sessions(head) \subseteq Sessions(head') \cup Quarantined(head')]_vars

\* Both committed projections are those of the committed store.
ProjectionsFit == LogIsProjection /\ PendingIsProjection
=============================================================================
