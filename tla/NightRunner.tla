---------------------------- MODULE NightRunner ----------------------------
(***************************************************************************)
(* `wiki_night.py run --scheduled`: the nightly pipeline over a working    *)
(* tree that sessions go on changing, and its commit.                      *)
(*                                                                         *)
(* A file is its set of marks, empty when there is no such file: what was  *)
(* rendered into it, the session block, the edits of sessions.  The tree   *)
(* has one handoff that a run may find pending (it applies mechanically    *)
(* when it carries "state"), one that a session may emit meanwhile, the    *)
(* garden-apply event and the page of the first, the three projections,    *)
(* the day's report and one more file.  apply_event is one step, taken     *)
(* under the event lock; EventStore is its model.  Every guard, write,     *)
(* fingerprint and git command of the runner is a step of its own, and     *)
(* between any two of them a session may edit, stage, commit, emit or      *)
(* dispose, a step may fail, the garden lock may be lost to the TTL, or    *)
(* the runner be killed.                                                   *)
(*                                                                         *)
(* Branches only grow but for the runner's own roll back, so a commit is   *)
(* named by its place in the history.                                      *)
(***************************************************************************)
EXTENDS Naturals, Sequences

CONSTANTS
    Starts,     \* the trees a first run may find, see Start
    MaxRuns,    \* bound on scheduled runs of one day
    MaxMoves    \* bound on what sessions, faults, kills and clocks do

VARIABLES
    work,       \* the working tree
    index,      \* the git index
    head,       \* the branch: a sequence of [tree, by]
    lock,       \* the garden lock: "free", "night" or "other"
    pc,         \* the runner's step
    part,       \* "guard", "write" or "touch" of a step that renders a file
    night,      \* the fields of NightRunner, see Fresh
    run,        \* the number of the run
    exit,       \* how the run ended
    moves,      \* how much has happened to the runner
    saved,      \* the marks of reports put aside as commit conflicts
    guarded,    \* ghost: edits made during this run outside a write's window
    succeeded,  \* ghost: the runs that ended with 0
    cut         \* ghost: the runs that were killed or crashed

tree == <<work, index, head>>
history == <<guarded, succeeded, cut>>
vars == <<tree, lock, pc, part, night, run, exit, moves, saved, history>>

-----------------------------------------------------------------------------
Events == {"event", "late", "apply"}
Projections == {"pending", "log", "orientation"}    \* GENERATED_INGRESS
Files == Events \cup Projections \cup {"page", "report", "other"}

\* The installer ignores the night reports and CLAUDE.local.md.
Ignored == {"report", "orientation"}

Words == Files \cup {"index", "state", "block", "edit", "clean", "attention", "aborted"}
Mark == Words \X Nat
Tree == [Files -> SUBSET Mark]
Commits == [tree : Tree, by : {"session", "night"}]

Text(words) == {<<word, 0>> : word \in words}

NoTree == [f \in Files |-> {}]

\* A tree at the start of a day: event is "absent", "committed" or
\* "untracked"; dirty are the files changed since the last commit, the report
\* that of an earlier run of the day; oriented says whether CLAUDE.local.md is
\* tracked.
Start == [event : {"absent", "committed", "untracked"}, mechanical : BOOLEAN,
          dirty : SUBSET {"page", "other", "log", "report"}, oriented : BOOLEAN]

ASSUME StartsAssumption == Starts \subseteq Start
ASSUME BoundsAssumption == MaxRuns \in Nat /\ MaxMoves \in Nat

HeadTree == head[Len(head)].tree

\* The handoffs without a disposition, and what the renderers make of a tree.
Pending(t) == {e \in {"event", "late"} : t[e] # {} /\ (e = "event" => t["apply"] = {})}
PendingText(t) == Text({"index"} \cup Pending(t))
LogText(t) == Text({"log"} \cup {e \in Events : t[e] # {}})
OrientationText(t) == Text({"orientation"} \cup Pending(t))

\* load_verified_pending_index: index.json is what the store implies.
PendingVerified == work["pending"] = PendingText(work)

\* _touched_paths, _expected_fingerprints, _baseline_fingerprints and so on, and
\* the locals of _apply_pending and _commit.
Night == [touched : SUBSET Files, expected : Tree, baseline : Tree, based : BOOLEAN,
          foreign : SUBSET Files, locked : BOOLEAN, list : SUBSET Files, manual : BOOLEAN,
          staged : BOOLEAN, paths : SUBSET Files, before : Nat, tree : Tree, commit : Nat]

Fresh == [touched |-> {}, expected |-> NoTree, baseline |-> NoTree, based |-> FALSE,
          foreign |-> {}, locked |-> FALSE, list |-> {}, manual |-> FALSE,
          staged |-> FALSE, paths |-> {}, before |-> 0, tree |-> NoTree, commit |-> 0]

-----------------------------------------------------------------------------
Committed(s) ==
    [f \in Files |->
        CASE f = "event" ->
                IF s.event = "committed"
                THEN Text({"event"} \cup IF s.mechanical THEN {"state"} ELSE {}) ELSE {}
          [] f = "pending" -> Text({"index"} \cup IF s.event = "committed" THEN {"event"} ELSE {})
          [] f = "orientation" -> IF s.oriented THEN Text({"orientation"}) ELSE {}
          [] f = "report" -> IF "report" \in s.dirty THEN Text({"clean"}) ELSE {}
          [] f \in {"page", "log", "other"} -> Text({f})
          [] OTHER -> {}]

\* What sessions left uncommitted: a handoff with its index, edits, and a
\* CLAUDE.local.md where that is not tracked.
Working(s) ==
    [f \in Files |->
        CASE f = "event" /\ s.event # "absent" ->
                Text({"event"} \cup IF s.mechanical THEN {"state"} ELSE {})
          [] f = "pending" /\ s.event # "absent" -> Text({"index", "event"})
          [] f = "orientation" -> Text({"orientation"})
          [] OTHER -> Committed(s)[f] \cup IF f \in s.dirty THEN Text({"edit"}) ELSE {}]

Init ==
    /\ \E s \in Starts :
          /\ work = Working(s)
          /\ index = Committed(s)
          /\ head = <<[tree |-> Committed(s), by |-> "session"]>>
    /\ lock = "free"
    /\ pc = "idle"
    /\ part = "guard"
    /\ night = Fresh
    /\ run = 0
    /\ exit = "none"
    /\ moves = 0
    /\ saved = {}
    /\ guarded = {}
    /\ succeeded = {}
    /\ cut = {}

-----------------------------------------------------------------------------
Goto(step) == pc' = step /\ UNCHANGED part

\* Mutant: the lock stays.
StopHolding ==
    /\ exit' = "aborted"
    /\ pc' = "abort"
    /\ part' = "guard"

\* A failing step ends the run with 1; `finally` releases the lock first.
Stop ==
    /\ exit' = "aborted"
    /\ pc' = IF night.locked THEN "release" ELSE "abort"
    /\ part' = "guard"

\* Leaves everything but pc, part and exit as it is.
Quietly == UNCHANGED <<tree, lock, night, run, moves, saved, history>>

\* A test of the pipeline: go on, or stop.
Test(step, condition, next) ==
    /\ pc = step
    /\ IF condition THEN Goto(next) /\ UNCHANGED exit ELSE Stop
    /\ Quietly

StatusPaths ==
    {f \in Files : /\ work[f] # index[f] \/ index[f] # HeadTree[f]
                   /\ f \in Ignored => index[f] # {} \/ HeadTree[f] # {}}

\* _is_owned_dirty_path: a projection, or a file that is a pending handoff.
OwnedPaths == Projections \cup {"event", "late"}

\* _touch: the runner's output is what is there now.
Touched(files) ==
    [night EXCEPT !.touched = @ \cup files,
                  !.expected = [f \in Files |-> IF f \in files THEN work[f] ELSE @[f]]]

\* Mutant: no guard.
UnchangedUnseen(f) == TRUE

\* _assert_unchanged_before_write.
Unchanged(f) ==
    night.based =>
        work[f] = IF f \in night.touched THEN night.expected[f] ELSE night.baseline[f]

\* What others, faults and clocks do costs a move.
Move ==
    /\ moves < MaxMoves
    /\ moves' = moves + 1

-----------------------------------------------------------------------------
\* Pre-flight and the lock.

Begin ==
    /\ pc \in {"idle", "done"}
    /\ run < MaxRuns
    /\ run' = run + 1
    /\ night' = Fresh
    /\ exit' = "none"
    /\ guarded' = {}
    /\ Goto("status")
    /\ UNCHANGED <<tree, lock, moves, saved, succeeded, cut>>

\* A tree that is dirty with nothing of the runner's own is refused; beside an
\* owned path, the others are foreign for the whole run.
PreflightStatus ==
    /\ pc = "status"
    /\ IF StatusPaths # {} /\ StatusPaths \cap OwnedPaths = {}
       THEN Stop /\ UNCHANGED night
       ELSE /\ night' = [night EXCEPT !.foreign = StatusPaths \ OwnedPaths]
            /\ Goto("check")
            /\ UNCHANGED exit
    /\ UNCHANGED <<tree, lock, run, moves, saved, history>>

PreflightLock == Test("check", lock = "free", "baseline")

\* _capture_baseline: what is tracked or not ignored, and the projections.
CaptureBaseline ==
    /\ pc = "baseline"
    /\ night' = [night EXCEPT !.based = TRUE,
                    !.baseline = [f \in Files |->
                        IF f \in Ignored \ Projections /\ index[f] = {} THEN {} ELSE work[f]]]
    /\ Goto("acquire")
    /\ UNCHANGED <<tree, lock, run, exit, moves, saved, history>>

AcquireLock ==
    /\ pc = "acquire"
    /\ IF lock = "free"
       THEN /\ lock' = "night"
            /\ night' = [night EXCEPT !.locked = TRUE]
            /\ Goto("count")
            /\ UNCHANGED exit
       ELSE Stop /\ UNCHANGED <<lock, night>>
    /\ UNCHANGED <<tree, run, moves, saved, history>>

\* _count_pending raises outside every step; run() catches it.
CountBefore == Test("count", PendingVerified, "list")

-----------------------------------------------------------------------------
\* _apply_pending.

\* The list of the run, and for the first handoff the foreign page and the
\* guard before the apply.
ListPending ==
    /\ pc = "list"
    /\ LET list == Pending(work)
           apply == "event" \in list /\ "page" \notin night.foreign
       IN  IF ~PendingVerified \/ (apply /\ ~(Unchanged("page") /\ Unchanged("pending")))
           THEN Stop /\ UNCHANGED night
           ELSE /\ night' = [night EXCEPT !.list = list,
                                          !.manual = "event" \in list /\ ~apply]
                /\ Goto(IF apply THEN "apply" ELSE "next")
                /\ UNCHANGED exit
    /\ UNCHANGED <<tree, lock, run, moves, saved, history>>

\* apply_event appends the block, writes the garden-apply event and rebuilds
\* the pending index.
ApplyEvent ==
    /\ pc = "apply"
    /\ work["apply"] = {}
    /\ <<"state", 0>> \in work["event"]
    /\ work' = [work EXCEPT !["page"] = @ \cup Text({"block"}),
                            !["apply"] = Text({"apply"}),
                            !["pending"] = PendingText([work EXCEPT !["apply"] = Text({"apply"})])]
    /\ Goto("touch")
    /\ UNCHANGED <<index, head, lock, night, run, exit, moves, saved, history>>

\* ManualApplyRequired: the handoff stays pending.
ApplyManually ==
    /\ pc = "apply"
    /\ work["apply"] = {}
    /\ <<"state", 0>> \notin work["event"]
    /\ night' = [night EXCEPT !.manual = TRUE]
    /\ Goto("next")
    /\ UNCHANGED <<tree, lock, run, exit, moves, saved, history>>

\* AlreadyDispositioned: somebody else disposed of it since the list was read.
ApplyReconciled ==
    /\ pc = "apply"
    /\ work["apply"] # {}
    /\ Goto("next reconciled")
    /\ UNCHANGED <<tree, lock, night, run, exit, moves, saved, history>>

TouchApplied ==
    /\ pc = "touch"
    /\ night' = Touched({"page", "apply", "event", "pending"})
    /\ Goto("next")
    /\ UNCHANGED <<tree, lock, run, exit, moves, saved, history>>

\* The late handoff, when it was in the list: guarded, then left to a person.
NextPending(step, next) ==
    /\ pc = step
    /\ IF "late" \in night.list /\ ~Unchanged("pending")
       THEN Stop /\ UNCHANGED night
       ELSE /\ night' = [night EXCEPT !.manual = @ \/ "late" \in night.list]
            /\ Goto(next)
            /\ UNCHANGED exit
    /\ UNCHANGED <<tree, lock, run, moves, saved, history>>

NextAfterApply == NextPending("next", "log")
NextAfterReconciled == NextPending("next reconciled", "rebuild")

\* _rebuild_pending, after the loop over the list.
RebuildPending ==
    /\ pc = "rebuild"
    /\ IF Unchanged("pending")
       THEN /\ work' = [work EXCEPT !["pending"] = PendingText(work)]
            /\ Goto("rebuilt")
            /\ UNCHANGED exit
       ELSE Stop /\ UNCHANGED work
    /\ UNCHANGED <<index, head, lock, night, run, moves, saved, history>>

TouchRebuilt ==
    /\ pc = "rebuilt"
    /\ night' = Touched({"pending"})
    /\ Goto("log")
    /\ UNCHANGED <<tree, lock, run, exit, moves, saved, history>>

-----------------------------------------------------------------------------
\* The rendered files: guard, write, touch.

Output == [log |-> "log", orientation |-> "orientation",
           report1 |-> "report", report2 |-> "report", aborted |-> "report"]

After == [log |-> "orientation", orientation |-> "metrics", report1 |-> "doctor",
          report2 |-> "verify", aborted |-> "done"]

\* A report says "aborted" until pass 2.
Rendered(step) ==
    CASE step = "log" -> LogText(work)
      [] step = "orientation" -> OrientationText(work)
      [] step = "report2" -> {<<IF night.manual THEN "attention" ELSE "clean", run>>}
      [] OTHER -> {<<"aborted", run>>}

\* An exception of the abort report leaves run() and the process.
Crash ==
    /\ exit' = "crashed"
    /\ cut' = cut \cup {run}
    /\ pc' = "done"
    /\ part' = "guard"

StopRendering ==
    IF pc = "aborted" THEN Crash /\ UNCHANGED <<guarded, succeeded>>
                      ELSE Stop /\ UNCHANGED history

GuardOutput ==
    /\ pc \in DOMAIN Output
    /\ part = "guard"
    /\ IF Unchanged(Output[pc])
       THEN part' = "write" /\ UNCHANGED <<pc, exit, history>>
       ELSE StopRendering
    /\ UNCHANGED <<tree, lock, night, run, moves, saved>>

WriteOutput ==
    /\ part = "write"
    /\ work' = [work EXCEPT ![Output[pc]] = Rendered(pc)]
    /\ part' = "touch"
    /\ UNCHANGED <<index, head, lock, pc, night, run, exit, moves, saved, history>>

TouchOutput ==
    /\ part = "touch"
    /\ night' = Touched({Output[pc]})
    /\ pc' = After[pc]
    /\ part' = "guard"
    /\ UNCHANGED <<tree, lock, run, exit, moves, saved, history>>

CollectMetrics == Test("metrics", PendingVerified, "report1")

\* check_pending_index and check_render_log are what a run could upset.
RunDoctor == Test("doctor", PendingVerified /\ work["log"] = LogText(work), "report2")

VerifyLock == Test("verify", lock = "night", "unexpected")

-----------------------------------------------------------------------------
\* _commit.

Diff(a, b) == {f \in Files : a[f] # b[f]}

UnexpectedChanges ==
    LET changed == StatusPaths \ night.foreign
    IN  (changed \ night.touched)
        \cup {f \in changed \cap night.touched : work[f] # night.expected[f]}

RefuseUnexpected == Test("unexpected", UnexpectedChanges = {}, "add")

\* _machine_local_paths: CLAUDE.local.md stays out where it is not tracked.
MachineLocal == {f \in {"orientation"} : index[f] = {}}

StageOutput ==
    /\ pc = "add"
    /\ index' = [f \in Files |-> IF f \in night.touched \ MachineLocal THEN work[f] ELSE index[f]]
    /\ night' = [night EXCEPT !.staged = TRUE]
    /\ Goto("manifest")
    /\ UNCHANGED <<work, head, lock, run, exit, moves, saved, history>>

\* _verify_staged_manifest: nothing but the runner's output is staged, and
\* what it wrote is still there.
StagedVerified ==
    LET staged == Diff(index, HeadTree)
    IN  /\ staged \subseteq night.touched
        /\ \A f \in night.touched : work[f] = night.expected[f]
        /\ \A f \in staged : index[f] = night.expected[f]

VerifyStaged ==
    /\ pc = "manifest"
    /\ IF StagedVerified
       THEN /\ night' = [night EXCEPT !.paths = Diff(index, HeadTree)]
            /\ Goto("head")
            /\ UNCHANGED exit
       ELSE Stop /\ UNCHANGED night
    /\ UNCHANGED <<tree, lock, run, moves, saved, history>>

ReadHead ==
    /\ pc = "head"
    /\ night' = [night EXCEPT !.before = Len(head)]
    /\ Goto("tree")
    /\ UNCHANGED <<tree, lock, run, exit, moves, saved, history>>

WriteTree ==
    /\ pc = "tree"
    /\ night' = [night EXCEPT !.tree = index]
    /\ Goto("commit")
    /\ UNCHANGED <<tree, lock, run, exit, moves, saved, history>>

GitCommit ==
    /\ pc = "commit"
    /\ IF index # HeadTree
       THEN /\ head' = Append(head, [tree |-> index, by |-> "night"])
            /\ Goto("parse")
            /\ UNCHANGED exit
       ELSE Stop /\ UNCHANGED head
    /\ UNCHANGED <<work, index, lock, night, run, moves, saved, history>>

ReadCommit ==
    /\ pc = "parse"
    /\ night' = [night EXCEPT !.commit = Len(head)]
    /\ Goto("committed")
    /\ UNCHANGED <<tree, lock, run, exit, moves, saved, history>>

\* Mutant: the commit is what was staged.
CommitTrusted == TRUE

\* _verify_committed_manifest: the commit at HEAD has the paths that were
\* staged, with the runner's output.
CommittedVerified ==
    LET diff == Diff(head[night.commit].tree, head[night.commit - 1].tree)
    IN  /\ diff = night.paths
        /\ \A f \in diff : head[night.commit].tree[f] = night.expected[f]

VerifyCommitted ==
    /\ pc = "committed"
    /\ Goto(IF CommittedVerified THEN "clean" ELSE "rollback")
    /\ UNCHANGED exit
    /\ Quietly

\* _rollback_unverified_commit.
CheckRollback ==
    Test("rollback", Len(head) = night.commit /\ night.commit = night.before + 1, "update")

\* Mutant: update-ref without the old value.
UpdateRefBlindly ==
    /\ pc = "update"
    /\ head' = SubSeq(head, 1, night.before)
    /\ Goto("read-tree")
    /\ UNCHANGED <<work, index, lock, night, run, exit, moves, saved, history>>

\* update-ref compares HEAD with the commit it takes back.
UpdateRef ==
    /\ pc = "update"
    /\ IF Len(head) = night.commit
       THEN /\ head' = SubSeq(head, 1, night.before)
            /\ Goto("read-tree")
            /\ UNCHANGED exit
       ELSE Stop /\ UNCHANGED head
    /\ UNCHANGED <<work, index, lock, night, run, moves, saved, history>>

ReadTree ==
    /\ pc = "read-tree"
    /\ index' = night.tree
    /\ Stop
    /\ UNCHANGED <<work, head, lock, night, run, moves, saved, history>>

VerifyClean ==
    /\ pc = "clean"
    /\ IF StatusPaths \subseteq night.foreign
       THEN /\ night' = [night EXCEPT !.staged = FALSE]
            /\ exit' = "ok"
            /\ Goto("release")
       ELSE Stop /\ UNCHANGED night
    /\ UNCHANGED <<tree, lock, run, moves, saved, history>>

\* `finally`: releases the lock if it still holds the runner's token.  Nobody
\* looks whether the release went well: the lock may stay, until its TTL.
ReleaseLock ==
    /\ pc = "release"
    /\ \/ lock' = (IF lock = "night" THEN "free" ELSE lock) /\ UNCHANGED moves
       \/ lock' = (IF lock = "night" THEN "other" ELSE lock) /\ Move
    /\ night' = [night EXCEPT !.locked = FALSE]
    /\ Goto(IF exit = "ok" THEN "done" ELSE "abort")
    /\ succeeded' = IF exit = "ok" THEN succeeded \cup {run} ELSE succeeded
    /\ UNCHANGED <<tree, run, exit, saved, guarded, cut>>

-----------------------------------------------------------------------------
\* What run() does after a failure.

\* Mutants: the report of a staged run is written like any other, or kept.
StartAbortUnstaged ==
    /\ pc = "abort"
    /\ Goto("aborted")
    /\ UNCHANGED exit
    /\ Quietly

StartAbortKeeping ==
    /\ pc = "abort"
    /\ Goto(IF night.staged THEN "done" ELSE "aborted")
    /\ UNCHANGED exit
    /\ Quietly

StartAbort ==
    /\ pc = "abort"
    /\ Goto(IF night.staged THEN "conflict" ELSE "aborted")
    /\ UNCHANGED exit
    /\ Quietly

\* _write_failed_commit_report: a report that is not the runner's own output
\* is put aside.
PutReportAside ==
    /\ pc = "conflict"
    /\ saved' = saved \cup IF work["report"] = night.expected["report"] THEN {} ELSE work["report"]
    /\ work' = [work EXCEPT !["report"] = {}]
    /\ Goto("rewrite")
    /\ UNCHANGED <<index, head, lock, night, run, exit, moves, history>>

RewriteReport ==
    /\ pc = "rewrite"
    /\ work' = [work EXCEPT !["report"] = {<<"aborted", run>>}]
    /\ Goto("retouch")
    /\ UNCHANGED <<index, head, lock, night, run, exit, moves, saved, history>>

\* _recover_failed_commit_report.
TouchReport ==
    /\ pc = "retouch"
    /\ night' = Touched({"report"})
    /\ Goto("restage")
    /\ UNCHANGED <<tree, lock, run, exit, moves, saved, history>>

RestageReport ==
    /\ pc = "restage"
    /\ index' = [index EXCEPT !["report"] = work["report"]]
    /\ Goto("restaged")
    /\ UNCHANGED <<work, head, lock, night, run, exit, moves, saved, history>>

\* Whatever else came to be staged is unstaged.
UnstageReport == index' = [index EXCEPT !["report"] = HeadTree["report"]]

VerifyRestaged ==
    /\ pc = "restaged"
    /\ IF index["report"] = night.expected["report"] THEN UNCHANGED index ELSE UnstageReport
    /\ Goto("done")
    /\ UNCHANGED <<work, head, lock, night, run, exit, moves, saved, history>>

Runner ==
    \/ Begin \/ PreflightStatus \/ PreflightLock \/ CaptureBaseline \/ AcquireLock
    \/ CountBefore \/ ListPending \/ ApplyEvent \/ ApplyManually \/ ApplyReconciled
    \/ TouchApplied \/ NextAfterApply \/ NextAfterReconciled \/ RebuildPending \/ TouchRebuilt
    \/ GuardOutput \/ WriteOutput \/ TouchOutput
    \/ CollectMetrics \/ RunDoctor \/ VerifyLock
    \/ RefuseUnexpected \/ StageOutput \/ VerifyStaged \/ ReadHead \/ WriteTree \/ GitCommit
    \/ ReadCommit \/ VerifyCommitted \/ CheckRollback \/ UpdateRef \/ ReadTree \/ VerifyClean
    \/ ReleaseLock
    \/ StartAbort \/ PutReportAside \/ RewriteReport \/ TouchReport \/ RestageReport
    \/ VerifyRestaged

-----------------------------------------------------------------------------
\* What happens to the runner.

Running == pc \notin {"idle", "done"}

\* The files that are between their guard and their fingerprint; a report that
\* was put aside has no guard before it is written again.
Window ==
    CASE pc \in {"apply", "touch"} -> {"page"}
      [] pc = "rewrite" -> {"report"}
      [] part # "guard" -> {Output[pc]}
      [] OTHER -> {}

Edit(f) ==
    /\ Move
    /\ work' = [work EXCEPT ![f] = @ \cup {<<"edit", moves'>>}]
    /\ guarded' = IF Running /\ night.based /\ f \notin Window
                  THEN guarded \cup {<<"edit", moves'>>} ELSE guarded
    /\ UNCHANGED <<index, head, lock, pc, part, night, run, exit, saved, succeeded, cut>>

\* What sessions edit and stage.
Editable == {"page", "report", "other"}

\* A checkpoint emits a handoff and rebuilds the index.
Emit ==
    /\ Move
    /\ work["late"] = {}
    /\ LET emitted == [work EXCEPT !["late"] = Text({"late"})]
       IN  work' = [emitted EXCEPT !["pending"] = PendingText(emitted)]
    /\ UNCHANGED <<index, head, lock, pc, part, night, run, exit, saved, history>>

\* /garden disposes of the first handoff; it may be killed before the index.
Dispose(rebuilds) ==
    /\ Move
    /\ work["event"] # {} /\ work["apply"] = {}
    /\ LET applied == [work EXCEPT !["page"] = @ \cup Text({"block"}), !["apply"] = Text({"apply"})]
       IN  work' = [applied EXCEPT !["pending"] = IF rebuilds THEN PendingText(applied) ELSE @]
    /\ UNCHANGED <<index, head, lock, pc, part, night, run, exit, saved, history>>

Stage(f) ==
    /\ Move
    /\ f \in StatusPaths
    /\ index' = [index EXCEPT ![f] = work[f]]
    /\ UNCHANGED <<work, head, lock, pc, part, night, run, exit, saved, history>>

\* A session adds one file, or all, or none, and commits what is staged.
SessionCommit(files) ==
    /\ Move
    /\ files \subseteq StatusPaths
    /\ index' = [f \in Files |-> IF f \in files THEN work[f] ELSE index[f]]
    /\ index' # HeadTree
    /\ head' = Append(head, [tree |-> index', by |-> "session"])
    /\ UNCHANGED <<work, lock, pc, part, night, run, exit, saved, history>>

\* Another holder takes a free lock or, after the TTL, the runner's.
LockTaken ==
    /\ Move
    /\ lock' \in {"free", "other"} \ {lock}
    /\ UNCHANGED <<tree, pc, part, night, run, exit, saved, history>>

\* A step raises, or a command of it fails, before it changed anything.
StepFails ==
    /\ Move
    /\ Running
    /\ pc \notin {"committed", "release", "abort", "aborted", "conflict", "rewrite", "retouch",
                  "restage", "restaged"}
    /\ Stop
    /\ UNCHANGED <<tree, lock, night, run, saved, history>>

\* A failure of the verification is a verdict.
VerificationFails ==
    /\ Move
    /\ pc = "committed"
    /\ Goto("rollback")
    /\ UNCHANGED <<tree, lock, night, run, exit, saved, history>>

\* DurableApplyNeedsRepair: the block and the garden-apply event are written,
\* the index is not.
ApplyNeedsRepair ==
    /\ Move
    /\ pc = "apply"
    /\ work["apply"] = {} /\ <<"state", 0>> \in work["event"]
    /\ LET applied == [work EXCEPT !["page"] = @ \cup Text({"block"}), !["apply"] = Text({"apply"})]
       IN  /\ work' = applied
           /\ night' = [night EXCEPT
                  !.touched = @ \cup {"page", "apply"},
                  !.expected = [@ EXCEPT !["page"] = applied["page"], !["apply"] = applied["apply"]]]
    /\ Stop
    /\ UNCHANGED <<index, head, lock, run, saved, history>>

\* The abort report cannot be written.
AbortFails ==
    /\ Move
    /\ pc \in {"aborted", "conflict", "rewrite"}
    /\ Crash
    /\ UNCHANGED <<tree, lock, night, run, saved, guarded, succeeded>>

\* git add fails for it.
RestageFails ==
    /\ Move
    /\ pc = "restage"
    /\ UnstageReport
    /\ Goto("done")
    /\ UNCHANGED <<work, head, lock, night, run, exit, saved, history>>

\* The lock of a killed run stays until its TTL.
Kill ==
    /\ Move
    /\ Running
    /\ exit' = "killed"
    /\ cut' = cut \cup {run}
    /\ lock' = IF lock = "night" THEN "other" ELSE lock
    /\ pc' = "done"
    /\ part' = "guard"
    /\ UNCHANGED <<tree, night, run, saved, guarded, succeeded>>

Environment ==
    \/ \E f \in Editable : Edit(f) \/ Stage(f)
    \/ Emit
    \/ \E rebuilds \in BOOLEAN : Dispose(rebuilds)
    \/ \E files \in {{}, {"page"}, StatusPaths} : SessionCommit(files)
    \/ LockTaken \/ StepFails \/ VerificationFails \/ ApplyNeedsRepair
    \/ AbortFails \/ RestageFails \/ Kill

\* The day is over.
Finished ==
    /\ pc = "done" /\ run = MaxRuns
    /\ UNCHANGED vars

Next == Runner \/ Environment \/ Finished
Spec == Init /\ [][Next]_vars

-----------------------------------------------------------------------------
TypeOK ==
    /\ work \in Tree /\ index \in Tree
    /\ head \in Seq(Commits) /\ head # <<>>
    /\ lock \in {"free", "night", "other"}
    /\ part \in {"guard", "write", "touch"} /\ (part # "guard" => pc \in DOMAIN Output)
    /\ night \in Night
    /\ run \in 0..MaxRuns /\ moves \in 0..MaxMoves
    /\ exit \in {"none", "ok", "aborted", "crashed", "killed"}
    /\ saved \subseteq Mark /\ guarded \subseteq Mark
    /\ succeeded \subseteq 0..MaxRuns /\ cut \subseteq 0..MaxRuns

\* A run that exits 0 committed its own output and nothing else: the commit
\* differs from its parent in files it rendered, as it rendered them, and has
\* taken over no edit a session made outside the window of a write, whatever
\* sessions staged and committed meanwhile.
CommitIsOutput ==
    (pc = "done" /\ exit = "ok") =>
        LET commit == head[night.commit]
            diff   == Diff(commit.tree, head[night.commit - 1].tree)
        IN  /\ commit.by = "night"
            /\ diff \subseteq night.touched
            /\ \A f \in diff : commit.tree[f] = night.expected[f] /\ commit.tree[f] \cap guarded = {}

\* An edit made while a run is on, outside the window of a write, is still in
\* the tree or in a report put aside.
EditsKept == \A e \in guarded : e \in saved \/ \E f \in Files : e \in work[f]

\* Why: the edits to keep, which are those since the baseline, are in no file the
\* runner is about to write, and in nothing it holds for unchanged; once its
\* report is put aside, or no run is on, it compares no more.
Preflight == {"status", "check", "baseline"}
Aside == {"idle", "rewrite", "retouch", "restage", "restaged", "done"}

EditsInv ==
    /\ \A e \in guarded : e[1] = "edit" /\ e[2] <= moves
    /\ \A f \in Files : \A e \in work[f] \cup night.expected[f] \cup night.baseline[f] :
          e[1] = "edit" => e[2] <= moves
    /\ EditsKept
    /\ \A f \in Files \ Editable : guarded \cap work[f] = {}
    /\ ~night.based => guarded = {}
    /\ pc \in Preflight => ~night.based
    /\ pc \notin Aside => \A f \in Files :
          guarded \cap (night.baseline[f] \cup night.expected[f]) = {}
    /\ part # "guard" => guarded \cap work[Output[pc]] = {}
    /\ pc \in {"apply", "touch"} => guarded \cap work["page"] = {}
    /\ pc = "rewrite" => guarded \cap work["report"] = {}

\* The roll back of an unverified commit takes no commit of a session with it.
OthersCommitsKept ==
    [][\A i \in DOMAIN head :
          head[i].by = "session" => i \in DOMAIN head' /\ head'[i] = head[i]]_vars

\* Why it does not: between the reading of HEAD and update-ref the runner's own
\* commit is on the branch above what HEAD was, and what update-ref takes back is
\* one commit above it.
BranchInv ==
    /\ pc \in {"tree", "commit"} => night.before \in 1..Len(head)
    /\ pc \in {"parse", "committed", "rollback", "update"} =>
          /\ night.before >= 1
          /\ \E i \in night.before + 1..Len(head) : head[i].by = "night"
    /\ pc = "update" => night.commit = night.before + 1

\* A run that exits 1 leaves a report that says so, and, once it has staged its
\* output, no report of its success for the next commit of a session to take.
AbortShows ==
    (pc = "done" /\ exit = "aborted") =>
        /\ <<"aborted", run>> \in work["report"]
        /\ \/ ~night.staged
           \/ index["report"] = HeadTree["report"]
           \/ {<<"clean", run>>, <<"attention", run>>} \cap index["report"] = {}

\* morning-reminder.sh: the report is neither missing nor aborted and is that
\* of the last night commit with it.
ReportCommits ==
    {i \in DOMAIN head : /\ head[i].by = "night"
                         /\ head[i].tree["report"] # head[i - 1].tree["report"]}

Successes == {r \in 0..MaxRuns : {<<"clean", r>>, <<"attention", r>>} \cap work["report"] # {}}

Routine ==
    /\ Successes # {}
    /\ \A r \in 0..MaxRuns : <<"aborted", r>> \notin work["report"]
    /\ \E i \in ReportCommits :
          /\ \A j \in ReportCommits : j <= i
          /\ work["report"] = head[i].tree["report"]

\* A reminder that calls the night routine is right: the report it shows is of
\* a run that exited 0, or that was cut short after its commit.
MorningIsHonest == (~Running /\ Routine) => Successes \subseteq succeeded \cup cut

\* A run leaves its lock behind only by a kill or a release that failed; what
\* it leaves is for the TTL.
LockReleased == ~Running => lock # "night"

\* test_wiki_night.py: a path that was dirty with something foreign before the
\* run "is recorded so it is never touched or staged".
ForeignUntouched == night.foreign \cap night.touched = {}
=============================================================================
