----------------------------- MODULE Checkpoint -----------------------------
(***************************************************************************)
(* The garden checkpoint (scripts/wiki_checkpoint.py): one garden batch    *)
(* from its preflight to the user's commit.  A batch has a state file      *)
(* outside the repository; every command loads it, looks at the repository *)
(* in several reads, and saves it in one atomic step at its end.  Other    *)
(* sessions edit, emit, stage and commit between any two reads, and a      *)
(* command may die between any two.                                        *)
(*                                                                         *)
(* A step is one look at the repository with the decision that follows     *)
(* from it; the last look of a command and its save are one step, since    *)
(* nobody else reads the state file.  A commit is its number and its tree. *)
(***************************************************************************)
EXTENDS Integers

CONSTANTS
    Handoffs,    \* paths of handoff events
    Applies,     \* paths of garden-apply events
    Pages,       \* workstreams/ and wiki/feedback/ paths
    Generated,   \* the projections: orientation, log, pending index and page
    Foreign,     \* docs/ and every other path
    Contents,    \* what a file may hold
    Canonical,   \* the contents that make an event canonical, a handoff pending
    Absent,      \* no file
    Starts,      \* working trees a batch may start on, over one HEAD
    Tree0,       \* that HEAD
    MaxMoves,    \* how many moves other sessions make
    MaxCommands  \* how many commands the batch runs

Events == Handoffs \cup Applies
Files == Events \cup Pages \cup Generated \cup Foreign
Held == Contents \cup {Absent}

ASSUME CheckpointAssumption ==
    /\ Absent \notin Contents
    /\ Canonical \subseteq Contents
    /\ Handoffs \cap (Applies \cup Pages \cup Generated \cup Foreign) = {}
    /\ Applies \cap (Pages \cup Generated \cup Foreign) = {}
    /\ Pages \cap (Generated \cup Foreign) = {}
    /\ Generated \cap Foreign = {}
    /\ Tree0 \in [Files -> Held]
    /\ Starts \subseteq [Files -> Held]
    /\ MaxMoves \in Nat
    /\ MaxCommands \in Nat

VARIABLES
    head, commits,  \* the tree of HEAD, and the number of the commit it is
    index, work,    \* the index and the working tree
    saved,          \* checkpoint.json
    manifestFile,   \* path-manifest.z
    pc, local,      \* the command under way: its place and what it has read
    said,           \* how the last command ended
    touched,        \* ghost: what others wrote or staged since it began
    restaged,       \* ghost: what others staged since prepare saw a clean index
    cut,            \* ghost: a prepare died, or its cleanup failed, after its git add
    moves, runs

vars == <<head, commits, index, work, saved, manifestFile, pc, local, said,
          touched, restaged, cut, moves, runs>>

repo == <<head, commits, index, work>>
ghosts == <<restaged, cut, moves>>

Clean == "-"
Statuses == {Clean, "A", "M", "D", "?"}
Phases == {"none", "preflight", "approved", "prepared", "unstaged"}

\* staged_changes: how the index differs from HEAD.
StagedStatus(f) ==
    CASE index[f] = head[f] -> Clean
      [] index[f] # head[f] /\ head[f] = Absent -> "A"
      [] index[f] # head[f] /\ index[f] = Absent -> "D"
      [] OTHER -> "M"

\* working_changes: how the working tree differs from the index.
WorkStatus(f) ==
    CASE work[f] = index[f] -> Clean
      [] work[f] # index[f] /\ index[f] = Absent -> "?"
      [] work[f] # index[f] /\ work[f] = Absent -> "D"
      [] OTHER -> "M"

StagedStatuses == [f \in Files |-> StagedStatus(f)]
WorkStatuses == [f \in Files |-> WorkStatus(f)]
Dirty(status) == {f \in Files : status[f] # Clean}
Staged == Dirty(StagedStatuses)

NoTree == [f \in Files |-> Absent]
NoEvents == [e \in Events |-> Absent]
NoStatus == [f \in Files |-> Clean]

NoState == [phase |-> "none", head |-> 0, status |-> NoStatus, ingress |-> {},
            approved |-> {}, baseline |-> NoEvents, manifest |-> {}, records |-> NoTree]

NoLocal == [head |-> 0, paths |-> {}, status |-> NoStatus, current |-> NoEvents]

Places == {"idle", "preflightStatus", "preflightHead", "preflightSave",
           "adoptIndex", "adoptEvents", "adoptSave",
           "prepareEvents", "prepareIndex", "prepareStatus", "prepareAdd",
           "prepareStaged", "prepareRest", "prepareSave", "cleanup", "remaining",
           "verifyEvents", "verifyStaged", "verifyRecords", "verifyRest",
           "unstageRest"}

\* The places where prepare may have staged and has not saved.
AfterAdd == {"prepareStaged", "prepareRest", "prepareSave", "cleanup", "remaining"}

Ends == {"none", "running", "ok", "error", "left", "verified", "killed", "committed"}

TypeOK ==
    /\ head \in [Files -> Held] /\ index \in [Files -> Held] /\ work \in [Files -> Held]
    /\ commits \in Nat
    /\ saved \in [phase : Phases, head : Nat, status : [Files -> Statuses],
                  ingress : SUBSET Files, approved : SUBSET Files,
                  baseline : [Events -> Held], manifest : SUBSET Files,
                  records : [Files -> Held]]
    /\ manifestFile \in SUBSET Files
    /\ pc \in Places
    /\ local \in [head : Nat, paths : SUBSET Files, status : [Files -> Statuses],
                  current : [Events -> Held]]
    /\ said \in Ends
    /\ touched \in SUBSET Files /\ restaged \in SUBSET Files
    /\ cut \in BOOLEAN /\ moves \in Nat /\ runs \in Nat

Init ==
    /\ head = Tree0 /\ index = Tree0 /\ commits = 0
    /\ work \in Starts
    /\ saved = NoState
    /\ manifestFile = {}
    /\ pc = "idle" /\ local = NoLocal /\ said = "none"
    /\ touched = {} /\ restaged = {} /\ cut = FALSE
    /\ moves = 0 /\ runs = 0

-----------------------------------------------------------------------------
(***************************************************************************)
(* The ends of a step: the command goes on, or it is over.                 *)
(***************************************************************************)
Begin ==
    /\ pc = "idle"
    /\ runs < MaxCommands
    /\ runs' = runs + 1
    /\ touched' = {}

Then(place) == pc' = place /\ said' = "running"
Over(how) == pc' = "idle" /\ said' = how /\ local' = NoLocal
Goes(ok, place) == IF ok THEN Then(place) /\ UNCHANGED local ELSE Over("error")

\* A look that changes nothing but the command's own place.
Looks == UNCHANGED <<repo, saved, manifestFile, ghosts>>

(***************************************************************************)
(* preflight: no state yet, a clean index, and a working tree whose only   *)
(* changes are modified projections and untracked pending handoffs.  The   *)
(* status, HEAD and the events are read one after the other.               *)
(***************************************************************************)
PreflightIndex ==
    /\ Begin
    /\ Goes(saved.phase = "none" /\ Staged = {}, "preflightStatus")
    /\ Looks

Pending(f) == f \in Handoffs /\ work[f] \in Canonical

Ingress(f) == \/ f \in Generated /\ WorkStatus(f) = "M"
              \/ Pending(f) /\ WorkStatus(f) = "?"

PreflightStatus ==
    /\ pc = "preflightStatus"
    /\ IF \A f \in Dirty(WorkStatuses) : Ingress(f)
       THEN /\ Then("preflightHead")
            /\ local' = [local EXCEPT !.status = WorkStatuses]
       ELSE Over("error")
    /\ Looks /\ UNCHANGED <<touched, runs>>

PreflightHead ==
    /\ pc = "preflightHead"
    /\ Then("preflightSave")
    /\ local' = [local EXCEPT !.head = commits]
    /\ Looks /\ UNCHANGED <<touched, runs>>

EventSnapshot == [e \in Events |-> work[e]]

PreflightSave ==
    /\ pc = "preflightSave"
    /\ saved' = [NoState EXCEPT !.phase = "preflight", !.head = local.head,
                                !.status = local.status,
                                !.ingress = Dirty(local.status),
                                !.baseline = EventSnapshot]
    /\ Over("ok")
    /\ UNCHANGED <<repo, manifestFile, ghosts, touched, runs>>

(***************************************************************************)
(* approve: one literal path that is dirty and in scope, or the whole      *)
(* ingress of the preflight.                                               *)
(***************************************************************************)
Open == saved.phase \in {"preflight", "approved", "unstaged"}

\* Mutant: approve takes any dirty event that is canonical.
EventApprovable(f) == f \in Generated \cup Pages \/ (f \in Events /\ work[f] \in Canonical)

Approvable(f) ==
    \/ f \in Generated /\ WorkStatus(f) = "M"
    \/ f \in Pages
    \/ f \in Applies /\ WorkStatus(f) = "?" /\ work[f] \in Canonical

ApproveSaves(paths) ==
    /\ saved' = [saved EXCEPT !.approved = @ \cup paths, !.phase = "approved"]
    /\ Over("ok")

Approve(f) ==
    /\ Begin
    /\ IF Open /\ WorkStatus(f) # Clean /\ Approvable(f)
       THEN ApproveSaves({f})
       ELSE Over("error") /\ UNCHANGED saved
    /\ UNCHANGED <<repo, manifestFile, ghosts>>

ApproveInitial ==
    /\ Begin
    /\ IF Open THEN ApproveSaves(saved.ingress) ELSE Over("error") /\ UNCHANGED saved
    /\ UNCHANGED <<repo, manifestFile, ghosts>>

(***************************************************************************)
(* require_event_baseline: the events of the baseline are all there and    *)
(* unchanged, and a new one is an approved garden apply or a selected      *)
(* pending handoff.                                                        *)
(***************************************************************************)
\* Mutant: the events of the baseline must be there, whatever they hold.
BaselineThere(selected) ==
    /\ \A e \in Events : saved.baseline[e] # Absent => work[e] # Absent
    /\ \A e \in Events : saved.baseline[e] = Absent /\ work[e] # Absent =>
          e \in selected \/ e \in Applies \cap saved.approved
    /\ \A e \in selected : saved.baseline[e] = Absent /\ work[e] # Absent

BaselineHolds(selected) ==
    /\ \A e \in Events : saved.baseline[e] # Absent => work[e] = saved.baseline[e]
    /\ \A e \in Events : saved.baseline[e] = Absent /\ work[e] # Absent =>
          work[e] \in Canonical /\ (e \in selected \/ e \in Applies \cap saved.approved)
    /\ \A e \in selected : saved.baseline[e] = Absent /\ work[e] # Absent

\* adopt-handoffs: HEAD, the index, the events, then the status.
AdoptHead(selected) ==
    /\ Begin
    /\ IF Open /\ commits = saved.head
       THEN /\ Then("adoptIndex")
            /\ local' = [local EXCEPT !.paths = selected]
       ELSE Over("error")
    /\ Looks

AdoptIndex ==
    /\ pc = "adoptIndex"
    /\ Goes(Staged = {}, "adoptEvents")
    /\ Looks /\ UNCHANGED <<touched, runs>>

AdoptEvents ==
    /\ pc = "adoptEvents"
    /\ IF BaselineHolds(local.paths)
       THEN /\ Then("adoptSave")
            /\ local' = [local EXCEPT !.current = EventSnapshot]
       ELSE Over("error")
    /\ Looks /\ UNCHANGED <<touched, runs>>

\* One save extends the baseline, the approvals, the ingress and its status.
Adopted ==
    [saved EXCEPT
        !.baseline = [e \in Events |-> IF e \in local.paths THEN local.current[e] ELSE @[e]],
        !.approved = @ \cup local.paths,
        !.ingress = @ \cup local.paths,
        !.status = [f \in Files |-> IF f \in local.paths THEN "?" ELSE @[f]],
        !.phase = "approved"]

AdoptSave ==
    /\ pc = "adoptSave"
    /\ IF \A e \in local.paths : WorkStatus(e) = "?" /\ work[e] = local.current[e]
       THEN saved' = Adopted /\ Over("ok")
       ELSE Over("error") /\ UNCHANGED saved
    /\ UNCHANGED <<repo, manifestFile, ghosts, touched, runs>>

(***************************************************************************)
(* prepare: HEAD, the events, the index and the status must all pass; then *)
(* the dirty paths are the manifest, and git add stages them.  What is     *)
(* staged must be the manifest, nothing may be left unstaged, and the      *)
(* index records are saved.  A failure after the add takes back what the   *)
(* add staged and says what else remains.                                  *)
(***************************************************************************)
PrepareHead ==
    /\ Begin
    /\ Goes(Open /\ commits = saved.head, "prepareEvents")
    /\ Looks

PrepareEvents ==
    /\ pc = "prepareEvents"
    /\ Goes(BaselineHolds({}), "prepareIndex")
    /\ Looks /\ UNCHANGED <<touched, runs>>

PrepareIndex ==
    /\ pc = "prepareIndex"
    /\ Goes(Staged = {}, "prepareStatus")
    /\ restaged' = IF Staged = {} THEN {} ELSE restaged
    /\ UNCHANGED <<repo, saved, manifestFile, cut, moves, touched, runs>>

\* Mutant: whatever is dirty and in scope is prepared.
UnapprovedPreparable(f) == f \in saved.ingress \/ Approvable(f)

Preparable(f) ==
    /\ f \in saved.approved
    /\ IF f \in saved.ingress THEN WorkStatus(f) = saved.status[f] ELSE Approvable(f)

PrepareStatus ==
    /\ pc = "prepareStatus"
    /\ LET actual == Dirty(WorkStatuses) IN
       IF actual # {} /\ \A f \in actual : Preparable(f)
       THEN /\ Then("prepareAdd")
            /\ local' = [local EXCEPT !.paths = actual]
            /\ manifestFile' = actual
       ELSE Over("error") /\ UNCHANGED manifestFile
    /\ UNCHANGED <<repo, saved, ghosts, touched, runs>>

\* git add --pathspec-from-file: a path that is nowhere fails it as a whole.
PrepareAdd ==
    /\ pc = "prepareAdd"
    /\ IF \E f \in local.paths : work[f] = Absent /\ index[f] = Absent
       THEN Then("cleanup") /\ UNCHANGED index
       ELSE /\ Then("prepareStaged")
            /\ index' = [f \in Files |-> IF f \in local.paths THEN work[f] ELSE index[f]]
    /\ UNCHANGED <<head, commits, work, saved, manifestFile, local, ghosts, touched, runs>>

\* Another git process holds the index: the add fails.
PrepareAddFails ==
    /\ pc = "prepareAdd"
    /\ Then("cleanup")
    /\ Looks /\ UNCHANGED <<local, touched, runs>>

PrepareStaged ==
    /\ pc = "prepareStaged"
    /\ Then(IF Staged = local.paths THEN "prepareRest" ELSE "cleanup")
    /\ local' = [local EXCEPT !.status = StagedStatuses]
    /\ Looks /\ UNCHANGED <<touched, runs>>

PrepareRest ==
    /\ pc = "prepareRest"
    /\ Then(IF Dirty(WorkStatuses) = {} THEN "prepareSave" ELSE "cleanup")
    /\ Looks /\ UNCHANGED <<local, touched, runs>>

\* staged_index_records: an entry for every staged path, none for a deletion.
RecordsFit == \A f \in Dirty(local.status) : local.status[f] = "D" <=> index[f] = Absent

IndexRecords == [f \in Files |-> IF f \in Dirty(local.status) THEN index[f] ELSE Absent]

PrepareSave ==
    /\ pc = "prepareSave"
    /\ IF RecordsFit
       THEN /\ saved' = [saved EXCEPT !.manifest = local.paths, !.records = IndexRecords,
                                      !.phase = "prepared"]
            /\ Over("ok")
       ELSE Then("cleanup") /\ UNCHANGED <<saved, local>>
    /\ UNCHANGED <<repo, manifestFile, ghosts, touched, runs>>

\* Mutant: cleanup spares what prepare added anew.
RestoredTracked(paths) ==
    [f \in Files |-> IF f \in paths /\ head[f] # Absent THEN head[f] ELSE index[f]]

\* cleanup_staged: git restore --staged of those of the paths that are staged.
Restored(paths) == [f \in Files |-> IF f \in paths THEN head[f] ELSE index[f]]

Cleanup ==
    /\ pc = "cleanup"
    /\ Then("remaining")
    /\ index' = Restored(local.paths)
    /\ UNCHANGED <<head, commits, work, saved, manifestFile, local, ghosts, touched, runs>>

CleanupFails ==
    /\ pc = "cleanup"
    /\ Over("error")
    /\ cut' = TRUE
    /\ UNCHANGED <<repo, saved, manifestFile, restaged, moves, touched, runs>>

Remaining ==
    /\ pc = "remaining"
    /\ Over(IF Staged = {} THEN "error" ELSE "left")
    /\ Looks /\ UNCHANGED <<touched, runs>>

(***************************************************************************)
(* verify: in phase prepared, HEAD, the events, the staged paths, their    *)
(* index records, the rest of the working tree and the manifest file, one  *)
(* after the other.                                                        *)
(***************************************************************************)
VerifyHead ==
    /\ Begin
    /\ Goes(saved.phase = "prepared" /\ commits = saved.head, "verifyEvents")
    /\ Looks

VerifyEvents ==
    /\ pc = "verifyEvents"
    /\ Goes(BaselineHolds({}), "verifyStaged")
    /\ Looks /\ UNCHANGED <<touched, runs>>

VerifyStaged ==
    /\ pc = "verifyStaged"
    /\ IF Staged = saved.manifest
       THEN /\ Then("verifyRecords")
            /\ local' = [local EXCEPT !.status = StagedStatuses]
       ELSE Over("error")
    /\ Looks /\ UNCHANGED <<touched, runs>>

VerifyRecords ==
    /\ pc = "verifyRecords"
    /\ Goes(RecordsFit /\ IndexRecords = saved.records, "verifyRest")
    /\ Looks /\ UNCHANGED <<touched, runs>>

VerifyRest ==
    /\ pc = "verifyRest"
    /\ Over(IF Dirty(WorkStatuses) = {} /\ manifestFile = saved.manifest
            THEN "verified" ELSE "error")
    /\ Looks /\ UNCHANGED <<touched, runs>>

(***************************************************************************)
(* unstage: take back the manifest, and say what else remains staged.      *)
(***************************************************************************)
Unstage ==
    /\ Begin
    /\ IF saved.manifest # {}
       THEN /\ Then("unstageRest") /\ UNCHANGED local
            /\ index' = Restored(saved.manifest)
       ELSE Over("error") /\ UNCHANGED index
    /\ UNCHANGED <<head, commits, work, saved, manifestFile, ghosts>>

UnstageRest ==
    /\ pc = "unstageRest"
    /\ IF Staged = {}
       THEN /\ saved' = [saved EXCEPT !.phase = "unstaged"]
            /\ Over("ok")
       ELSE Over("left") /\ UNCHANGED saved
    /\ UNCHANGED <<repo, manifestFile, ghosts, touched, runs>>

-----------------------------------------------------------------------------
\* A command dies, or cannot save: what it did to the index stays.
Kill ==
    /\ pc # "idle"
    /\ Over("killed")
    /\ cut' = (cut \/ pc \in AfterAdd)
    /\ UNCHANGED <<repo, saved, manifestFile, restaged, moves, touched, runs>>

\* The user approves the commit on a verify that passed.
GardenCommit ==
    /\ pc = "idle" /\ said = "verified"
    /\ head' = index /\ commits' = commits + 1
    /\ said' = "committed"
    /\ UNCHANGED <<index, work, saved, manifestFile, pc, local, ghosts, touched, runs>>

Moves(files) ==
    /\ moves < MaxMoves
    /\ moves' = moves + 1
    /\ touched' = touched \cup files
    /\ UNCHANGED <<saved, manifestFile, pc, local, said, cut, runs>>

Writes(files) == Moves(files) /\ UNCHANGED <<head, commits, index, restaged>>

\* A person or a session edits a file that is no event, or damages an event.
Edit(f, content) ==
    /\ work[f] # content
    /\ f \in Events => work[f] # Absent
    /\ work' = [work EXCEPT ![f] = content]
    /\ Writes({f})

\* A handoff is emitted, and the projections follow.
Emit(h, content) ==
    /\ work[h] = Absent
    /\ work' = [f \in Files |-> IF f = h \/ f \in Generated THEN content ELSE work[f]]
    /\ Writes({h} \cup Generated)

\* The batch applies a handoff: a disposition, the page, the projections.
Apply(a, page, content) ==
    /\ work[a] = Absent
    /\ work' = [f \in Files |-> IF f \in {a, page} \/ f \in Generated THEN content ELSE work[f]]
    /\ Writes({a, page} \cup Generated)

Stage(f) ==
    /\ index[f] # work[f]
    /\ index' = [index EXCEPT ![f] = work[f]]
    /\ restaged' = restaged \cup {f}
    /\ Moves({f})
    /\ UNCHANGED <<head, commits, work>>

OthersCommit ==
    /\ Staged # {}
    /\ head' = index /\ commits' = commits + 1
    /\ Moves(Staged)
    /\ UNCHANGED <<index, work, restaged>>

Preflight == PreflightIndex \/ PreflightStatus \/ PreflightHead \/ PreflightSave
Adopt == \/ \E selected \in SUBSET Handoffs \ {{}} : AdoptHead(selected)
         \/ AdoptIndex \/ AdoptEvents \/ AdoptSave
Prepare == \/ PrepareHead \/ PrepareEvents \/ PrepareIndex \/ PrepareStatus
           \/ PrepareAdd \/ PrepareAddFails \/ PrepareStaged \/ PrepareRest \/ PrepareSave
           \/ Cleanup \/ CleanupFails \/ Remaining
Verify == VerifyHead \/ VerifyEvents \/ VerifyStaged \/ VerifyRecords \/ VerifyRest
Batch == \/ Preflight \/ ApproveInitial \/ \E f \in Files : Approve(f)
         \/ Adopt \/ Prepare \/ Verify \/ Unstage \/ UnstageRest
         \/ Kill \/ GardenCommit
Others == \/ \E f \in Files, content \in Held : Edit(f, content)
          \/ \E h \in Handoffs, content \in Contents : Emit(h, content)
          \/ \E a \in Applies, page \in Pages, content \in Contents : Apply(a, page, content)
          \/ \E f \in Files : Stage(f)
          \/ OthersCommit

Next == Batch \/ Others

Spec == Init /\ [][Next]_vars

-----------------------------------------------------------------------------
\* Every approved path is in the batch's scope, and an approved handoff came in
\* by the preflight or by adoption, so that the baseline fixes what it holds.
ApprovedIsScoped ==
    /\ saved.approved \cap Foreign = {}
    /\ saved.approved \cap Handoffs \subseteq saved.ingress

\* A path others did not stage holds in the index what HEAD holds or what prepare
\* recorded; only the manifest's paths are off HEAD, and the manifest file is the
\* manifest.
PreparedIsStaged ==
    saved.phase = "prepared" =>
        /\ manifestFile = saved.manifest
        /\ saved.manifest \subseteq saved.approved
        /\ \A f \in Files \ restaged :
             index[f] \in {head[f]} \cup {saved.records[g] : g \in {f} \cap saved.manifest}

\* What is staged between commands was staged by others or is in the recorded
\* manifest, which unstage takes back, unless a prepare died after its git add.
StagedIsOwned ==
    pc = "idle" /\ ~cut => Staged \subseteq restaged \cup saved.manifest

\* Where nobody else wrote or staged since verify began, what it passed is what
\* was reviewed: exactly the manifest is staged, with the recorded content, which
\* is that of the working tree, and an event holds its baseline or is an approved
\* garden apply.
VerifiedIsReviewed ==
    said = "verified" =>
        \A f \in Files \ touched :
            /\ f \in Staged <=> f \in saved.manifest
            /\ f \in Staged => index[f] = saved.records[f] /\ f \in saved.approved
            /\ work[f] = index[f]
            /\ f \in Events \cap Staged =>
                 index[f] = saved.baseline[f] \/ f \in Applies \cap saved.approved

\* The user's commit changes approved paths only, unless others staged since the
\* verify it was granted on began.
CommitIsApproved ==
    [][said' = "committed" /\ said # "committed" =>
         \A f \in Files \ touched : head'[f] # head[f] =>
             f \in saved.approved /\ head'[f] = saved.records[f]]_vars
=============================================================================
