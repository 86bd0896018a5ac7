------------------------- MODULE NightRunnerProofs -------------------------
(***************************************************************************)
(* Theorems about NightRunner, for any starts, runs and moves: type        *)
(* correctness, what a roll back takes from the branch, the edits that     *)
(* survive a run, the lock it gives back, the report of an abort, what a   *)
(* run commits, and what the morning reminder shows of it.                 *)
(***************************************************************************)
EXTENDS NightRunner, SequenceTheorems, TLAPS

-----------------------------------------------------------------------------
\* What is rendered consists of marks.

LEMMA TextIsMarks ==
  ASSUME NEW words \in SUBSET Words
  PROVE  Text(words) \in SUBSET Mark
BY DEF Text, Mark

LEMMA RenderingsAreMarks ==
  ASSUME NEW t \in Tree
  PROVE  /\ Pending(t) \in SUBSET {"event", "late"}
         /\ PendingText(t) \in SUBSET Mark
         /\ LogText(t) \in SUBSET Mark
         /\ OrientationText(t) \in SUBSET Mark
<1>1. Pending(t) \in SUBSET {"event", "late"}
  BY DEF Pending
<1>2. {"index"} \cup Pending(t) \in SUBSET Words /\ {"orientation"} \cup Pending(t) \in SUBSET Words
  BY <1>1 DEF Words, Files, Events, Projections
<1>3. {"log"} \cup {e \in Events : t[e] # {}} \in SUBSET Words
  BY DEF Words, Files, Events, Projections
<1> QED  BY <1>1, <1>2, <1>3, TextIsMarks DEF PendingText, LogText, OrientationText

LEMMA CommittedIsTree ==
  ASSUME NEW s \in Start
  PROVE  Committed(s) \in Tree /\ Working(s) \in Tree
<1>1. /\ Text({"event"} \cup IF s.mechanical THEN {"state"} ELSE {}) \in SUBSET Mark
      /\ Text({"index"} \cup IF s.event = "committed" THEN {"event"} ELSE {}) \in SUBSET Mark
      /\ Text({"orientation"}) \in SUBSET Mark
      /\ Text({"clean"}) \in SUBSET Mark
      /\ Text({"index", "event"}) \in SUBSET Mark
      /\ Text({"edit"}) \in SUBSET Mark
      /\ Text({"page"}) \in SUBSET Mark /\ Text({"log"}) \in SUBSET Mark
      /\ Text({"other"}) \in SUBSET Mark
  BY TextIsMarks DEF Words, Files, Events, Projections
<1>2. ASSUME NEW f \in Files
      PROVE  Committed(s)[f] \in SUBSET Mark
  BY <1>1, <1>2 DEF Committed, Files, Events, Projections
<1>3. Committed(s) \in Tree
  BY <1>2 DEF Committed, Tree
<1>4. ASSUME NEW f \in Files
      PROVE  Working(s)[f] \in SUBSET Mark
  BY <1>1, <1>2, <1>4 DEF Working, Files, Events, Projections
<1> QED  BY <1>3, <1>4 DEF Working, Tree

LEMMA TouchedIsNight ==
  ASSUME night \in Night, work \in Tree, NEW files \in SUBSET Files
  PROVE  Touched(files) \in Night
BY DEF Touched, Night, Tree

LEMMA OutputFiles ==
  /\ DOMAIN Output = {"log", "orientation", "report1", "report2", "aborted"}
  /\ \A step \in DOMAIN Output : Output[step] \in Files
BY DEF Output, Files, Events, Projections

LEMMA HeadIsTree ==
  ASSUME TypeOK
  PROVE  HeadTree \in Tree
<1>1. Len(head) \in DOMAIN head
  BY DEF TypeOK
<1>2. head[Len(head)] \in Commits
  BY <1>1 DEF TypeOK
<1> QED  BY <1>2 DEF HeadTree, Commits

-----------------------------------------------------------------------------
\* Type correctness.

LEMMA InitTypes ==
  ASSUME Init
  PROVE  TypeOK /\ BranchInv /\ EditsInv
<1>1. PICK s \in Starts : /\ work = Working(s)
                          /\ index = Committed(s)
                          /\ head = <<[tree |-> Committed(s), by |-> "session"]>>
  BY DEF Init
<1>2. work \in Tree /\ index \in Tree /\ head \in Seq(Commits) /\ head # <<>>
  BY <1>1, StartsAssumption, CommittedIsTree DEF Commits
<1>3. night \in Night
  BY DEF Init, Fresh, Night, NoTree, Tree
<1>4. TypeOK
  BY <1>2, <1>3, BoundsAssumption DEF Init, TypeOK
<1>5. BranchInv
  BY DEF Init, BranchInv
<1>6. ASSUME NEW f \in Files, NEW e \in work[f] \cup night.expected[f] \cup night.baseline[f]
      PROVE  e[2] <= moves
  <2>1. night.expected[f] = {} /\ night.baseline[f] = {}
    BY DEF Init, Fresh, NoTree
  <2>2. e \in Working(s)[f]
    BY <1>1, <1>6, <2>1
  <2>3. e[2] = 0
    BY <1>1, <2>2 DEF Working, Committed, Text
  <2> QED  BY <2>3 DEF Init
<1>7. EditsInv
  BY <1>6 DEF Init, EditsInv, EditsKept, Fresh
<1> QED  BY <1>4, <1>5, <1>7

\* The steps that test: they move pc, and stop or go on.
LEMMA TestTypes ==
  ASSUME TypeOK, NEW step, NEW condition, NEW next, Test(step, condition, next),
         step \notin DOMAIN Output
  PROVE  TypeOK'
<1>1. part = "guard"
  BY DEF Test, TypeOK
<1>2. part' = "guard" /\ exit' \in {exit, "aborted"}
  BY <1>1 DEF Test, Stop, Goto
<1> QED  BY <1>2 DEF Test, Quietly, TypeOK, tree, history

\* The steps up to the lock, and of _apply_pending.
LEMMA ApplyTypes ==
  ASSUME TypeOK,
         \/ Begin \/ PreflightStatus \/ PreflightLock \/ CaptureBaseline \/ AcquireLock
         \/ CountBefore \/ ListPending \/ ApplyEvent \/ ApplyManually \/ ApplyReconciled
         \/ TouchApplied \/ NextAfterApply \/ NextAfterReconciled \/ RebuildPending
         \/ TouchRebuilt
  PROVE  TypeOK'
<1>1. pc \notin DOMAIN Output => part = "guard"
  BY DEF TypeOK
<1>2. CASE Begin
  <2>1. Fresh \in Night
    BY DEF Fresh, Night, NoTree, Tree
  <2>2. part = "guard" /\ run' \in 0..MaxRuns
    BY <1>1, <1>2, OutputFiles, BoundsAssumption DEF Begin, TypeOK
  <2> QED  BY <1>2, <2>1, <2>2 DEF Begin, Goto, TypeOK, tree
<1>3. CASE PreflightStatus
  <2>1. night' \in Night
    BY <1>3 DEF PreflightStatus, TypeOK, Night, StatusPaths
  <2>2. part' = "guard" /\ exit' \in {exit, "aborted"}
    BY <1>1, <1>3, OutputFiles DEF PreflightStatus, Stop, Goto
  <2> QED  BY <1>3, <2>1, <2>2 DEF PreflightStatus, TypeOK, tree, history
<1>4. CASE PreflightLock
  BY <1>4, TestTypes, OutputFiles DEF PreflightLock
<1>5. CASE CaptureBaseline
  <2>1. night' \in Night
    BY <1>5 DEF CaptureBaseline, TypeOK, Night, Tree
  <2>2. part' = "guard"
    BY <1>1, <1>5, OutputFiles DEF CaptureBaseline, Goto
  <2> QED  BY <1>5, <2>1, <2>2 DEF CaptureBaseline, TypeOK, tree, history
<1>6. CASE AcquireLock
  <2>1. night' \in Night /\ lock' \in {lock, "night"}
    BY <1>6 DEF AcquireLock, TypeOK, Night
  <2>2. part' = "guard" /\ exit' \in {exit, "aborted"}
    BY <1>1, <1>6, OutputFiles DEF AcquireLock, Stop, Goto
  <2> QED  BY <1>6, <2>1, <2>2 DEF AcquireLock, TypeOK, tree, history
<1>7. CASE CountBefore
  BY <1>7, TestTypes, OutputFiles DEF CountBefore
<1>8. CASE ListPending
  <2>1. Pending(work) \in SUBSET Files
    BY RenderingsAreMarks DEF TypeOK, Files, Events
  <2>2. night' \in Night
    BY <1>8, <2>1 DEF ListPending, TypeOK, Night
  <2>3. part' = "guard" /\ exit' \in {exit, "aborted"}
    BY <1>1, <1>8, OutputFiles DEF ListPending, Stop, Goto
  <2> QED  BY <1>8, <2>2, <2>3 DEF ListPending, TypeOK, tree, history
<1>9. CASE ApplyEvent
  <2>1. Text({"block"}) \in SUBSET Mark /\ Text({"apply"}) \in SUBSET Mark
    BY TextIsMarks DEF Words, Files, Events
  <2>2. [work EXCEPT !["apply"] = Text({"apply"})] \in Tree
    BY <2>1 DEF TypeOK, Tree
  <2>3. work' \in Tree
    BY <1>9, <2>1, <2>2, RenderingsAreMarks DEF ApplyEvent, TypeOK, Tree
  <2>4. part' = "guard"
    BY <1>1, <1>9, OutputFiles DEF ApplyEvent, Goto
  <2> QED  BY <1>9, <2>3, <2>4 DEF ApplyEvent, TypeOK, history
<1>10. CASE ApplyManually
  <2>1. night' \in Night
    BY <1>10 DEF ApplyManually, TypeOK, Night
  <2>2. part' = "guard"
    BY <1>1, <1>10, OutputFiles DEF ApplyManually, Goto
  <2> QED  BY <1>10, <2>1, <2>2 DEF ApplyManually, TypeOK, tree, history
<1>11. CASE ApplyReconciled
  <2>1. part' = "guard"
    BY <1>1, <1>11, OutputFiles DEF ApplyReconciled, Goto
  <2> QED  BY <1>11, <2>1 DEF ApplyReconciled, TypeOK, tree, history
<1>12. CASE TouchApplied
  <2>1. night' \in Night
    BY <1>12, TouchedIsNight DEF TouchApplied, TypeOK, Files, Events, Projections
  <2>2. part' = "guard"
    BY <1>1, <1>12, OutputFiles DEF TouchApplied, Goto
  <2> QED  BY <1>12, <2>1, <2>2 DEF TouchApplied, TypeOK, tree, history
<1>13. CASE NextAfterApply \/ NextAfterReconciled
  <2>1. PICK step \in {"next", "next reconciled"}, next \in {"log", "rebuild"} : NextPending(step, next)
    BY <1>13 DEF NextAfterApply, NextAfterReconciled
  <2>2. night' \in Night
    BY <2>1 DEF NextPending, TypeOK, Night
  <2>3. part' = "guard" /\ exit' \in {exit, "aborted"}
    BY <1>1, <2>1, OutputFiles DEF NextPending, Stop, Goto
  <2> QED  BY <2>1, <2>2, <2>3 DEF NextPending, TypeOK, tree, history
<1>14. CASE RebuildPending
  <2>1. work' \in Tree
    BY <1>14, RenderingsAreMarks DEF RebuildPending, TypeOK, Tree
  <2>2. part' = "guard" /\ exit' \in {exit, "aborted"}
    BY <1>1, <1>14, OutputFiles DEF RebuildPending, Stop, Goto
  <2> QED  BY <1>14, <2>1, <2>2 DEF RebuildPending, TypeOK, history
<1>15. CASE TouchRebuilt
  <2>1. night' \in Night
    BY <1>15, TouchedIsNight DEF TouchRebuilt, TypeOK, Files, Events, Projections
  <2>2. part' = "guard"
    BY <1>1, <1>15, OutputFiles DEF TouchRebuilt, Goto
  <2> QED  BY <1>15, <2>1, <2>2 DEF TouchRebuilt, TypeOK, tree, history
<1> QED  BY <1>2, <1>3, <1>4, <1>5, <1>6, <1>7, <1>8, <1>9, <1>10, <1>11, <1>12, <1>13, <1>14, <1>15

\* The rendered files.
LEMMA OutputTypes ==
  ASSUME TypeOK, GuardOutput \/ WriteOutput \/ TouchOutput
  PROVE  TypeOK'
<1>1. CASE GuardOutput
  <2>1. /\ part' \in {"guard", "write"} /\ (part' = "write" => pc' = pc)
        /\ exit' \in {exit, "aborted", "crashed"}
        /\ cut' \in {cut, cut \cup {run}} /\ UNCHANGED <<guarded, succeeded>>
    BY <1>1 DEF GuardOutput, StopRendering, Stop, Crash, history
  <2> QED  BY <1>1, <2>1 DEF GuardOutput, TypeOK, tree
<1>2. CASE WriteOutput
  <2>1. pc \in DOMAIN Output
    BY <1>2 DEF WriteOutput, TypeOK
  <2>2. Rendered(pc) \in SUBSET Mark
    BY RenderingsAreMarks, BoundsAssumption DEF Rendered, TypeOK, Mark, Words
  <2>3. work' \in Tree
    BY <1>2, <2>1, <2>2 DEF WriteOutput, TypeOK, Tree
  <2> QED  BY <1>2, <2>1, <2>3 DEF WriteOutput, TypeOK, history
<1>3. CASE TouchOutput
  <2>1. pc \in DOMAIN Output
    BY <1>3 DEF TouchOutput, TypeOK
  <2>2. night' \in Night
    BY <1>3, <2>1, OutputFiles, TouchedIsNight DEF TouchOutput, TypeOK
  <2> QED  BY <1>3, <2>2 DEF TouchOutput, TypeOK, tree, history
<1> QED  BY <1>1, <1>2, <1>3

\* Metrics, doctor, lock, _commit with its roll back, and the release.
LEMMA CommitTypes ==
  ASSUME TypeOK, BranchInv,
         \/ CollectMetrics \/ RunDoctor \/ VerifyLock \/ RefuseUnexpected \/ StageOutput
         \/ VerifyStaged \/ ReadHead \/ WriteTree \/ GitCommit \/ ReadCommit \/ VerifyCommitted
         \/ CheckRollback \/ UpdateRef \/ ReadTree \/ VerifyClean \/ ReleaseLock
  PROVE  TypeOK'
<1>1. pc \notin DOMAIN Output => part = "guard"
  BY DEF TypeOK
<1>2. CASE CollectMetrics \/ RunDoctor \/ VerifyLock \/ RefuseUnexpected \/ CheckRollback
  BY <1>2, TestTypes, OutputFiles
  DEF CollectMetrics, RunDoctor, VerifyLock, RefuseUnexpected, CheckRollback
<1>3. CASE StageOutput
  <2>1. night' \in Night /\ index' \in Tree
    BY <1>3 DEF StageOutput, TypeOK, Night, Tree
  <2>2. part' = "guard"
    BY <1>1, <1>3, OutputFiles DEF StageOutput, Goto
  <2> QED  BY <1>3, <2>1, <2>2 DEF StageOutput, TypeOK, history
<1>4. CASE VerifyStaged
  <2>1. night' \in Night
    BY <1>4 DEF VerifyStaged, TypeOK, Night, Diff
  <2>2. part' = "guard" /\ exit' \in {exit, "aborted"}
    BY <1>1, <1>4, OutputFiles DEF VerifyStaged, Stop, Goto
  <2> QED  BY <1>4, <2>1, <2>2 DEF VerifyStaged, TypeOK, tree, history
<1>5. CASE ReadHead \/ WriteTree \/ ReadCommit
  <2>1. Len(head) \in Nat
    BY DEF TypeOK
  <2>2. night' \in Night
    BY <1>5, <2>1 DEF ReadHead, WriteTree, ReadCommit, TypeOK, Night
  <2>3. part' = "guard"
    BY <1>1, <1>5, OutputFiles DEF ReadHead, WriteTree, ReadCommit, Goto
  <2> QED  BY <1>5, <2>2, <2>3 DEF ReadHead, WriteTree, ReadCommit, TypeOK, tree, history
<1>6. CASE GitCommit
  <2>1. head' \in Seq(Commits) /\ head' # <<>>
    <3>1. [tree |-> index, by |-> "night"] \in Commits
      BY DEF Commits, TypeOK
    <3> QED  BY <1>6, <3>1 DEF GitCommit, TypeOK
  <2>2. part' = "guard" /\ exit' \in {exit, "aborted"}
    BY <1>1, <1>6, OutputFiles DEF GitCommit, Stop, Goto
  <2> QED  BY <1>6, <2>1, <2>2 DEF GitCommit, TypeOK, history
<1>7. CASE VerifyCommitted
  <2>1. part' = "guard"
    BY <1>1, <1>7, OutputFiles DEF VerifyCommitted, Goto
  <2> QED  BY <1>7, <2>1 DEF VerifyCommitted, Quietly, TypeOK, tree, history
<1>8. CASE UpdateRef
  <2>1. head' \in Seq(Commits) /\ head' # <<>>
    <3>1. CASE Len(head) = night.commit
      <4>1. night.before \in Nat /\ night.before >= 1 /\ Len(head) = night.before + 1
        BY <1>8, <3>1 DEF UpdateRef, BranchInv, TypeOK, Night
      <4>2. head' = SubSeq(head, 1, night.before)
        BY <1>8, <3>1 DEF UpdateRef
      <4>3. SubSeq(head, 1, night.before) \in Seq(Commits) /\ Len(SubSeq(head, 1, night.before)) = night.before
        BY <4>1, SubSeqProperties DEF TypeOK
      <4> QED  BY <4>1, <4>2, <4>3
    <3>2. CASE Len(head) # night.commit
      BY <1>8, <3>2 DEF UpdateRef, TypeOK
    <3> QED  BY <3>1, <3>2
  <2>2. part' = "guard" /\ exit' \in {exit, "aborted"}
    BY <1>1, <1>8, OutputFiles DEF UpdateRef, Stop, Goto
  <2> QED  BY <1>8, <2>1, <2>2 DEF UpdateRef, TypeOK, history
<1>9. CASE ReadTree
  <2>1. index' \in Tree
    BY <1>9 DEF ReadTree, TypeOK, Night
  <2> QED  BY <1>9, <2>1 DEF ReadTree, Stop, TypeOK, history
<1>10. CASE VerifyClean
  <2>1. night' \in Night
    BY <1>10 DEF VerifyClean, TypeOK, Night
  <2>2. part' = "guard" /\ exit' \in {"ok", "aborted"}
    BY <1>1, <1>10, OutputFiles DEF VerifyClean, Stop, Goto
  <2> QED  BY <1>10, <2>1, <2>2 DEF VerifyClean, TypeOK, tree, history
<1>11. CASE ReleaseLock
  <2>1. night' \in Night
    BY <1>11 DEF ReleaseLock, TypeOK, Night
  <2>2. /\ part' = "guard" /\ lock' \in {lock, "free", "other"}
        /\ succeeded' \in {succeeded, succeeded \cup {run}}
    BY <1>1, <1>11, OutputFiles DEF ReleaseLock, Goto
  <2>3. moves' \in 0..MaxMoves
    BY <1>11, BoundsAssumption DEF ReleaseLock, Move, TypeOK
  <2> QED  BY <1>11, <2>1, <2>2, <2>3 DEF ReleaseLock, TypeOK, tree
<1> QED  BY <1>2, <1>3, <1>4, <1>5, <1>6, <1>7, <1>8, <1>9, <1>10, <1>11

\* The abort report.
LEMMA AbortTypes ==
  ASSUME TypeOK,
         \/ StartAbort \/ PutReportAside \/ RewriteReport \/ TouchReport \/ RestageReport
         \/ VerifyRestaged
  PROVE  TypeOK'
<1>1. pc \notin DOMAIN Output => part = "guard"
  BY DEF TypeOK
<1>2. "report" \in Files
  BY DEF Files
<1>3. CASE StartAbort
  <2>1. part' = "guard"
    BY <1>1, <1>3, OutputFiles DEF StartAbort, Goto
  <2> QED  BY <1>3, <2>1 DEF StartAbort, Quietly, TypeOK, tree, history
<1>4. CASE PutReportAside
  <2>1. work' \in Tree /\ saved' \in SUBSET Mark
    BY <1>2, <1>4 DEF PutReportAside, TypeOK, Tree
  <2>2. part' = "guard"
    BY <1>1, <1>4, OutputFiles DEF PutReportAside, Goto
  <2> QED  BY <1>4, <2>1, <2>2 DEF PutReportAside, TypeOK, history
<1>5. CASE RewriteReport
  <2>1. <<"aborted", run>> \in Mark
    BY BoundsAssumption DEF TypeOK, Mark, Words
  <2>2. work' \in Tree
    BY <1>2, <1>5, <2>1 DEF RewriteReport, TypeOK, Tree
  <2>3. part' = "guard"
    BY <1>1, <1>5, OutputFiles DEF RewriteReport, Goto
  <2> QED  BY <1>5, <2>2, <2>3 DEF RewriteReport, TypeOK, history
<1>6. CASE TouchReport
  <2>1. night' \in Night
    BY <1>2, <1>6, TouchedIsNight DEF TouchReport, TypeOK
  <2>2. part' = "guard"
    BY <1>1, <1>6, OutputFiles DEF TouchReport, Goto
  <2> QED  BY <1>6, <2>1, <2>2 DEF TouchReport, TypeOK, tree, history
<1>7. CASE RestageReport
  <2>1. index' \in Tree
    BY <1>2, <1>7 DEF RestageReport, TypeOK, Tree
  <2>2. part' = "guard"
    BY <1>1, <1>7, OutputFiles DEF RestageReport, Goto
  <2> QED  BY <1>7, <2>1, <2>2 DEF RestageReport, TypeOK, history
<1>8. CASE VerifyRestaged
  <2>1. index' \in Tree
    BY <1>2, <1>8, HeadIsTree DEF VerifyRestaged, UnstageReport, TypeOK, Tree
  <2>2. part' = "guard"
    BY <1>1, <1>8, OutputFiles DEF VerifyRestaged, Goto
  <2> QED  BY <1>8, <2>1, <2>2 DEF VerifyRestaged, TypeOK, history
<1> QED  BY <1>3, <1>4, <1>5, <1>6, <1>7, <1>8

\* What happens to the runner.
LEMMA EnvironmentTypes ==
  ASSUME TypeOK, Environment
  PROVE  TypeOK'
<1>1. pc \notin DOMAIN Output => part = "guard"
  BY DEF TypeOK
<1>2. moves' \in 0..MaxMoves /\ moves' \in Nat
  BY BoundsAssumption DEF Environment, Edit, Stage, Emit, Dispose, SessionCommit, LockTaken,
     StepFails, VerificationFails, ApplyNeedsRepair, AbortFails, RestageFails, Kill, Move, TypeOK
<1>3. /\ Text({"block"}) \in SUBSET Mark /\ Text({"apply"}) \in SUBSET Mark
      /\ Text({"late"}) \in SUBSET Mark
  BY TextIsMarks DEF Words, Files, Events
<1>4. ASSUME NEW f \in Editable, Edit(f)
      PROVE  TypeOK'
  <2>1. <<"edit", moves'>> \in Mark
    BY <1>2 DEF Mark, Words
  <2>2. work' \in Tree /\ guarded' \in SUBSET Mark
    BY <1>4, <2>1 DEF Edit, TypeOK, Tree
  <2> QED  BY <1>2, <1>4, <2>2 DEF Edit, TypeOK
<1>5. ASSUME NEW f \in Editable, Stage(f)
      PROVE  TypeOK'
  <2>1. index' \in Tree
    BY <1>5 DEF Stage, StatusPaths, TypeOK, Tree
  <2> QED  BY <1>2, <1>5, <2>1 DEF Stage, TypeOK, history
<1>6. CASE Emit
  <2>1. [work EXCEPT !["late"] = Text({"late"})] \in Tree
    BY <1>3 DEF TypeOK, Tree
  <2>2. work' \in Tree
    BY <1>6, <2>1, RenderingsAreMarks DEF Emit, Tree
  <2> QED  BY <1>2, <1>6, <2>2 DEF Emit, TypeOK, history
<1>7. ASSUME NEW rebuilds \in BOOLEAN, Dispose(rebuilds)
      PROVE  TypeOK'
  <2> DEFINE applied == [work EXCEPT !["page"] = @ \cup Text({"block"}), !["apply"] = Text({"apply"})]
  <2>1. applied \in Tree
    BY <1>3 DEF TypeOK, Tree
  <2>2. work' \in Tree
    BY <1>7, <2>1, RenderingsAreMarks DEF Dispose, Tree
  <2> QED  BY <1>2, <1>7, <2>2 DEF Dispose, TypeOK, history
<1>8. ASSUME NEW files \in SUBSET Files, SessionCommit(files)
      PROVE  TypeOK'
  <2>1. index' \in Tree
    BY <1>8 DEF SessionCommit, TypeOK, Tree
  <2>2. [tree |-> index', by |-> "session"] \in Commits
    BY <2>1 DEF Commits
  <2>3. head' \in Seq(Commits) /\ head' # <<>>
    BY <1>8, <2>2 DEF SessionCommit, TypeOK
  <2> QED  BY <1>2, <1>8, <2>1, <2>3 DEF SessionCommit, TypeOK, history
<1>9. CASE LockTaken
  BY <1>2, <1>9 DEF LockTaken, TypeOK, tree, history
<1>10. CASE StepFails
  BY <1>2, <1>10 DEF StepFails, Stop, TypeOK, tree, history
<1>11. CASE VerificationFails
  <2>1. part' = "guard"
    BY <1>1, <1>11, OutputFiles DEF VerificationFails, Goto
  <2> QED  BY <1>2, <1>11, <2>1 DEF VerificationFails, TypeOK, tree, history
<1>12. CASE ApplyNeedsRepair
  <2>1. /\ work' = [work EXCEPT !["page"] = @ \cup Text({"block"}), !["apply"] = Text({"apply"})]
        /\ part' = "guard" /\ exit' = "aborted"
    BY <1>12 DEF ApplyNeedsRepair, Stop
  <2>2. work' \in Tree
    BY <1>3, <2>1 DEF TypeOK, Tree
  <2>3. night' = [night EXCEPT
                    !.touched = @ \cup {"page", "apply"},
                    !.expected = [@ EXCEPT !["page"] = work'["page"], !["apply"] = work'["apply"]]]
    BY <1>12 DEF ApplyNeedsRepair
  <2>4. night' \in Night
    BY <2>2, <2>3 DEF TypeOK, Night, Tree, Files, Events
  <2> QED  BY <1>2, <1>12, <2>1, <2>2, <2>4 DEF ApplyNeedsRepair, TypeOK, history
<1>13. CASE AbortFails
  BY <1>2, <1>13 DEF AbortFails, Crash, TypeOK, tree
<1>14. CASE RestageFails
  <2>1. index' \in Tree
    BY <1>14, HeadIsTree DEF RestageFails, UnstageReport, TypeOK, Tree
  <2>2. part' = "guard"
    BY <1>1, <1>14, OutputFiles DEF RestageFails, Goto
  <2> QED  BY <1>2, <1>14, <2>1, <2>2 DEF RestageFails, TypeOK, history
<1>15. CASE Kill
  BY <1>2, <1>15 DEF Kill, TypeOK, tree
<1>16. StatusPaths \in SUBSET Files /\ {"page"} \in SUBSET Files
  BY DEF StatusPaths, Files
<1> QED  BY <1>4, <1>5, <1>6, <1>7, <1>8, <1>9, <1>10, <1>11, <1>12, <1>13, <1>14, <1>15, <1>16 DEF Environment

LEMMA StepTypes ==
  ASSUME TypeOK, BranchInv, [Next]_vars
  PROVE  TypeOK'
<1>1. CASE Runner
  BY <1>1, ApplyTypes, OutputTypes, CommitTypes, AbortTypes DEF Runner
<1>2. CASE Environment
  BY <1>2, EnvironmentTypes
<1>3. CASE UNCHANGED vars
  BY <1>3 DEF vars, TypeOK, tree, history
<1> QED  BY <1>1, <1>2, <1>3 DEF Next, Finished

-----------------------------------------------------------------------------
\* The branch.

\* Every step but a commit and the roll back leaves the branch alone.
LEMMA BranchUntouched ==
  ASSUME [Next]_vars, ~GitCommit, ~UpdateRef, ~(\E files \in SUBSET Files : SessionCommit(files))
  PROVE  head' = head
<1>1. StatusPaths \in SUBSET Files /\ {"page"} \in SUBSET Files /\ {} \in SUBSET Files
  BY DEF StatusPaths, Files
<1>2. CASE Runner
  BY <1>2 DEF Runner, Begin, PreflightStatus, PreflightLock, CaptureBaseline, AcquireLock,
     CountBefore, ListPending, ApplyEvent, ApplyManually, ApplyReconciled, TouchApplied,
     NextAfterApply, NextAfterReconciled, NextPending, RebuildPending, TouchRebuilt,
     GuardOutput, WriteOutput, TouchOutput, CollectMetrics, RunDoctor, VerifyLock,
     RefuseUnexpected, StageOutput, VerifyStaged, ReadHead, WriteTree, ReadCommit,
     VerifyCommitted, CheckRollback, ReadTree, VerifyClean, ReleaseLock, StartAbort,
     PutReportAside, RewriteReport, TouchReport, RestageReport, VerifyRestaged, Test, Quietly,
     tree
<1>3. CASE Environment
  BY <1>1, <1>3 DEF Environment, Edit, Stage, Emit, Dispose, LockTaken, StepFails,
     VerificationFails, ApplyNeedsRepair, AbortFails, RestageFails, Kill, tree
<1>4. CASE UNCHANGED vars
  BY <1>4 DEF vars, tree
<1> QED  BY <1>2, <1>3, <1>4 DEF Next, Finished

\* A commit adds one to the branch.
LEMMA CommitAppends ==
  ASSUME TypeOK, NEW commit, head' = Append(head, commit)
  PROVE  /\ Len(head) \in Nat /\ Len(head) >= 1
         /\ Len(head') = Len(head) + 1
         /\ \A i \in DOMAIN head : i \in DOMAIN head' /\ head'[i] = head[i]
         /\ head'[Len(head')] = commit
BY DEF TypeOK

\* update-ref takes one commit off, the runner's (_rollback_unverified_commit).
LEMMA RollbackTakesOne ==
  ASSUME TypeOK, BranchInv, UpdateRef, head' # head
  PROVE  /\ Len(head) = night.before + 1 /\ night.before \in Nat \ {0}
         /\ head[Len(head)].by = "night"
         /\ head' = SubSeq(head, 1, night.before)
<1>1. night.before \in Nat /\ Len(head) \in Nat
  BY DEF TypeOK, Night
<1>2. head' = SubSeq(head, 1, night.before) /\ Len(head) = night.commit /\ pc = "update"
  BY DEF UpdateRef
<1>3. Len(head) = night.before + 1 /\ night.before >= 1
  BY <1>2 DEF BranchInv
<1>4. PICK i \in night.before + 1 .. Len(head) : head[i].by = "night"
  BY <1>2 DEF BranchInv
<1>5. i = Len(head)
  BY <1>1, <1>3, <1>4
<1> QED  BY <1>1, <1>2, <1>3, <1>4, <1>5

LEMMA TouchGoesOn ==
  ASSUME TypeOK, TouchOutput
  PROVE  pc' \in {"orientation", "metrics", "doctor", "verify", "done"}
<1>1. pc \in DOMAIN Output
  BY DEF TouchOutput, TypeOK
<1> QED  BY <1>1, OutputFiles DEF TouchOutput, After

\* The other steps keep the place and the record of the run, or go elsewhere.
LEMMA OtherSteps ==
  ASSUME TypeOK, [Next]_vars, ~GitCommit, ~UpdateRef, ~(\E files \in SUBSET Files : SessionCommit(files)),
         ~ReadHead, ~WriteTree, ~ReadCommit, ~VerifyCommitted, ~VerificationFails, ~CheckRollback
  PROVE  \/ pc' = pc /\ night' = night
         \/ pc' \notin {"tree", "commit", "parse", "committed", "rollback", "update"}
<1>1. StatusPaths \in SUBSET Files /\ {"page"} \in SUBSET Files /\ {} \in SUBSET Files
  BY DEF StatusPaths, Files
<1>2. CASE \/ Begin \/ PreflightStatus \/ PreflightLock \/ CaptureBaseline \/ AcquireLock
           \/ CountBefore \/ ListPending \/ ApplyEvent \/ ApplyManually \/ ApplyReconciled
           \/ TouchApplied \/ NextAfterApply \/ NextAfterReconciled \/ RebuildPending
           \/ TouchRebuilt
  BY <1>2 DEF Begin, PreflightStatus, PreflightLock, CaptureBaseline, AcquireLock,
     CountBefore, ListPending, ApplyEvent, ApplyManually, ApplyReconciled, TouchApplied,
     NextAfterApply, NextAfterReconciled, NextPending, RebuildPending, TouchRebuilt, Test,
     Goto, Stop
<1>3. CASE GuardOutput \/ WriteOutput
  BY <1>3 DEF GuardOutput, WriteOutput, StopRendering, Crash, Stop
<1>4. CASE TouchOutput
  BY <1>4, TouchGoesOn
<1>5. CASE \/ CollectMetrics \/ RunDoctor \/ VerifyLock \/ RefuseUnexpected \/ StageOutput
           \/ VerifyStaged \/ ReadTree \/ VerifyClean \/ ReleaseLock \/ StartAbort
           \/ PutReportAside \/ RewriteReport \/ TouchReport \/ RestageReport \/ VerifyRestaged
  BY <1>5 DEF CollectMetrics, RunDoctor, VerifyLock, RefuseUnexpected, StageOutput,
     VerifyStaged, ReadTree, VerifyClean, ReleaseLock, StartAbort, PutReportAside,
     RewriteReport, TouchReport, RestageReport, VerifyRestaged, Test, Goto, Stop
<1>6. CASE Environment
  BY <1>1, <1>6 DEF Environment, Edit, Stage, Emit, Dispose, LockTaken, StepFails,
     ApplyNeedsRepair, AbortFails, RestageFails, Kill, Stop, Crash, Goto
<1>7. CASE UNCHANGED vars
  BY <1>7 DEF vars
<1> QED  BY <1>2, <1>3, <1>4, <1>5, <1>6, <1>7 DEF Next, Runner, Finished

LEMMA StepBranch ==
  ASSUME TypeOK, BranchInv, [Next]_vars
  PROVE  BranchInv'
<1> DEFINE Above == night.before >= 1 /\ \E i \in night.before + 1 .. Len(head) : head[i].by = "night"
<1>1. night \in Night /\ night.before \in Nat /\ Len(head) \in Nat /\ Len(head) >= 1
  BY DEF TypeOK, Night
<1>2. CASE GitCommit
  <2>1. CASE pc' = "parse"
    <3>1. pc = "commit" /\ head' = Append(head, [tree |-> index, by |-> "night"]) /\ night' = night
      BY <1>2, <2>1 DEF GitCommit, Stop, Goto
    <3>2. night.before \in 1..Len(head)
      BY <3>1 DEF BranchInv
    <3>3. Len(head') = Len(head) + 1 /\ head'[Len(head')].by = "night"
      BY <3>1, CommitAppends
    <3>4. Len(head') \in night'.before + 1 .. Len(head')
      BY <1>1, <3>1, <3>2, <3>3
    <3> QED  BY <2>1, <3>1, <3>2, <3>3, <3>4 DEF BranchInv
  <2>2. CASE pc' # "parse"
    <3>1. pc' \in {"release", "abort"}
      BY <1>2, <2>2 DEF GitCommit, Stop, Goto
    <3> QED  BY <3>1 DEF BranchInv
  <2> QED  BY <2>1, <2>2
<1>3. CASE UpdateRef
  <2>1. pc' \in {"read-tree", "release", "abort"}
    BY <1>3 DEF UpdateRef, Stop, Goto
  <2> QED  BY <2>1 DEF BranchInv
<1>4. ASSUME NEW files \in SUBSET Files, SessionCommit(files)
      PROVE  BranchInv'
  <2>1. head' = Append(head, [tree |-> index', by |-> "session"]) /\ pc' = pc /\ night' = night
    BY <1>4 DEF SessionCommit
  <2>2. /\ Len(head') = Len(head) + 1
        /\ \A i \in DOMAIN head : head'[i] = head[i]
    BY <2>1, CommitAppends
  <2>3. ASSUME Above
        PROVE  Above'
    <3>1. PICK i \in night.before + 1 .. Len(head) : head[i].by = "night"
      BY <2>3
    <3>2. i \in DOMAIN head
      BY <1>1, <3>1 DEF TypeOK
    <3>3. i \in night'.before + 1 .. Len(head')
      BY <1>1, <2>1, <2>2, <3>1
    <3> QED  BY <2>1, <2>2, <2>3, <3>1, <3>2, <3>3
  <2>4. pc \in {"tree", "commit"} => night'.before \in 1..Len(head')
    BY <1>1, <2>1, <2>2 DEF BranchInv
  <2> QED  BY <2>1, <2>3, <2>4 DEF BranchInv
<1>5. ASSUME ~GitCommit, ~UpdateRef, ~(\E files \in SUBSET Files : SessionCommit(files))
      PROVE  BranchInv'
  <2>1. head' = head
    BY <1>5, BranchUntouched
  <2>2. CASE ReadHead
    BY <1>1, <2>1, <2>2 DEF ReadHead, Goto, BranchInv, Night
  <2>3. CASE WriteTree \/ ReadCommit
    <3>1. night'.before = night.before
      BY <1>1, <2>3 DEF WriteTree, ReadCommit, Night
    <3> QED  BY <2>1, <2>3, <3>1 DEF WriteTree, ReadCommit, Goto, BranchInv
  <2>4. CASE VerifyCommitted \/ VerificationFails
    BY <2>1, <2>4 DEF VerifyCommitted, VerificationFails, Quietly, Goto, BranchInv
  <2>5. CASE CheckRollback
    BY <2>1, <2>5 DEF CheckRollback, Test, Quietly, Goto, Stop, BranchInv
  <2>6. CASE \/ pc' = pc /\ night' = night
             \/ pc' \notin {"tree", "commit", "parse", "committed", "rollback", "update"}
    BY <2>1, <2>6 DEF BranchInv
  <2> QED  BY <1>5, <2>2, <2>3, <2>4, <2>5, <2>6, OtherSteps
<1> QED  BY <1>2, <1>3, <1>4, <1>5

LEMMA TypesAndBranch == Spec => [](TypeOK /\ BranchInv)
<1>1. Init => TypeOK /\ BranchInv
  BY InitTypes
<1>2. TypeOK /\ BranchInv /\ [Next]_vars => (TypeOK /\ BranchInv)'
  BY StepTypes, StepBranch
<1> QED  BY <1>1, <1>2, PTL DEF Spec

\* Type correctness of the night runner.
THEOREM Typing == Spec => []TypeOK
BY TypesAndBranch, PTL

\* Between the reading of HEAD and update-ref the runner's commit is above what
\* HEAD was (_commit, _rollback_unverified_commit).
THEOREM BranchInvariant == Spec => []BranchInv
BY TypesAndBranch, PTL

\* A roll back takes a commit of the runner's (_rollback_unverified_commit):
\* the commits of others stay, whatever happens between the steps.
THEOREM OthersCommits == Spec => OthersCommitsKept
<1> DEFINE Kept == \A i \in DOMAIN head :
                     head[i].by = "session" => i \in DOMAIN head' /\ head'[i] = head[i]
<1>1. ASSUME TypeOK, BranchInv, [Next]_vars
      PROVE  [Kept]_vars
  <2>1. CASE GitCommit /\ head' # head
    <3>1. head' = Append(head, [tree |-> index, by |-> "night"])
      BY <2>1 DEF GitCommit
    <3> QED  BY <1>1, <3>1, CommitAppends
  <2>2. CASE UpdateRef /\ head' # head
    <3>1. /\ Len(head) = night.before + 1 /\ night.before \in Nat \ {0}
          /\ head[Len(head)].by = "night"
          /\ head' = SubSeq(head, 1, night.before)
      BY <1>1, <2>2, RollbackTakesOne
    <3>2. ASSUME NEW i \in DOMAIN head, head[i].by = "session"
          PROVE  i \in DOMAIN head' /\ head'[i] = head[i]
      <4>1. head \in Seq(Commits) /\ i \in 1..night.before
        BY <1>1, <3>1, <3>2 DEF TypeOK
      <4>2. Len(head') = night.before /\ head' \in Seq(Commits) /\ head'[i] = head[1 + i - 1]
        BY <3>1, <4>1, SubSeqProperties
      <4> QED  BY <3>1, <4>1, <4>2
    <3> QED  BY <3>2
  <2>3. ASSUME NEW files \in SUBSET Files, SessionCommit(files)
        PROVE  Kept
    <3>1. head' = Append(head, [tree |-> index', by |-> "session"])
      BY <2>3 DEF SessionCommit
    <3> QED  BY <1>1, <3>1, CommitAppends
  <2>4. CASE head' = head
    BY <2>4
  <2> QED  BY <1>1, <2>1, <2>2, <2>3, <2>4, BranchUntouched
<1> QED  BY <1>1, TypesAndBranch, PTL DEF Spec, OthersCommitsKept

-----------------------------------------------------------------------------
\* The edits of sessions.

\* Nothing of it is an edit.
Plain(marks) == \A e \in marks : e[1] # "edit"

LEMMA RenderingsArePlain ==
  /\ \A words : "edit" \notin words => Plain(Text(words))
  /\ \A t \in Tree : Plain(PendingText(t)) /\ Plain(LogText(t)) /\ Plain(OrientationText(t))
<1>1. \A words : "edit" \notin words => Plain(Text(words))
  BY DEF Plain, Text
<1>2. ASSUME NEW t \in Tree
      PROVE  Plain(PendingText(t)) /\ Plain(LogText(t)) /\ Plain(OrientationText(t))
  <2>1. Pending(t) \in SUBSET {"event", "late"}
    BY RenderingsAreMarks
  <2>2. /\ "edit" \notin {"index"} \cup Pending(t)
        /\ "edit" \notin {"log"} \cup {e \in Events : t[e] # {}}
        /\ "edit" \notin {"orientation"} \cup Pending(t)
    BY <2>1 DEF Events
  <2> QED  BY <1>1, <2>2 DEF PendingText, LogText, OrientationText
<1> QED  BY <1>1, <1>2

\* What a step must leave to keep the edits: it adds no edit to a file, it
\* removes none to keep but to put it aside, and where it goes to a write the file
\* holds none.
LEMMA EditsHold ==
  ASSUME TypeOK, TypeOK', EditsInv,
         guarded' = guarded, saved \subseteq saved', moves' \in {moves, moves + 1},
         night'.expected = night.expected, night'.baseline = night.baseline,
         night'.based = night.based,
         \A f \in Files : \A e \in work'[f] : e \in work[f] \/ e[1] # "edit",
         \A f \in Files : guarded \cap work[f] \subseteq work'[f] \cup saved',
         pc' \notin Aside => pc \notin Aside,
         part' # "guard" => guarded \cap work[Output[pc']] = {},
         pc' \in {"apply", "touch"} => guarded \cap work["page"] = {},
         pc' \in Preflight => pc \in Preflight,
         pc' = "rewrite" => guarded \cap work'["report"] = {}
  PROVE  EditsInv'
<1>1. moves \in Nat /\ moves' \in Nat /\ moves <= moves'
  BY DEF TypeOK
<1>2. \A e \in guarded : e[1] = "edit" /\ e[2] <= moves /\ e[2] \in Nat
  BY DEF TypeOK, EditsInv, Mark
<1>3. ASSUME NEW f \in Files, NEW e \in work'[f] \cup night'.expected[f] \cup night'.baseline[f],
             e[1] = "edit"
      PROVE  e[2] <= moves'
  <2>1. e \in work[f] \cup night.expected[f] \cup night.baseline[f]
    BY <1>3
  <2>2. e[2] <= moves
    BY <1>3, <2>1 DEF EditsInv
  <2>3. e \in Mark
    BY <2>1 DEF TypeOK, Night, Tree
  <2> QED  BY <1>1, <2>2, <2>3 DEF Mark
<1>4. \A f \in Files : guarded \cap work'[f] \subseteq work[f]
  BY <1>2
<1>5. EditsKept'
  <2>1. ASSUME NEW e \in guarded
        PROVE  e \in saved' \/ \E f \in Files : e \in work'[f]
    <3>1. CASE e \in saved
      BY <3>1
    <3>2. ASSUME NEW f \in Files, e \in work[f]
          PROVE  e \in saved' \/ e \in work'[f]
      BY <2>1, <3>2
    <3> QED  BY <2>1, <3>1, <3>2 DEF EditsInv, EditsKept
  <2> QED  BY <2>1 DEF EditsKept
<1>6. part' # "guard" => Output[pc'] \in Files
  BY OutputFiles DEF TypeOK
<1>7. "page" \in Files
  BY DEF Files
<1>8. \A e \in guarded' : e[1] = "edit" /\ e[2] <= moves'
  BY <1>1, <1>2
<1>9. \A f \in Files \ Editable : guarded' \cap work'[f] = {}
  BY <1>4 DEF EditsInv
<1>10. ~night'.based => guarded' = {}
  BY DEF EditsInv
<1>11. pc' \notin Aside => \A f \in Files :
          guarded' \cap (night'.baseline[f] \cup night'.expected[f]) = {}
  BY DEF EditsInv
<1>12. part' # "guard" => guarded' \cap work'[Output[pc']] = {}
  BY <1>4, <1>6
<1>13. pc' \in {"apply", "touch"} => guarded' \cap work'["page"] = {}
  BY <1>4, <1>7
<1> QED  BY <1>3, <1>5, <1>8, <1>9, <1>10, <1>11, <1>12, <1>13 DEF EditsInv

\* A fingerprint is of files without edits to keep, or the last of the run.
LEMMA TouchKeeps ==
  ASSUME TypeOK, TypeOK', EditsInv, NEW files \in SUBSET Files, night' = Touched(files),
         UNCHANGED <<work, saved, guarded, moves>>,
         pc' \notin Aside =>
            pc \notin Aside /\ \A f \in files : guarded \cap work[f] = {},
         part' = "guard", pc' \notin {"apply", "touch", "rewrite"} \cup Preflight
  PROVE  EditsInv'
<1>1. /\ night'.touched = night.touched \cup files
      /\ night'.baseline = night.baseline /\ night'.based = night.based
      /\ \A f \in Files : night'.expected[f] = IF f \in files THEN work[f] ELSE night.expected[f]
  BY DEF Touched, TypeOK, Night
<1>2. \A f \in Files : \A e \in work'[f] \cup night'.expected[f] \cup night'.baseline[f] :
         e[1] = "edit" => e[2] <= moves'
  BY <1>1 DEF EditsInv
<1>3. pc' \notin Aside => \A f \in Files :
         guarded' \cap (night'.baseline[f] \cup night'.expected[f]) = {}
  BY <1>1 DEF EditsInv
<1> QED  BY <1>1, <1>2, <1>3 DEF EditsInv, EditsKept

\* A file that passes its guard holds no edit to keep (_assert_unchanged_before_write).
LEMMA GuardSeesEdits ==
  ASSUME EditsInv, NEW f \in Files, Unchanged(f), pc \notin Aside
  PROVE  guarded \cap work[f] = {}
BY DEF EditsInv, Unchanged

\* The steps that leave the tree alone.
LEMMA TreeStays ==
  ASSUME TypeOK, TypeOK', EditsInv,
         UNCHANGED <<work, guarded, saved>>, moves' \in {moves, moves + 1},
         night'.expected = night.expected, night'.baseline = night.baseline,
         night'.based = night.based,
         \/ UNCHANGED <<pc, part>>
         \/ /\ part' = "guard"
            /\ pc' \notin Aside => pc \notin Aside
            /\ pc' \in Preflight => pc \in Preflight
            /\ pc' \in {"apply", "touch"} => guarded \cap work["page"] = {}
            /\ pc' # "rewrite"
  PROVE  EditsInv'
BY EditsHold DEF EditsInv

\* The steps up to the lock, and of _apply_pending.
LEMMA ApplyEdits ==
  ASSUME TypeOK, TypeOK', EditsInv,
         \/ Begin \/ PreflightStatus \/ PreflightLock \/ CaptureBaseline \/ AcquireLock
         \/ CountBefore \/ ListPending \/ ApplyEvent \/ ApplyManually \/ ApplyReconciled
         \/ TouchApplied \/ NextAfterApply \/ NextAfterReconciled \/ RebuildPending
         \/ TouchRebuilt
  PROVE  EditsInv'
<1>1. part = "guard" \/ pc \in {"log", "orientation", "report1", "report2", "aborted"}
  BY OutputFiles DEF TypeOK
<1>2. CASE Begin
  <2>1. night'.expected = NoTree /\ night'.baseline = NoTree /\ ~night'.based
    BY <1>2 DEF Begin, Fresh
  <2>2. guarded' = {} /\ pc' = "status" /\ part' = "guard" /\ UNCHANGED <<work, moves>>
    BY <1>1, <1>2 DEF Begin, Goto, tree
  <2> QED  BY <2>1, <2>2 DEF EditsInv, EditsKept, NoTree, Preflight
<1>3. CASE CaptureBaseline
  <2>1. guarded' = {} /\ pc' = "acquire" /\ part' = "guard" /\ UNCHANGED <<work, moves>>
    BY <1>1, <1>3 DEF CaptureBaseline, Goto, tree, history, EditsInv, Preflight
  <2>2. /\ night'.based /\ night'.expected = night.expected
        /\ \A f \in Files : night'.baseline[f] \subseteq work[f]
    BY <1>3 DEF CaptureBaseline, TypeOK, Night
  <2> QED  BY <2>1, <2>2 DEF EditsInv, EditsKept, Preflight
<1>4. CASE PreflightStatus \/ PreflightLock \/ AcquireLock \/ CountBefore
  <2>1. /\ UNCHANGED <<work, guarded, saved, moves>> /\ part' = "guard"
        /\ pc \in {"status", "check", "acquire", "count"}
        /\ \/ pc' \in {"release", "abort", "list", "count"}
           \/ pc' \in {"check", "baseline"} /\ pc \in Preflight
    BY <1>1, <1>4 DEF PreflightStatus, PreflightLock, AcquireLock, CountBefore, Test, Goto, Stop,
       Quietly, tree, history, Preflight
  <2>2. /\ night'.expected = night.expected /\ night'.baseline = night.baseline
        /\ night'.based = night.based
    BY <1>4 DEF PreflightStatus, PreflightLock, AcquireLock, CountBefore, Test, Quietly, TypeOK, Night
  <2> QED  BY <2>1, <2>2, TreeStays DEF Aside, Preflight
<1>5. CASE ListPending
  <2>1. /\ UNCHANGED <<work, guarded, saved, moves>> /\ part' = "guard" /\ pc = "list"
        /\ \/ pc' \in {"release", "abort", "next"}
           \/ pc' = "apply" /\ Unchanged("page")
    BY <1>1, <1>5 DEF ListPending, Goto, Stop, tree, history
  <2>2. /\ night'.expected = night.expected /\ night'.baseline = night.baseline
        /\ night'.based = night.based
    BY <1>5 DEF ListPending, TypeOK, Night
  <2>3. pc' = "apply" => guarded \cap work["page"] = {}
    BY <2>1, GuardSeesEdits DEF Aside, Files
  <2> QED  BY <2>1, <2>2, <2>3, TreeStays DEF Aside, Preflight
<1>6. CASE ApplyManually \/ ApplyReconciled \/ NextAfterApply \/ NextAfterReconciled
  <2>1. /\ UNCHANGED <<work, guarded, saved, moves>> /\ part' = "guard"
        /\ pc \in {"apply", "next", "next reconciled"}
        /\ pc' \in {"next", "next reconciled", "log", "rebuild", "release", "abort"}
    BY <1>1, <1>6 DEF ApplyManually, ApplyReconciled, NextAfterApply, NextAfterReconciled,
       NextPending, Goto, Stop, tree, history
  <2>2. /\ night'.expected = night.expected /\ night'.baseline = night.baseline
        /\ night'.based = night.based
    BY <1>6 DEF ApplyManually, ApplyReconciled, NextAfterApply, NextAfterReconciled,
       NextPending, TypeOK, Night
  <2> QED  BY <2>1, <2>2, TreeStays DEF Aside, Preflight
<1>7. CASE TouchApplied \/ TouchRebuilt
  <2>1. PICK files \in {{"page", "apply", "event", "pending"}, {"pending"}} :
           night' = Touched(files) /\ ("page" \in files => pc = "touch")
    BY <1>7 DEF TouchApplied, TouchRebuilt
  <2>2. /\ UNCHANGED <<work, guarded, saved, moves>> /\ part' = "guard"
        /\ pc \in {"touch", "rebuilt"} /\ pc' \in {"next", "log"}
    BY <1>1, <1>7 DEF TouchApplied, TouchRebuilt, Goto, tree, history
  <2>3. files \in SUBSET Files
    BY <2>1 DEF Files, Events, Projections
  <2>4. ASSUME NEW f \in files
        PROVE  guarded \cap work[f] = {}
    <3>1. CASE f = "page"
      BY <2>1, <2>4, <3>1 DEF EditsInv
    <3>2. CASE f # "page"
      BY <2>1, <2>3, <2>4, <3>2 DEF EditsInv, Editable
    <3> QED  BY <3>1, <3>2
  <2> QED  BY <2>1, <2>2, <2>3, <2>4, TouchKeeps DEF Aside, Preflight
<1>8. CASE ApplyEvent
  <2>1. /\ pc = "apply" /\ pc' = "touch" /\ part' = "guard"
        /\ UNCHANGED <<night, moves, saved, guarded>>
        /\ work' = [work EXCEPT !["page"] = @ \cup Text({"block"}), !["apply"] = Text({"apply"}),
                      !["pending"] = PendingText([work EXCEPT !["apply"] = Text({"apply"})])]
    BY <1>1, <1>8 DEF ApplyEvent, Goto, history
  <2>2. [work EXCEPT !["apply"] = Text({"apply"})] \in Tree
    BY TextIsMarks DEF TypeOK, Tree, Words, Files, Events
  <2>3. Plain(Text({"block"})) /\ Plain(Text({"apply"}))
    BY RenderingsArePlain
  <2>4. \A f \in Files : \A e \in work'[f] : e \in work[f] \/ e[1] # "edit"
    BY <2>1, <2>2, <2>3, RenderingsArePlain DEF TypeOK, Tree, Plain
  <2>5. \A f \in Files : guarded \cap work[f] \subseteq work'[f]
    BY <2>1 DEF TypeOK, Tree, EditsInv, Editable, Files, Events, Projections
  <2>6. guarded \cap work["page"] = {}
    BY <2>1 DEF EditsInv
  <2> QED  BY <2>1, <2>4, <2>5, <2>6, EditsHold DEF Aside, Preflight
<1>9. CASE RebuildPending
  <2>1. /\ pc = "rebuild" /\ pc' \in {"rebuilt", "release", "abort"} /\ part' = "guard"
        /\ UNCHANGED <<night, moves, saved, guarded>>
        /\ work' \in {work, [work EXCEPT !["pending"] = PendingText(work)]}
    BY <1>1, <1>9 DEF RebuildPending, Goto, Stop, history
  <2>2. \A f \in Files : \A e \in work'[f] : e \in work[f] \/ e[1] # "edit"
    BY <2>1, RenderingsArePlain DEF TypeOK, Tree, Plain
  <2>3. \A f \in Files : guarded \cap work[f] \subseteq work'[f]
    BY <2>1 DEF TypeOK, Tree, EditsInv, Editable
  <2> QED  BY <2>1, <2>2, <2>3, EditsHold DEF Aside, Preflight
<1> QED  BY <1>2, <1>3, <1>4, <1>5, <1>6, <1>7, <1>8, <1>9

\* The rendered files.
LEMMA OutputEdits ==
  ASSUME TypeOK, TypeOK', EditsInv, GuardOutput \/ WriteOutput \/ TouchOutput
  PROVE  EditsInv'
<1>1. /\ pc \in {"log", "orientation", "report1", "report2", "aborted"}
      /\ pc \in DOMAIN Output /\ Output[pc] \in Files
      /\ pc \notin Aside \cup Preflight \cup {"apply", "touch", "rewrite"}
  BY OutputFiles DEF GuardOutput, WriteOutput, TouchOutput, TypeOK, Aside, Preflight
<1>2. CASE GuardOutput
  <2>1. UNCHANGED <<work, night, guarded, saved, moves>>
    BY <1>2 DEF GuardOutput, StopRendering, Stop, Crash, tree, history
  <2>2. CASE Unchanged(Output[pc])
    <3>1. part' = "write" /\ pc' = pc
      BY <1>2, <2>2 DEF GuardOutput
    <3>2. guarded \cap work[Output[pc]] = {}
      BY <1>1, <2>2, GuardSeesEdits
    <3> QED  BY <1>1, <2>1, <3>1, <3>2, EditsHold
  <2>3. CASE ~Unchanged(Output[pc])
    <3>1. part' = "guard" /\ pc' \in {"done", "release", "abort"}
      BY <1>2, <2>3 DEF GuardOutput, StopRendering, Stop, Crash
    <3> QED  BY <1>1, <2>1, <3>1, TreeStays DEF Aside, Preflight
  <2> QED  BY <2>2, <2>3
<1>3. CASE WriteOutput
  <2>1. /\ UNCHANGED <<pc, night, guarded, saved, moves>>
        /\ work' = [work EXCEPT ![Output[pc]] = Rendered(pc)]
        /\ guarded \cap work[Output[pc]] = {}
    BY <1>3 DEF WriteOutput, history, EditsInv
  <2>2. Plain(Rendered(pc))
    BY RenderingsArePlain DEF Rendered, Plain, TypeOK
  <2>3. \A f \in Files : \A e \in work'[f] : e \in work[f] \/ e[1] # "edit"
    BY <2>1, <2>2 DEF TypeOK, Tree, Plain
  <2>4. \A f \in Files : guarded \cap work[f] \subseteq work'[f]
    BY <2>1 DEF TypeOK, Tree
  <2> QED  BY <1>1, <2>1, <2>3, <2>4, EditsHold
<1>4. CASE TouchOutput
  <2>1. /\ night' = Touched({Output[pc]}) /\ part' = "guard"
        /\ UNCHANGED <<work, guarded, saved, moves>>
        /\ guarded \cap work[Output[pc]] = {}
    BY <1>4 DEF TouchOutput, tree, history, EditsInv
  <2> QED  BY <1>1, <1>4, <2>1, TouchGoesOn, TouchKeeps DEF Preflight
<1> QED  BY <1>2, <1>3, <1>4

\* Metrics, doctor, lock, _commit with its roll back, and the release.
LEMMA CommitEdits ==
  ASSUME TypeOK, TypeOK', EditsInv,
         \/ CollectMetrics \/ RunDoctor \/ VerifyLock \/ RefuseUnexpected \/ StageOutput
         \/ VerifyStaged \/ ReadHead \/ WriteTree \/ GitCommit \/ ReadCommit \/ VerifyCommitted
         \/ CheckRollback \/ UpdateRef \/ ReadTree \/ VerifyClean \/ ReleaseLock
  PROVE  EditsInv'
<1>1. part = "guard" \/ pc \in {"log", "orientation", "report1", "report2", "aborted"}
  BY OutputFiles DEF TypeOK
<1>2. /\ UNCHANGED <<work, guarded, saved>> /\ moves' \in {moves, moves + 1}
      /\ night'.expected = night.expected /\ night'.baseline = night.baseline
      /\ night'.based = night.based
  BY DEF Move, CollectMetrics, RunDoctor, VerifyLock, RefuseUnexpected, StageOutput, VerifyStaged,
     ReadHead, WriteTree, GitCommit, ReadCommit, VerifyCommitted, CheckRollback, UpdateRef,
     ReadTree, VerifyClean, ReleaseLock, Test, Quietly, tree, history, TypeOK, Night
<1>3. /\ part' = "guard" /\ pc \notin Aside
      /\ pc' \notin Preflight \cup {"apply", "touch", "rewrite"}
  BY <1>1 DEF CollectMetrics, RunDoctor, VerifyLock, RefuseUnexpected, StageOutput, VerifyStaged,
     ReadHead, WriteTree, GitCommit, ReadCommit, VerifyCommitted, CheckRollback, UpdateRef,
     ReadTree, VerifyClean, ReleaseLock, Test, Goto, Stop, Aside, Preflight
<1> QED  BY <1>2, <1>3, TreeStays

\* The abort report: what it replaces is the runner's own, or put aside.
LEMMA AbortEdits ==
  ASSUME TypeOK, TypeOK', EditsInv,
         \/ StartAbort \/ PutReportAside \/ RewriteReport \/ TouchReport \/ RestageReport
         \/ VerifyRestaged
  PROVE  EditsInv'
<1>1. part = "guard" \/ pc \in {"log", "orientation", "report1", "report2", "aborted"}
  BY OutputFiles DEF TypeOK
<1>2. "report" \in Files
  BY DEF Files
<1>3. CASE StartAbort \/ RestageReport \/ VerifyRestaged
  <2>1. /\ UNCHANGED <<work, night, guarded, saved, moves>> /\ part' = "guard"
        /\ pc' \in {"conflict", "aborted", "restaged", "done"}
        /\ pc' \in {"conflict", "aborted"} => pc = "abort"
    BY <1>1, <1>3 DEF StartAbort, RestageReport, VerifyRestaged, Quietly, Goto, tree, history
  <2> QED  BY <2>1, TreeStays DEF Aside, Preflight
<1>4. CASE PutReportAside
  <2>1. /\ UNCHANGED <<night, guarded, moves>> /\ part' = "guard"
        /\ pc = "conflict" /\ pc' = "rewrite"
        /\ work' = [work EXCEPT !["report"] = {}]
        /\ saved' = saved \cup IF work["report"] = night.expected["report"] THEN {} ELSE work["report"]
    BY <1>1, <1>4 DEF PutReportAside, Goto, history
  <2>2. guarded \cap night.expected["report"] = {}
    BY <1>2, <2>1 DEF EditsInv, Aside
  <2>3. work'["report"] = {} /\ \A f \in Files \ {"report"} : work'[f] = work[f]
    BY <1>2, <2>1 DEF TypeOK, Tree
  <2>4. \A f \in Files : guarded \cap work[f] \subseteq work'[f] \cup saved'
    BY <2>1, <2>2, <2>3
  <2> QED  BY <2>1, <2>3, <2>4, EditsHold DEF Aside, Preflight
<1>5. CASE RewriteReport
  <2>1. /\ UNCHANGED <<night, guarded, moves, saved>> /\ part' = "guard"
        /\ pc' = "retouch" /\ guarded \cap work["report"] = {}
        /\ work' = [work EXCEPT !["report"] = {<<"aborted", run>>}]
    BY <1>1, <1>5 DEF RewriteReport, Goto, history, EditsInv
  <2>2. \A f \in Files : \A e \in work'[f] : e \in work[f] \/ e[1] # "edit"
    BY <2>1 DEF TypeOK, Tree
  <2>3. \A f \in Files : guarded \cap work[f] \subseteq work'[f]
    BY <2>1 DEF TypeOK, Tree
  <2> QED  BY <2>1, <2>2, <2>3, EditsHold DEF Aside, Preflight
<1>6. CASE TouchReport
  <2>1. /\ UNCHANGED <<work, guarded, moves, saved>> /\ part' = "guard"
        /\ pc' = "restage" /\ night' = Touched({"report"})
    BY <1>1, <1>6 DEF TouchReport, Goto, tree, history
  <2> QED  BY <1>2, <2>1, TouchKeeps DEF Aside, Preflight
<1> QED  BY <1>3, <1>4, <1>5, <1>6

\* An edit during the run, of a file the runner is about to write or not.
LEMMA EditEdits ==
  ASSUME TypeOK, TypeOK', EditsInv, NEW f \in Editable, Edit(f)
  PROVE  EditsInv'
<1> DEFINE mark == <<"edit", moves'>>
<1>1. /\ moves \in Nat /\ moves' = moves + 1 /\ f \in Files
      /\ UNCHANGED <<night, pc, part, saved>>
      /\ work' = [work EXCEPT ![f] = @ \cup {mark}]
  BY DEF Edit, Move, TypeOK, Editable, Files
<1>2. /\ work'[f] = work[f] \cup {mark}
      /\ \A g \in Files \ {f} : work'[g] = work[g]
  BY <1>1 DEF TypeOK, Tree
<1>3. /\ guarded' \in {guarded, guarded \cup {mark}}
      /\ guarded' # guarded => night.based /\ f \notin Window
  BY DEF Edit
<1>4. \A g \in Files : mark \notin work[g] \cup night.expected[g] \cup night.baseline[g]
  <2>1. ~(mark[2] <= moves)
    BY <1>1
  <2> QED  BY <2>1 DEF EditsInv
<1>5. \A e \in guarded' : e[1] = "edit" /\ e[2] <= moves'
  <2>1. \A e \in guarded : e[2] \in Nat /\ e[1] = "edit" /\ e[2] <= moves
    BY DEF TypeOK, Mark, EditsInv
  <2> QED  BY <1>1, <1>3, <2>1
<1>6. ASSUME NEW g \in Files,
             NEW e \in work'[g] \cup night'.expected[g] \cup night'.baseline[g], e[1] = "edit"
      PROVE  e[2] <= moves'
  <2>1. CASE e = mark
    BY <1>1, <2>1
  <2>2. CASE e # mark
    <3>1. e \in work[g] \cup night.expected[g] \cup night.baseline[g]
      BY <1>1, <1>2, <1>6, <2>2
    <3>2. e[2] <= moves /\ e[2] \in Nat
      BY <1>6, <3>1 DEF EditsInv, TypeOK, Night, Tree, Mark
    <3> QED  BY <1>1, <3>2
  <2> QED  BY <2>1, <2>2
<1>7. EditsKept'
  <2>1. \A g \in Files : work[g] \subseteq work'[g]
    BY <1>2
  <2> QED  BY <1>1, <1>2, <1>3, <2>1 DEF EditsInv, EditsKept
<1>8. \A g \in Files \ Editable : guarded' \cap work'[g] = {}
  BY <1>2, <1>3, <1>4 DEF EditsInv
<1>9. (~night'.based => guarded' = {}) /\ (pc' \in Preflight => ~night'.based)
  BY <1>1, <1>3 DEF EditsInv
<1>10. pc' \notin Aside => \A g \in Files :
          guarded' \cap (night'.baseline[g] \cup night'.expected[g]) = {}
  BY <1>1, <1>3, <1>4 DEF EditsInv
<1>11. ASSUME NEW g \in Files, guarded \cap work[g] = {}, g \in Window
       PROVE  guarded' \cap work'[g] = {}
  <2>1. CASE guarded' = guarded
    <3>1. mark \notin guarded
      <4>1. \A e \in guarded : e[2] <= moves
        BY DEF EditsInv
      <4> QED  BY <1>1, <4>1
    <3> QED  BY <1>2, <1>11, <2>1, <3>1
  <2>2. CASE guarded' # guarded
    BY <1>2, <1>3, <1>4, <1>11, <2>2
  <2> QED  BY <2>1, <2>2
<1>12. part' # "guard" => guarded' \cap work'[Output[pc']] = {}
  <2>1. part # "guard" => /\ Output[pc] \in Files /\ guarded \cap work[Output[pc]] = {}
                         /\ Output[pc] \in Window
    BY OutputFiles DEF TypeOK, EditsInv, Window
  <2> QED  BY <1>1, <1>11, <2>1
<1>13. pc' \in {"apply", "touch"} => guarded' \cap work'["page"] = {}
  <2>1. pc \in {"apply", "touch"} => /\ guarded \cap work["page"] = {} /\ "page" \in Window
    BY OutputFiles DEF TypeOK, EditsInv, Window
  <2> QED  BY <1>1, <1>11, <2>1 DEF Files
<1>14. pc' = "rewrite" => guarded' \cap work'["report"] = {}
  <2>1. pc = "rewrite" => /\ guarded \cap work["report"] = {} /\ "report" \in Window
    BY OutputFiles DEF TypeOK, EditsInv, Window
  <2> QED  BY <1>1, <1>11, <2>1 DEF Files
<1> QED  BY <1>5, <1>6, <1>7, <1>8, <1>9, <1>10, <1>12, <1>13, <1>14 DEF EditsInv

\* What else happens to the runner.
LEMMA EnvironmentEdits ==
  ASSUME TypeOK, TypeOK', EditsInv, Environment
  PROVE  EditsInv'
<1>1. part = "guard" \/ pc \in {"log", "orientation", "report1", "report2", "aborted"}
  BY OutputFiles DEF TypeOK
<1>2. moves' \in {moves, moves + 1} /\ UNCHANGED saved
  BY DEF Environment, Edit, Stage, Emit, Dispose, SessionCommit, LockTaken, StepFails,
     VerificationFails, ApplyNeedsRepair, AbortFails, RestageFails, Kill, Move
<1>3. Plain(Text({"block"})) /\ Plain(Text({"apply"})) /\ Plain(Text({"late"}))
  BY RenderingsArePlain
<1>4. ASSUME NEW f \in Editable, Edit(f)
      PROVE  EditsInv'
  BY <1>4, EditEdits
<1>5. CASE \/ \E f \in Editable : Stage(f)
           \/ \E files \in {{}, {"page"}, StatusPaths} : SessionCommit(files)
           \/ LockTaken
  <2>1. UNCHANGED <<work, night, pc, part, guarded>>
    BY <1>5 DEF Stage, SessionCommit, LockTaken, tree, history
  <2> QED  BY <1>2, <2>1, TreeStays
<1>6. CASE StepFails \/ VerificationFails \/ AbortFails \/ RestageFails \/ Kill
  <2>1. UNCHANGED <<work, night, guarded>>
    BY <1>6 DEF StepFails, VerificationFails, AbortFails, RestageFails, Kill, tree, history
  <2>2. /\ part' = "guard" /\ pc' \in {"release", "abort", "rollback", "done"}
        /\ pc' # "done" => pc \notin Aside
    BY <1>1, <1>6 DEF StepFails, VerificationFails, AbortFails, RestageFails, Kill, Running, Stop,
       Crash, Goto, Aside
  <2> QED  BY <1>2, <2>1, <2>2, TreeStays DEF Aside, Preflight
<1>7. CASE Emit
  <2> DEFINE emitted == [work EXCEPT !["late"] = Text({"late"})]
  <2>1. /\ UNCHANGED <<night, pc, part, guarded>>
        /\ work' = [emitted EXCEPT !["pending"] = PendingText(emitted)]
    BY <1>7 DEF Emit, history
  <2>2. emitted \in Tree
    BY TextIsMarks DEF TypeOK, Tree, Words, Files, Events
  <2>3. \A f \in Files : \A e \in work'[f] : e \in work[f] \/ e[1] # "edit"
    BY <1>3, <2>1, <2>2, RenderingsArePlain DEF TypeOK, Tree, Plain
  <2>4. \A f \in Files : guarded \cap work[f] \subseteq work'[f]
    BY <2>1 DEF TypeOK, Tree, EditsInv, Editable
  <2>5. work'["report"] = work["report"]
    BY <2>1 DEF TypeOK, Tree, Files
  <2> HIDE DEF emitted
  <2> QED  BY <1>2, <2>1, <2>3, <2>4, <2>5, EditsHold DEF EditsInv
<1>8. ASSUME NEW rebuilds \in BOOLEAN, Dispose(rebuilds)
      PROVE  EditsInv'
  <2> DEFINE applied == [work EXCEPT !["page"] = @ \cup Text({"block"}), !["apply"] = Text({"apply"})]
  <2>1. /\ UNCHANGED <<night, pc, part, guarded>>
        /\ work' \in {[applied EXCEPT !["pending"] = PendingText(applied)], applied}
    BY <1>8 DEF Dispose, history, TypeOK, Tree
  <2>2. applied \in Tree
    BY TextIsMarks DEF TypeOK, Tree, Words, Files, Events
  <2>3. \A f \in Files : \A e \in work'[f] : e \in work[f] \/ e[1] # "edit"
    <3>1. \A f \in Files : \A e \in applied[f] : e \in work[f] \/ e[1] # "edit"
      BY <1>3 DEF TypeOK, Tree, Plain
    <3>2. \A f \in Files : work'[f] \in {applied[f], PendingText(applied)}
      BY <2>1, <2>2 DEF Tree
    <3>3. Plain(PendingText(applied))
      BY <2>2, RenderingsArePlain
    <3> QED  BY <3>1, <3>2, <3>3 DEF Plain
  <2>4. \A f \in Files : guarded \cap work[f] \subseteq work'[f]
    BY <2>1 DEF TypeOK, Tree, EditsInv, Editable
  <2>5. work'["report"] = work["report"]
    BY <2>1 DEF TypeOK, Tree, Files
  <2> HIDE DEF applied
  <2> QED  BY <1>2, <2>1, <2>3, <2>4, <2>5, EditsHold DEF EditsInv
<1>9. CASE ApplyNeedsRepair
  <2>1. /\ pc = "apply" /\ pc' \in {"release", "abort"} /\ part' = "guard" /\ UNCHANGED guarded
        /\ work' = [work EXCEPT !["page"] = @ \cup Text({"block"}), !["apply"] = Text({"apply"})]
    BY <1>9 DEF ApplyNeedsRepair, Stop, history
  <2>2. /\ work'["page"] = work["page"] \cup Text({"block"}) /\ work'["apply"] = Text({"apply"})
        /\ \A f \in Files \ {"page", "apply"} : work'[f] = work[f]
    BY <2>1 DEF TypeOK, Tree, Files, Events
  <2>3. /\ night'.baseline = night.baseline /\ night'.based = night.based
        /\ \A f \in Files :
              night'.expected[f] = IF f \in {"page", "apply"} THEN work'[f] ELSE night.expected[f]
    BY <1>9, <2>1 DEF ApplyNeedsRepair, TypeOK, Night, Tree
  <2>4. \A f \in Files : \A e \in work'[f] : e \in work[f] \/ e[1] # "edit"
    BY <1>3, <2>2 DEF Plain
  <2>5. \A f \in {"page", "apply"} : guarded \cap work'[f] = {}
    <3>1. \A e \in guarded : e[1] = "edit"
      BY DEF EditsInv
    <3>2. guarded \cap work["page"] = {}
      BY <2>1 DEF EditsInv
    <3> QED  BY <1>3, <2>2, <3>1, <3>2 DEF Plain
  <2>6. \A f \in Files : guarded \cap work[f] \subseteq work'[f]
    BY <2>2 DEF EditsInv, Editable, Files, Events
  <2>7. ASSUME NEW f \in Files,
               NEW e \in work'[f] \cup night'.expected[f] \cup night'.baseline[f], e[1] = "edit"
        PROVE  e[2] <= moves'
    <3>1. e \in work[f] \cup night.expected[f] \cup night.baseline[f]
      BY <2>3, <2>4, <2>7
    <3>2. e[2] <= moves /\ e[2] \in Nat
      BY <2>7, <3>1 DEF EditsInv, TypeOK, Night, Tree, Mark
    <3> QED  BY <1>2, <3>2 DEF TypeOK
  <2>8. \A e \in guarded' : e[1] = "edit" /\ e[2] <= moves'
    <3>1. \A e \in guarded : e[2] \in Nat /\ e[1] = "edit" /\ e[2] <= moves
      BY DEF TypeOK, Mark, EditsInv
    <3> QED  BY <1>2, <2>1, <3>1 DEF TypeOK
  <2>9. EditsKept'
    BY <1>2, <2>1, <2>6 DEF EditsInv, EditsKept
  <2>10. \A f \in Files \ Editable : guarded' \cap work'[f] = {}
    BY <2>1, <2>2, <2>5 DEF EditsInv
  <2>11. \A f \in Files : guarded' \cap (night'.baseline[f] \cup night'.expected[f]) = {}
    BY <2>1, <2>3, <2>5 DEF EditsInv, Aside
  <2>12. (~night'.based => guarded' = {})
    BY <2>1, <2>3 DEF EditsInv
  <2> QED  BY <2>1, <2>7, <2>8, <2>9, <2>10, <2>11, <2>12 DEF EditsInv, Preflight
<1> QED  BY <1>4, <1>5, <1>6, <1>7, <1>8, <1>9 DEF Environment

LEMMA StepEdits ==
  ASSUME TypeOK, TypeOK', EditsInv, [Next]_vars
  PROVE  EditsInv'
<1>1. CASE Runner
  BY <1>1, ApplyEdits, OutputEdits, CommitEdits, AbortEdits DEF Runner
<1>2. CASE Environment
  BY <1>2, EnvironmentEdits
<1>3. CASE UNCHANGED vars
  BY <1>3, TreeStays DEF vars, tree, history
<1> QED  BY <1>1, <1>2, <1>3 DEF Next, Finished

\* The edits that a run must leave are in no file it is about to write, and in
\* nothing it compares with (_assert_unchanged_before_write).
THEOREM EditsInvariant == Spec => []EditsInv
<1>1. Init => EditsInv
  BY InitTypes
<1>2. TypeOK /\ TypeOK' /\ EditsInv /\ [Next]_vars => EditsInv'
  BY StepEdits
<1> QED  BY <1>1, <1>2, Typing, PTL DEF Spec

\* An edit that a session makes during a run, outside the window of a write,
\* is never lost, whatever fails or is killed (_assert_unchanged_before_write,
\* _write_failed_commit_report).
THEOREM EditsSurvive == Spec => []EditsKept
<1>1. EditsInv => EditsKept
  BY DEF EditsInv
<1> QED  BY <1>1, EditsInvariant, PTL

-----------------------------------------------------------------------------
\* The garden lock.

\* The steps of a run that does not hold the lock yet, or no more.
Outside == {"idle", "status", "check", "baseline", "acquire", "abort", "aborted", "conflict",
            "rewrite", "retouch", "restage", "restaged", "done"}

HeldInv == lock = "night" => night.locked /\ pc \notin Outside

\* The steps that leave the lock alone leave the place where it is released ahead.
LEMMA StepHeld ==
  ASSUME TypeOK, HeldInv, [Next]_vars
  PROVE  HeldInv'
<1>1. CASE \/ Begin \/ PreflightStatus \/ PreflightLock \/ CaptureBaseline \/ AcquireLock
           \/ ReleaseLock \/ StartAbort \/ PutReportAside \/ RewriteReport \/ TouchReport
           \/ RestageReport \/ VerifyRestaged
  <2>1. CASE AcquireLock
    BY <2>1 DEF AcquireLock, Goto, Stop, HeldInv, Outside, TypeOK, Night
  <2>2. CASE ReleaseLock
    BY <2>2 DEF ReleaseLock, HeldInv
  <2>3. CASE ~AcquireLock /\ ~ReleaseLock
    <3>1. lock' = lock /\ pc \in Outside
      BY <1>1, <2>3 DEF Begin, PreflightStatus, PreflightLock, CaptureBaseline, StartAbort,
         PutReportAside, RewriteReport, TouchReport, RestageReport, VerifyRestaged, Test, Quietly,
         Outside
    <3> QED  BY <3>1 DEF HeldInv
  <2> QED  BY <2>1, <2>2, <2>3
<1>2. CASE \/ CountBefore \/ ListPending \/ ApplyEvent \/ ApplyManually \/ ApplyReconciled
           \/ TouchApplied \/ NextAfterApply \/ NextAfterReconciled \/ RebuildPending
           \/ TouchRebuilt \/ CollectMetrics \/ RunDoctor \/ VerifyLock \/ RefuseUnexpected
           \/ StageOutput \/ VerifyStaged \/ ReadHead \/ WriteTree \/ GitCommit \/ ReadCommit
           \/ VerifyCommitted \/ CheckRollback \/ UpdateRef \/ ReadTree \/ VerifyClean
  <2>1. lock' = lock /\ night'.locked = night.locked
    BY <1>2 DEF CountBefore, ListPending, ApplyEvent, ApplyManually, ApplyReconciled, TouchApplied,
       NextAfterApply, NextAfterReconciled, NextPending, RebuildPending, TouchRebuilt, Touched,
       CollectMetrics, RunDoctor, VerifyLock, RefuseUnexpected, StageOutput, VerifyStaged,
       ReadHead, WriteTree, GitCommit, ReadCommit, VerifyCommitted, CheckRollback, UpdateRef,
       ReadTree, VerifyClean, Test, Quietly, TypeOK, Night
  <2>2. night.locked => pc' \notin Outside
    BY <1>2 DEF CountBefore, ListPending, ApplyEvent, ApplyManually, ApplyReconciled, TouchApplied,
       NextAfterApply, NextAfterReconciled, NextPending, RebuildPending, TouchRebuilt,
       CollectMetrics, RunDoctor, VerifyLock, RefuseUnexpected, StageOutput, VerifyStaged,
       ReadHead, WriteTree, GitCommit, ReadCommit, VerifyCommitted, CheckRollback, UpdateRef,
       ReadTree, VerifyClean, Test, Goto, Stop, Outside
  <2> QED  BY <2>1, <2>2 DEF HeldInv
<1>3. CASE GuardOutput \/ WriteOutput \/ TouchOutput
  <2>1. lock' = lock /\ night'.locked = night.locked
    BY <1>3 DEF GuardOutput, WriteOutput, TouchOutput, Touched, TypeOK, Night
  <2>2. pc = "aborted" \/ (night.locked => pc' \notin {"abort", "aborted", "done"} /\ pc' # "idle")
        \/ pc' = pc
    <3>1. pc \in DOMAIN Output
      BY <1>3 DEF GuardOutput, WriteOutput, TouchOutput, TypeOK
    <3> QED  BY <1>3, <3>1, OutputFiles DEF GuardOutput, WriteOutput, TouchOutput, StopRendering,
             Stop, After
  <2>3. pc' \in Outside => pc' \in {"abort", "aborted", "done"} \/ pc' = pc
    BY <1>3, TouchGoesOn DEF GuardOutput, WriteOutput, StopRendering, Stop, Crash, Outside
  <2>4. "aborted" \in Outside
    BY DEF Outside
  <2> QED  BY <2>1, <2>2, <2>3, <2>4 DEF HeldInv
<1>4. CASE Environment
  <2>1. CASE LockTaken \/ Kill
    BY <2>1 DEF LockTaken, Kill, HeldInv
  <2>2. CASE ~LockTaken /\ ~Kill
    <3>1. lock' = lock /\ night'.locked = night.locked
      BY <1>4, <2>2 DEF Environment, Edit, Stage, Emit, Dispose, SessionCommit, StepFails,
         VerificationFails, ApplyNeedsRepair, AbortFails, RestageFails, TypeOK, Night
    <3>2. night.locked => pc' \notin Outside \/ pc \in Outside
      BY <1>4, <2>2 DEF Environment, Edit, Stage, Emit, Dispose, SessionCommit, StepFails,
         VerificationFails, ApplyNeedsRepair, AbortFails, RestageFails, Stop, Crash, Goto, Outside
    <3> QED  BY <3>1, <3>2 DEF HeldInv
  <2> QED  BY <2>1, <2>2
<1>5. CASE UNCHANGED vars
  BY <1>5 DEF vars, HeldInv
<1> QED  BY <1>1, <1>2, <1>3, <1>4, <1>5 DEF Next, Runner, Finished

\* No run that ends, however it ends, leaves its lock behind but by a kill, which
\* leaves it to the TTL (_release_lock).
THEOREM LockGivenBack == Spec => []LockReleased
<1>1. Init => HeldInv
  BY DEF Init, HeldInv
<1>2. TypeOK /\ HeldInv /\ [Next]_vars => HeldInv'
  BY StepHeld
<1>3. HeldInv => LockReleased
  BY DEF HeldInv, LockReleased, Running, Outside
<1> QED  BY <1>1, <1>2, <1>3, Typing, PTL DEF Spec

-----------------------------------------------------------------------------
\* The report of an aborted run.

\* None of these marks reports a success of the run.
NoSuccess(marks) == {<<"clean", run>>, <<"attention", run>>} \cap marks = {}

Aborted == pc = "done" /\ exit = "aborted"
Restaging == {"retouch", "restage", "restaged"}

\* From its rewriting on the report says that the run aborted and, of a run that
\* had staged its output, nothing else; what the runner stages is that report.
ReportInv ==
    /\ pc = "aborted" => ~night.staged
    /\ pc = "aborted" /\ part = "touch" => <<"aborted", run>> \in work["report"]
    /\ pc = "rewrite" => NoSuccess(work["report"])
    /\ pc \in Restaging \/ Aborted =>
          /\ <<"aborted", run>> \in work["report"]
          /\ night.staged => NoSuccess(work["report"])
    /\ pc \in {"restage", "restaged"} /\ night.staged => NoSuccess(night.expected["report"])
    /\ Aborted /\ night.staged =>
          index["report"] = HeadTree["report"] \/ NoSuccess(index["report"])

\* The steps of a run before its abort lead to none of these places.
LEMMA ReportAhead ==
  ASSUME TypeOK, ReportInv,
         \/ Begin \/ PreflightStatus \/ PreflightLock \/ CaptureBaseline \/ AcquireLock
         \/ CountBefore \/ ListPending \/ ApplyEvent \/ ApplyManually \/ ApplyReconciled
         \/ TouchApplied \/ NextAfterApply \/ NextAfterReconciled \/ RebuildPending
         \/ TouchRebuilt \/ CollectMetrics \/ RunDoctor \/ VerifyLock \/ RefuseUnexpected
         \/ StageOutput \/ VerifyStaged \/ ReadHead \/ WriteTree \/ GitCommit \/ ReadCommit
         \/ VerifyCommitted \/ CheckRollback \/ UpdateRef \/ ReadTree \/ VerifyClean
         \/ ReleaseLock \/ StepFails \/ VerificationFails \/ ApplyNeedsRepair
  PROVE  ReportInv'
<1>1. pc' \notin Restaging \cup {"aborted", "rewrite"} /\ ~Aborted'
  BY DEF Begin, PreflightStatus, PreflightLock, CaptureBaseline, AcquireLock, CountBefore,
     ListPending, ApplyEvent, ApplyManually, ApplyReconciled, TouchApplied, NextAfterApply,
     NextAfterReconciled, NextPending, RebuildPending, TouchRebuilt, CollectMetrics, RunDoctor,
     VerifyLock, RefuseUnexpected, StageOutput, VerifyStaged, ReadHead, WriteTree, GitCommit,
     ReadCommit, VerifyCommitted, CheckRollback, UpdateRef, ReadTree, VerifyClean, ReleaseLock,
     StepFails, VerificationFails, ApplyNeedsRepair, Test, Goto, Stop, Aborted, Restaging
<1> QED  BY <1>1 DEF ReportInv, Restaging

\* The abort writes the report, and what it stages is what it wrote.
LEMMA ReportOfAbort ==
  ASSUME TypeOK, ReportInv,
         \/ GuardOutput \/ WriteOutput \/ TouchOutput
         \/ StartAbort \/ PutReportAside \/ RewriteReport \/ TouchReport \/ RestageReport
         \/ VerifyRestaged \/ AbortFails \/ RestageFails \/ Kill
  PROVE  ReportInv'
<1> USE DEF TypeOK
<1>0. "report" \in Files /\ work \in Tree /\ night \in Night
  BY DEF Files
<1>1. CASE GuardOutput
  <2>1. UNCHANGED <<work, night, run>> /\ pc \in DOMAIN Output
    BY <1>1 DEF GuardOutput, tree
  <2>2. \/ pc' = pc /\ part' = "write"
        \/ pc' \in {"release", "abort"}
        \/ pc' = "done" /\ exit' = "crashed"
    BY <1>1 DEF GuardOutput, StopRendering, Stop, Crash
  <2>3. pc \notin Restaging \cup {"rewrite", "done"}
    BY <2>1, OutputFiles DEF Restaging
  <2> QED  BY <2>1, <2>2, <2>3 DEF ReportInv, Aborted, Restaging
<1>2. CASE WriteOutput
  <2>1. /\ UNCHANGED <<pc, night, run>> /\ pc \in DOMAIN Output /\ part' = "touch"
        /\ work' = [work EXCEPT ![Output[pc]] = Rendered(pc)]
    BY <1>2 DEF WriteOutput
  <2>2. pc \notin Restaging \cup {"rewrite", "done"}
    BY <2>1, OutputFiles DEF Restaging
  <2>3. pc = "aborted" => <<"aborted", run>> \in work'["report"]
    BY <1>0, <2>1 DEF Output, Rendered, Tree
  <2> QED  BY <2>1, <2>2, <2>3 DEF ReportInv, Aborted, Restaging
<1>3. CASE TouchOutput
  <2>1. /\ UNCHANGED <<work, run, exit>> /\ pc \in DOMAIN Output /\ part = "touch"
        /\ night' = Touched({Output[pc]}) /\ pc' = After[pc]
    BY <1>3 DEF TouchOutput, tree
  <2>2. night'.staged = night.staged
    BY <1>0, <2>1 DEF Touched, Night
  <2>3. pc' \in {"orientation", "metrics", "doctor", "verify"} \/ (pc = "aborted" /\ pc' = "done")
    BY <2>1, OutputFiles DEF After
  <2> QED  BY <2>1, <2>2, <2>3 DEF ReportInv, Aborted, Restaging
<1>4. CASE StartAbort
  <2>1. pc = "abort" /\ UNCHANGED <<work, index, night, run>>
    BY <1>4 DEF StartAbort, Quietly, tree, history
  <2>2. \/ pc' = "conflict"
        \/ pc' = "aborted" /\ ~night.staged
    BY <1>4 DEF StartAbort, Goto
  <2>3. pc' = "aborted" => part' # "touch"
    BY <1>0, <1>4, OutputFiles DEF StartAbort, Goto
  <2> QED  BY <2>1, <2>2, <2>3 DEF ReportInv, Aborted, Restaging
<1>5. CASE PutReportAside
  <2>1. work'["report"] = {} /\ pc' = "rewrite"
    BY <1>0, <1>5 DEF PutReportAside, Goto, Tree
  <2> QED  BY <2>1 DEF ReportInv, Aborted, Restaging, NoSuccess
<1>6. CASE RewriteReport
  <2>1. work'["report"] = {<<"aborted", run>>} /\ pc' = "retouch" /\ run' = run
    BY <1>0, <1>6 DEF RewriteReport, Goto, Tree
  <2> QED  BY <2>1 DEF ReportInv, Aborted, Restaging, NoSuccess
<1>7. CASE TouchReport
  <2>1. /\ pc = "retouch" /\ pc' = "restage" /\ UNCHANGED <<work, run>>
        /\ night' = Touched({"report"})
    BY <1>7 DEF TouchReport, Goto, tree
  <2>2. night'.staged = night.staged /\ night'.expected["report"] = work["report"]
    BY <1>0, <2>1 DEF Touched, Night
  <2> QED  BY <2>1, <2>2 DEF ReportInv, Aborted, Restaging, NoSuccess
<1>8. CASE RestageReport
  BY <1>8 DEF RestageReport, Goto, ReportInv, Aborted, Restaging, NoSuccess
<1>9. CASE VerifyRestaged
  <2>1. /\ pc = "restaged" /\ pc' = "done" /\ UNCHANGED <<work, head, night, run, exit>>
        /\ \/ index' = index /\ index["report"] = night.expected["report"]
           \/ index'["report"] = HeadTree["report"]
    BY <1>0, <1>9 DEF VerifyRestaged, UnstageReport, Goto, Tree
  <2> QED  BY <2>1 DEF ReportInv, Aborted, Restaging, NoSuccess, HeadTree
<1>10. CASE RestageFails
  <2>1. /\ pc = "restage" /\ pc' = "done" /\ UNCHANGED <<work, head, night, run, exit>>
        /\ index'["report"] = HeadTree["report"]
    BY <1>0, <1>10 DEF RestageFails, UnstageReport, Goto, Tree
  <2> QED  BY <2>1 DEF ReportInv, Aborted, Restaging, NoSuccess, HeadTree
<1>11. CASE AbortFails \/ Kill
  <2>1. pc' = "done" /\ exit' # "aborted"
    BY <1>11 DEF AbortFails, Kill, Crash
  <2> QED  BY <2>1 DEF ReportInv, Aborted, Restaging
<1> QED
  BY <1>1, <1>2, <1>3, <1>4, <1>5, <1>6, <1>7, <1>8, <1>9, <1>10, <1>11

\* What sessions, and the clock, do between two steps of the runner.
SessionStep ==
    \/ \E f \in Editable : Edit(f) \/ Stage(f)
    \/ Emit
    \/ \E rebuilds \in BOOLEAN : Dispose(rebuilds)
    \/ \E files \in SUBSET Files : SessionCommit(files)
    \/ LockTaken
    \/ UNCHANGED vars

\* What sessions do to the report, and to what is staged of it.
LEMMA ReportEdited ==
  ASSUME TypeOK, SessionStep
  PROVE  /\ \/ work'["report"] = work["report"]
            \/ \E n : work'["report"] = work["report"] \cup {<<"edit", n>>}
         /\ \/ index'["report"] \in {index["report"], work["report"]} /\ head' = head
            \/ index'["report"] = HeadTree'["report"]
<1> USE DEF TypeOK
<1>0. "report" \in Files /\ work \in Tree /\ index \in Tree
  BY DEF Files
<1>1. \/ work'["report"] = work["report"]
      \/ \E n : work'["report"] = work["report"] \cup {<<"edit", n>>}
  <2>1. ASSUME NEW f \in Editable, Edit(f)
        PROVE  \/ work'["report"] = work["report"]
               \/ \E n : work'["report"] = work["report"] \cup {<<"edit", n>>}
    BY <1>0, <2>1 DEF Edit, Editable, Tree
  <2>2. CASE Emit
    BY <1>0, <2>2 DEF Emit, Tree
  <2>3. ASSUME NEW rebuilds \in BOOLEAN, Dispose(rebuilds)
        PROVE  work'["report"] = work["report"]
    BY <1>0, <2>3 DEF Dispose, Tree
  <2> QED  BY <2>1, <2>2, <2>3 DEF SessionStep, Stage, SessionCommit, LockTaken, vars, tree
<1>2. \/ index'["report"] \in {index["report"], work["report"]} /\ head' = head
      \/ index'["report"] = HeadTree'["report"]
  <2>1. ASSUME NEW f \in Editable, Stage(f)
        PROVE  index'["report"] \in {index["report"], work["report"]} /\ head' = head
    BY <1>0, <2>1 DEF Stage, Editable, Tree
  <2>2. ASSUME NEW files \in SUBSET Files, SessionCommit(files)
        PROVE  index'["report"] = HeadTree'["report"]
    <3>1. head' = Append(head, [tree |-> index', by |-> "session"]) /\ Len(head) \in Nat
      BY <2>2 DEF SessionCommit
    <3>2. head'[Len(head')] = [tree |-> index', by |-> "session"]
      BY <3>1, CommitAppends
    <3> QED  BY <3>2 DEF HeadTree
  <2> QED  BY <2>1, <2>2 DEF SessionStep, Edit, Emit, Dispose, LockTaken, vars, tree
<1> QED  BY <1>1, <1>2

\* Sessions add edits to the report, stage it and commit it; none of it is a
\* report of success.
LEMMA ReportBesideSessions ==
  ASSUME TypeOK, ReportInv, SessionStep
  PROVE  ReportInv'
<1>1. UNCHANGED <<pc, part, night, run, exit>>
  BY DEF SessionStep, Edit, Stage, Emit, Dispose, SessionCommit, LockTaken, vars
<1>2. /\ \/ work'["report"] = work["report"]
         \/ \E n : work'["report"] = work["report"] \cup {<<"edit", n>>}
      /\ \/ index'["report"] \in {index["report"], work["report"]} /\ head' = head
         \/ index'["report"] = HeadTree'["report"]
  BY ReportEdited
<1>3. /\ <<"aborted", run>> \in work["report"] => <<"aborted", run>> \in work'["report"]
      /\ NoSuccess(work["report"]) => NoSuccess(work["report"])'
  BY <1>1, <1>2 DEF NoSuccess
<1>4. ASSUME Aborted', night'.staged
      PROVE  (index["report"] = HeadTree["report"] \/ NoSuccess(index["report"]))'
  <2>1. Aborted /\ night.staged
    BY <1>1, <1>4 DEF Aborted
  <2>2. NoSuccess(work["report"]) /\ (index["report"] = HeadTree["report"] \/ NoSuccess(index["report"]))
    BY <2>1 DEF ReportInv
  <2> QED  BY <1>1, <1>2, <2>2 DEF NoSuccess, HeadTree
<1> QED  BY <1>1, <1>3, <1>4 DEF ReportInv, Aborted, NoSuccess

LEMMA ReportInvariant == Spec => []ReportInv
<1>1. Init => ReportInv
  BY DEF Init, ReportInv, Aborted, Restaging
<1>2. TypeOK /\ ReportInv /\ [Next]_vars => ReportInv'
  <2>1. StatusPaths \in SUBSET Files /\ {"page"} \in SUBSET Files /\ {} \in SUBSET Files
    BY DEF StatusPaths, Files
  <2> QED
    BY <2>1, ReportAhead, ReportOfAbort, ReportBesideSessions
    DEF Next, Runner, Environment, Finished, SessionStep
<1> QED  BY <1>1, <1>2, Typing, PTL DEF Spec

\* A run that exits 1 leaves a report that says so, and no success of it staged
\* for the next commit (_write_failed_commit_report, _recover_failed_commit_report).
THEOREM AbortReported == Spec => []AbortShows
<1>1. ReportInv => AbortShows
  BY DEF ReportInv, Aborted, AbortShows, NoSuccess
<1> QED  BY <1>1, ReportInvariant, PTL

-----------------------------------------------------------------------------
\* The commit of a successful run.

\* The pending index names the handoffs of some moment, none of which has
\* vanished since: a handoff comes once and is disposed of once.
PendingTexts == {Text({"index"} \cup listed) : listed \in SUBSET {"event", "late"}}

PendingInv ==
    /\ work["pending"] \in PendingTexts
    /\ <<"late", 0>> \in work["pending"] => work["late"] # {}
    /\ <<"event", 0>> \in work["pending"] \/ work["event"] = {} \/ work["apply"] # {}

LEMMA PendingTextFacts ==
  ASSUME NEW t
  PROVE  /\ PendingText(t) \in PendingTexts
         /\ <<"late", 0>> \in PendingText(t) <=> t["late"] # {}
         /\ <<"event", 0>> \in PendingText(t) <=> t["event"] # {} /\ t["apply"] = {}
<1>1. Pending(t) \in SUBSET {"event", "late"}
  BY DEF Pending
<1>2. \A w : <<w, 0>> \in PendingText(t) <=> w \in {"index"} \cup Pending(t)
  BY DEF PendingText, Text
<1> QED  BY <1>1, <1>2 DEF PendingTexts, PendingText, Pending

\* Two such indexes with the same handoffs are the same.
LEMMA PendingTextsDiffer ==
  ASSUME NEW a \in PendingTexts, NEW b \in PendingTexts, a # b
  PROVE  \/ (<<"late", 0>> \in a) # (<<"late", 0>> \in b)
         \/ (<<"event", 0>> \in a) # (<<"event", 0>> \in b)
<1>1. PICK s \in SUBSET {"event", "late"} : a = Text({"index"} \cup s)
  BY DEF PendingTexts
<1>2. PICK r \in SUBSET {"event", "late"} : b = Text({"index"} \cup r)
  BY DEF PendingTexts
<1>3. s # r
  BY <1>1, <1>2
<1>4. ("late" \in s) # ("late" \in r) \/ ("event" \in s) # ("event" \in r)
  <2>1. ~(s \subseteq r /\ r \subseteq s)
    BY <1>3
  <2>2. PICK x \in {"event", "late"} : (x \in s) # (x \in r)
    BY <2>1
  <2> QED  BY <2>2
<1>5. \A w, words : <<w, 0>> \in Text(words) <=> w \in words
  BY DEF Text
<1>6. /\ (<<"late", 0>> \in a) = ("late" \in s) /\ (<<"event", 0>> \in a) = ("event" \in s)
      /\ (<<"late", 0>> \in b) = ("late" \in r) /\ (<<"event", 0>> \in b) = ("event" \in r)
  <2>1. \A x : ("late" \in {"index"} \cup x) = ("late" \in x) /\ ("event" \in {"index"} \cup x) = ("event" \in x)
    OBVIOUS
  <2> QED  BY <1>1, <1>2, <1>5, <2>1
<1> QED  BY <1>4, <1>6

\* Sessions, and the apply of the runner, only add to a file, but for the index,
\* where a late handoff comes and the first one goes.
Grows(old, new) ==
    /\ \A f \in Files \ {"pending"} : old[f] \subseteq new[f]
    /\ <<"late", 0>> \in old["pending"] => <<"late", 0>> \in new["pending"]
    /\ <<"event", 0>> \in new["pending"] => <<"event", 0>> \in old["pending"]

LEMMA SessionsAdd ==
  ASSUME TypeOK, PendingInv, SessionStep
  PROVE  Grows(work, work') /\ PendingInv'
<1> USE DEF Tree
<1>0. work \in Tree /\ {"pending", "late", "event", "apply", "page"} \subseteq Files
  BY DEF TypeOK, Files, Events, Projections
<1>1. ASSUME NEW f \in Editable, Edit(f)
      PROVE  Grows(work, work') /\ PendingInv'
  <2>1. /\ \A g \in Files : work[g] \subseteq work'[g]
        /\ work'["pending"] = work["pending"] /\ work'["late"] = work["late"]
        /\ work'["event"] = work["event"] /\ work'["apply"] = work["apply"]
    BY <1>0, <1>1 DEF Edit, Editable
  <2> QED  BY <2>1 DEF Grows, PendingInv
<1>2. CASE Emit
  <2> DEFINE emitted == [work EXCEPT !["late"] = Text({"late"})]
  <2>1. work' = [emitted EXCEPT !["pending"] = PendingText(emitted)] /\ work["late"] = {}
    BY <1>2 DEF Emit
  <2>2. /\ emitted["late"] # {} /\ emitted["event"] = work["event"] /\ emitted["apply"] = work["apply"]
    BY <1>0 DEF Text
  <2>3. /\ \A g \in Files \ {"pending"} : work[g] \subseteq work'[g]
        /\ work'["pending"] = PendingText(emitted) /\ work'["late"] # {}
        /\ work'["event"] = work["event"] /\ work'["apply"] = work["apply"]
    BY <1>0, <2>1, <2>2
  <2> QED  BY <2>2, <2>3, PendingTextFacts DEF Grows, PendingInv
<1>3. ASSUME NEW rebuilds \in BOOLEAN, Dispose(rebuilds)
      PROVE  Grows(work, work') /\ PendingInv'
  <2> DEFINE applied == [work EXCEPT !["page"] = @ \cup Text({"block"}), !["apply"] = Text({"apply"})]
  <2>1. /\ work' = [applied EXCEPT !["pending"] = IF rebuilds THEN PendingText(applied) ELSE @]
        /\ work["apply"] = {}
    BY <1>3 DEF Dispose
  <2>2. /\ applied["apply"] # {} /\ applied["event"] = work["event"]
        /\ applied["late"] = work["late"] /\ applied["pending"] = work["pending"]
    BY <1>0 DEF Text
  <2>3. /\ \A g \in Files \ {"pending"} : work[g] \subseteq work'[g]
        /\ work'["pending"] \in {PendingText(applied), work["pending"]}
        /\ work'["event"] = work["event"] /\ work'["apply"] # {} /\ work'["late"] = work["late"]
    BY <1>0, <2>1, <2>2
  <2> QED  BY <2>2, <2>3, PendingTextFacts DEF Grows, PendingInv
<1>4. ASSUME UNCHANGED work
      PROVE  Grows(work, work') /\ PendingInv'
  BY <1>4 DEF Grows, PendingInv
<1> QED  BY <1>1, <1>2, <1>3, <1>4 DEF SessionStep, Stage, SessionCommit, LockTaken, vars, tree

\* The other steps are the runner's, or befall it.
RunnerStep ==
    \/ Runner \/ StepFails \/ VerificationFails \/ ApplyNeedsRepair
    \/ AbortFails \/ RestageFails \/ Kill

LEMMA TwoKinds ==
  ASSUME [Next]_vars
  PROVE  SessionStep \/ RunnerStep
<1>1. StatusPaths \in SUBSET Files /\ {"page"} \in SUBSET Files /\ {} \in SUBSET Files
  BY DEF StatusPaths, Files
<1> QED  BY <1>1 DEF Next, Environment, Finished, SessionStep, RunnerStep

\* The runner's steps that write files, and what they do to the index.
LEMMA RunnerPending ==
  ASSUME TypeOK, PendingInv, RunnerStep
  PROVE  PendingInv'
<1> USE DEF Tree
<1>0. /\ work \in Tree /\ {"pending", "late", "event", "apply", "page", "report"} \subseteq Files
      /\ part # "guard" => pc \in DOMAIN Output
  BY DEF TypeOK, Files, Events, Projections
<1>1. CASE ApplyEvent
  <2> DEFINE applied == [work EXCEPT !["apply"] = Text({"apply"})]
  <2>1. work' = [work EXCEPT !["page"] = @ \cup Text({"block"}), !["apply"] = Text({"apply"}),
                             !["pending"] = PendingText(applied)]
    BY <1>1 DEF ApplyEvent
  <2>2. applied["apply"] # {} /\ applied["late"] = work["late"]
    BY <1>0 DEF Text
  <2>3. /\ work'["pending"] = PendingText(applied) /\ work'["apply"] # {}
        /\ work'["late"] = work["late"]
    BY <1>0, <2>1, <2>2
  <2> QED  BY <2>2, <2>3, PendingTextFacts DEF PendingInv
<1>2. CASE RebuildPending
  <2>1. CASE UNCHANGED work
    BY <2>1 DEF PendingInv
  <2>2. CASE work' = [work EXCEPT !["pending"] = PendingText(work)]
    <3>1. /\ work'["pending"] = PendingText(work) /\ work'["apply"] = work["apply"]
          /\ work'["late"] = work["late"] /\ work'["event"] = work["event"]
      BY <1>0, <2>2
    <3> QED  BY <3>1, PendingTextFacts DEF PendingInv
  <2> QED  BY <1>2, <2>1, <2>2 DEF RebuildPending
<1>3. ASSUME NEW f \in Files \ {"pending", "late", "event", "apply"}, NEW v,
             work' = [work EXCEPT ![f] = v]
      PROVE  PendingInv'
  BY <1>0, <1>3 DEF PendingInv
<1>4. CASE WriteOutput
  <2>1. Output[pc] \in Files \ {"pending", "late", "event", "apply"}
    BY <1>0, <1>4 DEF WriteOutput, Output, Files, Projections
  <2> QED  BY <1>3, <1>4, <2>1 DEF WriteOutput
<1>5. CASE PutReportAside \/ RewriteReport
  <2>1. "report" \in Files \ {"pending", "late", "event", "apply"}
    BY DEF Files
  <2> QED  BY <1>3, <1>5, <2>1 DEF PutReportAside, RewriteReport
<1>6. CASE ApplyNeedsRepair
  <2>1. work' = [work EXCEPT !["page"] = @ \cup Text({"block"}), !["apply"] = Text({"apply"})]
    BY <1>6 DEF ApplyNeedsRepair
  <2>2. /\ work'["pending"] = work["pending"] /\ work'["late"] = work["late"]
        /\ work'["apply"] # {}
    BY <1>0, <2>1 DEF Text
  <2> QED  BY <2>2 DEF PendingInv
<1>7. CASE UNCHANGED work
  BY <1>7 DEF PendingInv
<1>8. CASE \/ Begin \/ PreflightStatus \/ PreflightLock \/ CaptureBaseline \/ AcquireLock
           \/ CountBefore \/ ListPending \/ ApplyManually \/ ApplyReconciled
           \/ TouchApplied \/ NextAfterApply \/ NextAfterReconciled \/ TouchRebuilt
           \/ GuardOutput \/ TouchOutput \/ CollectMetrics \/ RunDoctor \/ VerifyLock
           \/ RefuseUnexpected \/ StageOutput \/ VerifyStaged \/ ReadHead \/ WriteTree
           \/ GitCommit \/ ReadCommit \/ VerifyCommitted \/ CheckRollback \/ UpdateRef
           \/ ReadTree \/ VerifyClean \/ ReleaseLock \/ StartAbort \/ TouchReport
           \/ RestageReport \/ VerifyRestaged
           \/ StepFails \/ VerificationFails \/ AbortFails \/ RestageFails \/ Kill
  <2>1. UNCHANGED work
    BY <1>8 DEF Begin, PreflightStatus, PreflightLock, CaptureBaseline, AcquireLock,
       CountBefore, ListPending, ApplyManually, ApplyReconciled, TouchApplied, NextAfterApply,
       NextAfterReconciled, NextPending, TouchRebuilt, GuardOutput, TouchOutput,
       CollectMetrics, RunDoctor, VerifyLock, RefuseUnexpected, StageOutput, VerifyStaged,
       ReadHead, WriteTree, GitCommit, ReadCommit, VerifyCommitted, CheckRollback, UpdateRef,
       ReadTree, VerifyClean, ReleaseLock, StartAbort, TouchReport, RestageReport,
       VerifyRestaged, StepFails, VerificationFails, AbortFails, RestageFails, Kill, Test,
       Quietly, tree
  <2> QED  BY <1>7, <2>1
<1> QED  BY <1>1, <1>2, <1>4, <1>5, <1>6, <1>8 DEF RunnerStep, Runner

\* No commit is empty.
CommitsDiffer == \A i \in 2..Len(head) : head[i].tree # head[i - 1].tree

LEMMA BranchDiffers ==
  ASSUME TypeOK, BranchInv, CommitsDiffer, [Next]_vars
  PROVE  CommitsDiffer'
<1>1. head \in Seq(Commits) /\ Len(head) \in Nat /\ Len(head) >= 1
  BY DEF TypeOK
<1>2. ASSUME NEW commit, head' = Append(head, commit), commit.tree # HeadTree
      PROVE  CommitsDiffer'
  <2>1. /\ Len(head') = Len(head) + 1 /\ head'[Len(head')] = commit
        /\ \A i \in 1..Len(head) : head'[i] = head[i]
    BY <1>1, <1>2, CommitAppends
  <2>2. ASSUME NEW i \in 2..Len(head')
        PROVE  head'[i].tree # head'[i - 1].tree
    <3>1. CASE i = Len(head')
      BY <1>1, <1>2, <2>1, <3>1 DEF HeadTree
    <3>2. CASE i # Len(head')
      BY <1>1, <2>1, <3>2 DEF CommitsDiffer
    <3> QED  BY <3>1, <3>2
  <2> QED  BY <2>2 DEF CommitsDiffer
<1>3. CASE GitCommit
  BY <1>2, <1>3 DEF GitCommit, CommitsDiffer
<1>4. ASSUME NEW files \in SUBSET Files, SessionCommit(files)
      PROVE  CommitsDiffer'
  BY <1>2, <1>4 DEF SessionCommit
<1>5. CASE UpdateRef /\ head' # head
  <2>1. /\ Len(head) = night.before + 1 /\ night.before \in Nat \ {0}
        /\ head' = SubSeq(head, 1, night.before)
    BY <1>5, RollbackTakesOne
  <2>2. Len(head') = night.before /\ \A i \in 1..night.before : head'[i] = head[i]
    BY <1>1, <2>1
  <2> QED  BY <1>1, <2>1, <2>2 DEF CommitsDiffer
<1>6. CASE head' = head
  BY <1>6 DEF CommitsDiffer
<1> QED  BY <1>3, <1>4, <1>5, <1>6, BranchUntouched

-----------------------------------------------------------------------------
\* From the check of what is staged to that of what is committed.
Committing == {"head", "tree", "commit", "parse", "committed"}

\* The file has not gone back behind what the runner expects, and what is staged
\* is that, or the file has left it.
NoReturn(f) ==
    /\ IF f = "pending"
       THEN /\ night.expected[f] \in PendingTexts
            /\ <<"late", 0>> \in night.expected[f] => <<"late", 0>> \in work[f]
            /\ <<"event", 0>> \in work[f] => <<"event", 0>> \in night.expected[f]
       ELSE night.expected[f] \subseteq work[f]
    /\ index[f] # night.expected[f] => work[f] # night.expected[f]

\* The commit k is the runner's; where a later one, or what is staged for one,
\* has what the runner expects of a file, so has every one from k on.
OwnCommit(k) ==
    /\ head[k].by = "night"
    /\ \A f \in night.paths :
         /\ \A i, j \in k..Len(head) :
              i <= j /\ head[j].tree[f] = night.expected[f] => head[i].tree[f] = night.expected[f]
         /\ index[f] = night.expected[f] => HeadTree[f] = night.expected[f]

\* What a run with exit 0 leaves on the branch.
Published ==
    /\ night.commit \in 2..Len(head)
    /\ head[night.commit].by = "night"
    /\ \A f \in Diff(head[night.commit].tree, head[night.commit - 1].tree) :
          f \in night.touched /\ head[night.commit].tree[f] = night.expected[f]

CommitInv ==
    /\ PendingInv /\ CommitsDiffer
    /\ pc \in Committing =>
          night.paths \subseteq night.touched /\ \A f \in night.paths : NoReturn(f)
    /\ pc \in {"parse", "committed"} =>
          \E k \in 2..Len(head) :
             OwnCommit(k) /\ (pc = "committed" => night.commit \in k..Len(head))
    /\ exit = "ok" => pc \in {"release", "done"}
    /\ pc = "clean" \/ exit = "ok" => Published
    /\ pc = "done" /\ exit = "ok" => \A f \in Files : night.expected[f] \cap guarded = {}

\* A file that left what is expected does not return to it.
LEMMA LeftForGood ==
  ASSUME PendingInv, PendingInv', NEW f \in Files, NoReturn(f), Grows(work, work'),
         work[f] # night.expected[f]
  PROVE  work'[f] # night.expected[f]
<1>1. CASE f = "pending"
  <2>1. work[f] \in PendingTexts /\ night.expected[f] \in PendingTexts
    BY <1>1 DEF NoReturn, PendingInv
  <2>2. \/ <<"late", 0>> \in work[f] /\ <<"late", 0>> \notin night.expected[f]
        \/ <<"event", 0>> \notin work[f] /\ <<"event", 0>> \in night.expected[f]
    BY <1>1, <2>1, PendingTextsDiffer DEF NoReturn
  <2> QED  BY <1>1, <2>2 DEF Grows
<1>2. CASE f # "pending"
  BY <1>2 DEF NoReturn, Grows
<1> QED  BY <1>1, <1>2

LEMMA SessionsDoNotReturn ==
  ASSUME TypeOK, PendingInv, SessionStep, NEW f \in Files, NoReturn(f)
  PROVE  NoReturn(f)' /\ (index'[f] = night'.expected[f] => index[f] = night.expected[f])
<1>1. Grows(work, work') /\ PendingInv'
  BY SessionsAdd
<1>2. night' = night
  BY DEF SessionStep, Edit, Stage, Emit, Dispose, SessionCommit, LockTaken, vars
<1>3. work[f] # night.expected[f] => work'[f] # night.expected[f]
  BY <1>1, LeftForGood
<1>4. index' = index \/ (work' = work /\ index'[f] \in {index[f], work[f]})
  <2>1. ASSUME NEW g \in Editable, Stage(g)
        PROVE  work' = work /\ index'[f] \in {index[f], work[f]}
    BY <2>1 DEF Stage, TypeOK, Tree
  <2>2. ASSUME NEW files \in SUBSET Files, SessionCommit(files)
        PROVE  work' = work /\ index'[f] \in {index[f], work[f]}
    BY <2>2 DEF SessionCommit
  <2> QED  BY <2>1, <2>2 DEF SessionStep, Edit, Emit, Dispose, LockTaken, vars, tree
<1>5. IF f = "pending"
      THEN /\ night.expected[f] \in PendingTexts
           /\ <<"late", 0>> \in night.expected[f] => <<"late", 0>> \in work'[f]
           /\ <<"event", 0>> \in work'[f] => <<"event", 0>> \in night.expected[f]
      ELSE night.expected[f] \subseteq work'[f]
  BY <1>1 DEF NoReturn, Grows
<1>6. index'[f] # night.expected[f] => work'[f] # night.expected[f]
  BY <1>3, <1>4 DEF NoReturn
<1>7. index'[f] = night.expected[f] => index[f] = night.expected[f]
  BY <1>4 DEF NoReturn
<1> QED  BY <1>2, <1>5, <1>6, <1>7 DEF NoReturn

\* What is on the branch stays while nothing is taken off it.
LEMMA PublishedStays ==
  ASSUME TypeOK, Published,
         Len(head') >= Len(head), \A i \in 1..Len(head) : head'[i] = head[i],
         Len(head') \in Nat, night'.commit = night.commit,
         night'.touched = night.touched, night'.expected = night.expected
  PROVE  Published'
<1>1. Len(head) \in Nat /\ night.commit \in 2..Len(head)
  BY DEF TypeOK, Published
<1>2. /\ head'[night'.commit] = head[night.commit]
      /\ head'[night'.commit - 1] = head[night.commit - 1]
      /\ night'.commit \in 2..Len(head')
  BY <1>1
<1> QED  BY <1>2 DEF Published, Diff

\* A session's commit, if any, goes on top.
LEMMA SessionBranch ==
  ASSUME TypeOK, SessionStep
  PROVE  /\ UNCHANGED <<pc, part, night, run, exit, succeeded, cut>>
         /\ Len(head') \in Nat /\ Len(head') >= Len(head)
         /\ \A i \in 1..Len(head) : head'[i] = head[i]
         /\ \/ head' = head /\ HeadTree' = HeadTree
            \/ /\ head' = Append(head, [tree |-> index', by |-> "session"])
               /\ Len(head') = Len(head) + 1
               /\ HeadTree' = index'
<1>1. UNCHANGED <<pc, part, night, run, exit, succeeded, cut>>
  BY DEF SessionStep, Edit, Stage, Emit, Dispose, SessionCommit, LockTaken, vars, history
<1>2. CASE head' = head
  BY <1>1, <1>2 DEF TypeOK, HeadTree
<1>3. ASSUME NEW files \in SUBSET Files, SessionCommit(files)
      PROVE  /\ head' = Append(head, [tree |-> index', by |-> "session"])
             /\ Len(head') = Len(head) + 1 /\ Len(head') \in Nat
             /\ \A i \in 1..Len(head) : head'[i] = head[i]
             /\ HeadTree' = index'
  <2>1. head' = Append(head, [tree |-> index', by |-> "session"])
    BY <1>3 DEF SessionCommit
  <2>2. head \in Seq(Commits)
    BY DEF TypeOK
  <2>3. /\ Len(head') = Len(head) + 1 /\ Len(head) \in Nat
        /\ \A i \in 1..Len(head) : head'[i] = head[i]
        /\ head'[Len(head')] = [tree |-> index', by |-> "session"]
    BY <2>1, <2>2, CommitAppends
  <2> QED  BY <2>1, <2>3 DEF HeadTree
<1>4. Len(head) \in Nat
  BY DEF TypeOK
<1> QED
  BY <1>1, <1>2, <1>3, <1>4 DEF SessionStep, Edit, Stage, Emit, Dispose, LockTaken, vars, tree

\* Sessions do not disturb the commit.
LEMMA CommitBesideSessions ==
  ASSUME TypeOK, BranchInv, CommitInv, SessionStep, [Next]_vars
  PROVE  CommitInv'
<1>1. PendingInv' /\ CommitsDiffer'
  BY SessionsAdd, BranchDiffers DEF CommitInv
<1>2. /\ UNCHANGED <<pc, part, night, run, exit, succeeded, cut>>
      /\ Len(head') \in Nat /\ Len(head') >= Len(head) /\ Len(head) \in Nat
      /\ \A i \in 1..Len(head) : head'[i] = head[i]
      /\ \/ head' = head /\ HeadTree' = HeadTree
         \/ /\ head' = Append(head, [tree |-> index', by |-> "session"])
            /\ Len(head') = Len(head) + 1
            /\ HeadTree' = index'
  BY SessionBranch DEF TypeOK
<1>3. ASSUME pc \in Committing
      PROVE  /\ night.paths \subseteq night.touched
             /\ \A f \in night.paths :
                  NoReturn(f)' /\ (index'[f] = night.expected[f] => index[f] = night.expected[f])
  <2>1. night.paths \subseteq Files
    BY DEF TypeOK, Night
  <2> QED  BY <1>2, <1>3, <2>1, SessionsDoNotReturn DEF CommitInv
<1>4. ASSUME pc \in {"parse", "committed"}, NEW k \in 2..Len(head), OwnCommit(k)
      PROVE  OwnCommit(k)' /\ k \in 2..Len(head')
  <2>1. k \in 2..Len(head') /\ head'[k] = head[k]
    BY <1>2
  <2>2. ASSUME NEW f \in night.paths, NEW i \in k..Len(head'), NEW j \in k..Len(head'),
               i <= j, head'[j].tree[f] = night.expected[f]
        PROVE  head'[i].tree[f] = night.expected[f]
    <3>1. CASE j <= Len(head)
      BY <1>2, <1>4, <2>2, <3>1 DEF OwnCommit
    <3>2. CASE j > Len(head) /\ i > Len(head)
      BY <1>2, <2>2, <3>2
    <3>3. CASE j > Len(head) /\ i <= Len(head)
      <4>1. j = Len(head') /\ HeadTree' = index'
        BY <1>2, <3>3
      <4>2. index'[f] = night.expected[f]
        BY <2>2, <4>1 DEF HeadTree
      <4>3. index[f] = night.expected[f]
        BY <1>3, <1>4, <4>2 DEF Committing
      <4>4. head[Len(head)].tree[f] = night.expected[f]
        BY <1>4, <4>3 DEF OwnCommit, HeadTree
      <4>5. i \in k..Len(head) /\ Len(head) \in k..Len(head)
        BY <1>2, <1>4, <3>3
      <4>6. head[i].tree[f] = night.expected[f]
        BY <1>4, <4>4, <4>5 DEF OwnCommit
      <4> QED  BY <1>2, <4>5, <4>6
    <3> QED  BY <1>2, <3>1, <3>2, <3>3
  <2>3. ASSUME NEW f \in night.paths, index'[f] = night.expected[f]
        PROVE  HeadTree'[f] = night.expected[f]
    <3>1. index[f] = night.expected[f]
      BY <1>3, <1>4, <2>3 DEF Committing
    <3> QED  BY <1>2, <1>4, <2>3, <3>1 DEF OwnCommit
  <2> QED  BY <1>2, <1>4, <2>1, <2>2, <2>3 DEF OwnCommit
<1>5. pc' \in {"parse", "committed"} =>
        \E k \in 2..Len(head') :
           OwnCommit(k)' /\ (pc' = "committed" => night'.commit \in k..Len(head'))
  <2> SUFFICES ASSUME pc \in {"parse", "committed"}
               PROVE  \E k \in 2..Len(head') :
                         OwnCommit(k)' /\ (pc' = "committed" => night'.commit \in k..Len(head'))
    BY <1>2
  <2>1. PICK k \in 2..Len(head) :
                OwnCommit(k) /\ (pc = "committed" => night.commit \in k..Len(head))
    BY DEF CommitInv
  <2>2. pc' = "committed" => night'.commit \in k..Len(head')
    BY <1>2, <2>1
  <2> QED  BY <1>4, <2>1, <2>2
<1>6. pc' = "clean" \/ exit' = "ok" => Published'
  BY <1>2, PublishedStays DEF CommitInv
<1>7. pc' = "done" => guarded' = guarded
  BY <1>2 DEF SessionStep, Edit, Running, Stage, Emit, Dispose, SessionCommit, LockTaken,
     vars, history
<1> QED  BY <1>1, <1>2, <1>3, <1>5, <1>6, <1>7 DEF CommitInv

\* The other steps of a run lead into its commit only one by one.
LEMMA CommitElsewhere ==
  ASSUME TypeOK, exit = "ok" => pc \in {"release", "done"}, RunnerStep,
         ~VerifyStaged, ~ReadHead, ~WriteTree, ~GitCommit, ~ReadCommit, ~VerifyCommitted,
         ~VerifyClean, ~ReleaseLock
  PROVE  /\ pc' \notin Committing \cup {"clean"}
         /\ exit' # "ok"
<1>0. part # "guard" => pc \in DOMAIN Output
  BY DEF TypeOK
<1> USE DEF Committing
<1>1. CASE \/ Begin \/ PreflightStatus \/ PreflightLock \/ CaptureBaseline \/ AcquireLock
           \/ CountBefore \/ ListPending \/ ApplyEvent \/ ApplyManually \/ ApplyReconciled
           \/ TouchApplied \/ NextAfterApply \/ NextAfterReconciled \/ RebuildPending
           \/ TouchRebuilt
  BY <1>1 DEF Begin, PreflightStatus, PreflightLock, CaptureBaseline, AcquireLock,
     CountBefore, ListPending, ApplyEvent, ApplyManually, ApplyReconciled, TouchApplied,
     NextAfterApply, NextAfterReconciled, NextPending, RebuildPending, TouchRebuilt, Test,
     Goto, Stop
<1>2. CASE GuardOutput \/ WriteOutput
  <2>1. pc \in DOMAIN Output
    BY <1>0, <1>2 DEF GuardOutput, WriteOutput
  <2> QED  BY <1>2, <2>1, OutputFiles DEF GuardOutput, WriteOutput, StopRendering, Crash, Stop
<1>3. CASE TouchOutput
  <2>1. pc \in DOMAIN Output /\ exit' = exit
    BY <1>0, <1>3 DEF TouchOutput
  <2> QED  BY <1>3, <2>1, TouchGoesOn, OutputFiles
<1>4. CASE \/ CollectMetrics \/ RunDoctor \/ VerifyLock \/ RefuseUnexpected \/ StageOutput
           \/ CheckRollback \/ UpdateRef \/ ReadTree \/ StartAbort
           \/ PutReportAside \/ RewriteReport \/ TouchReport \/ RestageReport \/ VerifyRestaged
  BY <1>4 DEF CollectMetrics, RunDoctor, VerifyLock, RefuseUnexpected, StageOutput,
     CheckRollback, UpdateRef, ReadTree, StartAbort, PutReportAside,
     RewriteReport, TouchReport, RestageReport, VerifyRestaged, Test, Goto, Stop, Quietly
<1>5. CASE \/ StepFails \/ VerificationFails \/ ApplyNeedsRepair \/ AbortFails
           \/ RestageFails \/ Kill
  BY <1>5 DEF StepFails, VerificationFails, ApplyNeedsRepair, AbortFails, RestageFails, Kill,
     Stop, Crash, Goto
<1> QED  BY <1>1, <1>2, <1>3, <1>4, <1>5 DEF RunnerStep, Runner

\* The steps of the commit itself.  What it finds staged is its output and
\* differs from HEAD; so the commit it makes is not empty and is its own, and the
\* one it finds at HEAD afterwards, having its paths and its output, is that one.
LEMMA CommitOfRun ==
  ASSUME TypeOK, TypeOK', BranchInv, EditsInv, CommitInv, RunnerStep, [Next]_vars
  PROVE  CommitInv'
<1>0. /\ PendingInv' /\ CommitsDiffer'
      /\ night \in Night /\ index \in Tree /\ work \in Tree /\ HeadTree \in Tree
      /\ Len(head) \in Nat /\ Len(head) >= 1
      /\ exit = "ok" => pc \in {"release", "done"}
  BY RunnerPending, BranchDiffers, HeadIsTree DEF CommitInv, TypeOK
<1>1. CASE VerifyStaged
  <2>1. /\ pc = "manifest" /\ UNCHANGED <<work, index, head, guarded>>
        /\ pc' \in {"head", "release", "abort"} /\ exit' # "ok"
    BY <1>0, <1>1 DEF VerifyStaged, Goto, Stop, tree, history
  <2>2. ASSUME pc' = "head"
        PROVE  night'.paths \subseteq night'.touched /\ \A f \in night'.paths : NoReturn(f)'
    <3>1. /\ StagedVerified
          /\ night' = [night EXCEPT !.paths = Diff(index, HeadTree)]
      BY <1>1, <2>2 DEF VerifyStaged, Stop
    <3>2. /\ night'.paths = Diff(index, HeadTree) /\ night'.touched = night.touched
          /\ night'.expected = night.expected
      BY <1>0, <3>1 DEF Night
    <3>3. night'.paths \subseteq night'.touched
      BY <3>1, <3>2 DEF StagedVerified
    <3>4. \A f \in night'.paths : work'[f] = night'.expected[f] /\ index'[f] = night'.expected[f]
      BY <2>1, <3>1, <3>2, <3>3 DEF StagedVerified
    <3> QED  BY <1>0, <3>3, <3>4 DEF NoReturn, PendingInv
  <2> QED  BY <1>0, <2>1, <2>2 DEF CommitInv, Committing
<1>2. CASE ReadHead \/ WriteTree
  <2>1. /\ pc \in {"head", "tree"} /\ pc' \in {"tree", "commit"} /\ exit' = exit
        /\ UNCHANGED <<work, index, head>>
        /\ night'.paths = night.paths /\ night'.touched = night.touched
        /\ night'.expected = night.expected
    BY <1>0, <1>2 DEF ReadHead, WriteTree, Goto, tree, Night
  <2> QED  BY <1>0, <2>1 DEF CommitInv, Committing, NoReturn
<1>3. CASE GitCommit
  <2>1. pc = "commit" /\ UNCHANGED <<work, index, night>> /\ exit' # "ok"
    BY <1>0, <1>3 DEF GitCommit, Stop
  <2>2. CASE index = HeadTree
    <3>1. pc' \in {"release", "abort"}
      BY <1>3, <2>2 DEF GitCommit, Stop
    <3> QED  BY <1>0, <2>1, <3>1 DEF CommitInv, Committing
  <2>3. CASE index # HeadTree
    <3>1. head' = Append(head, [tree |-> index, by |-> "night"]) /\ pc' = "parse"
      BY <1>3, <2>3 DEF GitCommit, Goto
    <3>2. /\ Len(head') = Len(head) + 1
          /\ head'[Len(head')] = [tree |-> index, by |-> "night"]
      BY <3>1, CommitAppends
    <3>3. PICK k \in Nat : k = Len(head')
      BY <1>0, <3>2
    <3>4. k \in 2..Len(head') /\ OwnCommit(k)'
      <4>1. \A i \in k..Len(head') : head'[i].tree = index /\ head'[i].by = "night"
        BY <1>0, <3>2, <3>3
      <4>2. k \in k..Len(head') /\ k \in 2..Len(head')
        BY <1>0, <3>2, <3>3
      <4>3. HeadTree' = index
        BY <3>2 DEF HeadTree
      <4> QED  BY <2>1, <4>1, <4>2, <4>3 DEF OwnCommit
    <3>5. night.paths \subseteq night.touched /\ \A f \in night.paths : NoReturn(f)'
      BY <2>1 DEF CommitInv, Committing, NoReturn
    <3> QED  BY <1>0, <2>1, <3>1, <3>4, <3>5 DEF CommitInv, Committing
  <2> QED  BY <2>2, <2>3
<1>4. CASE ReadCommit
  <2>1. /\ pc = "parse" /\ pc' = "committed" /\ UNCHANGED <<work, index, head, exit>>
        /\ night'.commit = Len(head) /\ night'.paths = night.paths
        /\ night'.touched = night.touched /\ night'.expected = night.expected
    BY <1>0, <1>4 DEF ReadCommit, Goto, tree, Night
  <2>2. PICK k \in 2..Len(head) : OwnCommit(k)
    BY <2>1 DEF CommitInv
  <2>3. OwnCommit(k)' /\ night'.commit \in k..Len(head')
    BY <1>0, <2>1, <2>2 DEF OwnCommit, HeadTree
  <2>4. \E j \in 2..Len(head') : OwnCommit(j)' /\ night'.commit \in j..Len(head')
    BY <2>1, <2>2, <2>3
  <2> QED  BY <1>0, <2>1, <2>4 DEF CommitInv, Committing, NoReturn
<1>5. CASE VerifyCommitted
  <2>1. /\ pc = "committed" /\ pc' \in {"clean", "rollback"} /\ exit' = exit
        /\ UNCHANGED <<work, index, head, night>>
    BY <1>5 DEF VerifyCommitted, Goto, Quietly, tree
  <2>2. ASSUME pc' = "clean"
        PROVE  Published
    <3> DEFINE c == night.commit
               diff == Diff(head[c].tree, head[c - 1].tree)
    <3>1. CommittedVerified
      BY <1>5, <2>2 DEF VerifyCommitted, Goto
    <3>2. PICK k \in 2..Len(head) : OwnCommit(k) /\ c \in k..Len(head)
      BY <2>1 DEF CommitInv
    <3>3. diff = night.paths /\ \A f \in diff : head[c].tree[f] = night.expected[f]
      BY <3>1 DEF CommittedVerified
    <3>4. c = k
      <4> SUFFICES ASSUME c > k  PROVE FALSE
        BY <1>0, <3>2
      <4>1. c - 1 \in k..Len(head) /\ c \in k..Len(head) /\ c - 1 <= c /\ c \in 2..Len(head)
        BY <1>0, <3>2
      <4>2. head[c].tree \in Tree /\ head[c - 1].tree \in Tree
        <5>1. \A i \in 1..Len(head) : head[i] \in Commits
          BY DEF TypeOK
        <5>2. c \in 1..Len(head) /\ c - 1 \in 1..Len(head)
          BY <1>0, <4>1
        <5> QED  BY <5>1, <5>2 DEF Commits
      <4>3. head[c].tree # head[c - 1].tree
        BY <4>1 DEF CommitInv, CommitsDiffer
      <4>4. PICK f \in Files : head[c].tree[f] # head[c - 1].tree[f]
        BY <4>2, <4>3 DEF Tree
      <4>5. f \in night.paths /\ head[c].tree[f] = night.expected[f]
        BY <3>3, <4>4 DEF Diff
      <4>6. head[c - 1].tree[f] = night.expected[f]
        BY <3>2, <4>1, <4>5 DEF OwnCommit
      <4> QED  BY <4>4, <4>5, <4>6
    <3>5. night.paths \subseteq night.touched
      BY <2>1 DEF CommitInv, Committing
    <3> QED  BY <3>2, <3>3, <3>4, <3>5 DEF Published, OwnCommit
  <2>3. pc' = "clean" => Published'
    BY <2>1, <2>2 DEF Published
  <2> QED  BY <1>0, <2>1, <2>3 DEF CommitInv, Committing
<1>6. CASE VerifyClean
  <2>1. /\ pc = "clean" /\ pc' \in {"release", "abort"} /\ head' = head
        /\ exit' = "ok" => pc' = "release"
    BY <1>6 DEF VerifyClean, Goto, Stop, tree
  <2>2. /\ night'.commit = night.commit /\ night'.touched = night.touched
        /\ night'.expected = night.expected
    BY <1>0, <1>6 DEF VerifyClean, Night
  <2>3. Published'
    BY <1>0, <2>1, <2>2 DEF CommitInv, Published
  <2> QED  BY <1>0, <2>1, <2>3 DEF CommitInv, Committing
<1>7. CASE ReleaseLock
  <2>1. /\ pc = "release" /\ pc' \in {"done", "abort"} /\ exit' = exit /\ head' = head
        /\ exit = "ok" => pc' = "done"
        /\ guarded' = guarded
    BY <1>7 DEF ReleaseLock, Goto, tree
  <2>2. /\ night'.commit = night.commit /\ night'.touched = night.touched
        /\ night'.expected = night.expected
    BY <1>0, <1>7 DEF ReleaseLock, Night
  <2>3. exit = "ok" => Published'
    BY <1>0, <2>1, <2>2 DEF CommitInv, Published
  <2>4. \A f \in Files : night.expected[f] \cap guarded = {}
    BY <2>1 DEF EditsInv, Aside
  <2> QED  BY <1>0, <2>1, <2>2, <2>3, <2>4 DEF CommitInv, Committing
<1>8. CASE /\ ~VerifyStaged /\ ~ReadHead /\ ~WriteTree /\ ~GitCommit /\ ~ReadCommit
           /\ ~VerifyCommitted /\ ~VerifyClean /\ ~ReleaseLock
  <2>1. pc' \notin Committing \cup {"clean"} /\ exit' # "ok"
    BY <1>0, <1>8, CommitElsewhere
  <2> QED  BY <1>0, <2>1 DEF CommitInv, Committing
<1> QED  BY <1>1, <1>2, <1>3, <1>4, <1>5, <1>6, <1>7, <1>8

LEMMA InitCommit ==
  ASSUME Init
  PROVE  CommitInv
<1>1. PICK s \in Starts : /\ work = Working(s)
                          /\ head = <<[tree |-> Committed(s), by |-> "session"]>>
  BY DEF Init
<1>2. PendingInv
  <2>1. /\ {"pending", "event", "late"} \subseteq Files
        /\ {"pending", "event", "late"} \cap s.dirty = {}
    BY StartsAssumption DEF Files, Events, Projections, Start
  <2>2. Committed(s)["pending"] = Text({"index"} \cup IF s.event = "committed" THEN {"event"} ELSE {})
    BY <2>1 DEF Committed
  <2>3. CASE s.event = "absent"
    <3>1. work["pending"] = Text({"index"} \cup {})
      BY <1>1, <2>1, <2>2, <2>3 DEF Working
    <3>2. work["event"] = {}
      BY <1>1, <2>1, <2>3 DEF Working, Committed
    <3>3. <<"late", 0>> \notin work["pending"]
      BY <3>1 DEF Text
    <3> QED  BY <3>1, <3>2, <3>3 DEF PendingInv, PendingTexts
  <2>4. CASE s.event # "absent"
    <3>1. work["pending"] = Text({"index", "event"})
      BY <1>1, <2>1, <2>4 DEF Working
    <3>2. <<"late", 0>> \notin work["pending"] /\ <<"event", 0>> \in work["pending"]
      BY <3>1 DEF Text
    <3>3. work["pending"] = Text({"index"} \cup {"event"})
      <4>1. {"index"} \cup {"event"} = {"index", "event"}
        OBVIOUS
      <4> QED  BY <3>1, <4>1
    <3> QED  BY <3>2, <3>3 DEF PendingInv, PendingTexts
  <2> QED  BY <2>3, <2>4
<1>3. CommitsDiffer
  BY <1>1 DEF CommitsDiffer
<1> QED  BY <1>2, <1>3 DEF Init, CommitInv, Committing

LEMMA CommitInvariant == Spec => []CommitInv
<1>1. Init => CommitInv
  BY InitCommit
<1>2. TypeOK /\ BranchInv /\ EditsInv /\ CommitInv /\ TypeOK' /\ [Next]_vars => CommitInv'
  BY TwoKinds, CommitBesideSessions, CommitOfRun
<1> QED  BY <1>1, <1>2, TypesAndBranch, EditsInvariant, PTL DEF Spec

\* The commit of a run that exits 0 is that run's output and takes over no edit of
\* a session (_verify_staged_manifest, _verify_committed_manifest).
THEOREM OutputCommitted == Spec => []CommitIsOutput
<1>1. CommitInv => CommitIsOutput
  <2> SUFFICES ASSUME CommitInv, pc = "done", exit = "ok"
               PROVE  LET commit == head[night.commit]
                          diff   == Diff(commit.tree, head[night.commit - 1].tree)
                      IN  /\ commit.by = "night"
                          /\ diff \subseteq night.touched
                          /\ \A f \in diff : /\ commit.tree[f] = night.expected[f]
                                             /\ commit.tree[f] \cap guarded = {}
    BY DEF CommitIsOutput
  <2>1. Published /\ \A f \in Files : night.expected[f] \cap guarded = {}
    BY DEF CommitInv
  <2> QED  BY <2>1 DEF Published, Diff
<1> QED  BY <1>1, CommitInvariant, PTL

-----------------------------------------------------------------------------
\* The report the morning reminder shows.

\* None of these marks is of an earlier run of the day.
Unmarked(marks) == {<<"clean", 0>>, <<"attention", 0>>} \cap marks = {}

\* The first pass of the report has overwritten that of an earlier run.
Reporting == {"doctor", "report2", "verify", "unexpected", "add", "manifest", "head", "tree",
              "commit"}

Disowned == \E r \in 0..MaxRuns : <<"aborted", r>> \in work["report"]

\* What the runner commits is of a run since the start.
CommittedReports ==
    /\ head[1].by = "session"
    /\ \A i \in ReportCommits : Unmarked(head[i].tree["report"])

\* A success in the report that no mark disowns is of a run that ended with 0, was
\* cut short, or is on.
TodaysReport ==
    /\ pc # "idle" => run >= 1
    /\ pc \in Reporting \/ (pc = "report1" /\ part = "touch") => Unmarked(work["report"])
    /\ pc \in {"head", "tree", "commit"} =>
          index["report"] = HeadTree["report"] \/ Unmarked(index["report"])
    /\ \/ Disowned
       \/ \A r \in Successes \ {0} : r \in succeeded \cup cut \/ (Running /\ r = run)

LEMMA TodayBesideSessions ==
  ASSUME TypeOK, TodaysReport, SessionStep
  PROVE  TodaysReport'
<1>1. UNCHANGED <<pc, part, run, succeeded, cut>>
  BY SessionBranch
<1>2. /\ \/ work'["report"] = work["report"]
         \/ \E n : work'["report"] = work["report"] \cup {<<"edit", n>>}
      /\ \/ index'["report"] \in {index["report"], work["report"]} /\ head' = head
         \/ index'["report"] = HeadTree'["report"]
  BY ReportEdited
<1>3. \A m : m[1] # "edit" => (m \in work'["report"] <=> m \in work["report"])
  <2>1. \A n : <<"edit", n>>[1] = "edit"
    OBVIOUS
  <2> QED  BY <1>2, <2>1
<1>4. \A r : /\ <<"clean", r>> \in work'["report"] <=> <<"clean", r>> \in work["report"]
             /\ <<"attention", r>> \in work'["report"] <=> <<"attention", r>> \in work["report"]
             /\ <<"aborted", r>> \in work'["report"] <=> <<"aborted", r>> \in work["report"]
  BY <1>3
<1>5. /\ Unmarked(work["report"])' <=> Unmarked(work["report"])
      /\ Successes' = Successes /\ Disowned' = Disowned
  BY <1>4 DEF Unmarked, Successes, Disowned
<1>6. Running' = Running
  BY <1>1 DEF Running
<1>7. ASSUME pc \in {"head", "tree", "commit"}
      PROVE  index'["report"] = HeadTree'["report"] \/ Unmarked(index'["report"])
  <2>1. Unmarked(work["report"])
    BY <1>7 DEF TodaysReport, Reporting
  <2>2. index["report"] = HeadTree["report"] \/ Unmarked(index["report"])
    BY <1>7 DEF TodaysReport
  <2>3. head' = head => HeadTree' = HeadTree
    BY DEF HeadTree
  <2> QED  BY <1>2, <2>1, <2>2, <2>3
<1>8. Unmarked(index["report"])' <=> Unmarked(index'["report"])
  BY DEF Unmarked
<1> QED  BY <1>1, <1>5, <1>6, <1>7, <1>8 DEF TodaysReport

\* A step of the runner that leaves the report as it is.
LEMMA TodayStays ==
  ASSUME TypeOK, TodaysReport, pc # "idle", run' = run,
         work'["report"] = work["report"],
         succeeded \subseteq succeeded', cut \subseteq cut',
         pc' \in Reporting => pc \in Reporting \/ (pc = "report1" /\ part = "touch"),
         pc' = "report1" => part' # "touch",
         pc' \in {"head", "tree", "commit"} =>
            pc \in {"head", "tree", "commit"} /\ index' = index /\ head' = head,
         pc' # "idle",
         pc' = "done" => run \in succeeded' \cup cut' \/ Disowned \/ ~Running
  PROVE  TodaysReport'
<1>1. Successes' = Successes /\ Disowned' = Disowned
  BY DEF Successes, Disowned
<1>2. Running' <=> pc' # "done"
  BY DEF Running
<1>3. Unmarked(work["report"])' = Unmarked(work["report"])
  BY DEF Unmarked
<1>4. run >= 1
  BY DEF TodaysReport
<1>5. pc' \in {"head", "tree", "commit"} =>
        (index["report"] = HeadTree["report"] \/ Unmarked(index["report"]))'
  BY DEF TodaysReport, HeadTree, Unmarked
<1>6. Disowned' \/ \A r \in Successes' \ {0} : r \in succeeded' \cup cut' \/ (Running' /\ r = run')
  BY <1>1, <1>2 DEF TodaysReport, Running
<1> QED  BY <1>3, <1>4, <1>5, <1>6 DEF TodaysReport

LEMMA TodayOfRun ==
  ASSUME TypeOK, ReportInv, TodaysReport, RunnerStep
  PROVE  TodaysReport'
<1> USE DEF Tree
<1>0. /\ work \in Tree /\ index \in Tree /\ night \in Night /\ run \in 0..MaxRuns /\ MaxRuns \in Nat
      /\ {"pending", "apply", "page", "report"} \subseteq Files
      /\ part # "guard" => pc \in DOMAIN Output
  BY BoundsAssumption DEF TypeOK, Files, Events, Projections
<1>1. CASE Begin
  <2>1. /\ run' = run + 1 /\ pc' = "status" /\ UNCHANGED <<work, succeeded, cut>>
        /\ ~Running
    BY <1>1 DEF Begin, Goto, tree, Running
  <2>2. Successes' = Successes /\ Disowned' = Disowned
    BY <2>1 DEF Successes, Disowned
  <2>3. run' >= 1
    BY <1>0, <2>1
  <2> QED  BY <2>1, <2>2, <2>3 DEF TodaysReport, Reporting
<1>2. CASE \/ ApplyEvent \/ RebuildPending \/ ApplyNeedsRepair
  <2>1. work'["report"] = work["report"]
    BY <1>0, <1>2 DEF ApplyEvent, RebuildPending, ApplyNeedsRepair
  <2>2. /\ pc \in {"apply", "rebuild"} /\ UNCHANGED <<run, succeeded, cut>>
        /\ pc' \in {"touch", "rebuilt", "release", "abort"}
    BY <1>2 DEF ApplyEvent, RebuildPending, ApplyNeedsRepair, Goto, Stop, history
  <2> QED  BY <2>1, <2>2, TodayStays DEF Reporting
<1>3. CASE \/ PreflightStatus \/ PreflightLock \/ CaptureBaseline \/ AcquireLock
           \/ CountBefore \/ ListPending \/ ApplyManually \/ ApplyReconciled
           \/ TouchApplied \/ NextAfterApply \/ NextAfterReconciled \/ TouchRebuilt
           \/ CollectMetrics
  <2>1. /\ UNCHANGED <<work, run, succeeded, cut>>
        /\ pc \notin {"idle", "done"}
    BY <1>3 DEF PreflightStatus, PreflightLock, CaptureBaseline, AcquireLock, CountBefore,
       ListPending, ApplyManually, ApplyReconciled, TouchApplied, NextAfterApply,
       NextAfterReconciled, NextPending, TouchRebuilt, CollectMetrics, Test, Quietly, tree, history
  <2>2. /\ pc' \notin Reporting \cup {"idle", "done"}
        /\ pc' = "report1" => part' # "touch"
    <3>1. \/ pc' \notin Reporting \cup {"idle", "done", "report1"}
          \/ pc' = "report1" /\ pc = "metrics" /\ part' = part
      BY <1>3 DEF PreflightStatus, PreflightLock, CaptureBaseline, AcquireLock, CountBefore,
         ListPending, ApplyManually, ApplyReconciled, TouchApplied, NextAfterApply,
         NextAfterReconciled, NextPending, TouchRebuilt, CollectMetrics, Test, Goto, Stop, Reporting
    <3>2. "metrics" \notin DOMAIN Output
      BY OutputFiles
    <3> QED  BY <1>0, <3>1, <3>2 DEF Reporting
  <2>3. {"head", "tree", "commit"} \subseteq Reporting
    BY DEF Reporting
  <2> QED  BY <2>1, <2>2, <2>3, TodayStays
<1>4. CASE GuardOutput
  <2>1. /\ UNCHANGED <<work, index, head, run, succeeded>> /\ pc \in DOMAIN Output
        /\ part = "guard"
        /\ \/ pc' = pc /\ part' = "write" /\ cut' = cut
           \/ pc' \in {"release", "abort"} /\ cut' = cut
           \/ pc' = "done" /\ cut' = cut \cup {run}
    BY <1>4 DEF GuardOutput, StopRendering, Stop, Crash, tree, history
  <2>2. pc \notin {"idle", "done", "head", "tree", "commit"}
    BY <2>1, OutputFiles
  <2> QED  BY <2>1, <2>2, TodayStays DEF Reporting
<1>5. CASE WriteOutput
  <2>1. /\ UNCHANGED <<pc, run, index, head, succeeded, cut>> /\ pc \in DOMAIN Output
        /\ part = "write" /\ part' = "touch"
        /\ work' = [work EXCEPT ![Output[pc]] = Rendered(pc)]
    BY <1>0, <1>5 DEF WriteOutput, history
  <2>2. /\ pc \in {"log", "orientation", "report1", "report2", "aborted"}
        /\ pc \notin {"idle", "done", "head", "tree", "commit"} /\ run >= 1
    BY <2>1, OutputFiles DEF TodaysReport
  <2>3. CASE pc \in {"log", "orientation"}
    <3>1. work'["report"] = work["report"]
      BY <1>0, <2>1, <2>3 DEF Output
    <3> QED  BY <2>1, <2>2, <2>3, <3>1, TodayStays DEF Reporting
  <2>4. CASE pc \in {"report1", "aborted"}
    <3>1. work'["report"] = {<<"aborted", run>>}
      BY <1>0, <2>1, <2>4 DEF Output, Rendered
    <3>2. Disowned' /\ Unmarked(work["report"])'
      BY <1>0, <3>1 DEF Disowned, Unmarked
    <3> QED  BY <2>1, <2>2, <3>2 DEF TodaysReport
  <2>5. CASE pc = "report2"
    <3>1. \/ work'["report"] = {<<"clean", run>>}
          \/ work'["report"] = {<<"attention", run>>}
      BY <1>0, <2>1, <2>5 DEF Output, Rendered
    <3>2. Unmarked(work["report"])' /\ Successes' \subseteq {run}
      BY <1>0, <2>2, <3>1 DEF Unmarked, Successes
    <3>3. Running' /\ run' = run
      BY <2>1, <2>2 DEF Running
    <3> QED  BY <2>1, <2>2, <3>2, <3>3 DEF TodaysReport
  <2> QED  BY <2>2, <2>3, <2>4, <2>5
<1>6. CASE TouchOutput
  <2>1. /\ UNCHANGED <<work, run, succeeded, cut>> /\ pc \in DOMAIN Output
        /\ part = "touch" \/ pc # "report1"
        /\ part' = "guard" /\ pc' = After[pc] /\ part = "touch"
    BY <1>0, <1>6 DEF TouchOutput, tree, history
  <2>2. \/ pc' \in {"orientation", "metrics"}
        \/ pc' = "doctor" /\ pc = "report1"
        \/ pc' = "verify" /\ pc = "report2"
        \/ pc' = "done" /\ pc = "aborted"
    BY <2>1, OutputFiles DEF After
  <2>3. pc = "aborted" => Disowned
    BY <1>0, <2>1 DEF ReportInv, Disowned
  <2>4. pc # "idle"
    BY <2>1, OutputFiles
  <2> QED  BY <2>1, <2>2, <2>3, <2>4, TodayStays DEF Reporting
<1>7. CASE \/ RunDoctor \/ VerifyLock \/ RefuseUnexpected \/ StageOutput
           \/ ReadHead \/ WriteTree \/ GitCommit \/ ReadCommit \/ VerifyCommitted
           \/ CheckRollback \/ UpdateRef \/ ReadTree \/ VerifyClean \/ StepFails
           \/ VerificationFails
  <2>1. /\ UNCHANGED <<work, run, succeeded, cut>>
        /\ pc \notin {"idle", "done"}
    BY <1>7 DEF RunDoctor, VerifyLock, RefuseUnexpected, StageOutput, ReadHead, WriteTree,
       GitCommit, ReadCommit, VerifyCommitted, CheckRollback, UpdateRef, ReadTree, VerifyClean,
       StepFails, VerificationFails, Running, Test, Quietly, tree, history
  <2>2. /\ pc' \notin {"idle", "done", "report1"}
        /\ pc' \in Reporting => pc \in Reporting
        /\ pc' \in {"head", "tree", "commit"} =>
              pc \in {"head", "tree", "commit"} /\ index' = index /\ head' = head
    BY <1>7 DEF RunDoctor, VerifyLock, RefuseUnexpected, StageOutput, ReadHead, WriteTree,
       GitCommit, ReadCommit, VerifyCommitted, CheckRollback, UpdateRef, ReadTree, VerifyClean,
       StepFails, VerificationFails, Test, Goto, Stop, tree, Reporting
  <2> QED  BY <2>1, <2>2, TodayStays
<1>8. CASE VerifyStaged
  <2>1. /\ pc = "manifest" /\ UNCHANGED <<work, index, head, run, succeeded, cut>>
        /\ pc' \in {"head", "release", "abort"}
    BY <1>8 DEF VerifyStaged, Goto, Stop, tree, history
  <2>2. ASSUME pc' = "head"
        PROVE  index["report"] = HeadTree["report"] \/ Unmarked(index["report"])
    <3>1. StagedVerified
      BY <1>8, <2>2 DEF VerifyStaged, Stop
    <3>2. \/ index["report"] = HeadTree["report"]
          \/ index["report"] = work["report"]
      BY <1>0, <3>1 DEF StagedVerified, Diff
    <3>3. Unmarked(work["report"])
      BY <2>1 DEF TodaysReport, Reporting
    <3> QED  BY <3>2, <3>3
  <2>3. /\ Successes' = Successes /\ Disowned' = Disowned /\ HeadTree' = HeadTree
        /\ Running /\ Running' /\ pc \in Reporting
    BY <2>1 DEF Successes, Disowned, HeadTree, Running, Reporting
  <2>4. pc' # "report1" /\ pc' \notin {"tree", "commit"}
    BY <2>1
  <2> QED  BY <2>1, <2>2, <2>3, <2>4 DEF TodaysReport, Unmarked
<1>9. CASE ReleaseLock
  <2>1. /\ UNCHANGED <<work, run, cut>> /\ pc = "release"
        /\ \/ pc' = "done" /\ succeeded' = succeeded \cup {run}
           \/ pc' = "abort" /\ succeeded' = succeeded
    BY <1>9 DEF ReleaseLock, Goto, tree
  <2> QED  BY <2>1, TodayStays DEF Reporting
<1>10. CASE StartAbort \/ TouchReport \/ RestageReport
  <2>1. /\ UNCHANGED <<work, run, succeeded, cut>>
        /\ pc \in {"abort", "retouch", "restage"}
        /\ pc' \in {"conflict", "aborted", "restage", "restaged"}
    BY <1>10 DEF StartAbort, TouchReport, RestageReport, Goto, Quietly, tree, history
  <2> QED  BY <2>1, TodayStays DEF Reporting
<1>11. CASE PutReportAside
  <2>1. /\ work'["report"] = {} /\ pc' = "rewrite" /\ run' = run /\ pc # "idle"
    BY <1>0, <1>11 DEF PutReportAside, Goto
  <2>2. Successes' = {}
    BY <2>1 DEF Successes
  <2> QED  BY <2>1, <2>2 DEF TodaysReport, Reporting
<1>12. CASE RewriteReport
  <2>1. /\ work'["report"] = {<<"aborted", run>>} /\ pc' = "retouch" /\ run' = run /\ pc # "idle"
    BY <1>0, <1>12 DEF RewriteReport, Goto
  <2>2. Disowned'
    BY <1>0, <2>1 DEF Disowned
  <2> QED  BY <2>1, <2>2 DEF TodaysReport, Reporting
<1>13. CASE VerifyRestaged \/ RestageFails
  <2>1. /\ UNCHANGED <<work, run, succeeded, cut>> /\ pc \in {"restaged", "restage"} /\ pc' = "done"
    BY <1>13 DEF VerifyRestaged, RestageFails, Goto, history
  <2>2. Disowned
    BY <1>0, <2>1 DEF ReportInv, Restaging, Disowned
  <2> QED  BY <2>1, <2>2, TodayStays DEF Reporting
<1>14. CASE AbortFails \/ Kill
  <2>1. /\ UNCHANGED <<work, run, succeeded>> /\ cut' = cut \cup {run} /\ pc # "idle" /\ pc' = "done"
    BY <1>14 DEF AbortFails, Kill, Crash, Running, tree
  <2> QED  BY <2>1, TodayStays DEF Reporting
<1> QED
  BY <1>1, <1>2, <1>3, <1>4, <1>5, <1>6, <1>7, <1>8, <1>9, <1>10, <1>11, <1>12, <1>13, <1>14
  DEF RunnerStep, Runner

LEMMA StepReports ==
  ASSUME TypeOK, BranchInv, TodaysReport, CommittedReports, [Next]_vars
  PROVE  CommittedReports'
<1>1. head \in Seq(Commits) /\ Len(head) \in Nat /\ Len(head) >= 1
  BY DEF TypeOK
<1>2. ASSUME NEW commit, head' = Append(head, commit),
             \/ commit.by # "night"
             \/ commit.tree["report"] = HeadTree["report"]
             \/ Unmarked(commit.tree["report"])
      PROVE  CommittedReports'
  <2>1. /\ Len(head') = Len(head) + 1 /\ head'[Len(head')] = commit
        /\ DOMAIN head' = 1..Len(head')
        /\ \A i \in 1..Len(head) : head'[i] = head[i]
    BY <1>1, <1>2, CommitAppends
  <2>2. head'[1] = head[1]
    BY <1>1, <2>1
  <2>3. ASSUME NEW i \in ReportCommits'
        PROVE  Unmarked(head'[i].tree["report"])
    <3>1. /\ i \in 1..Len(head') /\ head'[i].by = "night"
          /\ head'[i].tree["report"] # head'[i - 1].tree["report"]
      BY <2>1 DEF ReportCommits
    <3>2. i # 1
      BY <2>2, <3>1 DEF CommittedReports
    <3>3. CASE i = Len(head')
      BY <1>1, <1>2, <2>1, <3>1, <3>3 DEF HeadTree
    <3>4. CASE i # Len(head')
      <4>1. i \in 1..Len(head) /\ i - 1 \in 1..Len(head)
        BY <1>1, <2>1, <3>1, <3>2, <3>4
      <4>2. i \in ReportCommits
        BY <1>1, <2>1, <3>1, <4>1 DEF ReportCommits
      <4> QED  BY <2>1, <4>1, <4>2 DEF CommittedReports
    <3> QED  BY <3>3, <3>4
  <2> QED  BY <2>2, <2>3 DEF CommittedReports, Unmarked
<1>3. CASE GitCommit
  <2>1. pc = "commit" /\ (head' = head \/ head' = Append(head, [tree |-> index, by |-> "night"]))
    BY <1>3 DEF GitCommit
  <2>2. index["report"] = HeadTree["report"] \/ Unmarked(index["report"])
    BY <2>1 DEF TodaysReport
  <2>3. CASE head' = head
    BY <2>3 DEF CommittedReports, ReportCommits, Unmarked
  <2> QED  BY <1>2, <2>1, <2>2, <2>3
<1>4. ASSUME NEW files \in SUBSET Files, SessionCommit(files)
      PROVE  CommittedReports'
  <2>1. head' = Append(head, [tree |-> index', by |-> "session"])
    BY <1>4 DEF SessionCommit
  <2> QED  BY <1>2, <2>1
<1>5. CASE UpdateRef /\ head' # head
  <2>1. /\ Len(head) = night.before + 1 /\ night.before \in Nat \ {0}
        /\ head' = SubSeq(head, 1, night.before)
    BY <1>5, RollbackTakesOne
  <2>2. /\ Len(head') = night.before /\ \A i \in 1..night.before : head'[i] = head[i]
        /\ DOMAIN head' = 1..night.before /\ DOMAIN head = 1..Len(head)
    BY <1>1, <2>1
  <2>3. head'[1] = head[1]
    BY <2>1, <2>2
  <2>4. ASSUME NEW i \in ReportCommits'
        PROVE  i \in ReportCommits /\ head'[i] = head[i]
    <3>1. /\ i \in 1..night.before /\ head'[i].by = "night"
          /\ head'[i].tree["report"] # head'[i - 1].tree["report"]
      BY <2>2 DEF ReportCommits
    <3>2. i # 1
      BY <2>3, <3>1 DEF CommittedReports
    <3>3. i - 1 \in 1..night.before
      BY <2>1, <3>1, <3>2
    <3> QED  BY <1>1, <2>1, <2>2, <3>1, <3>3 DEF ReportCommits
  <2> QED  BY <2>3, <2>4 DEF CommittedReports, Unmarked
<1>6. CASE head' = head
  BY <1>6 DEF CommittedReports, ReportCommits, Unmarked
<1> QED  BY <1>3, <1>4, <1>5, <1>6, BranchUntouched

\* A reminder that calls the night routine shows the report of a run that exited
\* 0, or that was cut short after its commit (morning-reminder.sh).
THEOREM MorningHonest == Spec => []MorningIsHonest
<1>1. Init => TodaysReport /\ CommittedReports
  <2> SUFFICES ASSUME Init  PROVE TodaysReport /\ CommittedReports
    OBVIOUS
  <2>1. PICK s \in Starts : /\ work = Working(s)
                            /\ head = <<[tree |-> Committed(s), by |-> "session"]>>
    BY DEF Init
  <2>2. CommittedReports
    <3>1. head[1].by = "session" /\ DOMAIN head = {1}
      BY <2>1
    <3> QED  BY <3>1 DEF CommittedReports, ReportCommits
  <2>3. \A r \in Successes : r = 0
    <3>1. "report" \in Files
      BY DEF Files
    <3>2. work["report"] \subseteq Text({"clean"}) \cup Text({"edit"})
      BY <2>1, <3>1 DEF Working, Committed
    <3> QED  BY <3>2 DEF Successes, Text
  <2> QED  BY <2>2, <2>3 DEF Init, TodaysReport, Reporting
<1>2. TypeOK /\ BranchInv /\ ReportInv /\ TodaysReport /\ CommittedReports /\ [Next]_vars
        => (TodaysReport /\ CommittedReports)'
  BY TwoKinds, TodayBesideSessions, TodayOfRun, StepReports
<1>3. TodaysReport /\ CommittedReports => MorningIsHonest
  <2> SUFFICES ASSUME TodaysReport, CommittedReports, ~Running, Routine, NEW r \in Successes
               PROVE  r \in succeeded \cup cut
    BY DEF MorningIsHonest
  <2>1. PICK i \in ReportCommits : work["report"] = head[i].tree["report"]
    BY DEF Routine
  <2>2. Unmarked(work["report"])
    BY <2>1 DEF CommittedReports
  <2>3. r # 0
    BY <2>2 DEF Successes, Unmarked
  <2>4. ~Disowned
    BY DEF Routine, Disowned
  <2> QED  BY <2>3, <2>4 DEF TodaysReport
<1> QED  BY <1>1, <1>2, <1>3, TypesAndBranch, ReportInvariant, PTL DEF Spec

=============================================================================
