-------------------------- MODULE CheckpointProofs --------------------------
(***************************************************************************)
(* Theorems about Checkpoint, for any sets of paths and contents and any   *)
(* number of commands and moves: type correctness, the scope of approvals, *)
(* the ownership of what is staged, and that the commit is what was        *)
(* approved.                                                               *)
(***************************************************************************)
EXTENDS Checkpoint, TLAPS

PreflightPlaces == {"preflightStatus", "preflightHead", "preflightSave"}
AdoptPlaces == {"adoptIndex", "adoptEvents", "adoptSave"}
BeforeAdd == {"prepareStatus", "prepareAdd"}
PreparePlaces == {"prepareEvents", "prepareIndex"} \cup BeforeAdd \cup AfterAdd
VerifyPlaces == {"verifyEvents", "verifyStaged", "verifyRecords", "verifyRest"}

-----------------------------------------------------------------------------
\* What the statuses say of a file, now and after a step (staged_changes,
\* working_changes).
LEMMA StagedFacts ==
    /\ StagedStatuses \in [Files -> Statuses]
    /\ Dirty(StagedStatuses) = {f \in Files : index[f] # head[f]}
    /\ Staged = {f \in Files : index[f] # head[f]}
    /\ Staged' = {f \in Files : index'[f] # head'[f]}
BY DEF StagedStatuses, StagedStatus, Statuses, Dirty, Staged, Clean

\* The working tree's statuses, and what makes a file untracked (working_changes).
LEMMA WorkFacts ==
    /\ WorkStatuses \in [Files -> Statuses]
    /\ Dirty(WorkStatuses) = {f \in Files : work[f] # index[f]}
    /\ \A f \in Files : WorkStatus(f) = "?" => index[f] = Absent /\ work[f] # Absent
BY DEF WorkStatuses, WorkStatus, Statuses, Dirty, Clean

-----------------------------------------------------------------------------
\* Every step of every command, and every move of others, keeps the types
\* (wiki_checkpoint.py, all of it).
THEOREM Typing == Spec => []TypeOK
<1>1. Init => TypeOK
  <2> SUFFICES ASSUME Init
               PROVE  TypeOK
    OBVIOUS
  <2>1. NoTree \in [Files -> Held] /\ NoEvents \in [Events -> Held]
    BY DEF NoTree, NoEvents, Held
  <2>2. NoStatus \in [Files -> Statuses]
    BY DEF NoStatus, Statuses, Clean
  <2> QED
    BY <2>1, <2>2, CheckpointAssumption
       DEF Init, TypeOK, NoState, NoLocal, Phases, Places, Ends
<1>2. TypeOK /\ [Next]_vars => TypeOK'
  <2> SUFFICES ASSUME TypeOK, [Next]_vars
               PROVE  TypeOK'
    OBVIOUS
  <2>a. StagedStatuses \in [Files -> Statuses] /\ WorkStatuses \in [Files -> Statuses]
    BY StagedFacts, WorkFacts
  <2>b. NoLocal \in [head : Nat, paths : SUBSET Files, status : [Files -> Statuses],
                     current : [Events -> Held]]
    BY DEF NoLocal, NoStatus, NoEvents, Statuses, Clean, Held
  <2>c. Events \subseteq Files /\ Handoffs \subseteq Events /\ Absent \in Held
    BY DEF Events, Files, Held
  <2>d. EventSnapshot \in [Events -> Held]
    BY <2>c DEF EventSnapshot, TypeOK
  <2> USE DEF TypeOK, Places, Ends, Phases
  <2>1. CASE Preflight
    <3>1. CASE PreflightIndex \/ PreflightStatus \/ PreflightHead
      BY <3>1, <2>a, <2>b DEF PreflightIndex, PreflightStatus, PreflightHead, Begin, Goes, Then,
         Over, Looks, repo, ghosts
    <3>2. CASE PreflightSave
      <4>1. Dirty(local.status) \in SUBSET Files
        BY DEF Dirty
      <4>2. saved' = [phase |-> "preflight", head |-> local.head, status |-> local.status,
                      ingress |-> Dirty(local.status), approved |-> {},
                      baseline |-> EventSnapshot, manifest |-> {}, records |-> NoTree]
        BY <3>2 DEF PreflightSave, NoState
      <4>3. NoTree \in [Files -> Held]
        BY <2>c DEF NoTree
      <4> QED  BY <3>2, <4>1, <4>2, <4>3, <2>b, <2>d DEF PreflightSave, Over, repo, ghosts
    <3> QED  BY <2>1, <3>1, <3>2 DEF Preflight
  <2>2. CASE ApproveInitial \/ \E f \in Files : Approve(f)
    <3> DEFINE SavedType == [phase : Phases, head : Nat, status : [Files -> Statuses],
                             ingress : SUBSET Files, approved : SUBSET Files,
                             baseline : [Events -> Held], manifest : SUBSET Files,
                             records : [Files -> Held]]
    <3>1. ASSUME NEW paths \in SUBSET Files, ApproveSaves(paths)
          PROVE  saved' \in SavedType
      BY <3>1 DEF ApproveSaves
    <3>2. saved' \in SavedType
      <4>1. saved \in SavedType
        OBVIOUS
      <4>2. CASE ApproveInitial
        BY <3>1, <4>1, <4>2 DEF ApproveInitial
      <4>3. ASSUME NEW f \in Files, Approve(f)
            PROVE  saved' \in SavedType
        BY <3>1, <4>1, <4>3 DEF Approve
      <4> QED  BY <2>2, <4>2, <4>3
    <3>3. CASE ApproveInitial
      BY <3>2, <3>3, <2>b DEF ApproveInitial, ApproveSaves, Begin, Over, repo, ghosts
    <3>4. CASE \E f \in Files : Approve(f)
      BY <3>2, <3>4, <2>b DEF Approve, ApproveSaves, Begin, Over, repo, ghosts
    <3> QED  BY <2>2, <3>3, <3>4
  <2>3. CASE Adopt
    <3>1. ASSUME NEW selected \in SUBSET Handoffs, AdoptHead(selected)
          PROVE  TypeOK'
      BY <3>1, <2>b, <2>c DEF AdoptHead, Begin, Then, Over, Looks, repo, ghosts
    <3>2. CASE AdoptIndex \/ AdoptEvents
      BY <3>2, <2>b, <2>d DEF AdoptIndex, AdoptEvents, Goes, Then, Over, Looks, repo, ghosts
    <3>3. CASE AdoptSave
      <4>1. [f \in Files |-> IF f \in local.paths THEN "?" ELSE saved.status[f]]
               \in [Files -> Statuses]
        BY DEF Statuses
      <4>2. [e \in Events |-> IF e \in local.paths THEN local.current[e] ELSE saved.baseline[e]]
               \in [Events -> Held]
        OBVIOUS
      <4>3. Adopted \in [phase : Phases, head : Nat, status : [Files -> Statuses],
                         ingress : SUBSET Files, approved : SUBSET Files,
                         baseline : [Events -> Held], manifest : SUBSET Files,
                         records : [Files -> Held]]
        BY <4>1, <4>2 DEF Adopted
      <4> QED  BY <3>3, <4>3, <2>b DEF AdoptSave, Over, repo, ghosts
    <3> QED  BY <2>3, <3>1, <3>2, <3>3 DEF Adopt
  <2>4. CASE Prepare
    <3>1. CASE PrepareHead \/ PrepareEvents \/ PrepareIndex
      BY <3>1, <2>b DEF PrepareHead, PrepareEvents, PrepareIndex, Begin, Goes, Then, Over, Looks,
         repo, ghosts
    <3>2. CASE PrepareStatus
      <4>1. Dirty(WorkStatuses) \in SUBSET Files
        BY DEF Dirty
      <4> QED  BY <3>2, <4>1, <2>b DEF PrepareStatus, Then, Over, repo, ghosts
    <3>3. CASE PrepareAdd \/ PrepareAddFails
      BY <3>3 DEF PrepareAdd, PrepareAddFails, Then, Looks, repo, ghosts
    <3>4. CASE PrepareStaged \/ PrepareRest
      BY <3>4, <2>a DEF PrepareStaged, PrepareRest, Then, Looks, repo, ghosts
    <3>5. CASE PrepareSave
      <4>1. IndexRecords \in [Files -> Held]
        BY <2>c DEF IndexRecords
      <4> QED  BY <3>5, <4>1, <2>b DEF PrepareSave, Then, Over, repo, ghosts
    <3>6. CASE Cleanup \/ CleanupFails \/ Remaining
      BY <3>6, <2>b DEF Cleanup, CleanupFails, Remaining, Restored, Then, Over, Looks, repo, ghosts
    <3> QED  BY <2>4, <3>1, <3>2, <3>3, <3>4, <3>5, <3>6 DEF Prepare
  <2>5. CASE Verify
    BY <2>5, <2>a, <2>b DEF Verify, VerifyHead, VerifyEvents, VerifyStaged, VerifyRecords,
       VerifyRest, Begin, Goes, Then, Over, Looks, repo, ghosts
  <2>6. CASE Unstage \/ UnstageRest
    BY <2>6, <2>b DEF Unstage, UnstageRest, Restored, Begin, Then, Over, repo, ghosts
  <2>7. CASE Kill \/ GardenCommit
    <3>1. CASE Kill
      <4>1. cut' \in BOOLEAN
        BY <3>1 DEF Kill
      <4> QED  BY <3>1, <4>1, <2>b DEF Kill, Over, repo
    <3>2. CASE GardenCommit
      BY <3>2 DEF GardenCommit, ghosts
    <3> QED  BY <2>7, <3>1, <3>2
  <2>8. CASE Others
    <3> USE DEF Moves, Writes
    <3>1. ASSUME NEW f \in Files, NEW content \in Held, Edit(f, content)
          PROVE  TypeOK'
      BY <3>1 DEF Edit
    <3>2. ASSUME NEW h \in Handoffs, NEW content \in Contents, Emit(h, content)
          PROVE  TypeOK'
      <4>1. {h} \cup Generated \subseteq Files
        BY <2>c DEF Files
      <4> QED  BY <3>2, <4>1 DEF Emit, Held
    <3>3. ASSUME NEW a \in Applies, NEW page \in Pages, NEW content \in Contents,
                 Apply(a, page, content)
          PROVE  TypeOK'
      <4>1. {a, page} \cup Generated \subseteq Files
        BY DEF Files, Events
      <4> QED  BY <3>3, <4>1 DEF Apply, Held
    <3>4. ASSUME NEW f \in Files, Stage(f)
          PROVE  TypeOK'
      BY <3>4 DEF Stage
    <3>5. CASE OthersCommit
      <4>1. Staged \subseteq Files
        BY StagedFacts
      <4> QED  BY <3>5, <4>1 DEF OthersCommit
    <3> QED  BY <2>8, <3>1, <3>2, <3>3, <3>4, <3>5 DEF Others
  <2>9. CASE UNCHANGED vars
    BY <2>9 DEF vars
  <2> QED  BY <2>1, <2>2, <2>3, <2>4, <2>5, <2>6, <2>7, <2>8, <2>9 DEF Next, Batch
<1> QED  BY <1>1, <1>2, PTL DEF Spec

-----------------------------------------------------------------------------
\* Which phase the saved state is in while a command is at work: the guards of
\* the commands' beginnings stay true, since only the command itself saves.
PhaseInv ==
    /\ pc # "idle" => said = "running"
    /\ saved.phase = "none" => saved = NoState
    /\ pc \in PreflightPlaces => saved.phase = "none"
    /\ pc \in AdoptPlaces \cup PreparePlaces => Open
    /\ pc \in VerifyPlaces => saved.phase = "prepared"

\* No step leaves the phases, whoever moves while a command is at work.
LEMMA PhaseStep == TypeOK /\ PhaseInv /\ [Next]_vars => PhaseInv'
<1> SUFFICES ASSUME TypeOK, PhaseInv, [Next]_vars
             PROVE  PhaseInv'
  OBVIOUS
<1> USE DEF PhaseInv, Open, PreflightPlaces, AdoptPlaces, PreparePlaces, BeforeAdd, AfterAdd,
        VerifyPlaces, Begin, Goes, Then, Over, Looks, repo, ghosts
<1>1. CASE Preflight
  <2>1. CASE PreflightSave
    BY <2>1 DEF PreflightSave, NoState
  <2>2. CASE PreflightIndex \/ PreflightStatus \/ PreflightHead
    BY <2>2 DEF PreflightIndex, PreflightStatus, PreflightHead
  <2> QED  BY <1>1, <2>1, <2>2 DEF Preflight
<1>2. CASE ApproveInitial \/ \E f \in Files : Approve(f)
  BY <1>2 DEF ApproveInitial, Approve, ApproveSaves, TypeOK
<1>3. CASE Adopt
  BY <1>3 DEF Adopt, AdoptHead, AdoptIndex, AdoptEvents, AdoptSave, Adopted, TypeOK
<1>4. CASE Prepare
  <2>1. CASE PrepareSave
    BY <2>1 DEF PrepareSave, TypeOK
  <2>2. CASE \/ PrepareHead \/ PrepareEvents \/ PrepareIndex \/ PrepareStatus
             \/ PrepareAdd \/ PrepareAddFails
    BY <2>2 DEF PrepareHead, PrepareEvents, PrepareIndex, PrepareStatus, PrepareAdd, PrepareAddFails
  <2>3. CASE PrepareStaged \/ PrepareRest \/ Cleanup \/ CleanupFails \/ Remaining
    BY <2>3 DEF PrepareStaged, PrepareRest, Cleanup, CleanupFails, Remaining
  <2> QED  BY <1>4, <2>1, <2>2, <2>3 DEF Prepare
<1>5. CASE Verify
  BY <1>5 DEF Verify, VerifyHead, VerifyEvents, VerifyStaged, VerifyRecords, VerifyRest
<1>6. CASE Unstage \/ UnstageRest
  <2>1. CASE Unstage
    BY <2>1 DEF Unstage
  <2>2. CASE UnstageRest
    BY <2>2 DEF UnstageRest, TypeOK
  <2> QED  BY <1>6, <2>1, <2>2
<1>7. CASE Kill \/ GardenCommit
  BY <1>7 DEF Kill, GardenCommit
<1>8. CASE Others
  BY <1>8 DEF Others, Edit, Emit, Apply, Stage, OthersCommit, Writes, Moves
<1>9. CASE UNCHANGED vars
  BY <1>9 DEF vars
<1> QED  BY <1>1, <1>2, <1>3, <1>4, <1>5, <1>6, <1>7, <1>8, <1>9 DEF Next, Batch

-----------------------------------------------------------------------------
\* Where a path may come into the batch from.
ScopeInv ==
    /\ ApprovedIsScoped
    /\ saved.ingress \cap Foreign = {}
    /\ pc \in {"preflightHead", "preflightSave"} =>
         Dirty(local.status) \subseteq Generated \cup Handoffs
    /\ pc \in AdoptPlaces => local.paths \subseteq Handoffs

\* No step takes a path out of the scope it must come from.
LEMMA ScopeStep == TypeOK /\ ScopeInv /\ [Next]_vars => ScopeInv'
<1> SUFFICES ASSUME TypeOK, ScopeInv, [Next]_vars
             PROVE  ScopeInv'
  OBVIOUS
<1> USE DEF ScopeInv, ApprovedIsScoped, AdoptPlaces, Begin, Goes, Then, Over, Looks, repo, ghosts
<1>1. CASE Preflight
  <2>1. CASE PreflightSave
    BY <2>1, CheckpointAssumption DEF PreflightSave, NoState
  <2>2. CASE PreflightStatus
    <3>1. CASE \A f \in Dirty(WorkStatuses) : Ingress(f)
      <4>1. Dirty(WorkStatuses) \subseteq Generated \cup Handoffs
        BY <3>1 DEF Ingress, Pending
      <4>2. pc' = "preflightHead" /\ local'.status = WorkStatuses /\ saved' = saved
        BY <2>2, <3>1 DEF PreflightStatus, TypeOK
      <4> QED  BY <4>1, <4>2 DEF Dirty
    <3>2. CASE ~\A f \in Dirty(WorkStatuses) : Ingress(f)
      BY <2>2, <3>2 DEF PreflightStatus
    <3> QED  BY <3>1, <3>2
  <2>3. CASE PreflightIndex
    BY <2>3 DEF PreflightIndex
  <2>4. CASE PreflightHead
    <3>1. local'.status = local.status /\ pc' = "preflightSave" /\ saved' = saved
      BY <2>4 DEF PreflightHead, TypeOK
    <3> QED  BY <2>4, <3>1 DEF PreflightHead, Dirty
  <2> QED  BY <1>1, <2>1, <2>2, <2>3, <2>4 DEF Preflight
<1>2. CASE ApproveInitial
  <2>1. pc' = "idle"
    BY <1>2 DEF ApproveInitial, ApproveSaves
  <2>2. /\ saved'.approved \in {saved.approved, saved.approved \cup saved.ingress}
        /\ saved'.ingress = saved.ingress
    BY <1>2 DEF ApproveInitial, ApproveSaves, TypeOK
  <2> QED  BY <2>1, <2>2
<1>3. ASSUME NEW f \in Files, Approve(f)
      PROVE  ScopeInv'
  <2>1. pc' = "idle" /\ saved'.ingress = saved.ingress
    BY <1>3 DEF Approve, ApproveSaves, TypeOK
  <2>2. \/ saved'.approved = saved.approved
        \/ saved'.approved = saved.approved \cup {f} /\ Approvable(f)
    BY <1>3 DEF Approve, ApproveSaves, TypeOK
  <2>3. Approvable(f) => f \notin Foreign /\ f \notin Handoffs
    BY CheckpointAssumption DEF Approvable
  <2> QED  BY <2>1, <2>2, <2>3
<1>4. CASE Adopt
  <2>1. CASE AdoptSave
    <3>1. local.paths \cap Foreign = {} /\ local.paths \subseteq Handoffs
      BY <2>1, CheckpointAssumption DEF AdoptSave
    <3>2. pc' = "idle"
      BY <2>1 DEF AdoptSave
    <3>3. \/ saved' = saved
          \/ /\ saved'.approved = saved.approved \cup local.paths
             /\ saved'.ingress = saved.ingress \cup local.paths
      <4>1. /\ Adopted.approved = saved.approved \cup local.paths
            /\ Adopted.ingress = saved.ingress \cup local.paths
        BY DEF Adopted, TypeOK
      <4> QED  BY <2>1, <4>1 DEF AdoptSave
    <3> QED  BY <3>1, <3>2, <3>3
  <2>2. ASSUME NEW selected \in SUBSET Handoffs, AdoptHead(selected)
        PROVE  ScopeInv'
    BY <2>2 DEF AdoptHead, TypeOK
  <2>3. CASE AdoptIndex \/ AdoptEvents
    BY <2>3 DEF AdoptIndex, AdoptEvents, TypeOK
  <2> QED  BY <1>4, <2>1, <2>2, <2>3 DEF Adopt
<1>5. CASE Prepare
  <2>1. CASE PrepareSave
    BY <2>1 DEF PrepareSave, TypeOK
  <2>2. CASE \/ PrepareHead \/ PrepareEvents \/ PrepareIndex \/ PrepareStatus
             \/ PrepareAdd \/ PrepareAddFails
    BY <2>2 DEF PrepareHead, PrepareEvents, PrepareIndex, PrepareStatus, PrepareAdd, PrepareAddFails
  <2>3. CASE PrepareStaged \/ PrepareRest \/ Cleanup \/ CleanupFails \/ Remaining
    BY <2>3 DEF PrepareStaged, PrepareRest, Cleanup, CleanupFails, Remaining
  <2> QED  BY <1>5, <2>1, <2>2, <2>3 DEF Prepare
<1>6. CASE Verify
  BY <1>6 DEF Verify, VerifyHead, VerifyEvents, VerifyStaged, VerifyRecords, VerifyRest
<1>7. CASE Unstage \/ UnstageRest
  BY <1>7 DEF Unstage, UnstageRest, TypeOK
<1>8. CASE Kill \/ GardenCommit
  BY <1>8 DEF Kill, GardenCommit, Dirty
<1>9. CASE Others \/ UNCHANGED vars
  BY <1>9 DEF Others, Edit, Emit, Apply, Stage, OthersCommit, Writes, Moves, vars, Dirty
<1> QED  BY <1>1, <1>2, <1>3, <1>4, <1>5, <1>6, <1>7, <1>8, <1>9 DEF Next, Batch

\* No command, in any order and number, brings a path into the batch that is out
\* of its scope, or a handoff that neither preflight nor adoption has seen.
THEOREM Scope == Spec => []ApprovedIsScoped
<1>1. Init => ScopeInv
  BY DEF Init, ScopeInv, ApprovedIsScoped, NoState, AdoptPlaces
<1>2. ScopeInv => ApprovedIsScoped
  BY DEF ScopeInv
<1> QED  BY <1>1, <1>2, Typing, ScopeStep, PTL DEF Spec

-----------------------------------------------------------------------------
\* Off HEAD in the index are the given paths and what others staged.
Settled(paths) == \A f \in Files \ (restaged \cup paths) : index[f] = head[f]

\* What prepare staged, from its git add to its save or its clean-up.
StageInv ==
    /\ PreparedIsStaged
    /\ pc = "prepareAdd" \/ pc \in AfterAdd =>
         manifestFile = local.paths /\ local.paths \subseteq saved.approved
    /\ pc \in {"prepareRest", "prepareSave"} => Dirty(local.status) = local.paths
    /\ pc \in BeforeAdd \cup {"remaining"} => Settled({})
    /\ pc \in AfterAdd => Settled(local.paths)
    /\ ~cut /\ pc \notin AfterAdd => Settled(saved.manifest)

\* Every step of prepare, of its clean-up, of unstage and of others keeps what is staged
\* accounted for.
LEMMA StageStep == TypeOK /\ PhaseInv /\ StageInv /\ [Next]_vars => StageInv'
<1> SUFFICES ASSUME TypeOK, PhaseInv, StageInv, [Next]_vars
             PROVE  StageInv'
  OBVIOUS
<1> USE DEF StageInv, PreparedIsStaged, Settled, BeforeAdd, AfterAdd
<1>1. CASE Preflight
  <2>1. CASE PreflightSave
    <3>1. /\ pc' = "idle" /\ saved'.phase = "preflight" /\ saved'.manifest = {}
          /\ UNCHANGED <<head, index, restaged, cut>>
      BY <2>1 DEF PreflightSave, Over, NoState, repo, ghosts
    <3>2. saved.manifest = {}
      BY <2>1 DEF PreflightSave, PhaseInv, PreflightPlaces, NoState
    <3>3. pc = "preflightSave"
      BY <2>1 DEF PreflightSave
    <3> QED  BY <3>1, <3>2, <3>3
  <2>2. CASE PreflightIndex \/ PreflightStatus \/ PreflightHead
    BY <2>2 DEF PreflightIndex, PreflightStatus, PreflightHead, Begin, Goes, Then, Over, Looks,
       repo, ghosts
  <2> QED  BY <1>1, <2>1, <2>2 DEF Preflight
<1>2. CASE ApproveInitial \/ \E f \in Files : Approve(f)
  <2>1. /\ pc = "idle" /\ pc' = "idle"
        /\ UNCHANGED <<head, index, manifestFile, restaged, cut>>
    BY <1>2 DEF ApproveInitial, Approve, ApproveSaves, Begin, Over, repo, ghosts
  <2>2. saved' = saved \/ (saved'.phase = "approved" /\ saved'.manifest = saved.manifest)
    BY <1>2 DEF ApproveInitial, Approve, ApproveSaves, TypeOK
  <2> QED  BY <2>1, <2>2
<1>3. CASE Adopt
  <2>1. CASE AdoptSave
    <3>1. /\ pc = "adoptSave" /\ pc' = "idle"
          /\ UNCHANGED <<head, index, manifestFile, restaged, cut>>
      BY <2>1 DEF AdoptSave, Over, repo, ghosts
    <3>2. Adopted.phase = "approved" /\ Adopted.manifest = saved.manifest
      BY DEF Adopted, TypeOK
    <3>3. saved' = saved \/ saved' = Adopted
      BY <2>1 DEF AdoptSave
    <3> QED  BY <3>1, <3>2, <3>3
  <2>2. CASE AdoptIndex \/ AdoptEvents \/ \E selected \in SUBSET Handoffs \ {{}} : AdoptHead(selected)
    BY <2>2 DEF AdoptHead, AdoptIndex, AdoptEvents, Begin, Goes, Then, Over, Looks, repo, ghosts
  <2> QED  BY <1>3, <2>1, <2>2 DEF Adopt
<1>4. CASE Prepare
  <2>1. CASE PrepareHead \/ PrepareEvents
    BY <2>1 DEF PrepareHead, PrepareEvents, Begin, Goes, Then, Over, Looks, repo, ghosts
  <2>2. CASE PrepareIndex
    <3>1. Staged = {f \in Files : index[f] # head[f]}
      BY StagedFacts
    <3>2. saved.phase # "prepared"
      BY <2>2 DEF PrepareIndex, PhaseInv, PreparePlaces, Open
    <3> QED  BY <2>2, <3>1, <3>2 DEF PrepareIndex, Goes, Then, Over, repo
  <2>3. CASE PrepareStatus
    <3>1. saved.phase # "prepared"
      BY <2>3 DEF PrepareStatus, PhaseInv, PreparePlaces, Open
    <3>2. pc = "prepareStatus" /\ UNCHANGED <<head, index, saved, restaged, cut>>
      BY <2>3 DEF PrepareStatus, repo, ghosts
    <3>3. CASE pc' = "idle"
      BY <3>1, <3>2, <3>3
    <3>4. CASE pc' # "idle"
      <4>1. /\ pc' = "prepareAdd" /\ manifestFile' = Dirty(WorkStatuses)
            /\ local'.paths = Dirty(WorkStatuses)
            /\ \A f \in Dirty(WorkStatuses) : Preparable(f)
        BY <2>3, <3>4 DEF PrepareStatus, Then, Over, TypeOK
      <4> QED  BY <3>1, <3>2, <4>1 DEF Preparable
    <3> QED  BY <3>3, <3>4
  <2>4. CASE PrepareAdd \/ PrepareAddFails
    <3>1. saved.phase # "prepared"
      BY <2>4 DEF PrepareAdd, PrepareAddFails, PhaseInv, PreparePlaces, Open
    <3>2. /\ pc = "prepareAdd" /\ pc' \in {"prepareStaged", "cleanup"}
          /\ UNCHANGED <<head, saved, manifestFile, local, restaged, cut>>
          /\ \A f \in Files \ local.paths : index'[f] = index[f]
      BY <2>4 DEF PrepareAdd, PrepareAddFails, Then, Looks, repo, ghosts, TypeOK
    <3> QED  BY <3>1, <3>2
  <2>5. CASE PrepareStaged
    <3>1. saved.phase # "prepared"
      BY <2>5 DEF PrepareStaged, PhaseInv, PreparePlaces, Open
    <3>2. /\ pc = "prepareStaged" /\ pc' \in {"prepareRest", "cleanup"}
          /\ pc' = "prepareRest" => Dirty(local'.status) = local.paths
          /\ local'.paths = local.paths
          /\ UNCHANGED <<head, index, saved, manifestFile, restaged, cut>>
      BY <2>5 DEF PrepareStaged, Then, Looks, repo, ghosts, TypeOK, Staged
    <3> QED  BY <3>1, <3>2
  <2>6. CASE PrepareRest
    BY <2>6 DEF PrepareRest, Then, Looks, repo, ghosts, Dirty
  <2>7. CASE PrepareSave
    <3>1. /\ pc = "prepareSave"
          /\ UNCHANGED <<head, index, manifestFile, restaged, cut>>
      BY <2>7 DEF PrepareSave, repo, ghosts
    <3>2. CASE RecordsFit
      <4>1. /\ pc' = "idle" /\ saved'.manifest = local.paths /\ saved'.records = IndexRecords
            /\ saved'.approved = saved.approved
        BY <2>7, <3>2 DEF PrepareSave, Over, TypeOK
      <4>2. \A f \in local.paths : IndexRecords[f] = index[f]
        BY <3>1 DEF IndexRecords, TypeOK
      <4> QED  BY <3>1, <4>1, <4>2
    <3>3. CASE ~RecordsFit
      <4>1. pc' = "cleanup" /\ UNCHANGED <<saved, local>>
        BY <2>7, <3>3 DEF PrepareSave, Then
      <4> QED  BY <3>1, <4>1
    <3> QED  BY <3>2, <3>3
  <2>8. CASE Cleanup
    <3>1. /\ pc = "cleanup" /\ pc' = "remaining"
          /\ UNCHANGED <<head, saved, manifestFile, local, restaged, cut>>
          /\ \A f \in Files : index'[f] = IF f \in local.paths THEN head[f] ELSE index[f]
      BY <2>8 DEF Cleanup, Restored, Then, ghosts
    <3> QED  BY <3>1
  <2>9. CASE CleanupFails \/ Remaining
    BY <2>9 DEF CleanupFails, Remaining, Over, Looks, repo, ghosts
  <2> QED  BY <1>4, <2>1, <2>2, <2>3, <2>4, <2>5, <2>6, <2>7, <2>8, <2>9 DEF Prepare
<1>5. CASE Verify
  BY <1>5 DEF Verify, VerifyHead, VerifyEvents, VerifyStaged, VerifyRecords, VerifyRest,
     Begin, Goes, Then, Over, Looks, repo, ghosts
<1>6. CASE Unstage
  <2>1. /\ pc = "idle" /\ pc' \in {"idle", "unstageRest"}
        /\ UNCHANGED <<head, saved, manifestFile, restaged, cut>>
        /\ \A f \in Files : index'[f] \in {index[f]}
                                          \cup {head[g] : g \in {f} \cap saved.manifest}
    BY <1>6 DEF Unstage, Restored, Begin, Then, Over, ghosts
  <2> QED  BY <2>1
<1>7. CASE UnstageRest
  <2>1. /\ pc = "unstageRest" /\ pc' = "idle"
        /\ UNCHANGED <<head, index, manifestFile, restaged, cut>>
    BY <1>7 DEF UnstageRest, Over, repo, ghosts
  <2>2. saved' = saved \/ (saved'.phase = "unstaged" /\ saved'.manifest = saved.manifest)
    BY <1>7 DEF UnstageRest, TypeOK
  <2> QED  BY <2>1, <2>2
<1>8. CASE Kill \/ GardenCommit
  <2>1. CASE Kill
    <3>1. /\ pc' = "idle" /\ UNCHANGED <<head, index, saved, manifestFile, restaged>>
          /\ ~cut' => ~cut /\ pc \notin AfterAdd
      BY <2>1 DEF Kill, Over, repo
    <3> QED  BY <3>1
  <2>2. CASE GardenCommit
    <3>1. /\ pc = "idle" /\ pc' = "idle" /\ head' = index
          /\ UNCHANGED <<index, saved, manifestFile, restaged, cut>>
      BY <2>2 DEF GardenCommit, ghosts
    <3> QED  BY <3>1
  <2> QED  BY <1>8, <2>1, <2>2
<1>9. CASE Others
  <2> USE DEF Moves, Writes
  <2>1. CASE Others /\ UNCHANGED <<head, index, restaged>>
    BY <2>1 DEF Others, Edit, Emit, Apply, Stage, OthersCommit, Dirty
  <2>2. ASSUME NEW f \in Files, Stage(f)
        PROVE  StageInv'
    <3>1. /\ restaged' = restaged \cup {f}
          /\ \A g \in Files \ {f} : index'[g] = index[g]
          /\ UNCHANGED <<head, saved, manifestFile, pc, local, cut>>
      BY <2>2 DEF Stage, TypeOK
    <3> QED  BY <3>1 DEF Dirty
  <2>3. CASE OthersCommit
    <3>1. head' = index /\ UNCHANGED <<index, restaged, saved, manifestFile, pc, local, cut>>
      BY <2>3 DEF OthersCommit
    <3> QED  BY <3>1 DEF Dirty
  <2> QED  BY <1>9, <2>1, <2>2, <2>3 DEF Others, Edit, Emit, Apply
<1>10. CASE UNCHANGED vars
  BY <1>10 DEF vars, Dirty
<1> QED  BY <1>1, <1>2, <1>3, <1>4, <1>5, <1>6, <1>7, <1>8, <1>9, <1>10 DEF Next, Batch

\* A batch begins with nothing saved and nothing staged.
LEMMA BatchBegins == Init => PhaseInv /\ StageInv
<1> SUFFICES ASSUME Init
             PROVE  PhaseInv /\ StageInv
  OBVIOUS
<1>1. /\ pc = "idle" /\ saved = NoState /\ index = head
      /\ saved.phase = "none" /\ ~cut
  BY DEF Init, NoState
<1>2. PhaseInv
  BY <1>1 DEF PhaseInv, PreflightPlaces, AdoptPlaces, PreparePlaces, BeforeAdd, AfterAdd,
     VerifyPlaces
<1>3. StageInv
  BY <1>1 DEF StageInv, PreparedIsStaged, Settled, BeforeAdd, AfterAdd
<1> QED  BY <1>2, <1>3

\* A prepared batch is staged as recorded, whatever others staged since prepare
\* saw a clean index (prepare, save_manifest, staged_index_records).
THEOREM Recorded == Spec => []PreparedIsStaged
<1>1. StageInv => PreparedIsStaged
  BY DEF StageInv
<1> QED  BY <1>1, BatchBegins, Typing, PhaseStep, StageStep, PTL DEF Spec

\* Whatever is staged between two commands was staged by others, or unstage would
\* take it back, unless a prepare died after its git add (cleanup_staged, unstage).
THEOREM Owned == Spec => []StagedIsOwned
<1>1. StageInv => StagedIsOwned
  BY StagedFacts DEF StageInv, StagedIsOwned, Settled, AfterAdd
<1> QED  BY <1>1, BatchBegins, Typing, PhaseStep, StageStep, PTL DEF Spec

-----------------------------------------------------------------------------
\* What require_event_baseline says of one event.
BaselineAt(e) ==
    IF saved.baseline[e] # Absent THEN work[e] = saved.baseline[e]
                                  ELSE work[e] = Absent \/ e \in Applies \cap saved.approved

\* What each look of verify has established, of the files nobody else wrote since.
ReviewInv ==
    /\ pc \in {"verifyStaged", "verifyRecords", "verifyRest"} \/ said = "verified" =>
         \A e \in Events \ touched : BaselineAt(e)
    /\ pc \in {"verifyRecords", "verifyRest"} \/ said = "verified" =>
         \A f \in Files \ touched : index[f] # head[f] <=> f \in saved.manifest
    /\ pc \in {"verifyRecords", "verifyRest"} => Dirty(local.status) = saved.manifest
    /\ pc = "verifyRest" \/ said = "verified" =>
         \A f \in saved.manifest \ touched : index[f] = saved.records[f]
    /\ said = "verified" =>
         /\ pc = "idle" /\ saved.phase = "prepared"
         /\ \A f \in Files \ touched : work[f] = index[f]

\* Each look of verify adds to what is known, and others' steps take away only what they
\* touch.
LEMMA ReviewStep == TypeOK /\ PhaseInv /\ ReviewInv /\ [Next]_vars => ReviewInv'
<1> SUFFICES ASSUME TypeOK, PhaseInv, ReviewInv, [Next]_vars
             PROVE  ReviewInv'
  OBVIOUS
<1> DEFINE Looking == {"verifyStaged", "verifyRecords", "verifyRest"}
<1>0. ASSUME pc' \notin Looking, said' # "verified"
      PROVE  ReviewInv'
  BY <1>0 DEF ReviewInv
<1>1. CASE Preflight
  <2>1. pc' \in {"idle", "preflightStatus", "preflightHead", "preflightSave"}
    BY <1>1 DEF Preflight, PreflightIndex, PreflightStatus, PreflightHead, PreflightSave,
       Goes, Then, Over
  <2>2. said' \in {"running", "error", "ok"}
    BY <1>1 DEF Preflight, PreflightIndex, PreflightStatus, PreflightHead, PreflightSave,
       Goes, Then, Over
  <2> QED  BY <2>1, <2>2, <1>0
<1>2. CASE ApproveInitial \/ \E f \in Files : Approve(f)
  <2>1. CASE ApproveInitial
    <3>1. pc' = "idle" /\ said' \in {"error", "ok"}
      BY <2>1 DEF ApproveInitial, ApproveSaves, Over
    <3> QED  BY <3>1, <1>0
  <2>2. ASSUME NEW f \in Files, Approve(f)
        PROVE  ReviewInv'
    <3>1. pc' = "idle" /\ said' \in {"error", "ok"}
      BY <2>2 DEF Approve, ApproveSaves, Over
    <3> QED  BY <3>1, <1>0
  <2> QED  BY <1>2, <2>1, <2>2
<1>3. CASE Adopt
  <2>1. pc' \in {"idle"} \cup AdoptPlaces /\ said' \in {"running", "error", "ok"}
    BY <1>3 DEF Adopt, AdoptHead, AdoptIndex, AdoptEvents, AdoptSave, Goes, Then, Over,
       AdoptPlaces
  <2> QED  BY <2>1, <1>0 DEF AdoptPlaces
<1>4. CASE Prepare
  <2>1. pc' \in {"idle"} \cup PreparePlaces /\ said' \in {"running", "error", "ok", "left"}
    BY <1>4 DEF Prepare, PrepareHead, PrepareEvents, PrepareIndex, PrepareStatus, PrepareAdd,
       PrepareAddFails, PrepareStaged, PrepareRest, PrepareSave, Cleanup, CleanupFails,
       Remaining, Goes, Then, Over, PreparePlaces, BeforeAdd, AfterAdd
  <2> QED  BY <2>1, <1>0 DEF PreparePlaces, BeforeAdd, AfterAdd
<1>5. CASE Verify
  <2>1. CASE VerifyHead
    <3>1. pc' \notin Looking /\ said' # "verified"
      BY <2>1 DEF VerifyHead, Goes, Then, Over
    <3> QED  BY <3>1, <1>0
  <2>2. CASE VerifyEvents
    <3>1. CASE BaselineHolds({})
      <4>1. /\ pc' = "verifyStaged" /\ said' = "running"
            /\ UNCHANGED <<work, saved>>
        BY <2>2, <3>1 DEF VerifyEvents, Goes, Then, Looks, repo
      <4>2. \A e \in Events : BaselineAt(e)
        BY <3>1 DEF BaselineHolds, BaselineAt
      <4> QED  BY <4>1, <4>2 DEF ReviewInv, BaselineAt
    <3>2. CASE ~BaselineHolds({})
      <4>1. pc' = "idle" /\ said' = "error"
        BY <2>2, <3>2 DEF VerifyEvents, Goes, Over
      <4> QED  BY <4>1, <1>0
    <3> QED  BY <3>1, <3>2
  <2>3. CASE VerifyStaged
    <3>1. CASE Staged = saved.manifest
      <4>1. /\ pc = "verifyStaged" /\ pc' = "verifyRecords" /\ said' = "running"
            /\ local'.status = StagedStatuses
            /\ UNCHANGED <<head, index, work, saved, touched>>
        BY <2>3, <3>1 DEF VerifyStaged, Then, Looks, repo, TypeOK
      <4>2. \A f \in Files : index[f] # head[f] <=> f \in saved.manifest
        BY <3>1, StagedFacts DEF TypeOK
      <4>3. Dirty(local'.status) = saved.manifest
        BY <3>1, <4>1 DEF Staged
      <4>4. \A e \in Events \ touched : BaselineAt(e)
        BY <4>1 DEF ReviewInv
      <4> QED  BY <4>1, <4>2, <4>3, <4>4 DEF ReviewInv, BaselineAt, Dirty
    <3>2. CASE Staged # saved.manifest
      <4>1. pc' = "idle" /\ said' = "error"
        BY <2>3, <3>2 DEF VerifyStaged, Over
      <4> QED  BY <4>1, <1>0
    <3> QED  BY <3>1, <3>2
  <2>4. CASE VerifyRecords
    <3>1. CASE RecordsFit /\ IndexRecords = saved.records
      <4>1. /\ pc = "verifyRecords" /\ pc' = "verifyRest" /\ said' = "running"
            /\ UNCHANGED <<head, index, work, saved, touched, local>>
        BY <2>4, <3>1 DEF VerifyRecords, Goes, Then, Looks, repo
      <4>2. Dirty(local.status) = saved.manifest
        BY <4>1 DEF ReviewInv
      <4>3. \A f \in saved.manifest : index[f] = saved.records[f]
        BY <3>1, <4>2 DEF IndexRecords, TypeOK
      <4> QED  BY <4>1, <4>2, <4>3 DEF ReviewInv, BaselineAt, Dirty
    <3>2. CASE ~(RecordsFit /\ IndexRecords = saved.records)
      <4>1. pc' = "idle" /\ said' = "error"
        BY <2>4, <3>2 DEF VerifyRecords, Goes, Over
      <4> QED  BY <4>1, <1>0
    <3> QED  BY <3>1, <3>2
  <2>5. CASE VerifyRest
    <3>1. CASE Dirty(WorkStatuses) = {} /\ manifestFile = saved.manifest
      <4>1. /\ pc = "verifyRest" /\ pc' = "idle" /\ said' = "verified"
            /\ UNCHANGED <<head, index, work, saved, touched>>
        BY <2>5, <3>1 DEF VerifyRest, Over, Looks, repo
      <4>2. \A f \in Files : work[f] = index[f]
        BY <3>1, WorkFacts
      <4>3. saved.phase = "prepared"
        BY <4>1 DEF PhaseInv, VerifyPlaces
      <4> QED  BY <4>1, <4>2, <4>3 DEF ReviewInv, BaselineAt
    <3>2. CASE ~(Dirty(WorkStatuses) = {} /\ manifestFile = saved.manifest)
      <4>1. pc' = "idle" /\ said' = "error"
        BY <2>5, <3>2 DEF VerifyRest, Over
      <4> QED  BY <4>1, <1>0
    <3> QED  BY <3>1, <3>2
  <2> QED  BY <1>5, <2>1, <2>2, <2>3, <2>4, <2>5 DEF Verify
<1>6. CASE Unstage \/ UnstageRest
  <2>1. pc' \in {"idle", "unstageRest"} /\ said' \in {"running", "error", "ok", "left"}
    BY <1>6 DEF Unstage, UnstageRest, Then, Over
  <2> QED  BY <2>1, <1>0
<1>7. CASE Kill \/ GardenCommit
  <2>1. pc' = "idle" /\ said' \in {"killed", "committed"}
    BY <1>7 DEF Kill, GardenCommit, Over
  <2> QED  BY <2>1, <1>0
<1>8. CASE Others
  <2> USE DEF Moves, Writes
  <2>1. /\ UNCHANGED <<saved, pc, local, said>>
        /\ touched \subseteq touched'
        /\ \A f \in Files \ touched' : work'[f] = work[f] /\ index'[f] = index[f]
                                       /\ head'[f] = head[f]
    <3>1. ASSUME NEW f \in Files, NEW content \in Held, Edit(f, content)
          PROVE  <2>1!2 /\ <2>1!3
      BY <3>1 DEF Edit, TypeOK
    <3>2. ASSUME NEW h \in Handoffs, NEW content \in Contents, Emit(h, content)
          PROVE  <2>1!2 /\ <2>1!3
      BY <3>2 DEF Emit
    <3>3. ASSUME NEW a \in Applies, NEW page \in Pages, NEW content \in Contents,
                 Apply(a, page, content)
          PROVE  <2>1!2 /\ <2>1!3
      BY <3>3 DEF Apply
    <3>4. ASSUME NEW f \in Files, Stage(f)
          PROVE  <2>1!2 /\ <2>1!3
      BY <3>4 DEF Stage, TypeOK
    <3>5. CASE OthersCommit
      BY <3>5, StagedFacts DEF OthersCommit
    <3>6. UNCHANGED <<saved, pc, local, said>>
      BY <1>8 DEF Others, Edit, Emit, Apply, Stage, OthersCommit
    <3> QED  BY <1>8, <3>1, <3>2, <3>3, <3>4, <3>5, <3>6 DEF Others
  <2>2. Events \subseteq Files /\ saved.manifest \subseteq Files
    BY DEF Files, TypeOK
  <2> QED  BY <2>1, <2>2 DEF ReviewInv, BaselineAt, Dirty
<1>9. CASE UNCHANGED vars
  BY <1>9 DEF vars, ReviewInv, BaselineAt, Dirty
<1> QED  BY <1>1, <1>2, <1>3, <1>4, <1>5, <1>6, <1>7, <1>8, <1>9 DEF Next, Batch

\* What the invariants of a batch say of a verify that passed.
LEMMA ReviewFacts ==
    ASSUME TypeOK, StageInv, ReviewInv
    PROVE  VerifiedIsReviewed
<1> SUFFICES ASSUME said = "verified", NEW f \in Files \ touched
             PROVE  /\ f \in Staged <=> f \in saved.manifest
                    /\ f \in Staged => index[f] = saved.records[f] /\ f \in saved.approved
                    /\ work[f] = index[f]
                    /\ f \in Events \cap Staged =>
                         index[f] = saved.baseline[f] \/ f \in Applies \cap saved.approved
  BY DEF VerifiedIsReviewed
<1>1. f \in Staged <=> index[f] # head[f]
  BY StagedFacts
<1>2. f \in Staged <=> f \in saved.manifest
  BY <1>1 DEF ReviewInv
<1>3. saved.manifest \subseteq saved.approved
  BY DEF ReviewInv, StageInv, PreparedIsStaged
<1>4. f \in saved.manifest => index[f] = saved.records[f]
  BY DEF ReviewInv
<1>5. work[f] = index[f]
  BY DEF ReviewInv
<1>6. f \in Events => BaselineAt(f)
  BY DEF ReviewInv
<1> QED  BY <1>2, <1>3, <1>4, <1>5, <1>6 DEF BaselineAt

\* A verify that passed stands for exactly the reviewed batch, of every file nobody
\* else wrote or staged since it began, whatever its five looks saw in between.
THEOREM Reviewed == Spec => []VerifiedIsReviewed
<1>1. Init => ReviewInv
  BY DEF Init, ReviewInv
<1> QED  BY <1>1, BatchBegins, Typing, PhaseStep, StageStep, ReviewStep, ReviewFacts, PTL DEF Spec

\* The commit the user grants on a verify that passed changes approved paths only,
\* to what prepare recorded of them, but for what others staged since.
THEOREM Approved == Spec => CommitIsApproved
<1>1. Init => ReviewInv
  BY DEF Init, ReviewInv
<1>2. TypeOK /\ StageInv /\ ReviewInv /\ [Next]_vars =>
        [said' = "committed" /\ said # "committed" =>
           \A f \in Files \ touched : head'[f] # head[f] =>
               f \in saved.approved /\ head'[f] = saved.records[f]]_vars
  <2> SUFFICES ASSUME TypeOK, StageInv, ReviewInv, Next, said' = "committed",
                      said # "committed",
                      NEW f \in Files \ touched, head'[f] # head[f]
               PROVE  f \in saved.approved /\ head'[f] = saved.records[f]
    BY DEF vars
  <2>1. GardenCommit
    <3>1. ~Preflight
      BY DEF Preflight, PreflightIndex, PreflightStatus, PreflightHead, PreflightSave,
         Goes, Then, Over
    <3>2. ~(ApproveInitial \/ \E g \in Files : Approve(g))
      BY DEF ApproveInitial, Approve, ApproveSaves, Over
    <3>3. ~Adopt
      BY DEF Adopt, AdoptHead, AdoptIndex, AdoptEvents, AdoptSave, Goes, Then, Over
    <3>4. ~Prepare
      BY DEF Prepare, PrepareHead, PrepareEvents, PrepareIndex, PrepareStatus, PrepareAdd,
         PrepareAddFails, PrepareStaged, PrepareRest, PrepareSave, Cleanup, CleanupFails,
         Remaining, Goes, Then, Over
    <3>5. ~Verify
      BY DEF Verify, VerifyHead, VerifyEvents, VerifyStaged, VerifyRecords, VerifyRest,
         Goes, Then, Over
    <3>6. ~(Unstage \/ UnstageRest \/ Kill)
      BY DEF Unstage, UnstageRest, Kill, Then, Over
    <3>7. ~Others
      BY DEF Others, Edit, Emit, Apply, Stage, OthersCommit, Moves, Writes
    <3> QED  BY <3>1, <3>2, <3>3, <3>4, <3>5, <3>6, <3>7 DEF Next, Batch
  <2>2. said = "verified" /\ head' = index
    BY <2>1 DEF GardenCommit
  <2>3. VerifiedIsReviewed
    BY ReviewFacts
  <2>4. f \in Staged
    BY <2>2, StagedFacts
  <2> QED  BY <2>2, <2>3, <2>4 DEF VerifiedIsReviewed
<1> QED  BY <1>1, <1>2, BatchBegins, Typing, PhaseStep, StageStep, ReviewStep, PTL DEF Spec, CommitIsApproved
=============================================================================
