----------------------------- MODULE LockProofs -----------------------------
(***************************************************************************)
(* Theorems about the two lock files.  EventLock, for any set of pids and  *)
(* any number of calls: type correctness, exclusion up to the two timing   *)
(* windows, and the implementation of WriterMutex while no window is hit.  *)
(* GardenLock, for any set of runs: the same but for the mutex.            *)
(***************************************************************************)
EXTENDS EventLock, GardenLock, TLAPS

\* Every step of every process keeps the types (wiki_lock.py, all of it).
LEMMA Typing == Spec => []TypeOK
<1>1. Init => TypeOK
  <2> SUFFICES ASSUME Init
               PROVE  TypeOK
    OBVIOUS
  <2> USE DEF Init
  <2>1. file \in FileType
    BY DEF FileType, NoFile
  <2>2. pc \in [Pids -> Places]
    BY DEF Places
  <2>3. enters \in [Pids -> 0..MaxEnters]
    BY MaxEntersAssumption
  <2> QED  BY <2>1, <2>2, <2>3 DEF TypeOK
<1>2. TypeOK /\ [Next]_vars => TypeOK'
  <2> SUFFICES ASSUME TypeOK, [Next]_vars
               PROVE  TypeOK'
    OBVIOUS
  <2> USE NoPidAssumption, MaxEntersAssumption DEF TypeOK, FileType, NoFile, Places, Goto, ghosts
  <2>1. ASSUME NEW p \in Pids, Enter(p)
        PROVE  TypeOK'
    BY <2>1 DEF Enter
  <2>2. ASSUME NEW p \in Pids, ProcessStep(p)
        PROVE  TypeOK'
    <3>1. CASE OpenCreates(p)  BY <3>1 DEF OpenCreates
    <3>2. CASE OpenFails(p)    BY <3>2 DEF OpenFails
    <3>3. CASE WritePid(p)     BY <3>3 DEF WritePid
    <3>4. CASE Exit(p)         BY <3>4 DEF Exit, Removed
    <3>5. CASE ReadText(p)     BY <3>5 DEF ReadText
    <3>6. CASE TestPid(p)      BY <3>6 DEF TestPid
    <3>7. CASE TestAge(p)      BY <3>7 DEF TestAge
    <3>8. CASE UnlinkStale(p)  BY <3>8 DEF UnlinkStale, Removed
    <3>9. CASE GiveUp(p)       BY <3>9 DEF GiveUp
    <3>10. CASE Sleep(p)       BY <3>10 DEF Sleep
    <3> QED  BY <2>2, <3>1, <3>2, <3>3, <3>4, <3>5, <3>6, <3>7, <3>8, <3>9, <3>10 DEF ProcessStep
  <2>3. ASSUME NEW p \in Pids, WritePidFails(p)
        PROVE  TypeOK'
    BY <2>3 DEF WritePidFails
  <2>4. ASSUME NEW p \in Pids, Die(p)
        PROVE  TypeOK'
    BY <2>4 DEF Die
  <2>5. ASSUME NEW p \in Pids, Recycle(p)
        PROVE  TypeOK'
    BY <2>5 DEF Recycle
  <2>6. ASSUME NEW p \in Pids, DeadlinePasses(p)
        PROVE  TypeOK'
    BY <2>6 DEF DeadlinePasses
  <2>7. CASE TTLPasses
    BY <2>7 DEF TTLPasses
  <2>8. CASE UNCHANGED vars
    BY <2>8 DEF vars
  <2> QED  BY <2>1, <2>2, <2>3, <2>4, <2>5, <2>6, <2>7, <2>8 DEF Next
<1> QED  BY <1>1, <1>2, PTL DEF Spec

-----------------------------------------------------------------------------
\* Every step of every process keeps the inductive invariant: a judgement
\* names a file that is there, a judged file has no live owner, and so only
\* the owner of a file or a waiter who judged it removes it.
LEMMA LockStep == TypeOK /\ LockInv /\ [Next]_vars => LockInv'
<1> SUFFICES ASSUME TypeOK, LockInv, [Next]_vars
             PROVE  LockInv'
  OBVIOUS
<1> USE NoPidAssumption DEF TypeOK, FileType, NoFile, Places, Goto, ghosts, LockInv, Owns,
        OwnerKeepsFile, NamesCreator, JudgedIsThere, JudgedIsStale, OldIsStale
<1>1. ASSUME NEW p \in Pids, Enter(p)
      PROVE  LockInv'
  BY <1>1 DEF Enter
<1>2. ASSUME NEW p \in Pids, ProcessStep(p)
      PROVE  LockInv'
  <2>1. CASE OpenCreates(p)  BY <2>1 DEF OpenCreates
  <2>2. CASE OpenFails(p)    BY <2>2 DEF OpenFails
  <2>3. CASE WritePid(p)     BY <2>3 DEF WritePid
  <2>4. CASE Exit(p)         BY <2>4 DEF Exit, Removed
  <2>5. CASE ReadText(p)     BY <2>5 DEF ReadText
  <2>6. CASE TestPid(p)      BY <2>6 DEF TestPid
  <2>7. CASE TestAge(p)      BY <2>7 DEF TestAge
  <2>8. CASE UnlinkStale(p)  BY <2>8 DEF UnlinkStale, Removed
  <2>9. CASE GiveUp(p)       BY <2>9 DEF GiveUp
  <2>10. CASE Sleep(p)       BY <2>10 DEF Sleep
  <2> QED  BY <1>2, <2>1, <2>2, <2>3, <2>4, <2>5, <2>6, <2>7, <2>8, <2>9, <2>10 DEF ProcessStep
<1>3. ASSUME NEW p \in Pids, WritePidFails(p)
      PROVE  LockInv'
  BY <1>3 DEF WritePidFails
<1>4. ASSUME NEW p \in Pids, Die(p)
      PROVE  LockInv'
  BY <1>4 DEF Die
<1>5. ASSUME NEW p \in Pids, Recycle(p)
      PROVE  LockInv'
  BY <1>5 DEF Recycle
<1>6. ASSUME NEW p \in Pids, DeadlinePasses(p)
      PROVE  LockInv'
  BY <1>6 DEF DeadlinePasses
<1>7. CASE TTLPasses
  BY <1>7 DEF TTLPasses
<1>8. CASE UNCHANGED vars
  BY <1>8 DEF vars
<1> QED  BY <1>1, <1>2, <1>3, <1>4, <1>5, <1>6, <1>7, <1>8 DEF Next

LEMMA LockInit == Init => LockInv
BY NoPidAssumption DEF Init, LockInv, OwnerKeepsFile, NamesCreator, JudgedIsThere,
   JudgedIsStale, OldIsStale, NoFile, Owns

\* The inductive invariant holds in every reachable state of the lock.
THEOREM LockInvariant == Spec => []LockInv
<1>1. Init => LockInv
  BY LockInit
<1>2. TypeOK /\ LockInv /\ [Next]_vars => LockInv'
  BY LockStep
<1> QED  BY <1>1, <1>2, Typing, PTL DEF Spec

\* However many processes contend, die, come back under a reused pid or leave
\* an empty file behind, two of them are inside the lock only after a waiter
\* unlinked a file it had not judged or a hold outlived the TTL.
THEOREM Exclusion == Spec => []ExclusionUnlessRaced
<1>1. LockInv => ExclusionUnlessRaced
  BY DEF LockInv, OwnerKeepsFile, ExclusionUnlessRaced, MutualExclusion, Owns
<1> QED  BY <1>1, LockInvariant, PTL

\* With the same reservation the file of a live owner stays where it is.
THEOREM OwnersKeepFiles == Spec => []OwnerKeepsFile
<1>1. LockInv => OwnerKeepsFile
  BY DEF LockInv
<1> QED  BY <1>1, LockInvariant, PTL

-----------------------------------------------------------------------------
\* Until a window is hit the lock file implements WriterMutex: every step of a
\* process is an acquisition of a free mutex, its release, or invisible.
THEOREM MutexRefinement == Spec => ImplementsMutex
<1>1. Init => Mutex!Init
  BY NoPidAssumption DEF Init, Mutex!Init, Holder, Owns
\* Outside the timing assumptions nobody is taken to hold the mutex.
<1>2. TypeOK /\ [Next]_vars /\ ~Timely' => [Mutex!Next]_Holder
  <2> SUFFICES ASSUME TypeOK, [Next]_vars, ~Timely'
               PROVE  [Mutex!Next]_Holder
    OBVIOUS
  <2>1. Holder' = NoPid
    BY DEF Holder
  <2>2. Holder = NoPid \/ \E p \in Pids : Holder = p
    BY DEF Holder
  <2> QED  BY <2>1, <2>2 DEF Mutex!Next, Mutex!Release
<1>3. TypeOK /\ LockInv /\ LockInv' /\ TypeOK' /\ [Next]_vars /\ Timely /\ Timely'
        => [Mutex!Next]_Holder
  <2> SUFFICES ASSUME TypeOK, LockInv, LockInv', TypeOK', [Next]_vars, Timely, Timely'
               PROVE  [Mutex!Next]_Holder
    OBVIOUS
  <2>1. \A p \in Pids : Owns(p) => Holder = p
    BY DEF LockInv, OwnerKeepsFile, Holder, Timely
  <2>2. ~raced' /\ ~overrun'
    BY DEF Timely
  <2>3. \A p \in Pids : Owns(p)' => Holder' = p
    BY <2>2 DEF LockInv, OwnerKeepsFile, Holder
  <2>4. (\A p \in Pids : ~Owns(p)) => Holder = NoPid
    BY DEF Holder
  <2>5. (\A p \in Pids : ~Owns(p)') => Holder' = NoPid
    BY DEF Holder
  \* A step moves one process, and none goes straight from one ownership to
  \* another's.
  <2>6. ASSUME NEW p \in Pids, NEW q \in Pids, Owns(p), Owns(q)'
        PROVE  p = q
    <3>1. Next \/ UNCHANGED vars
      OBVIOUS
    <3>2. file.there /\ file.creator = p
      BY <2>6 DEF LockInv, OwnerKeepsFile, Timely
    <3>3. ASSUME ~Owns(q)
          PROVE  ~file.there
      <4> USE <2>6, <3>3 DEF Owns, Goto, TypeOK
      <4>1. ASSUME NEW r \in Pids, ProcessStep(r)
            PROVE  ~file.there
        BY <4>1 DEF ProcessStep, OpenCreates, OpenFails, WritePid, Exit, ReadText, TestPid,
           TestAge, UnlinkStale, GiveUp, Sleep
      <4>2. ASSUME NEW r \in Pids,
                   Enter(r) \/ WritePidFails(r) \/ Die(r) \/ Recycle(r) \/ DeadlinePasses(r)
            PROVE  ~file.there
        BY <4>2 DEF Enter, WritePidFails, Die, Recycle, DeadlinePasses
      <4>3. CASE TTLPasses \/ UNCHANGED vars
        BY <4>3 DEF TTLPasses, vars
      <4> QED  BY <3>1, <4>1, <4>2, <4>3 DEF Next
    <3> QED  BY <2>6, <3>2, <3>3 DEF LockInv, OwnerKeepsFile, Timely
  <2>7. CASE \E p \in Pids : Owns(p)
    <3>1. PICK p \in Pids : Owns(p)
      BY <2>7
    <3>2. CASE Owns(p)'
      BY <2>1, <2>3, <3>1, <3>2
    <3>3. CASE ~Owns(p)'
      <4>1. \A q \in Pids : ~Owns(q)'
        BY <2>6, <3>1, <3>3
      <4> QED  BY <2>1, <2>5, <3>1, <4>1 DEF Mutex!Next, Mutex!Release
    <3> QED  BY <3>2, <3>3
  <2>8. CASE \A p \in Pids : ~Owns(p)
    <3>1. CASE \E q \in Pids : Owns(q)'
      BY <2>3, <2>4, <2>8, <3>1 DEF Mutex!Next, Mutex!Acquire
    <3>2. CASE \A q \in Pids : ~Owns(q)'
      BY <2>4, <2>5, <2>8, <3>2
    <3> QED  BY <3>1, <3>2
  <2> QED  BY <2>7, <2>8
<1>4. Timely' => Timely \/ ~[Next]_vars \/ ~TypeOK
  <2> SUFFICES ASSUME TypeOK, [Next]_vars, ~Timely
               PROVE  ~Timely'
    OBVIOUS
  <2> USE DEF Timely, ghosts, TypeOK
  <2>1. ASSUME NEW p \in Pids, ProcessStep(p)
        PROVE  ~Timely'
    BY <2>1 DEF ProcessStep, OpenCreates, OpenFails, WritePid, Exit, ReadText, TestPid,
       TestAge, UnlinkStale, GiveUp, Sleep
  <2>2. ASSUME NEW p \in Pids,
               Enter(p) \/ WritePidFails(p) \/ Die(p) \/ Recycle(p) \/ DeadlinePasses(p)
        PROVE  ~Timely'
    BY <2>2 DEF Enter, WritePidFails, Die, Recycle, DeadlinePasses
  <2>3. CASE TTLPasses \/ UNCHANGED vars
    BY <2>3 DEF TTLPasses, vars
  <2> QED  BY <2>1, <2>2, <2>3 DEF Next
<1> QED  BY <1>1, <1>2, <1>3, <1>4, Typing, LockInvariant, PTL
         DEF Spec, ImplementsMutex, Mutex!Spec

-----------------------------------------------------------------------------
\* Every step of every run keeps the types (garden-lock.py, all of it).
LEMMA GardenTyping == GardenSpec => []GardenTypeOK
<1>1. GardenInit => GardenTypeOK
  <2> SUFFICES ASSUME GardenInit
               PROVE  GardenTypeOK
    OBVIOUS
  <2> USE DEF GardenInit
  <2>1. lock \in LockType
    BY DEF LockType, NoLock
  <2>2. place \in [Runs -> RunPlaces]
    BY DEF RunPlaces
  <2> QED  BY <2>1, <2>2 DEF GardenTypeOK
<1>2. GardenTypeOK /\ [GardenNext]_gardenVars => GardenTypeOK'
  <2> SUFFICES ASSUME GardenTypeOK, [GardenNext]_gardenVars
               PROVE  GardenTypeOK'
    OBVIOUS
  <2> USE NoTokenAssumption
      DEF GardenTypeOK, LockType, NoLock, RunPlaces, RunGoto, LockRemoved, Unlink
  <2>1. ASSUME NEW r \in Runs,
               Begin(r) \/ Finish(r) \/ StrayRelease(r) \/ Forget(r)
        PROVE  GardenTypeOK'
    <3>1. CASE Begin(r)         BY <3>1 DEF Begin
    <3>2. CASE Finish(r)        BY <3>2 DEF Finish
    <3>3. CASE StrayRelease(r)  BY <3>3 DEF StrayRelease
    <3>4. CASE Forget(r)        BY <3>4 DEF Forget
    <3> QED  BY <2>1, <3>1, <3>2, <3>3, <3>4
  <2>2. ASSUME NEW r \in Runs, Acquiring(r)
        PROVE  GardenTypeOK'
    <3>1. CASE CreateLock(r)   BY <3>1 DEF CreateLock
    <3>2. CASE FindLock(r)    BY <3>2 DEF FindLock
    <3>3. CASE ReadLock(r)     BY <3>3 DEF ReadLock
    <3>4. CASE WriteToken(r)   BY <3>4 DEF WriteToken
    <3>5. CASE TestLockAge(r)  BY <3>5 DEF TestLockAge
    <3>6. CASE ClearStale(r)   BY <3>6 DEF ClearStale
    <3> QED  BY <2>2, <3>1, <3>2, <3>3, <3>4, <3>5, <3>6 DEF Acquiring
  <2>3. ASSUME NEW r \in Runs, Releasing(r)
        PROVE  GardenTypeOK'
    <3>1. CASE CompareToken(r)    BY <3>1 DEF CompareToken
    <3>2. CASE UnlinkOwn(r)       BY <3>2 DEF UnlinkOwn
    <3>3. CASE TestReleaseAge(r)  BY <3>3 DEF TestReleaseAge
    <3>4. CASE UnlinkOld(r)       BY <3>4 DEF UnlinkOld
    <3> QED  BY <2>3, <3>1, <3>2, <3>3, <3>4 DEF Releasing
  <2>4. CASE LockAges
    BY <2>4 DEF LockAges
  <2>5. CASE UNCHANGED gardenVars
    BY <2>5 DEF gardenVars
  <2> QED  BY <2>1, <2>2, <2>3, <2>4, <2>5 DEF GardenNext
<1> QED  BY <1>1, <1>2, PTL DEF GardenSpec

-----------------------------------------------------------------------------
\* Every step keeps the inductive invariant: whoever unlinks a file it decided
\* about unlinks its own or an abandoned one.
LEMMA GardenStep ==
    ASSUME GardenTypeOK, GardenInv, [GardenNext]_gardenVars
    PROVE  GardenInv'
<1> USE NoTokenAssumption
    DEF GardenTypeOK, LockType, NoLock, RunGoto, LockRemoved, Unlink, HoldsLock, GardenInv,
        RunKeepsLock, LiveOwner, NamesRun, DecisionsAreSound, OldLockIsStale
<1>1. ASSUME NEW r \in Runs,
             Begin(r) \/ Finish(r) \/ StrayRelease(r) \/ Forget(r)
      PROVE  GardenInv'
  BY <1>1 DEF Begin, Finish, StrayRelease, Forget
<1>2. ASSUME NEW r \in Runs, Acquiring(r)
      PROVE  GardenInv'
  <2>1. CASE CreateLock(r) \/ FindLock(r) \/ ReadLock(r)
    BY <2>1 DEF CreateLock, FindLock, ReadLock
  <2>2. CASE WriteToken(r)   BY <2>2 DEF WriteToken
  <2>3. CASE TestLockAge(r)  BY <2>3 DEF TestLockAge
  <2>4. CASE ClearStale(r)   BY <2>4 DEF ClearStale
  <2> QED  BY <1>2, <2>1, <2>2, <2>3, <2>4 DEF Acquiring
<1>3. ASSUME NEW r \in Runs, Releasing(r)
      PROVE  GardenInv'
  <2>1. CASE CompareToken(r)    BY <2>1 DEF CompareToken
  <2>2. CASE UnlinkOwn(r)       BY <2>2 DEF UnlinkOwn
  <2>3. CASE TestReleaseAge(r)  BY <2>3 DEF TestReleaseAge
  <2>4. CASE UnlinkOld(r)       BY <2>4 DEF UnlinkOld
  <2> QED  BY <1>3, <2>1, <2>2, <2>3, <2>4 DEF Releasing
<1>4. CASE LockAges
  BY <1>4 DEF LockAges
<1>5. CASE UNCHANGED gardenVars
  BY <1>5 DEF gardenVars
<1> QED  BY <1>1, <1>2, <1>3, <1>4, <1>5 DEF GardenNext

\* The inductive invariant holds in every reachable state of the lock.
THEOREM GardenInvariant == GardenSpec => []GardenInv
<1>1. GardenInit => GardenInv
  BY DEF GardenInit, GardenInv, RunKeepsLock, LiveOwner, NamesRun, DecisionsAreSound,
     OldLockIsStale, NoLock, HoldsLock
<1>2. GardenTypeOK /\ GardenInv /\ [GardenNext]_gardenVars => GardenInv'
  BY GardenStep
<1> QED  BY <1>1, <1>2, GardenTyping, PTL DEF GardenSpec

\* Whatever runs are abandoned and cleared, two gardens work at once only after
\* a stale clear hit another file than the one found old, or after a run
\* outlived the TTL.
THEOREM OneGardenAtWork == GardenSpec => []OneGardenUnlessRaced
<1>1. GardenInv => OneGardenUnlessRaced
  BY DEF GardenInv, RunKeepsLock, OneGardenUnlessRaced, OneGarden, HoldsLock
<1> QED  BY <1>1, GardenInvariant, PTL

\* With the same reservation the lock of a garden at work stays where it is:
\* nobody else releases it or clears it as stale.
THEOREM RunsKeepLocks == GardenSpec => []RunKeepsLock
<1>1. GardenInv => RunKeepsLock
  BY DEF GardenInv
<1> QED  BY <1>1, GardenInvariant, PTL
=============================================================================
