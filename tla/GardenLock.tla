----------------------------- MODULE GardenLock -----------------------------
(***************************************************************************)
(* The garden lock (scripts/garden-lock.py): the file                      *)
(* workstreams/.garden.lock that an interactive garden, the night runner   *)
(* or a carry-forward render takes for a whole multi-command run.          *)
(*                                                                         *)
(* A run is one acquire, work, and one release with the token acquire      *)
(* printed; the token is fresh, so a run names it.  No pid identifies the  *)
(* owner: the run outlives each of its commands, and only the file's age   *)
(* tells an abandoned lock.  Ghosts as in EventLock, under names that let  *)
(* LockProofs extend both modules:                                         *)
(*   swept    a stale clear unlinked a file other than the one found old;  *)
(*   outlived a lock file aged past the TTL under a run still going.       *)
(***************************************************************************)
CONSTANTS
    Runs,       \* garden runs, each with the token it draws
    NoToken     \* a lock file whose token is not written yet

ASSUME NoTokenAssumption == NoToken \notin Runs

VARIABLES
    lock,       \* [there, creator, token, old]; creator is a ghost
    place,      \* where each run is in acquire, its work, or release
    decided,    \* ghost: the runs whose decision to unlink is about this file
    swept,      \* ghost, see above
    outlived    \* ghost, see above

gardenVars == <<lock, place, decided, swept, outlived>>

\* acquire is "open" to "created"; "working" holds the lock; release is
\* "compare" to "unlinkOld".  "clear" is acquire's unlink of a stale lock,
\* "unlinkOwn" and "unlinkOld" are those of release.
RunPlaces == {"idle", "open", "read", "stat", "clear", "created", "working",
              "compare", "ageTest", "unlinkOwn", "unlinkOld", "refused", "ended", "dead"}

LockType == [there : BOOLEAN, creator : Runs \cup {NoToken},
             token : Runs \cup {NoToken}, old : BOOLEAN]

NoLock == [there |-> FALSE, creator |-> NoToken, token |-> NoToken, old |-> FALSE]

\* A run owns the lock from the creation of its file to the start of release.
HoldsLock(r) == place[r] \in {"created", "working"}

RunGoto(r, to) == place' = [place EXCEPT ![r] = to]

LockRemoved == lock' = NoLock /\ decided' = {}

-----------------------------------------------------------------------------
GardenInit ==
    /\ lock = NoLock
    /\ place = [r \in Runs |-> "idle"]
    /\ decided = {}
    /\ swept = FALSE
    /\ outlived = FALSE

Begin(r) ==
    /\ place[r] = "idle"
    /\ RunGoto(r, "open")
    /\ UNCHANGED <<lock, decided, swept, outlived>>

\* acquire: O_CREAT | O_EXCL.
CreateLock(r) ==
    /\ place[r] = "open"
    /\ ~lock.there
    /\ lock' = [there |-> TRUE, creator |-> r, token |-> NoToken, old |-> FALSE]
    /\ RunGoto(r, "created")
    /\ UNCHANGED <<decided, swept, outlived>>

FindLock(r) ==
    /\ place[r] = "open"
    /\ lock.there
    /\ RunGoto(r, "read")
    /\ UNCHANGED <<lock, decided, swept, outlived>>

\* The token reaches the file on close; to a file that was unlinked it is lost.
WriteToken(r) ==
    /\ place[r] = "created"
    /\ lock' = IF lock.there /\ lock.creator = r
               THEN [lock EXCEPT !.token = r, !.old = FALSE] ELSE lock
    /\ RunGoto(r, "working")
    /\ UNCHANGED <<decided, swept, outlived>>

\* read_lock: a lock that vanished is tried again.
ReadLock(r) ==
    /\ place[r] = "read"
    /\ RunGoto(r, IF lock.there THEN "stat" ELSE "open")
    /\ UNCHANGED <<lock, decided, swept, outlived>>

\* An acquire that does not look at the age: a held lock is a stale one.
TestLockAgeSkipped(r) ==
    /\ place[r] = "stat"
    /\ IF lock.there
       THEN RunGoto(r, "clear") /\ decided' = decided \cup {r}
       ELSE RunGoto(r, "refused") /\ UNCHANGED decided
    /\ UNCHANGED <<lock, swept, outlived>>

\* An acquire that waits for the holder.
TestLockAgeWaits(r) ==
    /\ place[r] = "stat"
    /\ IF lock.there /\ lock.old
       THEN RunGoto(r, "clear") /\ decided' = decided \cup {r}
       ELSE RunGoto(r, "open") /\ UNCHANGED decided
    /\ UNCHANGED <<lock, swept, outlived>>

\* lock_is_stale: an old file is cleared, any other means the lock is held and
\* acquire returns False.
TestLockAge(r) ==
    /\ place[r] = "stat"
    /\ IF lock.there /\ lock.old
       THEN RunGoto(r, "clear") /\ decided' = decided \cup {r}
       ELSE RunGoto(r, "refused") /\ UNCHANGED decided
    /\ UNCHANGED <<lock, swept, outlived>>

\* unlink(missing_ok=True) of whichever file is there by now.
Unlink(r) ==
    /\ swept' = (swept \/ (lock.there /\ r \notin decided))
    /\ LockRemoved
    /\ UNCHANGED outlived

ClearStale(r) ==
    /\ place[r] = "clear"
    /\ Unlink(r)
    /\ RunGoto(r, "open")

\* A release that does not compare tokens.
CompareNothing(r) ==
    /\ place[r] = "compare"
    /\ RunGoto(r, IF lock.there THEN "unlinkOwn" ELSE "ended")
    /\ decided' = IF lock.there THEN decided \cup {r} ELSE decided
    /\ UNCHANGED <<lock, swept, outlived>>

\* release: no file is nothing to release, one's own token is released, any
\* other token or none is looked at for its age.
CompareToken(r) ==
    /\ place[r] = "compare"
    /\ RunGoto(r, IF ~lock.there THEN "ended"
               ELSE IF lock.token = r THEN "unlinkOwn" ELSE "ageTest")
    /\ decided' = IF lock.there /\ lock.token = r THEN decided \cup {r} ELSE decided
    /\ UNCHANGED <<lock, swept, outlived>>

UnlinkOwn(r) ==
    /\ place[r] = "unlinkOwn"
    /\ Unlink(r)
    /\ RunGoto(r, "ended")

\* "token does not match the held lock, not releasing", unless it is stale.
TestReleaseAge(r) ==
    /\ place[r] = "ageTest"
    /\ IF lock.there /\ lock.old
       THEN RunGoto(r, "unlinkOld") /\ decided' = decided \cup {r}
       ELSE RunGoto(r, "ended") /\ UNCHANGED decided
    /\ UNCHANGED <<lock, swept, outlived>>

UnlinkOld(r) ==
    /\ place[r] = "unlinkOld"
    /\ Unlink(r)
    /\ RunGoto(r, "ended")

-----------------------------------------------------------------------------
\* The run is done with its work, or is forgotten, or its machine stops.

Finish(r) ==
    /\ place[r] = "working"
    /\ RunGoto(r, "compare")
    /\ UNCHANGED <<lock, decided, swept, outlived>>

\* A run that was refused the lock calls release all the same, without a token
\* or with one of an earlier run.
StrayRelease(r) ==
    /\ place[r] = "refused"
    /\ RunGoto(r, "compare")
    /\ UNCHANGED <<lock, decided, swept, outlived>>

Forget(r) ==
    /\ place[r] \notin {"idle", "refused", "ended", "dead"}
    /\ RunGoto(r, "dead")
    /\ decided' = decided \ {r}
    /\ UNCHANGED <<lock, swept, outlived>>

\* GARDEN_LOCK_TTL_SECONDS pass since the file was written.
LockAges ==
    /\ lock.there
    /\ ~lock.old
    /\ lock' = [lock EXCEPT !.old = TRUE]
    /\ outlived' = (outlived \/ \E r \in Runs : lock.creator = r /\
                       place[r] \in {"created", "working", "compare", "unlinkOwn"})
    /\ UNCHANGED <<place, decided, swept>>

-----------------------------------------------------------------------------
Acquiring(r) ==
    \/ CreateLock(r) \/ FindLock(r) \/ WriteToken(r)
    \/ ReadLock(r) \/ TestLockAge(r) \/ ClearStale(r)

Releasing(r) ==
    \/ CompareToken(r) \/ UnlinkOwn(r) \/ TestReleaseAge(r) \/ UnlinkOld(r)

GardenNext ==
    \/ \E r \in Runs :
          \/ Begin(r) \/ Acquiring(r) \/ Finish(r) \/ StrayRelease(r) \/ Releasing(r)
          \/ Forget(r)
    \/ LockAges

GardenSpec == GardenInit /\ [][GardenNext]_gardenVars

\* A command that runs keeps running; the work of a run may take for ever.
FairGardenSpec ==
    /\ GardenSpec
    /\ \A r \in Runs : WF_gardenVars(Acquiring(r) \/ Releasing(r))

-----------------------------------------------------------------------------
\* Every variable keeps its type.
GardenTypeOK ==
    /\ lock \in LockType
    /\ place \in [Runs -> RunPlaces]
    /\ decided \in SUBSET Runs
    /\ swept \in BOOLEAN
    /\ outlived \in BOOLEAN

\* Two runs never work under the lock at once.
OneGarden ==
    \A r, s \in Runs : place[r] = "working" /\ place[s] = "working" => r = s

\* "O_EXCL decides the winner if two clear at once", as far as the code keeps
\* it: two gardens at once take a stale clear that
\* unlinked another file than the one it found old, or a run beyond the TTL.
OneGardenUnlessRaced == ~swept /\ ~outlived => OneGarden

\* "a competing garden" never releases "a lock it does not own": with the same
\* reservation the lock of a live run stays until that run releases it.
RunKeepsLock ==
    ~swept /\ ~outlived =>
        \A r \in Runs : HoldsLock(r) => lock.there /\ lock.creator = r

\* acquire and release never wait for the lock's owner: each ends, although
\* acquire starts over whenever the lock vanished or was cleared.
CommandsReturn ==
    \A r \in Runs :
        place[r] \in {"open", "compare"} ~>
            place[r] \in {"working", "refused", "ended", "dead"}

-----------------------------------------------------------------------------
\* The inductive invariant behind OneGardenUnlessRaced and RunKeepsLock.

LiveOwner == \E r \in Runs : HoldsLock(r) /\ lock.creator = r

\* A file that names a token names its creator's.
NamesRun == lock.token \in {NoToken, lock.creator}

\* A decision to unlink is about a file that is there: one's own, or one
\* without a live owner.
DecisionsAreSound ==
    /\ decided # {} => lock.there
    /\ \A r \in decided :
          /\ place[r] = "unlinkOwn" => lock.creator = r
          /\ place[r] \in {"clear", "unlinkOld"} => outlived \/ ~LiveOwner

\* An aged file has no live owner unless a run outlived the TTL.
OldLockIsStale == lock.there /\ lock.old => outlived \/ ~LiveOwner

GardenInv == RunKeepsLock /\ NamesRun /\ DecisionsAreSound /\ OldLockIsStale
=============================================================================
