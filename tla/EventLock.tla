----------------------------- MODULE EventLock -----------------------------
(***************************************************************************)
(* EventWriteLock (scripts/wiki_lock.py): the lock file                    *)
(* `.wiki-event.lock` that every writer of the event store takes.          *)
(*                                                                         *)
(* A process is named by its pid.  Every system call on the lock file is a *)
(* step of its own: the O_EXCL open, the write of `pid=`, the read of a    *)
(* waiter, its kill(pid, 0), its stat and its unlink.  The operating       *)
(* system may kill a process anywhere, end one that is done and give its   *)
(* pid to a new process.  Time is the two facts the code asks of it: the   *)
(* deadline of __enter__ has passed, and the file is older than the TTL.   *)
(*                                                                         *)
(* Two ghosts record when the code's timing assumptions failed:            *)
(*   raced    a waiter unlinked a file other than the one it judged stale; *)
(*   overrun  a lock file aged past the TTL under a live holder.           *)
(***************************************************************************)
EXTENDS Naturals

CONSTANTS
    Pids,       \* process ids; a pid names the process that has it now
    NoPid,      \* a lock file whose text holds no pid yet
    MaxEnters   \* bound on the number of __enter__ calls per pid

ASSUME NoPidAssumption == NoPid \notin Pids
ASSUME MaxEntersAssumption == MaxEnters \in Nat

VARIABLES
    file,       \* [there, creator, pid, old]: the lock file; creator is a ghost
    pc,         \* where each process is in __enter__ / __exit__
    seen,       \* the pid each waiter parsed from the text it read
    late,       \* the processes whose deadline has passed
    enters,     \* the number of __enter__ calls each pid has made
    judged,     \* ghost: the waiters whose judged file is still the one there
    raced,      \* ghost, see above
    overrun     \* ghost, see above

ghosts == <<judged, raced, overrun>>
vars == <<file, pc, seen, late, enters, judged, raced, overrun>>

\* "open" tries O_EXCL; "created" owns an empty file; "held" is inside `with`;
\* "read" to "unlink" are _clear_stale_lock; "wait" is the deadline test.
Places == {"idle", "open", "created", "held",
           "read", "kill0", "stat", "unlink", "wait", "dead"}

FileType == [there : BOOLEAN, creator : Pids \cup {NoPid},
             pid : Pids \cup {NoPid}, old : BOOLEAN]

NoFile == [there |-> FALSE, creator |-> NoPid, pid |-> NoPid, old |-> FALSE]

\* An owner has created the file and not yet released it.
Owns(p) == pc[p] \in {"created", "held"}

Goto(p, place) == pc' = [pc EXCEPT ![p] = place]

\* Every removal of the file makes each waiter's judgement one of a file
\* that is gone.
Removed == file' = NoFile /\ judged' = {}

-----------------------------------------------------------------------------
Init ==
    /\ file = NoFile
    /\ pc = [p \in Pids |-> "idle"]
    /\ seen = [p \in Pids |-> NoPid]
    /\ late = {}
    /\ enters = [p \in Pids |-> 0]
    /\ judged = {}
    /\ raced = FALSE
    /\ overrun = FALSE

\* __enter__: the deadline is set, the loop begins.
Enter(p) ==
    /\ pc[p] = "idle"
    /\ enters[p] < MaxEnters
    /\ enters' = [enters EXCEPT ![p] = @ + 1]
    /\ Goto(p, "open")
    /\ UNCHANGED <<file, seen, late, ghosts>>

\* os.open(O_CREAT | O_EXCL): the file exists, empty, from here on.
OpenCreates(p) ==
    /\ pc[p] = "open"
    /\ ~file.there
    /\ file' = [there |-> TRUE, creator |-> p, pid |-> NoPid, old |-> FALSE]
    /\ late' = late \ {p}
    /\ Goto(p, "created")
    /\ UNCHANGED <<seen, enters, ghosts>>

\* FileExistsError: go and see whether the lock is stale.
OpenFails(p) ==
    /\ pc[p] = "open"
    /\ file.there
    /\ Goto(p, "read")
    /\ UNCHANGED <<file, seen, late, enters, ghosts>>

\* The buffered pid= and timestamp lines reach the file on close.  A creator
\* whose file was unlinked meanwhile writes to an inode without a name.
WritePid(p) ==
    /\ pc[p] = "created"
    /\ file' = IF file.there /\ file.creator = p
               THEN [file EXCEPT !.pid = p, !.old = FALSE] ELSE file
    /\ Goto(p, "held")
    /\ UNCHANGED <<seen, late, enters, ghosts>>

\* The write fails or the user interrupts it: __enter__ raises, so __exit__
\* never runs and the empty file stays.
WritePidFails(p) ==
    /\ pc[p] = "created"
    /\ Goto(p, "idle")
    /\ UNCHANGED <<file, seen, late, enters, ghosts>>

\* __exit__: unlink(missing_ok=True), whoever the file belongs to by now.
Exit(p) ==
    /\ pc[p] = "held"
    /\ Removed
    /\ Goto(p, "idle")
    /\ UNCHANGED <<seen, late, enters, raced, overrun>>

\* _clear_stale_lock reads the text: a file that is gone counts as cleared.
ReadText(p) ==
    /\ pc[p] = "read"
    /\ IF file.there
       THEN /\ seen' = [seen EXCEPT ![p] = file.pid]
            /\ judged' = judged \cup {p}
            /\ Goto(p, "kill0")
       ELSE /\ Goto(p, "open")
            /\ UNCHANGED <<seen, judged>>
    /\ UNCHANGED <<file, late, enters, raced, overrun>>

\* A text without a pid taken for a dead holder's.
TestPidUnparsedIsDead(p) ==
    /\ pc[p] = "kill0"
    /\ IF seen[p] = NoPid \/ pc[seen[p]] = "dead"
       THEN Goto(p, "unlink")
       ELSE Goto(p, "stat")
    /\ seen' = [seen EXCEPT ![p] = NoPid]
    /\ UNCHANGED <<file, late, enters, ghosts>>

\* Staleness by age alone.
TestPidSkipped(p) ==
    /\ pc[p] = "kill0"
    /\ Goto(p, "stat")
    /\ seen' = [seen EXCEPT ![p] = NoPid]
    /\ UNCHANGED <<file, late, enters, ghosts>>

\* pid_alive: a parsed pid that is dead makes the lock stale.
TestPid(p) ==
    /\ pc[p] = "kill0"
    /\ IF seen[p] # NoPid /\ pc[seen[p]] = "dead"
       THEN Goto(p, "unlink")
       ELSE Goto(p, "stat")
    /\ seen' = [seen EXCEPT ![p] = NoPid]
    /\ UNCHANGED <<file, late, enters, ghosts>>

\* _lock_age_seconds: the stat is of the file that is there now.
TestAge(p) ==
    /\ pc[p] = "stat"
    /\ IF file.there /\ file.old
       THEN Goto(p, "unlink") /\ judged' = judged \cup {p}
       ELSE Goto(p, "wait") /\ judged' = judged \ {p}
    /\ UNCHANGED <<file, seen, late, enters, raced, overrun>>

\* lock_path.unlink(missing_ok=True), then `continue`: no deadline test.
UnlinkStale(p) ==
    /\ pc[p] = "unlink"
    /\ raced' = (raced \/ (file.there /\ p \notin judged))
    /\ Removed
    /\ Goto(p, "open")
    /\ UNCHANGED <<seen, late, enters, overrun>>

\* An error path that cleans up a lock it never took.
GiveUpUnlinks(p) ==
    /\ pc[p] = "wait"
    /\ p \in late
    /\ late' = late \ {p}
    /\ Removed
    /\ Goto(p, "idle")
    /\ UNCHANGED <<seen, enters, raced, overrun>>

\* Not stale: past the deadline __enter__ raises, before it the loop goes on.
GiveUp(p) ==
    /\ pc[p] = "wait"
    /\ p \in late
    /\ late' = late \ {p}
    /\ Goto(p, "idle")
    /\ UNCHANGED <<file, seen, enters, ghosts>>

\* A loop without the deadline test.
SleepPastDeadline(p) ==
    /\ pc[p] = "wait"
    /\ Goto(p, "open")
    /\ UNCHANGED <<file, seen, late, enters, ghosts>>

Sleep(p) ==
    /\ pc[p] = "wait"
    /\ p \notin late
    /\ Goto(p, "open")
    /\ UNCHANGED <<file, seen, late, enters, ghosts>>

-----------------------------------------------------------------------------
\* The operating system and the clock.

\* A process ends: killed anywhere, or done with its command.
Die(p) ==
    /\ pc[p] # "dead"
    /\ Goto(p, "dead")
    /\ seen' = [seen EXCEPT ![p] = NoPid]
    /\ late' = late \ {p}
    /\ judged' = judged \ {p}
    /\ UNCHANGED <<file, enters, raced, overrun>>

\* A new process gets the pid of a dead one.
Recycle(p) ==
    /\ pc[p] = "dead"
    /\ enters[p] < MaxEnters
    /\ Goto(p, "idle")
    /\ UNCHANGED <<file, seen, late, enters, ghosts>>

DeadlinePasses(p) ==
    /\ pc[p] \notin {"idle", "dead", "created", "held"}
    /\ p \notin late
    /\ late' = late \cup {p}
    /\ UNCHANGED <<file, pc, seen, enters, ghosts>>

\* LOCK_STALE_TTL_SECONDS pass since the file was written.
TTLPasses ==
    /\ file.there
    /\ ~file.old
    /\ file' = [file EXCEPT !.old = TRUE]
    /\ overrun' = (overrun \/ \E p \in Pids : Owns(p) /\ file.creator = p)
    /\ UNCHANGED <<pc, seen, late, enters, judged, raced>>

-----------------------------------------------------------------------------
\* What the code of one process does, as opposed to what happens to it.
ProcessStep(p) ==
    \/ OpenCreates(p) \/ OpenFails(p) \/ WritePid(p) \/ Exit(p)
    \/ ReadText(p) \/ TestPid(p) \/ TestAge(p) \/ UnlinkStale(p)
    \/ GiveUp(p) \/ Sleep(p)

Next ==
    \/ \E p \in Pids :
          \/ Enter(p)
          \/ ProcessStep(p)
          \/ WritePidFails(p)
          \/ Die(p)
          \/ Recycle(p)
          \/ DeadlinePasses(p)
    \/ TTLPasses

Spec == Init /\ [][Next]_vars

\* Every live process keeps running and its clock keeps ticking; nothing is
\* fair about deaths, interrupts, pid reuse or the fifteen minutes of the TTL.
Fairness ==
    \A p \in Pids : WF_vars(ProcessStep(p)) /\ WF_vars(DeadlinePasses(p))

FairSpec == Spec /\ Fairness

-----------------------------------------------------------------------------
\* Every variable keeps its type.
TypeOK ==
    /\ file \in FileType
    /\ pc \in [Pids -> Places]
    /\ seen \in [Pids -> Pids \cup {NoPid}]
    /\ late \in SUBSET Pids
    /\ enters \in [Pids -> 0..MaxEnters]
    /\ judged \in SUBSET Pids
    /\ raced \in BOOLEAN
    /\ overrun \in BOOLEAN

\* No two processes are inside the lock.
MutualExclusion ==
    \A p, q \in Pids : pc[p] = "held" /\ pc[q] = "held" => p = q

\* "one EventWriteLock serializes every WRITER", as far as the code keeps it:
\* _clear_stale_lock judges one file and unlinks whichever is there by then, and
\* a hold may outlive the TTL.  Two holders appear only after a waiter
\* unlinked a file it had not judged, or after a hold outlived the TTL.
\* Deaths, interrupts, pid reuse and expiry of abandoned files alone never
\* break it.
ExclusionUnlessRaced == ~raced /\ ~overrun => MutualExclusion

\* With the same reservation, a live owner's file stays in place until its own
\* __exit__: no waiter frees a lock whose owner is alive.
OwnerKeepsFile ==
    ~raced /\ ~overrun =>
        \A p \in Pids : Owns(p) => file.there /\ file.creator = p

\* A call of __enter__ ends: with the lock, with RuntimeError, or with the
\* process.  The `continue` after a stale clear skips the deadline test, so
\* this rests on the other processes not re-creating the lock for ever.
EnterReturns ==
    \A p \in Pids : pc[p] = "open" ~> pc[p] \in {"created", "held", "idle", "dead"}

\* "a dead holder pid frees the lock immediately": if someone wants the lock
\* and its holder is dead, the file goes, unless the wanting process dies too
\* or the dead pid is recycled.
DeadHolderFreed ==
    \A p, q \in Pids :
        (pc[p] = "open" /\ file.there /\ file.pid = q /\ pc[q] = "dead")
            ~> (~file.there \/ file.pid # q \/ pc[p] = "dead" \/ pc[q] # "dead")

-----------------------------------------------------------------------------
\* Until the timing assumptions fail, the lock file implements WriterMutex: its
\* holder is the process that owns the file.  From then on nothing is claimed.
Timely == ~raced /\ ~overrun

Holder == IF Timely /\ \E p \in Pids : Owns(p) THEN CHOOSE p \in Pids : Owns(p) ELSE NoPid

Mutex == INSTANCE WriterMutex WITH Writers <- Pids, Nobody <- NoPid, holder <- Holder

\* The lock never passes from one process to another without being free in
\* between, and nobody takes it while an owner is alive.
ImplementsMutex == Mutex!Spec

-----------------------------------------------------------------------------
\* The inductive invariant behind ExclusionUnlessRaced and OwnerKeepsFile.

\* A file that names a pid names its creator's.
NamesCreator == file.pid \in {NoPid, file.creator}

\* A judgement is about a file that is there, and a pid read from it is its
\* creator's.
JudgedIsThere ==
    /\ judged # {} => file.there
    /\ \A q \in judged :
          pc[q] = "kill0" => seen[q] \in {NoPid, file.creator}

\* A waiter about to unlink the file it judged unlinks no live owner's.
JudgedIsStale ==
    \A q \in judged : pc[q] = "unlink" => overrun \/ ~ \E p \in Pids : Owns(p) /\ file.creator = p

\* An aged file has no live owner unless a hold outlived the TTL.
OldIsStale ==
    file.there /\ file.old => overrun \/ ~ \E p \in Pids : Owns(p) /\ file.creator = p

LockInv ==
    /\ OwnerKeepsFile
    /\ NamesCreator
    /\ JudgedIsThere
    /\ JudgedIsStale
    /\ OldIsStale
=============================================================================
