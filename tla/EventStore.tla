----------------------------- MODULE EventStore -----------------------------
(***************************************************************************)
(* The event store and its writers: new-handoff, garden apply,             *)
(* new-garden-apply, build-pending, capture-sources (scripts/wiki_event.py *)
(* and scripts/wiki_garden.py), and the lock-free reader count-pending.    *)
(*                                                                         *)
(* One process runs one command at a time.  What a command does before it  *)
(* has the event lock (stamping its event, reading the handoff it is       *)
(* given) is a step of its own, and so is each write of a file: between    *)
(* two writes the process may be killed, and each write may fail.  The     *)
(* lock is WriterMutex, which EventLock implements.                        *)
(*                                                                         *)
(* A timestamp and the uuid7 made with it are one number, so event order   *)
(* is number order.  A page is the list of session blocks garden apply     *)
(* appended; a block carries, as a ghost, the stamp of the garden-apply    *)
(* event that was to record it.                                            *)
(***************************************************************************)
EXTENDS Routing

CONSTANTS
    Procs,          \* processes that run commands
    Nobody,         \* the event lock is free
    Handoffs,       \* the handoff events sessions may emit
    Workstreams,    \* names of workstream pages
    Proposed,       \* [Handoffs -> Seq(Proposal)]: proposed_workstreams
    HasState,       \* the handoffs that carry workstream_state
    FirstPages,     \* the pages that exist at the start
    Running,        \* the commands that are run
    MaxRuns,        \* bound on the runs of commands that stamp an event
    MaxFaults,      \* bound on failing writes
    MaxKills,       \* bound on killed processes
    RestoreMayFail  \* whether the restore after a failed event write can fail

ASSUME ProcsAssumption == Nobody \notin Procs
ASSUME NamesAssumption == NoName \notin Workstreams
ASSUME ProposedAssumption ==
    /\ Proposed \in [Handoffs -> Seq(Proposal(Workstreams))]
    /\ HasState \subseteq Handoffs
    /\ FirstPages \subseteq Workstreams
ASSUME BoundsAssumption ==
    /\ MaxRuns \in Nat /\ MaxFaults \in Nat /\ MaxKills \in Nat
    /\ RestoreMayFail \in BOOLEAN

VARIABLES
    holder,     \* the process in the event lock
    clock,      \* the last stamp taken
    handoffs,   \* the handoff events in the store
    born,       \* the stamp of each handoff event, 0 before it is built
    applies,    \* the garden-apply events, in the order they were written
    manifests,  \* the handoffs whose sources were captured
    index,      \* wiki/pending/index.json
    latest,     \* wiki/pending/latest.md
    pages,      \* workstreams/<name>.md
    pc,         \* where each process is in its command
    job,        \* the command each process runs, or ran last
    stamp,      \* the stamp of the garden-apply event of that command
    draft,      \* [name, created, before]: the page an apply works on
    built,      \* the projection each process computed or read
    result,     \* what the last command of each process reported
    runs,       \* how many runs took or will take a stamp
    faults,     \* how many writes failed
    kills,      \* how many processes were killed
    owed,       \* ghost: why the projection may differ from the store
    orphaned    \* ghost: stamps of applies cut between page and event

store == <<handoffs, born, applies, manifests>>
projection == <<index, latest>>
local == <<job, stamp, draft, built, result>>
budget == <<runs, faults, kills>>
vars == <<holder, clock, store, projection, pages, pc, local, budget, owed, orphaned>>

Mutex == INSTANCE WriterMutex WITH Writers <- Procs

-----------------------------------------------------------------------------
Commands == {"handoff", "apply", "dispose", "build", "capture", "count"}

\* The statuses new-garden-apply accepts, and those garden apply writes.
Dispositions == {"applied-manually", "rejected", "superseded"}
Statuses == Dispositions \cup {"applied"}

NoJob == [cmd |-> "build", event |-> NoName, force |-> FALSE,
          approved |-> NoName, status |-> "applied"]

Block == [event : Handoffs, stamp : Nat]
Page == [there : BOOLEAN, blocks : Seq(Block)]
NoPage == [there |-> FALSE, blocks |-> <<>>]
NewPage == [there |-> TRUE, blocks |-> <<>>]

NoDraft == [name |-> NoName, created |-> FALSE, before |-> NoPage]

\* A garden-apply event; `page` and `forced` are ghosts: the page a mechanical
\* apply wrote (NoName for a disposition by command) and its --force.
Apply == [stamp : Nat, target : Handoffs, status : Statuses,
          page : Workstreams \cup {NoName}, forced : BOOLEAN]

Elements(s) == {s[i] : i \in DOMAIN s}

Disposed == {a.target : a \in Elements(applies)}

\* build_pending_index: a handoff is pending until some garden-apply event
\* names it, and the index lists the manifests of the pending ones.
BuildPendingIndex ==
    LET pending == handoffs \ Disposed
    IN  [pending |-> pending, captured |-> manifests \cap pending]

Projection == [pending : SUBSET Handoffs, captured : SUBSET Handoffs]
EmptyProjection == [pending |-> {}, captured |-> {}]

Target(p) == TargetWorkstream(Proposed[job[p].event], job[p].approved)

Goto(p, place) == pc' = [pc EXCEPT ![p] = place]

Tick == clock' = clock + 1

\* A run that will take a stamp, of which there are at most MaxRuns.
CountRun == runs < MaxRuns /\ runs' = runs + 1

-----------------------------------------------------------------------------
Init ==
    /\ holder = Nobody
    /\ clock = 0
    /\ handoffs = {}
    /\ born = [h \in Handoffs |-> 0]
    /\ applies = <<>>
    /\ manifests = {}
    /\ index = EmptyProjection
    /\ latest = EmptyProjection
    /\ pages = [w \in Workstreams |-> IF w \in FirstPages THEN NewPage ELSE NoPage]
    /\ pc = [p \in Procs |-> "idle"]
    /\ job = [p \in Procs |-> NoJob]
    /\ stamp = [p \in Procs |-> 0]
    /\ draft = [p \in Procs |-> NoDraft]
    /\ built = [p \in Procs |-> EmptyProjection]
    /\ result = [p \in Procs |-> "none"]
    /\ runs = 0
    /\ faults = 0
    /\ kills = 0
    /\ owed = "no"
    /\ orphaned = {}

-----------------------------------------------------------------------------
\* Before the lock.

Start(p, j, s) ==
    /\ pc[p] = "idle"
    /\ j.cmd \in Running
    /\ job' = [job EXCEPT ![p] = j]
    /\ stamp' = [stamp EXCEPT ![p] = s]
    /\ result' = [result EXCEPT ![p] = "none"]
    /\ Goto(p, "lock")
    /\ UNCHANGED <<holder, handoffs, applies, manifests, projection, pages, draft, built,
                   faults, kills, owed, orphaned>>

\* build_handoff_event stamps the event before cmd_new_handoff takes the lock.
StartHandoff(p, h) ==
    /\ born[h] = 0
    /\ CountRun
    /\ Tick
    /\ born' = [born EXCEPT ![h] = clock']
    /\ Start(p, [NoJob EXCEPT !.cmd = "handoff", !.event = h], 0)

\* wiki-garden.py is given a stored event and validates it before the lock.
StartApply(p, h, force, approved) ==
    /\ h \in handoffs
    /\ CountRun
    /\ Start(p, [NoJob EXCEPT !.cmd = "apply", !.event = h, !.force = force,
                              !.approved = approved], 0)
    /\ UNCHANGED <<clock, born>>

\* cmd_new_garden_apply stamps its event first and looks for the target later.
StartDispose(p, h, status) ==
    /\ CountRun
    /\ Tick
    /\ Start(p, [NoJob EXCEPT !.cmd = "dispose", !.event = h, !.status = status], clock')
    /\ UNCHANGED born

StartBuild(p) ==
    /\ Start(p, NoJob, 0)
    /\ UNCHANGED <<clock, born, runs>>

\* resolve_event_arg and load_json precede the lock.
StartCapture(p, h) ==
    /\ h \in handoffs
    /\ Start(p, [NoJob EXCEPT !.cmd = "capture", !.event = h], 0)
    /\ UNCHANGED <<clock, born, runs>>

-----------------------------------------------------------------------------
\* The lock.

FirstStep(cmd) ==
    CASE cmd = "handoff" -> "emit"
      [] cmd = "apply"   -> "check"
      [] cmd = "dispose" -> "target"
      [] cmd = "build"   -> "index"
      [] cmd = "capture" -> "capture"

EnterLock(p) ==
    /\ pc[p] = "lock"
    /\ Mutex!Acquire(p)
    /\ Goto(p, FirstStep(job[p].cmd))
    /\ UNCHANGED <<clock, store, projection, pages, local, budget, owed, orphaned>>

\* What a command was, once it has ended.
Ended(p) == job' = [job EXCEPT ![p] = [NoJob EXCEPT !.cmd = job[p].cmd]]

\* "event write lock is held ... gave up": nothing was written.
LockTimeout(p) ==
    /\ pc[p] = "lock"
    /\ holder # Nobody
    /\ Goto(p, "idle")
    /\ Ended(p)
    /\ result' = [result EXCEPT ![p] = "error"]
    /\ UNCHANGED <<holder, clock, store, projection, pages, stamp, draft, built,
                   budget, owed, orphaned>>

\* The command ends, whatever it reports, and __exit__ frees the lock.
Leave(p, outcome) ==
    /\ Mutex!Release(p)
    /\ Goto(p, "idle")
    /\ Ended(p)
    /\ result' = [result EXCEPT ![p] = outcome]
    /\ draft' = [draft EXCEPT ![p] = NoDraft]
    /\ built' = [built EXCEPT ![p] = EmptyProjection]
    /\ UNCHANGED <<clock, born>>

\* A run that changed the store and leaves without publishing owes a rebuild.
OwedOnFailure == IF owed = "running" THEN "failed" ELSE owed

\* A write fails (disk, permissions, interrupt) and the command reports it.
Fails(p, outcome) ==
    /\ faults < MaxFaults
    /\ faults' = faults + 1
    /\ Leave(p, outcome)
    /\ owed' = OwedOnFailure
    /\ UNCHANGED <<handoffs, applies, manifests, runs, kills>>

-----------------------------------------------------------------------------
\* cmd_new_handoff, cmd_new_garden_apply, cmd_capture_sources.

\* A new-handoff that leaves the projection to the next writer.
WriteHandoffOnly(p) ==
    /\ pc[p] = "emit"
    /\ handoffs' = handoffs \cup {job[p].event}
    /\ owed' = "running"
    /\ Leave(p, "ok")
    /\ UNCHANGED <<applies, manifests, projection, pages, stamp, budget, orphaned>>

WriteHandoff(p) ==
    /\ pc[p] = "emit"
    /\ handoffs' = handoffs \cup {job[p].event}
    /\ owed' = "running"
    /\ Goto(p, "index")
    /\ UNCHANGED <<holder, clock, born, applies, manifests, projection, pages, local,
                   budget, orphaned>>

Record(a) == applies' = Append(applies, a)

\* A disposition of a handoff nobody looked up.
WriteDispositionUnchecked(p) ==
    /\ pc[p] = "target"
    /\ Record([stamp |-> stamp[p], target |-> job[p].event, status |-> job[p].status,
               page |-> NoName, forced |-> FALSE])
    /\ owed' = "running"
    /\ Goto(p, "index")
    /\ UNCHANGED <<holder, clock, handoffs, born, manifests, projection, pages, local,
                   budget, orphaned>>

WriteDisposition(p) ==
    /\ pc[p] = "target"
    /\ job[p].event \in handoffs
    /\ Record([stamp |-> stamp[p], target |-> job[p].event, status |-> job[p].status,
               page |-> NoName, forced |-> FALSE])
    /\ owed' = "running"
    /\ Goto(p, "index")
    /\ UNCHANGED <<holder, clock, handoffs, born, manifests, projection, pages, local,
                   budget, orphaned>>

\* "target handoff event ... does not exist".
RefuseTarget(p) ==
    /\ pc[p] = "target"
    /\ job[p].event \notin handoffs
    /\ Leave(p, "error")
    /\ UNCHANGED <<handoffs, applies, manifests, projection, pages, stamp, budget, owed, orphaned>>

\* The manifest is written, or verified when it is already there; the pending
\* index is not rebuilt although it lists the manifests.
CaptureSources(p) ==
    /\ pc[p] = "capture"
    /\ manifests' = manifests \cup {job[p].event}
    /\ owed' = IF job[p].event \in manifests \cup Disposed THEN owed ELSE "captured"
    /\ Leave(p, "ok")
    /\ UNCHANGED <<handoffs, applies, projection, pages, stamp, budget, orphaned>>

\* The first write of one of these commands fails: nothing is durable.
FirstWriteFails(p) ==
    /\ pc[p] \in {"emit", "target", "capture"}
    /\ Fails(p, "error")
    /\ UNCHANGED <<projection, pages, stamp, orphaned>>

-----------------------------------------------------------------------------
\* apply_event and _apply_with_workstream_state.

Refuse(p, outcome) ==
    /\ Leave(p, outcome)
    /\ UNCHANGED <<handoffs, applies, manifests, projection, pages, stamp, budget, owed, orphaned>>

\* A gate that looks for applies and forgets the other dispositions.
AlreadyApplied(p) ==
    ~job[p].force /\ \E a \in Elements(applies) : a.target = job[p].event /\ a.status = "applied"

\* existing_dispositions, read under the lock.
AlreadyDisposed(p) == job[p].event \in Disposed /\ ~job[p].force

RefuseDisposed(p) ==
    /\ pc[p] = "check"
    /\ AlreadyDisposed(p)
    /\ Refuse(p, "refused")

\* apply_from_sources: not implemented, the handoff needs curation.
RefuseManual(p) ==
    /\ pc[p] = "check"
    /\ ~AlreadyDisposed(p)
    /\ job[p].event \notin HasState
    /\ Refuse(p, "manual")

Applicable(p) == ~AlreadyDisposed(p) /\ job[p].event \in HasState

HasPage(p) == Target(p).routed /\ (pages[Target(p).name].there \/ Target(p).new)

\* No route, or a page that is missing and not the event's to create.
RefuseRoute(p) ==
    /\ pc[p] = "check"
    /\ Applicable(p)
    /\ ~HasPage(p)
    /\ Refuse(p, "error")

\* The page is read, and created first when the event proposes it as new.
OpenPage(p) ==
    /\ pc[p] = "check"
    /\ Applicable(p)
    /\ HasPage(p)
    /\ LET w == Target(p).name
       IN  /\ pages' = [pages EXCEPT ![w].there = TRUE]
           /\ draft' = [draft EXCEPT ![p] = [name |-> w, created |-> ~pages[w].there,
                                             before |-> pages'[w]]]
    /\ Goto(p, "append")
    /\ UNCHANGED <<holder, clock, store, projection, job, stamp, built, result,
                   budget, owed, orphaned>>

\* _append_session_update: one more block, after the others.
WithBlock(page, h, s) == [page EXCEPT !.blocks = Append(@, [event |-> h, stamp |-> s])]

\* The apply stamped with the session's time instead of its own.
AppendBlockSessionTime(p) ==
    /\ pc[p] = "append"
    /\ stamp' = [stamp EXCEPT ![p] = born[job[p].event]]
    /\ pages' = [pages EXCEPT ![draft[p].name] =
                    WithBlock(draft[p].before, job[p].event, born[job[p].event])]
    /\ Goto(p, "record")
    /\ UNCHANGED <<holder, clock, store, projection, job, draft, built, result, budget,
                   owed, orphaned>>

\* The garden-apply event is stamped, the page is rewritten with the block at
\* the end of the session updates.
AppendBlock(p) ==
    /\ pc[p] = "append"
    /\ Tick
    /\ stamp' = [stamp EXCEPT ![p] = clock']
    /\ pages' = [pages EXCEPT ![draft[p].name] = WithBlock(draft[p].before, job[p].event, clock')]
    /\ Goto(p, "record")
    /\ UNCHANGED <<holder, store, projection, job, draft, built, result, budget, owed, orphaned>>

\* Creating or rewriting the page fails, before the try block: nothing is
\* undone.
PageWriteFails(p) ==
    /\ \/ pc[p] = "append"
       \/ pc[p] = "check" /\ Applicable(p) /\ HasPage(p) /\ ~pages[Target(p).name].there
    /\ Fails(p, "error")
    /\ UNCHANGED <<projection, pages, stamp, orphaned>>

\* write_event of the garden-apply event.
RecordApply(p) ==
    /\ pc[p] = "record"
    /\ Record([stamp |-> stamp[p], target |-> job[p].event,
               status |-> IF job[p].approved = NoName THEN "applied" ELSE "applied-manually",
               page |-> draft[p].name, forced |-> job[p].force])
    /\ owed' = "running"
    /\ Goto(p, "index")
    /\ UNCHANGED <<holder, clock, handoffs, born, manifests, projection, pages, local,
                   budget, orphaned>>

RecordFails(p) ==
    /\ pc[p] = "record"
    /\ faults < MaxFaults
    /\ faults' = faults + 1
    /\ Goto(p, "restore")
    /\ UNCHANGED <<holder, clock, store, projection, pages, local, runs, kills, owed, orphaned>>

\* A failed event write that leaves the block behind.
RestoreSkipped(p) ==
    /\ pc[p] = "restore"
    /\ Leave(p, "error")
    /\ UNCHANGED <<handoffs, applies, manifests, projection, pages, stamp, budget, owed, orphaned>>

\* The event did not land: the page goes back to what it was.
Restore(p) ==
    /\ pc[p] = "restore"
    /\ pages' = [pages EXCEPT ![draft[p].name] =
                    IF draft[p].created THEN NoPage ELSE draft[p].before]
    /\ Leave(p, "error")
    /\ UNCHANGED <<handoffs, applies, manifests, projection, stamp, budget, owed, orphaned>>

\* The restore meets the fault that broke the event write.
RestoreFails(p) ==
    /\ RestoreMayFail
    /\ pc[p] = "restore"
    /\ Fails(p, "error")
    /\ orphaned' = orphaned \cup {stamp[p]}
    /\ UNCHANGED <<projection, pages, stamp>>

-----------------------------------------------------------------------------
\* The projection: every command that changes an event ends with it.

\* build_pending_index and the rename of index.json.
WriteIndex(p) ==
    /\ pc[p] = "index"
    /\ built' = [built EXCEPT ![p] = BuildPendingIndex]
    /\ index' = BuildPendingIndex
    /\ Goto(p, "latest")
    /\ UNCHANGED <<holder, clock, store, latest, pages, job, stamp, draft, result,
                   budget, owed, orphaned>>

\* The rename of latest.md, rendered from the same index.
WriteLatest(p) ==
    /\ pc[p] = "latest"
    /\ latest' = built[p]
    /\ owed' = "no"
    /\ Leave(p, "ok")
    /\ UNCHANGED <<handoffs, applies, manifests, index, pages, stamp, budget, orphaned>>

\* A restore of the page although the event is durable.
ProjectionFailsRestoring(p) ==
    /\ pc[p] \in {"index", "latest"}
    /\ Fails(p, IF job[p].cmd \in {"apply", "dispose"} THEN "durable" ELSE "error")
    /\ pages' = IF job[p].cmd = "apply"
                THEN [pages EXCEPT ![draft[p].name] = draft[p].before] ELSE pages
    /\ UNCHANGED <<projection, stamp, orphaned>>

\* A durable apply reported as a plain failure.
ProjectionFailsPlainly(p) ==
    /\ pc[p] \in {"index", "latest"}
    /\ Fails(p, "error")
    /\ UNCHANGED <<projection, pages, stamp, orphaned>>

\* An apply says DurableApplyNeedsRepair, a disposition "stands"; a handoff
\* and a build-pending only report the error.
ProjectionFails(p) ==
    /\ pc[p] \in {"index", "latest"}
    /\ Fails(p, IF job[p].cmd \in {"apply", "dispose"} THEN "durable" ELSE "error")
    /\ UNCHANGED <<projection, pages, stamp, orphaned>>

-----------------------------------------------------------------------------
\* load_verified_pending_index, without the lock: index.json is read first,
\* then the store it is compared with.
StartCount(p) ==
    /\ pc[p] = "idle"
    /\ "count" \in Running
    /\ job' = [job EXCEPT ![p] = [NoJob EXCEPT !.cmd = "count"]]
    /\ built' = [built EXCEPT ![p] = index]
    /\ result' = [result EXCEPT ![p] = "none"]
    /\ stamp' = [stamp EXCEPT ![p] = 0]
    /\ Goto(p, "compare")
    /\ UNCHANGED <<holder, clock, store, projection, pages, draft, budget, owed, orphaned>>

CompareCount(p) ==
    /\ pc[p] = "compare"
    /\ result' = [result EXCEPT ![p] = IF built[p] = BuildPendingIndex THEN "ok" ELSE "mismatch"]
    /\ built' = [built EXCEPT ![p] = EmptyProjection]
    /\ Goto(p, "idle")
    /\ UNCHANGED <<holder, clock, store, projection, pages, job, stamp, draft,
                   budget, owed, orphaned>>

\* kill -9, a power cut, the end of a terminal session: no handler runs, and
\* the lock file of the dead pid is cleared by the next process that wants it.
Kill(p) ==
    /\ pc[p] # "idle"
    /\ kills < MaxKills
    /\ kills' = kills + 1
    /\ holder' = IF holder = p THEN Nobody ELSE holder
    /\ orphaned' = IF pc[p] \in {"record", "restore"} THEN orphaned \cup {stamp[p]} ELSE orphaned
    /\ owed' = IF holder = p /\ owed = "running" THEN "killed" ELSE owed
    /\ Goto(p, "idle")
    /\ job' = [job EXCEPT ![p] = NoJob]
    /\ stamp' = [stamp EXCEPT ![p] = 0]
    /\ draft' = [draft EXCEPT ![p] = NoDraft]
    /\ built' = [built EXCEPT ![p] = EmptyProjection]
    /\ result' = [result EXCEPT ![p] = "none"]
    /\ UNCHANGED <<clock, store, projection, pages, runs, faults>>

-----------------------------------------------------------------------------
Begin(p) ==
    \/ \E h \in Handoffs :
          \/ StartHandoff(p, h)
          \/ \E force \in BOOLEAN, approved \in Workstreams \cup {NoName} :
                StartApply(p, h, force, approved)
          \/ \E status \in Dispositions : StartDispose(p, h, status)
          \/ StartCapture(p, h)
    \/ StartBuild(p)
    \/ StartCount(p)

Step(p) ==
    \/ EnterLock(p) \/ LockTimeout(p)
    \/ WriteHandoff(p) \/ WriteDisposition(p) \/ RefuseTarget(p) \/ CaptureSources(p)
    \/ RefuseDisposed(p) \/ RefuseManual(p) \/ RefuseRoute(p) \/ OpenPage(p)
    \/ AppendBlock(p) \/ RecordApply(p) \/ Restore(p)
    \/ WriteIndex(p) \/ WriteLatest(p) \/ CompareCount(p)

Fault(p) ==
    \/ FirstWriteFails(p) \/ PageWriteFails(p) \/ RecordFails(p)
    \/ RestoreFails(p) \/ ProjectionFails(p)

Next == \E p \in Procs : Begin(p) \/ Step(p) \/ Fault(p) \/ Kill(p)

Spec == Init /\ [][Next]_vars

-----------------------------------------------------------------------------
\* Every variable keeps its type.
Places == {"idle", "lock", "emit", "target", "capture", "check", "append", "record",
           "restore", "index", "latest", "compare"}

Job == [cmd : Commands, event : Handoffs \cup {NoName}, force : BOOLEAN,
        approved : Workstreams \cup {NoName}, status : Statuses]

Draft == [name : Workstreams \cup {NoName}, created : BOOLEAN, before : Page]

Outcomes == {"none", "ok", "refused", "manual", "error", "durable", "mismatch"}

TypeOK ==
    /\ holder \in Procs \cup {Nobody}
    /\ clock \in Nat
    /\ handoffs \in SUBSET Handoffs
    /\ born \in [Handoffs -> Nat]
    /\ applies \in Seq(Apply)
    /\ manifests \in SUBSET Handoffs
    /\ index \in Projection
    /\ latest \in Projection
    /\ pages \in [Workstreams -> Page]
    /\ pc \in [Procs -> Places]
    /\ job \in [Procs -> Job]
    /\ stamp \in [Procs -> Nat]
    /\ draft \in [Procs -> Draft]
    /\ built \in [Procs -> Projection]
    /\ result \in [Procs -> Outcomes]
    /\ runs \in 0..MaxRuns
    /\ faults \in 0..MaxFaults
    /\ kills \in 0..MaxKills
    /\ owed \in {"no", "running", "failed", "killed", "captured"}
    /\ orphaned \in SUBSET Nat

-----------------------------------------------------------------------------
Mechanical(a) == a.page # NoName

BlocksOf(w) == DOMAIN pages[w].blocks
BlockAt(w, i) == pages[w].blocks[i]

InFlight(s) == \E p \in Procs : pc[p] \in {"record", "restore"} /\ stamp[p] = s

\* "The workstream mutation and the event must land together" (wiki_garden.py,
\* _apply_with_workstream_state): a block on a page has its garden-apply event
\* in the store, but for the apply at work and for those cut between the two
\* writes by a kill or by a restore that failed as well.
BlocksRecorded ==
    \A w \in Workstreams : \A i \in BlocksOf(w) :
        \/ \E k \in DOMAIN applies :
              /\ applies[k].stamp = BlockAt(w, i).stamp
              /\ applies[k].target = BlockAt(w, i).event
              /\ applies[k].page = w
        \/ InFlight(BlockAt(w, i).stamp)
        \/ BlockAt(w, i).stamp \in orphaned

\* "two applies of different events to the same workstream losing a session
\* block" (apply_event): every recorded apply has its block on the page it was
\* routed to, and no other block of any page has its stamp.
AppliesHaveBlocks ==
    \A k \in DOMAIN applies : Mechanical(applies[k]) =>
        \E i \in BlocksOf(applies[k].page) :
            /\ BlockAt(applies[k].page, i) =
                  [event |-> applies[k].target, stamp |-> applies[k].stamp]
            /\ \A w \in Workstreams : \A j \in BlocksOf(w) :
                  BlockAt(w, j).stamp = applies[k].stamp => w = applies[k].page /\ j = i

\* "two applies of the same event both passing the disposition gate"
\* (apply_event): an apply of a handoff that already has a disposition was
\* forced.
UnforcedIsFirst ==
    \A i, j \in DOMAIN applies :
        i < j /\ applies[i].target = applies[j].target /\ Mechanical(applies[j])
            => applies[j].forced

\* Applies stamp their events under the lock, so the order status gives them
\* is the order they were written in.  (A disposition by command stamps its
\* event before it waits for the lock and has no such order.)
AppliesInOrder ==
    \A i, j \in DOMAIN applies :
        i < j /\ Mechanical(applies[i]) /\ Mechanical(applies[j])
            => applies[i].stamp < applies[j].stamp

\* "count-pending stays accurate": with the lock free both projection files
\* are what the store implies, unless the last change was by a run that failed
\* or was killed before it published, or by capture-sources.
ProjectionFresh ==
    /\ holder = Nobody => owed # "running"
    /\ owed = "no" => index = BuildPendingIndex /\ latest = BuildPendingIndex

\* What an apply reports is what happened: success and "the apply stands" have
\* their event in the store, and any other end leaves neither event nor block,
\* but for a restore that failed too.
ReportsAreTrue ==
    \A p \in Procs :
        pc[p] = "idle" /\ job[p].cmd = "apply" /\ result[p] # "none" =>
            LET recorded == \E a \in Elements(applies) : a.stamp = stamp[p]
            IN  /\ recorded <=> result[p] \in {"ok", "durable"}
                /\ ~recorded /\ stamp[p] \notin orphaned
                       => \A w \in Workstreams : \A i \in BlocksOf(w) :
                             BlockAt(w, i).stamp # stamp[p]

-----------------------------------------------------------------------------
\* The store implements PendingLedger: dispositions name recorded handoffs,
\* and each list is, when it is written, the list of the pending handoffs.
Ledger == INSTANCE PendingLedger WITH
              emitted <- handoffs, disposed <- Disposed,
              index <- index.pending, latest <- latest.pending

ImplementsLedger == Ledger!Spec
-----------------------------------------------------------------------------
\* The inductive invariants behind the theorems of EventStoreProofs.

Writing == {"emit", "target", "capture", "check", "append", "record", "restore"}
InLock(p) == pc[p] \in Writing \cup {"index", "latest"}

\* Whoever works on the store is in the lock, and on what it was given.
Control ==
    \A p \in Procs :
        /\ InLock(p) <=> holder = p
        /\ pc[p] = "lock" => job[p].cmd # "count"
        /\ pc[p] \in Writing \/ (pc[p] = "lock" /\ job[p].cmd # "build")
               => job[p].event \in Handoffs
        /\ pc[p] \in {"append", "record", "restore"} => draft[p].name \in Workstreams

\* An apply works on a stored handoff that passed the gate of apply_event.
GatePassed ==
    \A p \in Procs :
        /\ pc[p] \in {"append", "record", "restore"} => Applicable(p)
        /\ pc[p] \in {"check", "append", "record", "restore"} \/
               (pc[p] = "lock" /\ job[p].cmd = "apply") => job[p].event \in handoffs

\* What is about to be rendered as latest.md is current, and a run that owes
\* the projection is still in the lock.
Projecting ==
    /\ \A p \in Procs : pc[p] = "latest" => built[p] = index /\ index = BuildPendingIndex
    /\ owed = "running" => \E p \in Procs : pc[p] \in {"index", "latest"}

\* Every stamp was taken from the clock, that of the apply at work last.
Stamped ==
    /\ \A p \in Procs : stamp[p] <= clock
    /\ \A k \in DOMAIN applies : Mechanical(applies[k]) =>
          /\ applies[k].stamp <= clock
          /\ \A p \in Procs : pc[p] = "record" => applies[k].stamp < stamp[p]

\* A block is recorded, or was cut from its event, or is the last one of the
\* page under work, whose text without it the apply keeps for a restore.
Settled(w, b) ==
    \/ b.stamp \in orphaned
    \/ \E k \in DOMAIN applies :
          applies[k].stamp = b.stamp /\ applies[k].target = b.event /\ applies[k].page = w

InWork(p, w, i) ==
    /\ pc[p] \in {"record", "restore"}
    /\ draft[p].name = w
    /\ i = Len(draft[p].before.blocks) + 1

PageInv ==
    /\ \A w \in Workstreams : ~pages[w].there => pages[w] = NoPage
    /\ \A p \in Procs :
          /\ pc[p] = "append" => pages[draft[p].name] = draft[p].before
          /\ pc[p] \in {"record", "restore"} =>
                pages[draft[p].name] = WithBlock(draft[p].before, job[p].event, stamp[p])
          /\ pc[p] \in {"append", "record", "restore"} =>
                draft[p].before.there /\ (draft[p].created => draft[p].before.blocks = <<>>)
    /\ \A w \in Workstreams : \A i \in BlocksOf(w) :
          Settled(w, BlockAt(w, i)) \/ \E p \in Procs : InWork(p, w, i)

StoreInv == Control /\ GatePassed /\ Projecting /\ Stamped /\ PageInv
=============================================================================
