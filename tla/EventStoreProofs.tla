-------------------------- MODULE EventStoreProofs --------------------------
(***************************************************************************)
(* Theorems about EventStore, for any processes, handoffs, routes and      *)
(* bounds: type correctness, the order of applies, the disposition gate,   *)
(* the freshness of the projection, the pairing of blocks and events in    *)
(* both directions, what an apply reports, and the implementation of       *)
(* PendingLedger.                                                          *)
(***************************************************************************)
EXTENDS EventStore, FiniteSetTheorems, WellFoundedInduction, SequenceTheorems, TLAPS

\* The first of a nonempty set of places is one of them (wiki_garden.py,
\* primary[0] and candidates[0]).
LEMMA FirstIsMember ==
  ASSUME NEW proposed \in Seq(Proposal(Workstreams)), NEW places \in SUBSET DOMAIN proposed,
         places # {}
  PROVE  First(places) \in places
<1> DEFINE n == Len(proposed)
           Upto == {1..i : i \in places}
           Smaller == StrictSubsetOrdering(1..n)
<1>1. n \in Nat /\ places \subseteq 1..n
  OBVIOUS
<1>2. IsWellFoundedOn(Smaller, SUBSET (1..n))
  <2>1. IsFiniteSet(1..n)
    BY <1>1, FS_Interval
  <2>2. FiniteSubsetsOf(1..n) = SUBSET (1..n)
    BY <2>1, FS_FiniteSubsetsOfFinite
  <2>3. IsWellFoundedOn(StrictSubsetOrdering(1..n), FiniteSubsetsOf(1..n))
    BY FS_StrictSubsetOrderingWellFounded
  <2> QED  BY <2>2, <2>3
<1>3. Upto \subseteq SUBSET (1..n) /\ Upto # {}
  BY <1>1
<1>4. \E x \in Upto : \A y \in Upto : <<y, x>> \notin Smaller
  BY <1>2, <1>3, WFMin
<1>5. PICK i \in places : \A j \in places : <<1..j, 1..i>> \notin Smaller
  BY <1>4
<1>6. ASSUME NEW j \in places, ~(i <= j)
      PROVE  FALSE
  <2>1. 1..j \in SUBSET (1..n) /\ 1..i \in SUBSET (1..n)
    BY <1>1
  <2>2. 1..j \subseteq 1..i /\ i \in 1..i /\ i \notin 1..j
    BY <1>1, <1>6
  <2> QED  BY <1>5, <2>1, <2>2 DEF StrictSubsetOrdering
<1> QED  BY <1>5, <1>6 DEF First

\* A route leads to a workstream (_target_workstream).
LEMMA RouteIsTyped ==
  ASSUME NEW h \in Handoffs, NEW approved \in Workstreams \cup {NoName},
         TargetWorkstream(Proposed[h], approved).routed
  PROVE  /\ TargetWorkstream(Proposed[h], approved).name \in Workstreams
         /\ TargetWorkstream(Proposed[h], approved).new \in BOOLEAN
<1> DEFINE proposed == Proposed[h]
<1>1. proposed \in Seq(Proposal(Workstreams))
  BY ProposedAssumption
<1> HIDE DEF proposed
<1>2. ASSUME NEW places \in SUBSET DOMAIN proposed, places # {}
      PROVE  proposed[First(places)].name \in Workstreams
  <2>1. First(places) \in DOMAIN proposed
    BY <1>1, <1>2, FirstIsMember
  <2>2. proposed[First(places)] \in Proposal(Workstreams)
    BY <1>1, <2>1
  <2> QED  BY <2>2 DEF Proposal
<1>3. With(proposed, "primary") \in SUBSET DOMAIN proposed
  BY DEF With
<1>4. With(proposed, "candidate_new") \in SUBSET DOMAIN proposed
  BY DEF With
<1>5. Cardinality(With(proposed, "candidate_new")) = 1 => With(proposed, "candidate_new") # {}
  BY FS_EmptySet
<1>6. ApprovedRoute(proposed, approved).routed /\ approved # NoName
        => /\ ApprovedRoute(proposed, approved).name \in Workstreams
           /\ ApprovedRoute(proposed, approved).new \in BOOLEAN
  BY DEF ApprovedRoute, Route, NoRoute
<1>7. AutomaticRoute(proposed).routed
        => /\ AutomaticRoute(proposed).name \in Workstreams
           /\ AutomaticRoute(proposed).new \in BOOLEAN
  BY <1>2, <1>3, <1>4, <1>5 DEF AutomaticRoute, Route, NoRoute
<1> QED  BY <1>6, <1>7 DEF TargetWorkstream, proposed
-----------------------------------------------------------------------------
\* The constants that fill unused variables have the types of those variables.
LEMMA Fillers ==
  /\ NoPage \in Page /\ NewPage \in Page
  /\ NoDraft \in Draft
  /\ NoJob \in Job
  /\ EmptyProjection \in Projection
<1>1. NoPage \in Page /\ NewPage \in Page
  BY EmptySeq DEF NoPage, NewPage, Page
<1>2. NoDraft \in Draft
  BY <1>1 DEF NoDraft, Draft
<1>3. NoJob \in Job
  BY DEF NoJob, Job, Commands, Statuses
<1>4. EmptyProjection \in Projection
  BY DEF EmptyProjection, Projection
<1> QED  BY <1>1, <1>2, <1>3, <1>4

\* One more block makes a page of a page (_append_session_update).
LEMMA BlockTyped ==
  ASSUME NEW page \in Page, NEW h \in Handoffs, NEW s \in Nat
  PROVE  WithBlock(page, h, s) \in Page
<1>1. [event |-> h, stamp |-> s] \in Block
  BY DEF Block
<1>2. page.blocks \in Seq(Block)
  BY DEF Page
<1>3. Append(page.blocks, [event |-> h, stamp |-> s]) \in Seq(Block)
  BY <1>1, <1>2
<1> QED  BY <1>3 DEF WithBlock, Page

\* The list of the pending handoffs is a projection (build_pending_index).
LEMMA IndexTyped == TypeOK => BuildPendingIndex \in Projection
BY DEF TypeOK, BuildPendingIndex, Projection

LEMMA InitTyped == Init => TypeOK /\ StoreInv
<1> SUFFICES ASSUME Init
             PROVE  TypeOK /\ StoreInv
  OBVIOUS
<1> USE DEF Init
<1>1. pages \in [Workstreams -> Page]
  BY Fillers
<1>2. applies \in Seq(Apply)
  OBVIOUS
<1>3. job \in [Procs -> Job] /\ draft \in [Procs -> Draft] /\ built \in [Procs -> Projection]
  BY Fillers
<1>4. pc \in [Procs -> Places] /\ result \in [Procs -> Outcomes]
  BY DEF Places, Outcomes
<1>5. runs \in 0..MaxRuns /\ faults \in 0..MaxFaults /\ kills \in 0..MaxKills
  BY BoundsAssumption
<1>6. TypeOK
  BY <1>1, <1>2, <1>3, <1>4, <1>5, Fillers DEF TypeOK
<1>7. Control /\ GatePassed /\ Stamped
  BY ProcsAssumption DEF Control, GatePassed, Stamped, InLock, Writing
<1>8. Projecting
  BY DEF Projecting
<1>9. PageInv
  BY DEF PageInv, NoPage, NewPage, BlocksOf
<1> QED  BY <1>6, <1>7, <1>8, <1>9 DEF StoreInv
-----------------------------------------------------------------------------
\* Every step keeps the types.
LEMMA TypeStep == TypeOK /\ Control /\ [Next]_vars => TypeOK'
<1> SUFFICES ASSUME TypeOK, Control, [Next]_vars
             PROVE  TypeOK'
  OBVIOUS
<1>1. CASE UNCHANGED vars
  BY <1>1 DEF vars, store, projection, local, budget, TypeOK, BuildPendingIndex
<1>2. ASSUME NEW p \in Procs, Begin(p)
      PROVE  TypeOK'
\* What the start of any command leaves typed.
  <2>1. ASSUME NEW j \in Job, NEW s \in Nat, Start(p, j, s), clock' \in Nat,
               born' \in [Handoffs -> Nat], runs' \in 0..MaxRuns
        PROVE  TypeOK'
    <3>1. /\ pc' \in [Procs -> Places] /\ job' \in [Procs -> Job]
          /\ stamp' \in [Procs -> Nat] /\ result' \in [Procs -> Outcomes]
      BY <2>1 DEF TypeOK, Start, Goto, Places, Outcomes
    <3>2. UNCHANGED <<holder, handoffs, applies, manifests, index, latest, pages, draft,
                      built, faults, kills, owed, orphaned>>
      BY <2>1 DEF Start, projection
    <3> QED  BY <2>1, <3>1, <3>2 DEF TypeOK
\* The clock moves up, the runs up to their bound.
  <2>8. clock \in Nat /\ born \in [Handoffs -> Nat] /\ runs \in 0..MaxRuns
    BY DEF TypeOK
  <2>9. Tick => clock' \in Nat
    BY <2>8 DEF Tick
  <2>10. CountRun => runs' \in 0..MaxRuns
    BY <2>8, BoundsAssumption DEF CountRun
  <2>2. ASSUME NEW h \in Handoffs, StartHandoff(p, h)
        PROVE  TypeOK'
    <3>1. [NoJob EXCEPT !.cmd = "handoff", !.event = h] \in Job
      BY Fillers DEF Job, NoJob, Commands, Statuses, Dispositions
    <3>2. clock' \in Nat /\ born' \in [Handoffs -> Nat]
      BY <2>2, <2>8, <2>9 DEF StartHandoff
    <3> QED  BY <2>1, <2>2, <2>10, <3>1, <3>2 DEF StartHandoff
  <2>3. ASSUME NEW h \in Handoffs, NEW force \in BOOLEAN,
               NEW approved \in Workstreams \cup {NoName}, StartApply(p, h, force, approved)
        PROVE  TypeOK'
    <3>1. [NoJob EXCEPT !.cmd = "apply", !.event = h, !.force = force,
                        !.approved = approved] \in Job
      BY Fillers DEF Job, NoJob, Commands, Statuses, Dispositions
    <3> QED  BY <2>1, <2>3, <2>8, <2>10, <3>1 DEF StartApply
  <2>4. ASSUME NEW h \in Handoffs, NEW status \in Dispositions, StartDispose(p, h, status)
        PROVE  TypeOK'
    <3>1. [NoJob EXCEPT !.cmd = "dispose", !.event = h, !.status = status] \in Job
      BY Fillers DEF Job, NoJob, Commands, Statuses, Dispositions
    <3> QED  BY <2>1, <2>4, <2>8, <2>9, <2>10, <3>1 DEF StartDispose
  <2>5. ASSUME NEW h \in Handoffs, StartCapture(p, h)
        PROVE  TypeOK'
    <3>1. [NoJob EXCEPT !.cmd = "capture", !.event = h] \in Job
      BY Fillers DEF Job, NoJob, Commands, Statuses, Dispositions
    <3> QED  BY <2>1, <2>5, <2>8, <3>1 DEF StartCapture
  <2>6. CASE StartBuild(p)
    BY <2>1, <2>6, <2>8, Fillers DEF StartBuild
  <2>7. CASE StartCount(p)
    <3>1. [NoJob EXCEPT !.cmd = "count"] \in Job
      BY Fillers DEF Job, NoJob, Commands, Statuses
    <3> QED  BY <2>7, <3>1, Fillers DEF StartCount, Places, Outcomes, TypeOK, Goto,
                store, projection, budget
  <2> QED  BY <1>2, <2>2, <2>3, <2>4, <2>5, <2>6, <2>7 DEF Begin
\* What the end of a command leaves typed.
<1>3. ASSUME NEW p \in Procs, NEW outcome \in Outcomes, Leave(p, outcome)
      PROVE  /\ holder' \in Procs \cup {Nobody} /\ clock' \in Nat /\ born' \in [Handoffs -> Nat]
             /\ pc' \in [Procs -> Places] /\ job' \in [Procs -> Job]
             /\ draft' \in [Procs -> Draft] /\ built' \in [Procs -> Projection]
             /\ result' \in [Procs -> Outcomes]
  <2>1. [NoJob EXCEPT !.cmd = job[p].cmd] \in Job
    BY DEF Job, NoJob, Statuses, TypeOK
  <2> QED  BY <1>3, <2>1, Fillers
           DEF TypeOK, Leave, Ended, Goto, Places, Mutex!Release
<1>4. ASSUME NEW p \in Procs, NEW outcome \in Outcomes, Fails(p, outcome),
             projection' = projection, pages' \in [Workstreams -> Page],
             stamp' = stamp, orphaned' \in SUBSET Nat
      PROVE  TypeOK'
  <2>1. owed' \in {"no", "running", "failed", "killed", "captured"}
    BY <1>4 DEF Fails, OwedOnFailure, TypeOK
  <2>2. faults' \in 0..MaxFaults
    BY <1>4, BoundsAssumption DEF Fails, TypeOK
  <2>3. Leave(p, outcome)
    BY <1>4 DEF Fails
  <2> QED  BY <1>3, <1>4, <2>1, <2>2, <2>3 DEF Fails, TypeOK, projection
<1>5. ASSUME NEW p \in Procs, Fault(p)
      PROVE  TypeOK'
  <2>1. {"error", "durable"} \subseteq Outcomes
    BY DEF Outcomes
  <2>2. CASE FirstWriteFails(p)
    BY <1>4, <2>1, <2>2 DEF FirstWriteFails, TypeOK
  <2>3. CASE PageWriteFails(p)
    BY <1>4, <2>1, <2>3 DEF PageWriteFails, TypeOK
  <2>4. CASE RecordFails(p)
    <3>1. faults' \in 0..MaxFaults
      BY <2>4, BoundsAssumption DEF RecordFails, TypeOK
    <3>2. pc' \in [Procs -> Places]
      BY <2>4 DEF RecordFails, TypeOK, Goto, Places
    <3> QED  BY <2>4, <3>1, <3>2 DEF RecordFails, TypeOK, store, projection, local
  <2>5. CASE RestoreFails(p)
    BY <1>4, <2>1, <2>5 DEF RestoreFails, TypeOK
  <2>6. CASE ProjectionFails(p)
    <3> DEFINE outcome == IF job[p].cmd \in {"apply", "dispose"} THEN "durable" ELSE "error"
    <3>1. outcome \in Outcomes
      BY <2>1
    <3>2. Fails(p, outcome) /\ UNCHANGED <<projection, pages, stamp, orphaned>>
      BY <2>6 DEF ProjectionFails
    <3> QED  BY <1>4, <3>1, <3>2 DEF TypeOK
  <2> QED  BY <1>5, <2>2, <2>3, <2>4, <2>5, <2>6 DEF Fault
<1>6. ASSUME NEW p \in Procs, Step(p)
      PROVE  TypeOK'
  <2> USE DEF store, projection, local, budget
  <2>1. CASE EnterLock(p)
    <3>1. FirstStep(job[p].cmd) \in Places
      BY <2>1 DEF EnterLock, FirstStep, Control, TypeOK, Job, Commands, Places
    <3> QED  BY <2>1, <3>1 DEF EnterLock, TypeOK, Goto, Mutex!Acquire
  <2>2. CASE LockTimeout(p)
    <3>1. [NoJob EXCEPT !.cmd = job[p].cmd] \in Job
      BY DEF Job, NoJob, Statuses, TypeOK
    <3> QED  BY <2>2, <3>1 DEF LockTimeout, TypeOK, Ended, Goto, Places, Outcomes
  <2>3. CASE WriteHandoff(p)
    BY <2>3 DEF WriteHandoff, TypeOK, Goto, Places, Control, Writing
  <2>4. CASE WriteDisposition(p)
    <3>1. [stamp |-> stamp[p], target |-> job[p].event, status |-> job[p].status,
           page |-> NoName, forced |-> FALSE] \in Apply
      BY <2>4 DEF WriteDisposition, TypeOK, Apply, Job
    <3>2. applies' \in Seq(Apply)
      BY <2>4, <3>1 DEF WriteDisposition, Record, TypeOK
    <3>3. pc' \in [Procs -> Places]
      BY <2>4 DEF WriteDisposition, TypeOK, Goto, Places
    <3> QED  BY <2>4, <3>2, <3>3 DEF WriteDisposition, TypeOK
  <2>5. CASE RefuseTarget(p)
    <3>1. Leave(p, "error") /\ "error" \in Outcomes
      BY <2>5 DEF RefuseTarget, Outcomes
    <3> QED  BY <1>3, <2>5, <3>1 DEF RefuseTarget, TypeOK
  <2>6. CASE CaptureSources(p)
    <3>1. Leave(p, "ok") /\ "ok" \in Outcomes
      BY <2>6 DEF CaptureSources, Outcomes
    <3>2. manifests' \in SUBSET Handoffs
      BY <2>6 DEF CaptureSources, TypeOK, Control, Writing
    <3>3. owed' \in {"no", "running", "failed", "killed", "captured"}
      BY <2>6 DEF CaptureSources, TypeOK
    <3> QED  BY <1>3, <2>6, <3>1, <3>2, <3>3 DEF CaptureSources, TypeOK
  <2>7. CASE RefuseDisposed(p) \/ RefuseManual(p) \/ RefuseRoute(p)
    <3>1. PICK outcome \in Outcomes : Refuse(p, outcome)
      BY <2>7 DEF RefuseDisposed, RefuseManual, RefuseRoute, Outcomes
    <3> QED  BY <1>3, <3>1 DEF Refuse, TypeOK
  <2>8. CASE OpenPage(p)
    <3> DEFINE w == Target(p).name
    <3>1. w \in Workstreams
      BY <2>8, RouteIsTyped
         DEF OpenPage, HasPage, Target, TypeOK, Control, Writing, Job
    <3>2. pages' = [pages EXCEPT ![w].there = TRUE]
      BY <2>8 DEF OpenPage
    <3>3. pages' \in [Workstreams -> Page]
      BY <3>1, <3>2 DEF TypeOK, Page
    <3>4. [name |-> w, created |-> ~pages[w].there, before |-> pages'[w]] \in Draft
      BY <3>1, <3>3 DEF TypeOK, Page, Draft
    <3>5. draft' \in [Procs -> Draft]
      BY <2>8, <3>4 DEF OpenPage, TypeOK
    <3>6. pc' \in [Procs -> Places]
      BY <2>8 DEF OpenPage, TypeOK, Goto, Places
    <3> HIDE DEF w
    <3> QED  BY <2>8, <3>3, <3>5, <3>6 DEF OpenPage, TypeOK
  <2>9. CASE AppendBlock(p)
    <3>1. clock' \in Nat /\ stamp' \in [Procs -> Nat] /\ pc' \in [Procs -> Places]
      BY <2>9 DEF AppendBlock, TypeOK, Tick, Goto, Places
    <3>2. draft[p].before \in Page /\ job[p].event \in Handoffs
      BY <2>9 DEF AppendBlock, TypeOK, Draft, Control, Writing
    <3>3. WithBlock(draft[p].before, job[p].event, clock') \in Page
      BY <3>1, <3>2, BlockTyped
    <3>4. pages' \in [Workstreams -> Page]
      BY <2>9, <3>3 DEF AppendBlock, TypeOK
    <3> QED  BY <2>9, <3>1, <3>4 DEF AppendBlock, TypeOK
  <2>10. CASE RecordApply(p)
    <3> DEFINE a == [stamp |-> stamp[p], target |-> job[p].event,
               status |-> IF job[p].approved = NoName THEN "applied" ELSE "applied-manually",
               page |-> draft[p].name, forced |-> job[p].force]
    <3>1. a \in Apply
      BY <2>10 DEF RecordApply, TypeOK, Apply, Job, Draft, Statuses, Dispositions, Control, Writing
    <3>2. applies' \in Seq(Apply)
      BY <2>10, <3>1 DEF RecordApply, Record, TypeOK
    <3>3. pc' \in [Procs -> Places]
      BY <2>10 DEF RecordApply, TypeOK, Goto, Places
    <3> QED  BY <2>10, <3>2, <3>3 DEF RecordApply, TypeOK
  <2>11. CASE Restore(p)
    <3>1. Leave(p, "error") /\ "error" \in Outcomes
      BY <2>11 DEF Restore, Outcomes
    <3>2. pages' \in [Workstreams -> Page]
      BY <2>11, Fillers DEF Restore, TypeOK, Draft
    <3> QED  BY <1>3, <2>11, <3>1, <3>2 DEF Restore, TypeOK
  <2>12. CASE WriteIndex(p)
    <3>1. pc' \in [Procs -> Places]
      BY <2>12 DEF WriteIndex, TypeOK, Goto, Places
    <3>2. index' \in Projection /\ built' \in [Procs -> Projection]
      BY <2>12, IndexTyped DEF WriteIndex, TypeOK
    <3> QED  BY <2>12, <3>1, <3>2 DEF WriteIndex, TypeOK
  <2>13. CASE WriteLatest(p)
    <3>1. Leave(p, "ok") /\ "ok" \in Outcomes
      BY <2>13 DEF WriteLatest, Outcomes
    <3> QED  BY <1>3, <2>13, <3>1 DEF WriteLatest, TypeOK
  <2>14. CASE CompareCount(p)
    <3>1. pc' \in [Procs -> Places] /\ result' \in [Procs -> Outcomes]
      BY <2>14 DEF CompareCount, TypeOK, Goto, Places, Outcomes
    <3>2. built' \in [Procs -> Projection]
      BY <2>14, Fillers DEF CompareCount, TypeOK
    <3> QED  BY <2>14, <3>1, <3>2 DEF CompareCount, TypeOK
  <2> QED  BY <1>6, <2>1, <2>2, <2>3, <2>4, <2>5, <2>6, <2>7, <2>8, <2>9, <2>10, <2>11, <2>12,
              <2>13, <2>14 DEF Step
<1>7. ASSUME NEW p \in Procs, Kill(p)
      PROVE  TypeOK'
  <2>1. kills' \in 0..MaxKills
    BY <1>7, BoundsAssumption DEF Kill, TypeOK
  <2>2. orphaned' \in SUBSET Nat
    BY <1>7 DEF Kill, TypeOK
  <2>3. job' \in [Procs -> Job] /\ draft' \in [Procs -> Draft] /\ built' \in [Procs -> Projection]
    BY <1>7, Fillers DEF Kill, TypeOK
  <2>4. pc' \in [Procs -> Places] /\ result' \in [Procs -> Outcomes]
    BY <1>7 DEF Kill, TypeOK, Goto, Places, Outcomes
  <2> QED  BY <1>7, <2>1, <2>2, <2>3, <2>4 DEF Kill, TypeOK, store, projection
<1> QED  BY <1>1, <1>2, <1>5, <1>6, <1>7 DEF Next
-----------------------------------------------------------------------------
\* A step of one process leaves the local state of the others alone.
LEMMA OwnSteps ==
  ASSUME TypeOK, NEW p \in Procs, Begin(p) \/ Step(p) \/ Fault(p) \/ Kill(p)
  PROVE  \A q \in Procs \ {p} :
            /\ pc'[q] = pc[q] /\ job'[q] = job[q] /\ stamp'[q] = stamp[q]
            /\ draft'[q] = draft[q] /\ built'[q] = built[q]
<1> USE DEF TypeOK, local, Goto, Ended, Leave
<1>1. CASE Begin(p)
  BY <1>1 DEF Begin, Start, StartHandoff, StartApply, StartDispose, StartBuild, StartCapture,
              StartCount
<1>2. CASE Step(p)
  <2>1. CASE EnterLock(p)         BY <2>1 DEF EnterLock
  <2>2. CASE LockTimeout(p)       BY <2>2 DEF LockTimeout
  <2>3. CASE WriteHandoff(p)      BY <2>3 DEF WriteHandoff
  <2>4. CASE WriteDisposition(p)  BY <2>4 DEF WriteDisposition
  <2>5. CASE RefuseTarget(p)      BY <2>5 DEF RefuseTarget
  <2>6. CASE CaptureSources(p)    BY <2>6 DEF CaptureSources
  <2>7. CASE RefuseDisposed(p) \/ RefuseManual(p) \/ RefuseRoute(p)
    BY <2>7 DEF RefuseDisposed, RefuseManual, RefuseRoute, Refuse
  <2>8. CASE OpenPage(p)          BY <2>8 DEF OpenPage
  <2>9. CASE AppendBlock(p)       BY <2>9 DEF AppendBlock
  <2>10. CASE RecordApply(p)      BY <2>10 DEF RecordApply
  <2>11. CASE Restore(p)          BY <2>11 DEF Restore
  <2>12. CASE WriteIndex(p)       BY <2>12 DEF WriteIndex
  <2>13. CASE WriteLatest(p)      BY <2>13 DEF WriteLatest
  <2>14. CASE CompareCount(p)     BY <2>14 DEF CompareCount
  <2> QED  BY <1>2, <2>1, <2>2, <2>3, <2>4, <2>5, <2>6, <2>7, <2>8, <2>9, <2>10, <2>11, <2>12,
              <2>13, <2>14 DEF Step
<1>3. CASE Fault(p)
  <2>1. CASE FirstWriteFails(p)   BY <2>1 DEF FirstWriteFails, Fails
  <2>2. CASE PageWriteFails(p)    BY <2>2 DEF PageWriteFails, Fails
  <2>3. CASE RecordFails(p)       BY <2>3 DEF RecordFails
  <2>4. CASE RestoreFails(p)      BY <2>4 DEF RestoreFails, Fails
  <2>5. CASE ProjectionFails(p)   BY <2>5 DEF ProjectionFails, Fails
  <2> QED  BY <1>3, <2>1, <2>2, <2>3, <2>4, <2>5 DEF Fault
<1>4. CASE Kill(p)
  BY <1>4 DEF Kill
<1> QED  BY <1>1, <1>2, <1>3, <1>4

\* Every step keeps the discipline of the lock: a process works on the store
\* only while it is the holder.
LEMMA ControlStep == TypeOK /\ Control /\ [Next]_vars => Control'
<1> SUFFICES ASSUME TypeOK, Control, [Next]_vars
             PROVE  Control'
  OBVIOUS
<1>1. CASE UNCHANGED vars
  BY <1>1 DEF vars, local, Control, InLock
<1>2. ASSUME NEW p \in Procs, Begin(p) \/ Step(p) \/ Fault(p) \/ Kill(p)
      PROVE  Control'
  <2> DEFINE Own == /\ InLock(p)' <=> holder' = p
                    /\ pc'[p] = "lock" => job'[p].cmd # "count"
                    /\ pc'[p] \in Writing \/ (pc'[p] = "lock" /\ job'[p].cmd # "build")
                           => job'[p].event \in Handoffs
                    /\ pc'[p] \in {"append", "record", "restore"} => draft'[p].name \in Workstreams
             Foreign == holder' = holder \/ (holder = p /\ holder' = Nobody)
                            \/ (holder = Nobody /\ holder' = p)
  <2>1. Own /\ Foreign => Control'
    BY <1>2, OwnSteps, ProcsAssumption DEF Control, InLock
  <2> USE ProcsAssumption DEF TypeOK, Control, InLock, Writing, Goto
  <2>2. CASE Begin(p)
    <3> USE DEF Start, NoJob
    <3>1. ASSUME NEW h \in Handoffs, StartHandoff(p, h)  PROVE Own /\ Foreign
      BY <3>1 DEF StartHandoff
    <3>2. ASSUME NEW h \in Handoffs, NEW force \in BOOLEAN,
                 NEW approved \in Workstreams \cup {NoName}, StartApply(p, h, force, approved)
          PROVE  Own /\ Foreign
      BY <3>2 DEF StartApply
    <3>3. ASSUME NEW h \in Handoffs, NEW status \in Dispositions, StartDispose(p, h, status)
          PROVE  Own /\ Foreign
      BY <3>3 DEF StartDispose
    <3>4. ASSUME NEW h \in Handoffs, StartCapture(p, h)  PROVE Own /\ Foreign
      BY <3>4 DEF StartCapture
    <3>5. CASE StartBuild(p)  BY <3>5 DEF StartBuild
    <3>6. CASE StartCount(p)  BY <3>6 DEF StartCount
    <3> QED  BY <2>1, <2>2, <3>1, <3>2, <3>3, <3>4, <3>5, <3>6 DEF Begin
  <2>3. ASSUME NEW outcome, Leave(p, outcome)
        PROVE  Control'
    BY <2>1, <2>3 DEF Leave, Mutex!Release
  <2>4. CASE Fault(p)
    <3>1. CASE RecordFails(p)  BY <2>1, <3>1 DEF RecordFails, local
    <3> QED  BY <2>3, <2>4, <3>1
             DEF Fault, Fails, FirstWriteFails, PageWriteFails, RestoreFails, ProjectionFails
  <2>5. CASE Step(p)
    <3> USE DEF local
    <3>1. CASE EnterLock(p)
      BY <2>1, <3>1 DEF EnterLock, FirstStep, Job, Commands, Mutex!Acquire
    <3>2. CASE LockTimeout(p)       BY <2>1, <3>2 DEF LockTimeout
    <3>3. CASE WriteHandoff(p)      BY <2>1, <3>3 DEF WriteHandoff
    <3>4. CASE WriteDisposition(p)  BY <2>1, <3>4 DEF WriteDisposition
    <3>5. CASE \/ RefuseTarget(p) \/ CaptureSources(p) \/ RefuseDisposed(p) \/ RefuseManual(p)
               \/ RefuseRoute(p) \/ Restore(p) \/ WriteLatest(p)
      BY <2>3, <3>5 DEF RefuseTarget, CaptureSources, RefuseDisposed, RefuseManual, RefuseRoute,
                        Refuse, Restore, WriteLatest
    <3>6. CASE OpenPage(p)
      <4>1. Target(p).name \in Workstreams
        BY <3>6, RouteIsTyped DEF OpenPage, HasPage, Target, Job
      <4>2. draft'[p].name = Target(p).name
        BY <3>6 DEF OpenPage
      <4> QED  BY <2>1, <3>6, <4>1, <4>2 DEF OpenPage
    <3>7. CASE AppendBlock(p)       BY <2>1, <3>7 DEF AppendBlock
    <3>8. CASE RecordApply(p)       BY <2>1, <3>8 DEF RecordApply
    <3>9. CASE WriteIndex(p)        BY <2>1, <3>9 DEF WriteIndex
    <3>10. CASE CompareCount(p)     BY <2>1, <3>10 DEF CompareCount
    <3> QED  BY <2>5, <3>1, <3>2, <3>3, <3>4, <3>5, <3>6, <3>7, <3>8, <3>9, <3>10 DEF Step
  <2>6. CASE Kill(p)
    BY <2>1, <2>6 DEF Kill
  <2> QED  BY <1>2, <2>2, <2>4, <2>5, <2>6
<1> QED  BY <1>1, <1>2 DEF Next

\* Every variable keeps its type and every process its place in the lock.
THEOREM Typing == Spec => [](TypeOK /\ Control)
<1>1. Init => TypeOK /\ Control
  BY InitTyped DEF StoreInv
<1>2. TypeOK /\ Control /\ [Next]_vars => TypeOK' /\ Control'
  BY TypeStep, ControlStep
<1> QED  BY <1>1, <1>2, PTL DEF Spec
-----------------------------------------------------------------------------
\* Only the holder of the lock changes the store, its projection or a page;
\* handoffs, stamps taken and applies are never lost.
LEMMA HolderChanges ==
  ASSUME TypeOK, NEW p \in Procs, Begin(p) \/ Step(p) \/ Fault(p) \/ Kill(p)
  PROVE  /\ UNCHANGED <<handoffs, applies, manifests, index, latest, pages>> \/ InLock(p)
         /\ handoffs \subseteq handoffs'
         /\ orphaned \subseteq orphaned'
         /\ clock <= clock'
         /\ stamp'[p] \in {stamp[p], 0, clock'}
         /\ applies' = applies \/ pc[p] \in {"target", "record"}
<1> USE DEF TypeOK, store, projection, local, budget, InLock, Writing
<1>1. CASE Begin(p)
  <2>1. UNCHANGED <<handoffs, applies, manifests, index, latest, pages, orphaned>>
    BY <1>1 DEF Begin, Start, StartHandoff, StartApply, StartDispose, StartBuild, StartCapture,
                StartCount
  <2>2. Tick \/ clock' = clock
    BY <1>1 DEF Begin, StartHandoff, StartApply, StartDispose, StartBuild, StartCapture,
                StartCount
  <2>3. clock <= clock'
    BY <2>2 DEF Tick
  <2>4. stamp'[p] \in {0, clock'}
    BY <1>1 DEF Begin, Start, StartHandoff, StartApply, StartDispose, StartBuild, StartCapture,
                StartCount
  <2> QED  BY <2>1, <2>3, <2>4
<1>2. CASE Fault(p)
  <2>1. clock' = clock /\ handoffs' = handoffs /\ applies' = applies
    BY <1>2 DEF Fault, Fails, Leave, FirstWriteFails, PageWriteFails, RecordFails, RestoreFails,
                ProjectionFails
  <2>2. orphaned \subseteq orphaned'
    BY <1>2 DEF Fault, FirstWriteFails, PageWriteFails, RecordFails, RestoreFails, ProjectionFails
  <2>3. InLock(p)
    BY <1>2 DEF Fault, FirstWriteFails, PageWriteFails, RecordFails, RestoreFails, ProjectionFails
  <2>4. stamp' = stamp
    BY <1>2 DEF Fault, FirstWriteFails, PageWriteFails, RecordFails, RestoreFails, ProjectionFails
  <2> QED  BY <2>1, <2>2, <2>3, <2>4
<1>3. CASE Step(p)
  <2>1. CASE EnterLock(p) \/ LockTimeout(p) \/ CompareCount(p)
    BY <2>1 DEF EnterLock, LockTimeout, CompareCount, Ended
  <2>2. CASE WriteHandoff(p) \/ WriteDisposition(p) \/ RecordApply(p)
    BY <2>2 DEF WriteHandoff, WriteDisposition, RecordApply
  <2>3. CASE RefuseTarget(p) \/ CaptureSources(p) \/ RefuseDisposed(p) \/ RefuseManual(p)
             \/ RefuseRoute(p) \/ Restore(p)
    BY <2>3 DEF RefuseTarget, CaptureSources, RefuseDisposed, RefuseManual, RefuseRoute, Refuse,
                Restore, Leave
  <2>4. CASE OpenPage(p) \/ AppendBlock(p)
    BY <2>4 DEF OpenPage, AppendBlock, Tick
  <2>5. CASE WriteIndex(p) \/ WriteLatest(p)
    BY <2>5 DEF WriteIndex, WriteLatest, Leave
  <2> QED  BY <1>3, <2>1, <2>2, <2>3, <2>4, <2>5 DEF Step
<1>4. CASE Kill(p)
  BY <1>4 DEF Kill
<1> QED  BY <1>1, <1>2, <1>3, <1>4

\* While a process is in the lock, no other is.
LEMMA OneInLock ==
  ASSUME Control, NEW p \in Procs, NEW q \in Procs, InLock(p), InLock(q)
  PROVE  p = q
BY DEF Control

\* Every step keeps an apply behind its gate: nobody disposes of the handoff
\* between the check and the event.
LEMMA GateStep == TypeOK /\ Control /\ GatePassed /\ [Next]_vars => GatePassed'
<1> SUFFICES ASSUME TypeOK, Control, GatePassed, [Next]_vars
             PROVE  GatePassed'
  OBVIOUS
<1> DEFINE Gate(q) == pc[q] \in {"append", "record", "restore"}
           Checked(q) == pc[q] \in {"check", "append", "record", "restore"} \/
                             (pc[q] = "lock" /\ job[q].cmd = "apply")
<1>1. CASE UNCHANGED vars
  BY <1>1 DEF vars, store, local, GatePassed, Applicable, AlreadyDisposed, Disposed
<1>2. ASSUME NEW p \in Procs, Begin(p) \/ Step(p) \/ Fault(p) \/ Kill(p)
      PROVE  GatePassed'
  <2>1. handoffs \subseteq handoffs'
    BY <1>2, HolderChanges
  <2>2. ASSUME NEW q \in Procs \ {p}
        PROVE  (Gate(q)' => Applicable(q)') /\ (Checked(q)' => job'[q].event \in handoffs')
    <3>1. pc'[q] = pc[q] /\ job'[q] = job[q]
      BY <1>2, OwnSteps
    <3>2. Gate(q) => applies' = applies
      <4>1. Gate(q) => InLock(q)
        BY DEF InLock, Writing
      <4> QED  BY <1>2, <4>1, HolderChanges, OneInLock DEF InLock, Writing
    <3> QED  BY <2>1, <3>1, <3>2 DEF GatePassed, Applicable, AlreadyDisposed, Disposed
  <2>3. (Gate(p)' => Applicable(p)') /\ (Checked(p)' => job'[p].event \in handoffs')
    <3> USE DEF TypeOK, Goto, local, store, GatePassed, Applicable, AlreadyDisposed, Disposed
    <3>1. CASE Begin(p)
      <4> USE DEF Start, NoJob
      <4>1. ASSUME NEW h \in Handoffs, StartHandoff(p, h)
            PROVE  ~Gate(p)' /\ ~Checked(p)'
        BY <4>1 DEF StartHandoff
      <4>2. ASSUME NEW h \in Handoffs, NEW force \in BOOLEAN,
                   NEW approved \in Workstreams \cup {NoName}, StartApply(p, h, force, approved)
            PROVE  ~Gate(p)' /\ job'[p].event \in handoffs'
        BY <4>2 DEF StartApply
      <4>3. ASSUME NEW h \in Handoffs, NEW status \in Dispositions, StartDispose(p, h, status)
            PROVE  ~Gate(p)' /\ ~Checked(p)'
        BY <4>3 DEF StartDispose
      <4>4. ASSUME NEW h \in Handoffs, StartCapture(p, h)
            PROVE  ~Gate(p)' /\ ~Checked(p)'
        BY <4>4 DEF StartCapture
      <4>5. CASE StartBuild(p) \/ StartCount(p)
        BY <4>5 DEF StartBuild, StartCount
      <4> QED  BY <3>1, <4>1, <4>2, <4>3, <4>4, <4>5 DEF Begin
    <3>2. ASSUME NEW outcome, Leave(p, outcome)
          PROVE  ~Gate(p)' /\ ~Checked(p)'
      BY <3>2 DEF Leave
    <3>3. CASE Fault(p)
      <4>1. CASE RecordFails(p)  BY <4>1 DEF RecordFails
      <4> QED  BY <3>2, <3>3, <4>1
               DEF Fault, Fails, FirstWriteFails, PageWriteFails, RestoreFails, ProjectionFails
    <3>4. CASE Step(p)
      <4>1. CASE EnterLock(p)
        BY <4>1 DEF EnterLock, FirstStep, Job, Commands, Control
      <4>2. CASE LockTimeout(p) \/ CompareCount(p)
        BY <4>2 DEF LockTimeout, CompareCount
      <4>3. CASE WriteHandoff(p) \/ WriteDisposition(p) \/ RecordApply(p) \/ WriteIndex(p)
        BY <4>3 DEF WriteHandoff, WriteDisposition, RecordApply, WriteIndex
      <4>4. CASE \/ RefuseTarget(p) \/ CaptureSources(p) \/ RefuseDisposed(p) \/ RefuseManual(p)
                 \/ RefuseRoute(p) \/ Restore(p) \/ WriteLatest(p)
        BY <3>2, <4>4 DEF RefuseTarget, CaptureSources, RefuseDisposed, RefuseManual, RefuseRoute,
                          Refuse, Restore, WriteLatest
      <4>5. CASE OpenPage(p)     BY <4>5 DEF OpenPage
      <4>6. CASE AppendBlock(p)  BY <4>6 DEF AppendBlock
      <4> QED  BY <3>4, <4>1, <4>2, <4>3, <4>4, <4>5, <4>6 DEF Step
    <3>5. CASE Kill(p)
      BY <3>5 DEF Kill
    <3> QED  BY <1>2, <3>1, <3>3, <3>4, <3>5
  <2> QED  BY <2>2, <2>3 DEF GatePassed
<1> QED  BY <1>1, <1>2 DEF Next
-----------------------------------------------------------------------------
\* Every step keeps the account of the projection: it is current, or the run
\* that must make it so is in the lock, or that run failed, was killed or was a
\* capture.
Published == owed = "no" => index = BuildPendingIndex /\ latest = BuildPendingIndex

LEMMA ProjectionStep ==
  TypeOK /\ Control /\ Projecting /\ Published /\ [Next]_vars => Projecting' /\ Published'
<1> SUFFICES ASSUME TypeOK, Control, Projecting, Published, [Next]_vars
             PROVE  Projecting' /\ Published'
  OBVIOUS
<1>0. ASSUME UNCHANGED <<handoffs, applies, manifests>>
      PROVE  BuildPendingIndex' = BuildPendingIndex
  BY <1>0 DEF BuildPendingIndex, Disposed
<1>1. CASE UNCHANGED vars
  <2>1. UNCHANGED <<handoffs, applies, manifests, index, latest, pc, built, owed>>
    BY <1>1 DEF vars, store, projection, local
  <2> QED  BY <1>0, <2>1 DEF Projecting, Published
<1>2. ASSUME NEW p \in Procs, Begin(p) \/ Step(p) \/ Fault(p) \/ Kill(p)
      PROVE  Projecting' /\ Published'
  <2> DEFINE Current(q) == pc[q] = "latest" => built[q] = index /\ index = BuildPendingIndex
             Working(q) == pc[q] \in {"index", "latest"}
  <2>1. ASSUME NEW q \in Procs \ {p}
        PROVE  Current(q)'
    <3>1. pc'[q] = pc[q] /\ built'[q] = built[q]
      BY <1>2, OwnSteps
    <3>2. CASE pc[q] # "latest"
      BY <3>1, <3>2
    <3>3. CASE pc[q] = "latest"
      <4>1. ~InLock(p)
        BY <3>3, OneInLock DEF InLock
      <4>2. UNCHANGED <<handoffs, applies, manifests, index>>
        BY <1>2, <4>1, HolderChanges
      <4> QED  BY <1>0, <3>1, <3>3, <4>2 DEF Projecting
    <3> QED  BY <3>2, <3>3
  \* The three parts of the conclusion that depend on the step.
  <2> DEFINE Account == /\ Current(p)'
                        /\ Published'
                        /\ owed' = "running" => Working(p)' \/ (owed = "running" /\ ~Working(p))
  <2>2. Account => Projecting' /\ Published'
    <3>1. ASSUME Account, owed' = "running"
          PROVE  \E q \in Procs : Working(q)'
      <4>1. CASE Working(p)'
        BY <4>1
      <4>2. CASE owed = "running" /\ ~Working(p)
        BY <1>2, <4>2, OwnSteps DEF Projecting
      <4> QED  BY <3>1, <4>1, <4>2
    <3> QED  BY <2>1, <3>1 DEF Projecting
  <2>3. ASSUME UNCHANGED <<handoffs, applies, manifests, index, latest, owed>>,
               pc'[p] # "latest", ~Working(p) \/ owed # "running"
        PROVE  Account
    BY <1>0, <2>3 DEF Published
  <2> USE DEF TypeOK, Goto, store, projection, local
  <2>4. CASE Begin(p)
    <3>1. UNCHANGED <<handoffs, applies, manifests, index, latest, owed>>
      BY <2>4 DEF Begin, Start, StartHandoff, StartApply, StartDispose, StartBuild, StartCapture,
                  StartCount
    <3>2. pc'[p] # "latest" /\ ~Working(p)
      BY <2>4 DEF Begin, Start, StartHandoff, StartApply, StartDispose, StartBuild, StartCapture,
                  StartCount
    <3> QED  BY <2>2, <2>3, <3>1, <3>2
  <2>5. CASE Fault(p)
    <3>1. CASE RecordFails(p)
      <4>1. UNCHANGED <<handoffs, applies, manifests, index, latest, owed>>
        BY <3>1 DEF RecordFails
      <4>2. pc'[p] # "latest" /\ ~Working(p)
        BY <3>1 DEF RecordFails
      <4> QED  BY <2>2, <2>3, <4>1, <4>2
    <3>2. CASE \E outcome : Fails(p, outcome) /\ UNCHANGED projection
      <4>1. UNCHANGED <<handoffs, applies, manifests, index, latest>> /\ pc'[p] = "idle"
        BY <3>2 DEF Fails, Leave
      <4>2. owed' = OwedOnFailure
        BY <3>2 DEF Fails
      <4>3. owed' # "running" /\ (owed' = "no" => owed = "no")
        BY <4>2 DEF OwedOnFailure
      <4> QED  BY <1>0, <2>2, <4>1, <4>3 DEF Published
    <3> QED  BY <2>5, <3>1, <3>2
             DEF Fault, FirstWriteFails, PageWriteFails, RestoreFails, ProjectionFails
  <2>6. CASE Step(p)
    <3>1. CASE \/ EnterLock(p) \/ LockTimeout(p) \/ OpenPage(p) \/ AppendBlock(p)
               \/ CompareCount(p)
      <4>1. UNCHANGED <<handoffs, applies, manifests, index, latest, owed>> /\ ~Working(p)
        BY <3>1 DEF EnterLock, LockTimeout, OpenPage, AppendBlock, CompareCount
      <4>2. pc'[p] # "latest"
        BY <3>1 DEF EnterLock, LockTimeout, OpenPage, AppendBlock, CompareCount, FirstStep,
                    Job, Commands, Control
      <4> QED  BY <2>2, <2>3, <4>1, <4>2
    <3>2. CASE WriteHandoff(p) \/ WriteDisposition(p) \/ RecordApply(p)
      <4>1. owed' = "running" /\ pc'[p] = "index"
        BY <3>2 DEF WriteHandoff, WriteDisposition, RecordApply
      <4> QED  BY <2>2, <4>1 DEF Published
    <3>3. CASE RefuseTarget(p) \/ RefuseDisposed(p) \/ RefuseManual(p) \/ RefuseRoute(p)
               \/ Restore(p)
      <4>1. UNCHANGED <<handoffs, applies, manifests, index, latest, owed>>
        BY <3>3 DEF RefuseTarget, RefuseDisposed, RefuseManual, RefuseRoute, Refuse, Restore
      <4>2. pc'[p] # "latest" /\ ~Working(p)
        BY <3>3 DEF RefuseTarget, RefuseDisposed, RefuseManual, RefuseRoute, Refuse, Restore, Leave
      <4> QED  BY <2>2, <2>3, <4>1, <4>2
    <3>4. CASE CaptureSources(p)
      <4>1. UNCHANGED <<handoffs, applies, index, latest>> /\ pc'[p] = "idle" /\ ~Working(p)
        BY <3>4 DEF CaptureSources, Leave
      <4>2. owed' = "no" => owed = "no" /\ BuildPendingIndex' = BuildPendingIndex
        BY <3>4, <4>1 DEF CaptureSources, BuildPendingIndex, Disposed
      <4>3. owed' = "running" => owed = "running"
        BY <3>4 DEF CaptureSources
      <4> QED  BY <2>2, <4>1, <4>2, <4>3 DEF Published
    <3>5. CASE WriteIndex(p)
      <4>1. UNCHANGED <<handoffs, applies, manifests, latest, owed>> /\ pc'[p] = "latest"
        BY <3>5 DEF WriteIndex
      <4>2. index' = BuildPendingIndex /\ built'[p] = BuildPendingIndex
        BY <3>5 DEF WriteIndex
      <4> QED  BY <1>0, <2>2, <4>1, <4>2 DEF Published
    <3>6. CASE WriteLatest(p)
      <4>1. UNCHANGED <<handoffs, applies, manifests, index>> /\ pc'[p] = "idle" /\ owed' = "no"
        BY <3>6 DEF WriteLatest, Leave
      <4>2. latest' = index /\ index = BuildPendingIndex
        BY <3>6 DEF WriteLatest, Projecting
      <4> QED  BY <1>0, <2>2, <4>1, <4>2 DEF Published
    <3> QED  BY <2>6, <3>1, <3>2, <3>3, <3>4, <3>5, <3>6 DEF Step
  <2>7. CASE Kill(p)
    <3>1. UNCHANGED <<handoffs, applies, manifests, index, latest>> /\ pc'[p] = "idle"
      BY <2>7 DEF Kill
    <3>2. Working(p) /\ owed = "running" => owed' = "killed"
      BY <2>7 DEF Kill, Control, InLock
    <3>3. owed' \in {owed, "killed"}
      BY <2>7 DEF Kill
    <3> QED  BY <1>0, <2>2, <3>1, <3>2, <3>3 DEF Published
  <2> QED  BY <1>2, <2>4, <2>5, <2>6, <2>7
<1> QED  BY <1>1, <1>2 DEF Next
-----------------------------------------------------------------------------
\* Only these two steps write a garden-apply event.
LEMMA ApplyWriters ==
  ASSUME TypeOK, Control, NEW p \in Procs, Begin(p) \/ Step(p) \/ Fault(p) \/ Kill(p),
         applies' # applies
  PROVE  WriteDisposition(p) \/ RecordApply(p)
<1>1. pc[p] \in {"target", "record"}
  BY HolderChanges
<1>2. CASE Begin(p)
  BY <1>1, <1>2 DEF Begin, Start, StartHandoff, StartApply, StartDispose, StartBuild,
                    StartCapture, StartCount
<1>3. CASE Fault(p)
  BY <1>3 DEF Fault, Fails, FirstWriteFails, PageWriteFails, RecordFails, RestoreFails,
              ProjectionFails, store
<1>4. CASE Step(p)
  BY <1>1, <1>4 DEF Step, EnterLock, LockTimeout, WriteHandoff, RefuseTarget, CaptureSources,
     RefuseDisposed, RefuseManual, RefuseRoute, Refuse, OpenPage, AppendBlock, Restore,
     WriteIndex, WriteLatest, CompareCount
<1>5. CASE Kill(p)
  BY <1>5 DEF Kill, store
<1> QED  BY <1>2, <1>3, <1>4, <1>5

\* An event a step writes is a disposition by command, or that of the apply
\* at work.
LEMMA NewApply ==
  ASSUME TypeOK, Control, NEW p \in Procs, Begin(p) \/ Step(p) \/ Fault(p) \/ Kill(p),
         applies' # applies
  PROVE  \E a \in Apply :
            /\ applies' = Append(applies, a)
            /\ a.target = job[p].event
            /\ Mechanical(a) => /\ pc[p] = "record"
                                /\ a.stamp = stamp[p]
                                /\ a.page = draft[p].name
                                /\ a.forced = job[p].force
<1>1. CASE WriteDisposition(p)
  <2> DEFINE a == [stamp |-> stamp[p], target |-> job[p].event, status |-> job[p].status,
                   page |-> NoName, forced |-> FALSE]
  <2>1. a \in Apply
    BY <1>1 DEF WriteDisposition, TypeOK, Apply, Job
  <2>2. applies' = Append(applies, a)
    BY <1>1 DEF WriteDisposition, Record
  <2> QED  BY <2>1, <2>2 DEF Mechanical
<1>2. CASE RecordApply(p)
  <2> DEFINE a == [stamp |-> stamp[p], target |-> job[p].event,
               status |-> IF job[p].approved = NoName THEN "applied" ELSE "applied-manually",
               page |-> draft[p].name, forced |-> job[p].force]
  <2>1. a \in Apply
    BY <1>2 DEF RecordApply, TypeOK, Apply, Job, Draft, Statuses, Dispositions, Control, Writing
  <2>2. applies' = Append(applies, a)
    BY <1>2 DEF RecordApply, Record
  <2>3. pc[p] = "record"
    BY <1>2 DEF RecordApply
  <2> QED  BY <2>1, <2>2, <2>3
<1> QED  BY <1>1, <1>2, ApplyWriters

\* Every step keeps the gate's effect and the order of the applies.
LEMMA AppliesStep ==
  TypeOK /\ Control /\ GatePassed /\ Stamped /\ UnforcedIsFirst /\ AppliesInOrder /\ [Next]_vars
    => Stamped' /\ UnforcedIsFirst' /\ AppliesInOrder'
<1> SUFFICES ASSUME TypeOK, Control, GatePassed, Stamped, UnforcedIsFirst, AppliesInOrder,
                    [Next]_vars
             PROVE  Stamped' /\ UnforcedIsFirst' /\ AppliesInOrder'
  OBVIOUS
<1> DEFINE Bounded(a) == Mechanical(a) =>
               /\ a.stamp <= clock
               /\ \A q \in Procs : pc[q] = "record" => a.stamp < stamp[q]
<1>1. CASE UNCHANGED vars
  BY <1>1 DEF vars, store, local, Stamped, UnforcedIsFirst, AppliesInOrder, Mechanical
<1>2. ASSUME NEW p \in Procs, Begin(p) \/ Step(p) \/ Fault(p) \/ Kill(p)
      PROVE  Stamped' /\ UnforcedIsFirst' /\ AppliesInOrder'
  <2>1. clock <= clock' /\ clock \in Nat /\ clock' \in Nat
    <3>1. TypeOK'
      BY TypeStep
    <3> QED  BY <1>2, <3>1, HolderChanges DEF TypeOK
  \* A process that comes to write an event has just taken its stamp.
  <2>2. ASSUME pc'[p] = "record"
        PROVE  AppendBlock(p)
    <3> USE <2>2 DEF TypeOK, Goto, Leave
    <3>1. CASE Begin(p)
      BY <3>1 DEF Begin, Start, StartHandoff, StartApply, StartDispose, StartBuild,
                  StartCapture, StartCount
    <3>2. CASE Fault(p)
      BY <3>2 DEF Fault, Fails, FirstWriteFails, PageWriteFails, RecordFails, RestoreFails,
                  ProjectionFails
    <3>3. CASE Step(p)
      <4>1. ~EnterLock(p)
        BY DEF EnterLock, FirstStep, Job, Commands, Control
      <4>2. ~(LockTimeout(p) \/ WriteHandoff(p) \/ WriteDisposition(p) \/ OpenPage(p)
              \/ RecordApply(p) \/ WriteIndex(p) \/ CompareCount(p))
        BY DEF LockTimeout, WriteHandoff, WriteDisposition, OpenPage, RecordApply, WriteIndex,
               CompareCount
      <4>3. ~(RefuseTarget(p) \/ CaptureSources(p) \/ RefuseDisposed(p) \/ RefuseManual(p)
              \/ RefuseRoute(p) \/ Restore(p) \/ WriteLatest(p))
        BY DEF RefuseTarget, CaptureSources, RefuseDisposed, RefuseManual, RefuseRoute, Refuse,
               Restore, WriteLatest
      <4> QED  BY <3>3, <4>1, <4>2, <4>3 DEF Step
    <3>4. CASE Kill(p)
      BY <3>4 DEF Kill
    <3> QED  BY <1>2, <3>1, <3>2, <3>3, <3>4
  <2>3. ASSUME NEW a \in Apply, Bounded(a)
        PROVE  Bounded(a)'
    <3>1. Mechanical(a)' <=> Mechanical(a)
      BY DEF Mechanical
    <3>2. Mechanical(a) => a.stamp <= clock'
      BY <2>1, <2>3 DEF Apply
    <3>3. ASSUME NEW q \in Procs, pc'[q] = "record", Mechanical(a)
          PROVE  a.stamp < stamp'[q]
      <4>1. CASE q = p
        <5>1. stamp'[p] = clock + 1
          BY <2>2, <3>3, <4>1 DEF AppendBlock, Tick, TypeOK
        <5> QED  BY <2>1, <2>3, <3>3, <4>1, <5>1 DEF Apply
      <4>2. CASE q # p
        BY <1>2, <2>3, <3>3, <4>2, OwnSteps
      <4> QED  BY <4>1, <4>2
    <3> QED  BY <3>1, <3>2, <3>3
  <2>4. \A k \in DOMAIN applies : applies[k] \in Apply /\ Bounded(applies[k])
    BY DEF TypeOK, Stamped
  <2>5. \A q \in Procs : stamp'[q] <= clock'
    <3>1. stamp'[p] \in {stamp[p], 0, clock'}
      BY <1>2, HolderChanges
    <3>2. stamp[p] <= clock /\ stamp[p] \in Nat
      BY DEF Stamped, TypeOK
    <3>3. stamp'[p] <= clock'
      BY <2>1, <3>1, <3>2
    <3>4. ASSUME NEW q \in Procs \ {p}
          PROVE  stamp'[q] <= clock'
      <4>1. stamp'[q] = stamp[q]
        BY <1>2, OwnSteps
      <4> QED  BY <2>1, <4>1 DEF Stamped, TypeOK
    <3> QED  BY <3>3, <3>4
  <2>6. CASE applies' = applies
    BY <2>5, <2>3, <2>4, <2>6 DEF Stamped, UnforcedIsFirst, AppliesInOrder, Mechanical
  <2>7. CASE applies' # applies
    <3>1. PICK a \in Apply :
              /\ applies' = Append(applies, a)
              /\ a.target = job[p].event
              /\ Mechanical(a) => /\ pc[p] = "record"
                                  /\ a.stamp = stamp[p]
                                  /\ a.page = draft[p].name
                                  /\ a.forced = job[p].force
      BY <1>2, <2>7, NewApply
    <3>2. /\ applies \in Seq(Apply) /\ DOMAIN applies' = DOMAIN applies \cup {Len(applies) + 1}
          /\ \A k \in DOMAIN applies : applies'[k] = applies[k]
          /\ applies'[Len(applies) + 1] = a
          /\ DOMAIN applies = 1..Len(applies) /\ Len(applies) \in Nat
      BY <3>1 DEF TypeOK
    <3>3. \A q \in Procs : pc[q] = "record" => q = p
      <4>1. InLock(p)
        BY <1>2, <2>7, HolderChanges DEF InLock, Writing
      <4> QED  BY <4>1, OneInLock DEF InLock, Writing
    <3>4. \A q \in Procs : pc'[q] # "record"
      <4>1. pc'[p] # "record"
        BY <2>2, <2>7 DEF AppendBlock, store
      <4> QED  BY <1>2, <3>3, <4>1, OwnSteps
    <3>5. Mechanical(a) => a.stamp <= clock'
      BY <2>1, <3>1 DEF Stamped, TypeOK
    <3>6. Stamped'
      BY <2>3, <2>4, <2>5, <3>2, <3>4, <3>5 DEF Stamped, Mechanical
    <3>7. AppliesInOrder'
      <4>1. ASSUME NEW i \in DOMAIN applies, Mechanical(applies[i]), Mechanical(a)
            PROVE  applies[i].stamp < a.stamp
        BY <3>1, <4>1 DEF Stamped
      <4> QED  BY <3>2, <4>1 DEF AppliesInOrder, Mechanical
    <3>8. UnforcedIsFirst'
      <4>1. ASSUME NEW i \in DOMAIN applies, applies[i].target = a.target, Mechanical(a)
            PROVE  a.forced
        <5>1. pc[p] = "record" /\ a.target = job[p].event /\ a.forced = job[p].force
          BY <3>1, <4>1
        <5>2. job[p].event \in Disposed
          BY <4>1, <5>1 DEF Disposed, Elements
        <5> QED  BY <5>1, <5>2 DEF GatePassed, Applicable, AlreadyDisposed
      <4> QED  BY <3>2, <4>1 DEF UnforcedIsFirst, Mechanical
    <3> QED  BY <3>6, <3>7, <3>8
  <2> QED  BY <2>6, <2>7
<1> QED  BY <1>1, <1>2 DEF Next
-----------------------------------------------------------------------------
\* Every step keeps blocks and events paired.
LEMMA PageStep == TypeOK /\ Control /\ PageInv /\ [Next]_vars => PageInv'
<1> SUFFICES ASSUME TypeOK, Control, PageInv, [Next]_vars
             PROVE  PageInv'
  OBVIOUS
<1> DEFINE Applying(q) == pc[q] \in {"append", "record", "restore"}
           Kept(q) ==
              /\ pc[q] = "append" => pages[draft[q].name] = draft[q].before
              /\ pc[q] \in {"record", "restore"} =>
                    pages[draft[q].name] = WithBlock(draft[q].before, job[q].event, stamp[q])
              /\ Applying(q) =>
                    draft[q].before.there /\ (draft[q].created => draft[q].before.blocks = <<>>)
           Paired(w, i) == Settled(w, BlockAt(w, i)) \/ \E q \in Procs : InWork(q, w, i)
<1>1. CASE UNCHANGED vars
  BY <1>1 DEF vars, store, local, PageInv, Settled, InWork, BlocksOf, BlockAt
<1>2. ASSUME NEW p \in Procs, Begin(p) \/ Step(p) \/ Fault(p) \/ Kill(p)
      PROVE  PageInv'
  <2>1. ASSUME NEW w \in Workstreams, NEW b, Settled(w, b)
        PROVE  Settled(w, b)'
    <3>1. orphaned \subseteq orphaned'
      BY <1>2, HolderChanges
    <3>2. applies' = applies \/ \E a \in Apply : applies' = Append(applies, a)
      BY <1>2, NewApply
    <3>3. \A k \in DOMAIN applies : k \in DOMAIN applies' /\ applies'[k] = applies[k]
      <4>1. ASSUME NEW a \in Apply, applies' = Append(applies, a), NEW k \in DOMAIN applies
            PROVE  k \in DOMAIN applies' /\ applies'[k] = applies[k]
        <5>1. applies \in Seq(Apply)
          BY DEF TypeOK
        <5> QED  BY <4>1, <5>1
      <4> QED  BY <3>2, <4>1
    <3> QED  BY <2>1, <3>1, <3>3 DEF Settled
  <2>2. ASSUME NEW q \in Procs \ {p}
        PROVE  Kept(q)'
    <3>1. /\ pc'[q] = pc[q] /\ job'[q] = job[q] /\ stamp'[q] = stamp[q] /\ draft'[q] = draft[q]
      BY <1>2, OwnSteps
    <3>2. Applying(q) => pages' = pages
      BY <1>2, HolderChanges, OneInLock DEF InLock, Writing
    <3> QED  BY <3>1, <3>2 DEF PageInv, WithBlock
  <2>3. ASSUME NEW q \in Procs \ {p}, NEW w \in Workstreams, NEW i
        PROVE  InWork(q, w, i)' <=> InWork(q, w, i)
    BY <1>2, OwnSteps DEF InWork
  \* A step that leaves the pages alone and ends no apply between its writes.
  <2>4. ASSUME pages' = pages, Kept(p)',
               \A w \in Workstreams : \A i \in BlocksOf(w) :
                  InWork(p, w, i) => InWork(p, w, i)' \/ Settled(w, BlockAt(w, i))'
        PROVE  PageInv'
    <3>1. \A w \in Workstreams : \A i \in BlocksOf(w) : Paired(w, i)'
      <4> SUFFICES ASSUME NEW w \in Workstreams, NEW i \in BlocksOf(w)
                   PROVE  Paired(w, i)'
        OBVIOUS
      <4>1. BlockAt(w, i)' = BlockAt(w, i)
        BY <2>4 DEF BlockAt
      <4>2. CASE Settled(w, BlockAt(w, i))
        BY <2>1, <4>1, <4>2 DEF Settled
      <4>3. CASE \E q \in Procs : InWork(q, w, i)
        BY <2>3, <2>4, <4>3
      <4> QED  BY <4>2, <4>3 DEF PageInv
    <3>2. \A w \in Workstreams : BlocksOf(w)' = BlocksOf(w)
      BY <2>4 DEF BlocksOf
    <3> QED  BY <2>2, <2>4, <3>1, <3>2 DEF PageInv
  <2>5. ASSUME pages' = pages, ~Applying(p)', pc[p] \notin {"record", "restore"}
        PROVE  PageInv'
    BY <2>4, <2>5 DEF InWork
  \* What is known of an apply in the lock: all other blocks are settled.
  <2>6. ASSUME InLock(p), NEW w \in Workstreams, NEW i \in BlocksOf(w), ~InWork(p, w, i)
        PROVE  Settled(w, BlockAt(w, i))
    BY <2>6, OneInLock DEF PageInv, InWork, InLock, Writing
  <2>7. ASSUME pc[p] \in {"record", "restore"}, NEW w \in Workstreams, NEW i \in BlocksOf(w),
               InWork(p, w, i)
        PROVE  BlockAt(w, i) = [event |-> job[p].event, stamp |-> stamp[p]]
    <3>1. pages[w].blocks = Append(draft[p].before.blocks,
                                   [event |-> job[p].event, stamp |-> stamp[p]])
      <4>1. pages[w] = WithBlock(draft[p].before, job[p].event, stamp[p])
        BY <2>7 DEF PageInv, InWork
      <4>2. draft[p].before \in Page
        BY DEF TypeOK, Draft
      <4> QED  BY <4>1, <4>2 DEF WithBlock, Page
    <3>2. draft[p].before.blocks \in Seq(Block)
      BY DEF TypeOK, Draft, Page
    <3> QED  BY <2>7, <3>1, <3>2 DEF InWork, BlockAt
  <2> USE DEF TypeOK, Goto, local, store
  <2>8. CASE Begin(p)
    BY <2>5, <2>8 DEF Begin, Start, StartHandoff, StartApply, StartDispose, StartBuild,
                      StartCapture, StartCount
  <2>9. CASE Fault(p)
    <3>1. CASE FirstWriteFails(p) \/ PageWriteFails(p) \/ ProjectionFails(p)
      BY <2>5, <3>1 DEF FirstWriteFails, PageWriteFails, ProjectionFails, Fails, Leave
    <3>2. CASE RecordFails(p)
      <4>1. pages' = pages /\ draft' = draft /\ job' = job /\ stamp' = stamp
            /\ pc[p] = "record" /\ pc'[p] = "restore"
        BY <3>2 DEF RecordFails
      <4> QED  BY <2>4, <4>1 DEF PageInv, InWork, WithBlock
    <3>3. CASE RestoreFails(p)
      <4>1. pages' = pages /\ pc'[p] = "idle" /\ stamp[p] \in orphaned' /\ pc[p] = "restore"
        BY <3>3 DEF RestoreFails, Fails, Leave
      <4>2. ASSUME NEW w \in Workstreams, NEW i \in BlocksOf(w), InWork(p, w, i)
            PROVE  Settled(w, BlockAt(w, i))'
        BY <2>7, <4>1, <4>2 DEF Settled, BlockAt
      <4> QED  BY <2>4, <4>1, <4>2
    <3> QED  BY <2>9, <3>1, <3>2, <3>3 DEF Fault
  <2>10. CASE Kill(p)
    <3>1. pages' = pages /\ pc'[p] = "idle"
          /\ (pc[p] \in {"record", "restore"} => stamp[p] \in orphaned')
      BY <2>10 DEF Kill
    <3>2. ASSUME NEW w \in Workstreams, NEW i \in BlocksOf(w), InWork(p, w, i)
          PROVE  Settled(w, BlockAt(w, i))'
      BY <2>7, <3>1, <3>2 DEF Settled, BlockAt, InWork
    <3> QED  BY <2>4, <3>1, <3>2
  <2>11. CASE Step(p)
    <3>1. CASE EnterLock(p)
      BY <2>5, <3>1 DEF EnterLock, FirstStep, Job, Commands, Control
    <3>2. CASE LockTimeout(p) \/ CompareCount(p) \/ WriteHandoff(p) \/ WriteDisposition(p)
               \/ WriteIndex(p)
      BY <2>5, <3>2 DEF LockTimeout, CompareCount, WriteHandoff, WriteDisposition, WriteIndex
    <3>3. CASE \/ RefuseTarget(p) \/ CaptureSources(p) \/ RefuseDisposed(p) \/ RefuseManual(p)
               \/ RefuseRoute(p) \/ WriteLatest(p)
      BY <2>5, <3>3 DEF RefuseTarget, CaptureSources, RefuseDisposed, RefuseManual, RefuseRoute,
                        Refuse, WriteLatest, Leave
    \* OpenPage may create the page, without a block.
    <3>4. CASE OpenPage(p)
      <4> DEFINE w == Target(p).name
      <4>1. InLock(p) /\ pc[p] = "check" /\ pc'[p] = "append"
        BY <3>4 DEF OpenPage, InLock, Writing
      <4>2. w \in Workstreams
        BY <3>4, RouteIsTyped DEF OpenPage, HasPage, Target, Control, Writing, Job
      <4>3. pages' = [pages EXCEPT ![w].there = TRUE]
        BY <3>4 DEF OpenPage
      <4>4. draft'[p] = [name |-> w, created |-> ~pages[w].there, before |-> pages'[w]]
        BY <3>4 DEF OpenPage
      <4> HIDE DEF w
      <4>5. \A v \in Workstreams : pages'[v].blocks = pages[v].blocks /\ (pages'[v].there \/ pages'[v] = pages[v])
        BY <4>2, <4>3 DEF Page
      <4>6. pages'[w].there /\ (~pages[w].there => pages'[w].blocks = <<>>)
        BY <4>2, <4>3, <4>5 DEF PageInv, NoPage, Page
      <4>7. Kept(p)'
        <5>1. draft'[p].name = w /\ draft'[p].before = pages'[w]
              /\ draft'[p].created = ~pages[w].there
          BY <4>4
        <5> QED  BY <4>1, <4>6, <5>1
      <4>8. ASSUME NEW v \in Workstreams, NEW i \in BlocksOf(v)'
            PROVE  Settled(v, BlockAt(v, i))'
        <5>1. i \in BlocksOf(v) /\ BlockAt(v, i)' = BlockAt(v, i)
          BY <4>5, <4>8 DEF BlocksOf, BlockAt
        <5>2. Settled(v, BlockAt(v, i))
          BY <2>6, <4>1, <5>1 DEF InWork
        <5> QED  BY <2>1, <5>1, <5>2 DEF Settled
      <4>9. \A v \in Workstreams : ~pages'[v].there => pages'[v] = NoPage
        BY <4>5 DEF PageInv
      <4> QED  BY <2>2, <4>7, <4>8, <4>9 DEF PageInv
    \* AppendBlock adds the block in work behind settled ones.
    <3>5. CASE AppendBlock(p)
      <4> DEFINE w == draft[p].name
                 block == [event |-> job[p].event, stamp |-> clock']
      <4>1. InLock(p) /\ pc[p] = "append" /\ pc'[p] = "record" /\ draft' = draft /\ job' = job
            /\ stamp'[p] = clock'
        BY <3>5 DEF AppendBlock, InLock, Writing
      <4>2. w \in Workstreams /\ pages[w] = draft[p].before /\ pages[w] \in Page
        BY <4>1 DEF Control, PageInv
      <4>3. pages' = [pages EXCEPT ![w] = WithBlock(pages[w], job[p].event, clock')]
        BY <3>5, <4>2 DEF AppendBlock
      <4>4. pages'[w] = WithBlock(pages[w], job[p].event, clock')
        BY <4>2, <4>3
      <4>5. pages'[w].there = pages[w].there /\ pages'[w].blocks = Append(pages[w].blocks, block)
        BY <4>2, <4>4 DEF WithBlock, Page
      <4>6. Kept(p)'
        BY <4>1, <4>2, <4>4 DEF PageInv, WithBlock
      <4>7. ASSUME NEW v \in Workstreams, NEW i \in BlocksOf(v)'
            PROVE  Paired(v, i)'
        <5>1. CASE v = w /\ i = Len(pages[w].blocks) + 1
          BY <4>1, <4>2, <5>1 DEF InWork
        <5>2. CASE ~(v = w /\ i = Len(pages[w].blocks) + 1)
          <6>1. i \in BlocksOf(v) /\ BlockAt(v, i)' = BlockAt(v, i)
            <7>1. CASE v # w
              BY <4>3, <4>7, <7>1 DEF BlocksOf, BlockAt
            <7>2. CASE v = w
              <8>1. pages[w].blocks \in Seq(Block)
                BY <4>2 DEF Page
              <8>2. block \in Block
                BY <4>1, TypeStep DEF Control, Writing, Block
              <8>3. i \in DOMAIN Append(pages[w].blocks, block)
                BY <4>5, <4>7, <7>2 DEF BlocksOf
              <8>4. i \in DOMAIN pages[w].blocks
                    /\ Append(pages[w].blocks, block)[i] = pages[w].blocks[i]
                <9> HIDE DEF block
                <9> QED  BY <5>2, <7>2, <8>1, <8>2, <8>3, AppendProperties
              <8> QED  BY <4>5, <7>2, <8>4 DEF BlocksOf, BlockAt
            <7> QED  BY <7>1, <7>2
          <6>2. Settled(v, BlockAt(v, i))
            BY <2>6, <4>1, <6>1 DEF InWork
          <6> QED  BY <2>1, <6>1, <6>2 DEF Settled
        <5> QED  BY <5>1, <5>2
      <4>8. \A v \in Workstreams : ~pages'[v].there => pages'[v] = NoPage
        <5>1. pages[w].there
          BY <4>1, <4>2 DEF PageInv
        <5> QED  BY <4>2, <4>3, <4>5, <5>1 DEF PageInv
      <4> QED  BY <2>2, <4>6, <4>7, <4>8 DEF PageInv
    \* RecordApply settles the block in work.
    <3>6. CASE RecordApply(p)
      <4> DEFINE a == [stamp |-> stamp[p], target |-> job[p].event,
               status |-> IF job[p].approved = NoName THEN "applied" ELSE "applied-manually",
               page |-> draft[p].name, forced |-> job[p].force]
      <4>1. pages' = pages /\ pc[p] = "record" /\ pc'[p] = "index"
        BY <3>6 DEF RecordApply
      <4>2. applies' = Append(applies, a) /\ applies \in Seq(Apply)
        BY <3>6 DEF RecordApply, Record
      <4>3. Len(applies) + 1 \in DOMAIN applies' /\ applies'[Len(applies) + 1] = a
        BY <4>2
      <4>4. ASSUME NEW w \in Workstreams, NEW i \in BlocksOf(w), InWork(p, w, i)
            PROVE  Settled(w, BlockAt(w, i))'
        <5>1. BlockAt(w, i) = [event |-> job[p].event, stamp |-> stamp[p]] /\ w = draft[p].name
          BY <2>7, <4>1, <4>4 DEF InWork
        <5>2. BlockAt(w, i)' = BlockAt(w, i)
          BY <4>1 DEF BlockAt
        <5> HIDE DEF a
        <5>3. a.stamp = stamp[p] /\ a.target = job[p].event /\ a.page = draft[p].name
          BY DEF a
        <5>4. applies'[Len(applies) + 1].stamp = BlockAt(w, i)'.stamp
              /\ applies'[Len(applies) + 1].target = BlockAt(w, i)'.event
              /\ applies'[Len(applies) + 1].page = w
          BY <4>3, <5>1, <5>2, <5>3
        <5> QED  BY <4>3, <5>4 DEF Settled
      <4> QED  BY <2>4, <4>1, <4>4
    \* Restore takes the block in work away.
    <3>7. CASE Restore(p)
      <4> DEFINE w == draft[p].name
                 before == draft[p].before
      <4>1. InLock(p) /\ pc[p] = "restore" /\ pc'[p] = "idle"
        BY <3>7 DEF Restore, Leave, InLock, Writing
      <4>2. w \in Workstreams /\ before \in Page /\ before.there
        BY <4>1 DEF Control, PageInv, Draft
      <4>3. pages' = [pages EXCEPT ![w] = IF draft[p].created THEN NoPage ELSE before]
        BY <3>7 DEF Restore
      <4>4. pages'[w].blocks = before.blocks
        BY <4>1, <4>2, <4>3 DEF PageInv, NoPage
      <4>5. ASSUME NEW v \in Workstreams, NEW i \in BlocksOf(v)'
            PROVE  Settled(v, BlockAt(v, i))'
        <5>1. i \in BlocksOf(v) /\ BlockAt(v, i)' = BlockAt(v, i) /\ ~InWork(p, v, i)
          <6>1. CASE v # w
            BY <4>3, <4>5, <6>1 DEF BlocksOf, BlockAt, InWork
          <6>2. CASE v = w
            <7>1. pages[w].blocks = Append(before.blocks, [event |-> job[p].event, stamp |-> stamp[p]])
              <8>1. pages[w] = WithBlock(before, job[p].event, stamp[p])
                BY <4>1 DEF PageInv
              <8> QED  BY <4>2, <8>1 DEF WithBlock, Page
            <7>2. before.blocks \in Seq(Block)
              BY <4>2 DEF Page
            <7> QED  BY <4>4, <4>5, <6>2, <7>1, <7>2 DEF BlocksOf, BlockAt, InWork
          <6> QED  BY <6>1, <6>2
        <5>2. Settled(v, BlockAt(v, i))
          BY <2>6, <4>1, <5>1
        <5> QED  BY <2>1, <5>1, <5>2 DEF Settled
      <4>6. \A v \in Workstreams : ~pages'[v].there => pages'[v] = NoPage
        BY <4>2, <4>3 DEF PageInv
      <4> QED  BY <2>2, <4>1, <4>5, <4>6 DEF PageInv
    <3> QED  BY <2>11, <3>1, <3>2, <3>3, <3>4, <3>5, <3>6, <3>7 DEF Step
  <2> QED  BY <1>2, <2>8, <2>9, <2>10, <2>11
<1> QED  BY <1>1, <1>2 DEF Next
-----------------------------------------------------------------------------
\* The invariants that hold together.
TogetherInv == StoreInv /\ Published /\ UnforcedIsFirst /\ AppliesInOrder

LEMMA TogetherInvariant == Spec => [](TypeOK /\ TogetherInv)
<1>1. Init => TypeOK /\ TogetherInv
  <2> SUFFICES ASSUME Init
               PROVE  TypeOK /\ TogetherInv
    OBVIOUS
  <2>1. applies = <<>> /\ handoffs = {} /\ manifests = {}
        /\ index = EmptyProjection /\ latest = EmptyProjection
    BY DEF Init
  <2>2. BuildPendingIndex = EmptyProjection
    BY <2>1 DEF BuildPendingIndex, EmptyProjection
  <2> QED  BY <2>1, <2>2, InitTyped DEF TogetherInv, Published, UnforcedIsFirst, AppliesInOrder
<1>2. TypeOK /\ TogetherInv /\ [Next]_vars => TypeOK' /\ TogetherInv'
  BY TypeStep, ControlStep, GateStep, ProjectionStep, AppliesStep, PageStep DEF TogetherInv, StoreInv
<1> QED  BY <1>1, <1>2, PTL DEF Spec

\* The inductive invariant holds in every reachable state of the store.
THEOREM StoreInvariant == Spec => []StoreInv
<1>1. TogetherInv => StoreInv
  BY DEF TogetherInv
<1> QED  BY <1>1, TogetherInvariant, PTL

\* The page and the event land together: whatever is interrupted or fails, a
\* session block without its garden-apply event is the one in work or one cut
\* by a kill or by a failed restore.
THEOREM Pairing == Spec => []BlocksRecorded
<1>1. TypeOK /\ TogetherInv => BlocksRecorded
  <2> SUFFICES ASSUME TypeOK, TogetherInv, NEW w \in Workstreams, NEW i \in BlocksOf(w),
                      ~Settled(w, BlockAt(w, i))
               PROVE  InFlight(BlockAt(w, i).stamp)
    BY DEF BlocksRecorded, Settled
  <2>1. PICK p \in Procs : InWork(p, w, i)
    BY DEF TogetherInv, StoreInv, PageInv
  <2>2. draft[p].before \in Page
    BY DEF TypeOK, Draft
  <2>3. pages[w] = WithBlock(draft[p].before, job[p].event, stamp[p])
    BY <2>1 DEF TogetherInv, StoreInv, PageInv, InWork
  <2>4. pages[w].blocks = Append(draft[p].before.blocks,
                                 [event |-> job[p].event, stamp |-> stamp[p]])
    BY <2>2, <2>3 DEF WithBlock, Page
  <2>5. draft[p].before.blocks \in Seq(Block)
    BY <2>2 DEF Page
  <2>6. BlockAt(w, i).stamp = stamp[p]
    BY <2>1, <2>4, <2>5 DEF InWork, BlockAt
  <2> QED  BY <2>1, <2>6 DEF InFlight, InWork
<1> QED  BY <1>1, TogetherInvariant, PTL

\* Two applies of one handoff never both pass the disposition gate unforced.
THEOREM Gate == Spec => []UnforcedIsFirst
<1>1. TogetherInv => UnforcedIsFirst
  BY DEF TogetherInv
<1> QED  BY <1>1, TogetherInvariant, PTL

\* The stamps of applies grow in the order in which they were written.
THEOREM ApplyOrder == Spec => []AppliesInOrder
<1>1. TogetherInv => AppliesInOrder
  BY DEF TogetherInv
<1> QED  BY <1>1, TogetherInvariant, PTL

\* The projection is current unless its last writer failed, was killed or was
\* a capture.
THEOREM Freshness == Spec => []ProjectionFresh
<1>1. TypeOK /\ TogetherInv => ProjectionFresh
  <2>1. ASSUME TypeOK, TogetherInv, holder = Nobody
        PROVE  owed # "running"
    BY <2>1, ProcsAssumption DEF TogetherInv, StoreInv, Control, Projecting, InLock
  <2> QED  BY <2>1 DEF ProjectionFresh, TogetherInv, Published
<1> QED  BY <1>1, TogetherInvariant, PTL

-----------------------------------------------------------------------------
\* A restore takes the block of its apply away, and no other.
LEMMA RestoredBlock ==
  ASSUME TypeOK, Control, PageInv, NEW p \in Procs, Restore(p)
  PROVE  /\ pages[draft[p].name].blocks =
              Append(pages'[draft[p].name].blocks, [event |-> job[p].event, stamp |-> stamp[p]])
         /\ \A w \in Workstreams \ {draft[p].name} : pages'[w].blocks = pages[w].blocks
<1> USE DEF TypeOK
<1> DEFINE w == draft[p].name
           before == draft[p].before
<1>1. /\ pc[p] = "restore" /\ w \in Workstreams /\ before \in Page
      /\ pages[w] = WithBlock(before, job[p].event, stamp[p])
      /\ draft[p].created => before.blocks = <<>>
  BY DEF Restore, Control, PageInv, Draft
<1>2. pages' = [pages EXCEPT ![w] = IF draft[p].created THEN NoPage ELSE before]
  BY DEF Restore
<1>3. pages'[w].blocks = before.blocks
  BY <1>1, <1>2 DEF NoPage
<1>4. pages[w].blocks = Append(pages'[w].blocks, [event |-> job[p].event, stamp |-> stamp[p]])
  BY <1>1, <1>3 DEF WithBlock, Page
<1>5. \A v \in Workstreams \ {w} : pages'[v].blocks = pages[v].blocks
  BY <1>2
<1> QED  BY <1>4, <1>5

\* What a step does to the blocks of the pages: nothing, or it appends the block
\* of the apply at work, freshly stamped, or takes it away again.
LEMMA BlockChanges ==
  ASSUME TypeOK, Control, PageInv, NEW p \in Procs, Begin(p) \/ Step(p) \/ Fault(p) \/ Kill(p)
  PROVE  \/ \A w \in Workstreams : pages'[w].blocks = pages[w].blocks
         \/ /\ AppendBlock(p) \/ Restore(p)
            /\ \A w \in Workstreams \ {draft[p].name} : pages'[w].blocks = pages[w].blocks
            /\ AppendBlock(p) =>
                 pages'[draft[p].name].blocks =
                    Append(pages[draft[p].name].blocks, [event |-> job[p].event, stamp |-> clock'])
            /\ Restore(p) =>
                 pages[draft[p].name].blocks =
                    Append(pages'[draft[p].name].blocks, [event |-> job[p].event, stamp |-> stamp[p]])
<1> USE DEF TypeOK, store
<1>1. CASE Begin(p)
  BY <1>1 DEF Begin, Start, StartHandoff, StartApply, StartDispose, StartBuild, StartCapture,
              StartCount
<1>2. CASE Fault(p)
  BY <1>2 DEF Fault, FirstWriteFails, PageWriteFails, RecordFails, RestoreFails, ProjectionFails
<1>3. CASE Kill(p)
  BY <1>3 DEF Kill
<1>4. CASE OpenPage(p)
  BY <1>4 DEF OpenPage, Page
<1>5. CASE AppendBlock(p)
  <2> DEFINE w == draft[p].name
  <2>1. w \in Workstreams /\ pages[w] = draft[p].before /\ pages[w] \in Page
    BY <1>5 DEF AppendBlock, Control, PageInv
  <2>2. pages' = [pages EXCEPT ![w] = WithBlock(pages[w], job[p].event, clock')]
    BY <1>5, <2>1 DEF AppendBlock
  <2>3. pages'[w].blocks = Append(pages[w].blocks, [event |-> job[p].event, stamp |-> clock'])
    <3>1. pages'[w] = WithBlock(pages[w], job[p].event, clock')
      BY <2>1, <2>2
    <3> QED  BY <2>1, <3>1 DEF WithBlock, Page
  <2>4. \A v \in Workstreams \ {w} : pages'[v].blocks = pages[v].blocks
    BY <2>2
  <2>5. ~Restore(p)
    BY <1>5 DEF AppendBlock, Restore
  <2> QED  BY <1>5, <2>3, <2>4, <2>5
<1>6. CASE Restore(p)
  <2>1. ~AppendBlock(p)
    BY <1>6 DEF AppendBlock, Restore
  <2> QED  BY <1>6, <2>1, RestoredBlock
<1>7. CASE Step(p)
  <2>1. CASE \/ EnterLock(p) \/ LockTimeout(p) \/ WriteHandoff(p) \/ WriteDisposition(p)
             \/ RefuseTarget(p) \/ CaptureSources(p) \/ RefuseDisposed(p) \/ RefuseManual(p)
             \/ RefuseRoute(p) \/ RecordApply(p) \/ WriteIndex(p) \/ WriteLatest(p)
             \/ CompareCount(p)
    BY <2>1 DEF EnterLock, LockTimeout, WriteHandoff, WriteDisposition, RefuseTarget,
       CaptureSources, RefuseDisposed, RefuseManual, RefuseRoute, Refuse, RecordApply,
       WriteIndex, WriteLatest, CompareCount
  <2> QED  BY <1>4, <1>5, <1>6, <1>7, <2>1 DEF Step
<1> QED  BY <1>1, <1>2, <1>3, <1>7

\* A process comes between page and event by appending its block, and stays
\* there only when the event fails.
LEMMA BetweenWrites ==
  ASSUME TypeOK, Control, NEW p \in Procs, Begin(p) \/ Step(p) \/ Fault(p) \/ Kill(p),
         pc'[p] \in {"record", "restore"}
  PROVE  \/ AppendBlock(p) /\ stamp'[p] = clock'
         \/ RecordFails(p) /\ pc[p] = "record" /\ UNCHANGED <<applies, stamp, job>>
<1> USE DEF TypeOK, Goto, Leave, store, local
<1>1. CASE Begin(p)
  BY <1>1 DEF Begin, Start, StartHandoff, StartApply, StartDispose, StartBuild,
              StartCapture, StartCount
<1>2. CASE Fault(p)
  BY <1>2 DEF Fault, Fails, FirstWriteFails, PageWriteFails, RecordFails, RestoreFails,
              ProjectionFails
<1>3. CASE Step(p)
  <2>1. ~EnterLock(p)
    BY DEF EnterLock, FirstStep, Job, Commands, Control
  <2>2. ~(LockTimeout(p) \/ WriteHandoff(p) \/ WriteDisposition(p) \/ OpenPage(p)
          \/ RecordApply(p) \/ WriteIndex(p) \/ CompareCount(p))
    BY DEF LockTimeout, WriteHandoff, WriteDisposition, OpenPage, RecordApply, WriteIndex,
           CompareCount
  <2>3. ~(RefuseTarget(p) \/ CaptureSources(p) \/ RefuseDisposed(p) \/ RefuseManual(p)
          \/ RefuseRoute(p) \/ Restore(p) \/ WriteLatest(p))
    BY DEF RefuseTarget, CaptureSources, RefuseDisposed, RefuseManual, RefuseRoute, Refuse,
           Restore, WriteLatest
  <2>4. AppendBlock(p)
    BY <1>3, <2>1, <2>2, <2>3 DEF Step
  <2> QED  BY <2>4 DEF AppendBlock
<1>4. CASE Kill(p)
  BY <1>4 DEF Kill
<1> QED  BY <1>1, <1>2, <1>3, <1>4
-----------------------------------------------------------------------------
\* Among these blocks is that of the apply.
Has(blocks, a) == \E i \in DOMAIN blocks : blocks[i] = [event |-> a.target, stamp |-> a.stamp]

\* No two blocks have one stamp, every recorded apply has its block, and the apply
\* between page and event has a stamp that is none of theirs.
BlockInv ==
    /\ \A w \in Workstreams : \A i \in DOMAIN pages[w].blocks :
          pages[w].blocks[i].stamp \in 1..clock
    /\ \A v, w \in Workstreams : \A i \in DOMAIN pages[v].blocks, j \in DOMAIN pages[w].blocks :
          pages[v].blocks[i].stamp = pages[w].blocks[j].stamp => v = w /\ i = j
    /\ \A k \in DOMAIN applies : Mechanical(applies[k]) =>
          /\ Has(pages[applies[k].page].blocks, applies[k])
          /\ \A p \in Procs : pc[p] \in {"record", "restore"} => applies[k].stamp # stamp[p]

\* The stamps of blocks are taken once: an appended block is new, and a restore
\* takes away the block of an apply that was not recorded.
LEMMA BlockStep ==
  TypeOK /\ Control /\ PageInv /\ Stamped /\ BlockInv /\ [Next]_vars => BlockInv'
<1> SUFFICES ASSUME TypeOK, Control, PageInv, Stamped, BlockInv, [Next]_vars
             PROVE  BlockInv'
  OBVIOUS
<1>1. CASE UNCHANGED vars
  BY <1>1 DEF vars, store, local, BlockInv, Mechanical
<1>2. ASSUME NEW p \in Procs, Begin(p) \/ Step(p) \/ Fault(p) \/ Kill(p)
      PROVE  BlockInv'
  <2>1. clock \in Nat /\ clock' \in Nat /\ clock <= clock'
    <3>1. TypeOK'
      BY TypeStep
    <3> QED  BY <1>2, <3>1, HolderChanges DEF TypeOK
  <2>2. \A w \in Workstreams : pages[w].blocks \in Seq(Block) /\ pages'[w].blocks \in Seq(Block)
    <3>1. TypeOK'
      BY TypeStep
    <3> QED  BY <3>1 DEF TypeOK, Page
  <2>3. \A k \in DOMAIN applies : applies[k] \in Apply
    BY DEF TypeOK
  \* The apply between page and event, after the step, is not among those before it.
  <2>4. ASSUME NEW k \in DOMAIN applies, Mechanical(applies[k]),
               NEW q \in Procs, pc'[q] \in {"record", "restore"}
        PROVE  applies[k].stamp # stamp'[q]
    <3>1. CASE q # p
      <4>1. pc[q] \in {"record", "restore"} /\ stamp'[q] = stamp[q]
        BY <1>2, <2>4, <3>1, OwnSteps
      <4> QED  BY <2>4, <4>1 DEF BlockInv
    <3>2. CASE q = p /\ AppendBlock(p) /\ stamp'[p] = clock'
      <4>1. clock' = clock + 1
        BY <3>2 DEF AppendBlock, Tick
      <4>2. applies[k].stamp <= clock /\ applies[k].stamp \in Nat
        BY <2>3, <2>4 DEF Stamped, Apply
      <4> QED  BY <2>1, <3>2, <4>1, <4>2
    <3>3. CASE q = p /\ RecordFails(p) /\ pc[p] = "record" /\ stamp' = stamp
      BY <2>4, <3>3 DEF BlockInv
    <3> QED  BY <1>2, <2>4, <3>1, <3>2, <3>3, BetweenWrites
  \* What is to be shown of the blocks, and of the applies in the store before.
  <2> DEFINE Fresh ==
        /\ \A w \in Workstreams : \A i \in DOMAIN pages'[w].blocks :
              pages'[w].blocks[i].stamp \in 1..clock'
        /\ \A v, w \in Workstreams :
              \A i \in DOMAIN pages'[v].blocks, j \in DOMAIN pages'[w].blocks :
                 pages'[v].blocks[i].stamp = pages'[w].blocks[j].stamp => v = w /\ i = j
             Kept == \A k \in DOMAIN applies : Mechanical(applies[k]) =>
                        Has(pages'[applies[k].page].blocks, applies[k])
  <2>5. ASSUME applies' = applies, Fresh, Kept
        PROVE  BlockInv'
    BY <2>4, <2>5 DEF BlockInv, Mechanical
  <2>6. CASE \A w \in Workstreams : pages'[w].blocks = pages[w].blocks
    <3>1. Fresh
      BY <2>1, <2>6 DEF BlockInv
    <3>2. Kept
      BY <2>3, <2>6 DEF BlockInv, Apply, Mechanical
    <3>3. CASE applies' # applies
      <4>1. PICK a \in Apply :
                /\ applies' = Append(applies, a)
                /\ a.target = job[p].event
                /\ Mechanical(a) => /\ pc[p] = "record"
                                    /\ a.stamp = stamp[p]
                                    /\ a.page = draft[p].name
                                    /\ a.forced = job[p].force
        BY <1>2, <3>3, NewApply
      <4>2. /\ applies \in Seq(Apply) /\ DOMAIN applies' = DOMAIN applies \cup {Len(applies) + 1}
            /\ \A k \in DOMAIN applies : applies'[k] = applies[k]
            /\ applies'[Len(applies) + 1] = a
        BY <4>1 DEF TypeOK
      <4>3. ASSUME Mechanical(a)
            PROVE  Has(pages'[a.page].blocks, a)
        <5> DEFINE before == draft[p].before
                   block == [event |-> a.target, stamp |-> a.stamp]
        <5>1. /\ a.page \in Workstreams /\ before \in Page
              /\ pages[a.page] = WithBlock(before, job[p].event, stamp[p])
          BY <4>1, <4>3 DEF Control, PageInv, TypeOK, Draft
        <5>2. pages[a.page].blocks = Append(before.blocks, block) /\ before.blocks \in Seq(Block)
          BY <4>1, <4>3, <5>1 DEF WithBlock, Page
        <5>3. Len(before.blocks) + 1 \in DOMAIN pages[a.page].blocks
              /\ pages[a.page].blocks[Len(before.blocks) + 1] = block
          <6> HIDE DEF block
          <6> QED  BY <5>2
        <5> QED  BY <2>6, <5>1, <5>3 DEF Has
      <4>4. \A q \in Procs : pc'[q] \notin {"record", "restore"}
        <5>1. InLock(p)
          BY <1>2, <3>3, HolderChanges DEF InLock, Writing
        <5>2. pc'[p] \notin {"record", "restore"}
          BY <1>2, <3>3, BetweenWrites DEF AppendBlock, store
        <5> QED  BY <1>2, <5>1, <5>2, OneInLock, OwnSteps DEF InLock, Writing
      <4>5. \A k \in DOMAIN applies' : Mechanical(applies'[k]) =>
               Has(pages'[applies'[k].page].blocks, applies'[k])
        BY <3>2, <4>2, <4>3
      <4> QED  BY <3>1, <4>4, <4>5 DEF BlockInv, Mechanical
    <3> QED  BY <2>5, <3>1, <3>2, <3>3
  \* AppendBlock adds a block with a stamp of its own.
  <2>7. CASE /\ AppendBlock(p)
             /\ \A w \in Workstreams \ {draft[p].name} : pages'[w].blocks = pages[w].blocks
             /\ pages'[draft[p].name].blocks =
                   Append(pages[draft[p].name].blocks, [event |-> job[p].event, stamp |-> clock'])
    <3> DEFINE w0 == draft[p].name
               n == Len(pages[w0].blocks) + 1
               block == [event |-> job[p].event, stamp |-> clock']
    <3>1. w0 \in Workstreams /\ clock' = clock + 1 /\ applies' = applies
      BY <2>7 DEF AppendBlock, store, Control, Tick
    <3>2. /\ DOMAIN pages'[w0].blocks = DOMAIN pages[w0].blocks \cup {n}
          /\ n \notin DOMAIN pages[w0].blocks
          /\ \A i \in DOMAIN pages[w0].blocks : pages'[w0].blocks[i] = pages[w0].blocks[i]
          /\ pages'[w0].blocks[n] = block
      <4>1. pages'[w0].blocks = Append(pages[w0].blocks, block)
        BY <2>7
      <4> HIDE DEF block, w0
      <4> QED  BY <2>2, <3>1, <4>1
    <3>3. \A w \in Workstreams \ {w0} : pages'[w].blocks = pages[w].blocks
      BY <2>7
    <3>4. block.stamp = clock + 1
      BY <3>1
    <3> HIDE DEF w0, n, block
    <3>5. \A w \in Workstreams : \A i \in DOMAIN pages'[w].blocks :
             \/ i \in DOMAIN pages[w].blocks /\ pages'[w].blocks[i] = pages[w].blocks[i]
             \/ w = w0 /\ i = n /\ pages'[w].blocks[i].stamp = clock + 1
      BY <3>1, <3>2, <3>3, <3>4
    <3>6. \A w \in Workstreams : \A i \in DOMAIN pages[w].blocks :
             pages[w].blocks[i].stamp \in 1..clock /\ pages[w].blocks[i].stamp # clock + 1
      BY <2>1 DEF BlockInv
    <3>7. \A w \in Workstreams : \A i \in DOMAIN pages'[w].blocks :
             pages'[w].blocks[i].stamp \in 1..clock'
      BY <2>1, <3>1, <3>5, <3>6
    <3>8. ASSUME NEW v \in Workstreams, NEW w \in Workstreams,
                 NEW i \in DOMAIN pages'[v].blocks, NEW j \in DOMAIN pages'[w].blocks,
                 pages'[v].blocks[i].stamp = pages'[w].blocks[j].stamp
          PROVE  v = w /\ i = j
      <4>1. CASE /\ i \in DOMAIN pages[v].blocks /\ pages'[v].blocks[i] = pages[v].blocks[i]
                 /\ j \in DOMAIN pages[w].blocks /\ pages'[w].blocks[j] = pages[w].blocks[j]
        BY <3>8, <4>1 DEF BlockInv
      <4>2. CASE v = w0 /\ i = n /\ w = w0 /\ j = n
        BY <4>2
      <4>3. ~(/\ i \in DOMAIN pages[v].blocks /\ pages'[v].blocks[i] = pages[v].blocks[i]
              /\ pages'[w].blocks[j].stamp = clock + 1)
        BY <3>6, <3>8
      <4>4. ~(/\ j \in DOMAIN pages[w].blocks /\ pages'[w].blocks[j] = pages[w].blocks[j]
              /\ pages'[v].blocks[i].stamp = clock + 1)
        BY <3>6, <3>8
      <4> QED  BY <3>5, <4>1, <4>2, <4>3, <4>4
    <3>9. ASSUME NEW k \in DOMAIN applies, Mechanical(applies[k])
          PROVE  Has(pages'[applies[k].page].blocks, applies[k])
      <4>1. applies[k].page \in Workstreams
        BY <2>3, <3>9 DEF Apply, Mechanical
      <4>2. PICK i \in DOMAIN pages[applies[k].page].blocks :
               pages[applies[k].page].blocks[i] =
                  [event |-> applies[k].target, stamp |-> applies[k].stamp]
        BY <3>9 DEF BlockInv, Has
      <4>3. i \in DOMAIN pages'[applies[k].page].blocks
            /\ pages'[applies[k].page].blocks[i] = pages[applies[k].page].blocks[i]
        BY <3>2, <3>3, <4>1
      <4> QED  BY <4>2, <4>3 DEF Has
    <3> QED  BY <2>5, <3>1, <3>7, <3>8, <3>9
  \* Restore takes a block away that no recorded apply has.
  <2>8. CASE /\ Restore(p)
             /\ \A w \in Workstreams \ {draft[p].name} : pages'[w].blocks = pages[w].blocks
             /\ pages[draft[p].name].blocks =
                   Append(pages'[draft[p].name].blocks, [event |-> job[p].event, stamp |-> stamp[p]])
    <3> DEFINE w0 == draft[p].name
               n == Len(pages'[w0].blocks) + 1
               block == [event |-> job[p].event, stamp |-> stamp[p]]
    <3>1. w0 \in Workstreams /\ applies' = applies /\ pc[p] = "restore"
      BY <2>8 DEF Restore, Control
    <3>2. /\ DOMAIN pages[w0].blocks = DOMAIN pages'[w0].blocks \cup {n}
          /\ \A i \in DOMAIN pages'[w0].blocks : pages'[w0].blocks[i] = pages[w0].blocks[i]
          /\ pages[w0].blocks[n] = block
      <4>1. pages[w0].blocks = Append(pages'[w0].blocks, block)
        BY <2>8
      <4> HIDE DEF block, w0
      <4> QED  BY <2>2, <3>1, <4>1
    <3>3. \A w \in Workstreams \ {w0} : pages'[w].blocks = pages[w].blocks
      BY <2>8
    <3>4. block.stamp = stamp[p]
      OBVIOUS
    <3> HIDE DEF w0, n, block
    <3>5. \A w \in Workstreams : \A i \in DOMAIN pages'[w].blocks :
             i \in DOMAIN pages[w].blocks /\ pages'[w].blocks[i] = pages[w].blocks[i]
      BY <3>2, <3>3
    <3>6. Fresh
      BY <2>1, <3>5 DEF BlockInv
    <3>7. ASSUME NEW k \in DOMAIN applies, Mechanical(applies[k])
          PROVE  Has(pages'[applies[k].page].blocks, applies[k])
      <4>1. applies[k].page \in Workstreams /\ applies[k].stamp # stamp[p]
        BY <2>3, <3>1, <3>7 DEF Apply, Mechanical, BlockInv
      <4>2. PICK i \in DOMAIN pages[applies[k].page].blocks :
               pages[applies[k].page].blocks[i] =
                  [event |-> applies[k].target, stamp |-> applies[k].stamp]
        BY <3>7 DEF BlockInv, Has
      <4>3. applies[k].page = w0 => i # n
        BY <3>2, <3>4, <4>1, <4>2
      <4>4. i \in DOMAIN pages'[applies[k].page].blocks
            /\ pages'[applies[k].page].blocks[i] = pages[applies[k].page].blocks[i]
        BY <3>2, <3>3, <4>1, <4>3
      <4> QED  BY <4>2, <4>4 DEF Has
    <3> QED  BY <2>5, <3>1, <3>6, <3>7
  <2> QED  BY <1>2, <2>6, <2>7, <2>8, BlockChanges
<1> QED  BY <1>1, <1>2 DEF Next

\* The blocks are right in every reachable state.
LEMMA BlockInvariant == Spec => []BlockInv
<1>1. Init => BlockInv
  BY DEF Init, BlockInv, NoPage, NewPage
<1>2. TypeOK /\ TogetherInv /\ BlockInv /\ [Next]_vars => BlockInv'
  BY BlockStep DEF TogetherInv, StoreInv
<1> QED  BY <1>1, <1>2, TogetherInvariant, PTL DEF Spec

\* No apply loses its block to another: every recorded apply has exactly one
\* block, on the page it was routed to.
THEOREM Blocks == Spec => []AppliesHaveBlocks
<1>1. TypeOK /\ BlockInv => AppliesHaveBlocks
  <2> SUFFICES ASSUME TypeOK, BlockInv, NEW k \in DOMAIN applies, Mechanical(applies[k])
               PROVE  \E i \in BlocksOf(applies[k].page) :
                         /\ BlockAt(applies[k].page, i) =
                              [event |-> applies[k].target, stamp |-> applies[k].stamp]
                         /\ \A w \in Workstreams : \A j \in BlocksOf(w) :
                              BlockAt(w, j).stamp = applies[k].stamp => w = applies[k].page /\ j = i
    BY DEF AppliesHaveBlocks
  <2>3. applies[k] \in Apply
    BY DEF TypeOK
  <2>1. applies[k].page \in Workstreams
    BY <2>3 DEF Apply, Mechanical
  <2>2. PICK i \in DOMAIN pages[applies[k].page].blocks :
           pages[applies[k].page].blocks[i] =
              [event |-> applies[k].target, stamp |-> applies[k].stamp]
    BY DEF BlockInv, Has
  <2> QED  BY <2>1, <2>2 DEF BlockInv, BlocksOf, BlockAt
<1> QED  BY <1>1, BlockInvariant, TogetherInvariant, PTL
-----------------------------------------------------------------------------
\* An apply has no stamp before it appends its block, and has one from then on;
\* a disposition by command has one from its start.
Placed(p) ==
    /\ pc[p] \in {"check", "append"} \/ (pc[p] = "lock" /\ job[p].cmd = "apply") => stamp[p] = 0
    /\ pc[p] \in {"target", "record", "restore"} \/ (pc[p] = "lock" /\ job[p].cmd = "dispose")
          => stamp[p] # 0
    /\ pc[p] \in {"emit", "target", "capture", "compare"} => job[p].cmd # "apply"

\* No two processes have one stamp, and no event has the stamp of none.
StampInv ==
    /\ \A k \in DOMAIN applies : applies[k].stamp \in 1..clock
    /\ \A p, q \in Procs : stamp[p] # 0 /\ stamp[p] = stamp[q] => p = q
    /\ \A p \in Procs : Placed(p)

\* A stamp that changes is given up or taken from the clock.
LEMMA StampTaken ==
  ASSUME TypeOK, NEW p \in Procs, Begin(p) \/ Step(p) \/ Fault(p) \/ Kill(p)
  PROVE  stamp'[p] \in {stamp[p], 0} \/ (clock' = clock + 1 /\ stamp'[p] = clock + 1)
<1> USE DEF TypeOK, local, Tick
<1>1. CASE Begin(p)
  BY <1>1 DEF Begin, Start, StartHandoff, StartApply, StartDispose, StartBuild, StartCapture,
              StartCount
<1>2. CASE Fault(p)
  BY <1>2 DEF Fault, FirstWriteFails, PageWriteFails, RecordFails, RestoreFails, ProjectionFails
<1>3. CASE Step(p)
  <2>1. CASE AppendBlock(p)
    BY <2>1 DEF AppendBlock
  <2> QED
    BY <1>3, <2>1 DEF Step, EnterLock, LockTimeout, WriteHandoff, WriteDisposition, RefuseTarget,
       CaptureSources, RefuseDisposed, RefuseManual, RefuseRoute, Refuse, OpenPage, RecordApply,
       Restore, WriteIndex, WriteLatest, CompareCount
<1>4. CASE Kill(p)
  BY <1>4 DEF Kill
<1> QED  BY <1>1, <1>2, <1>3, <1>4

\* The step of a process keeps its stamp where it belongs.
LEMMA PlacedStep ==
  ASSUME TypeOK, Control, NEW p \in Procs, Placed(p), Begin(p) \/ Step(p) \/ Fault(p) \/ Kill(p)
  PROVE  Placed(p)'
<1> USE DEF TypeOK, Placed, Goto, local
<1>1. CASE Begin(p)
  <2>1. CASE \E h \in Handoffs, status \in Dispositions : StartDispose(p, h, status)
    <3>1. pc'[p] = "lock" /\ stamp'[p] = clock + 1 /\ job'[p].cmd = "dispose"
      BY <2>1 DEF StartDispose, Start, NoJob, Tick
    <3> QED  BY <3>1
  <2>2. CASE StartCount(p)
    BY <2>2 DEF StartCount, NoJob
  <2>3. CASE pc'[p] = "lock" /\ stamp'[p] = 0 /\ job'[p].cmd # "dispose"
    BY <2>3
  <2>4. CASE \E h \in Handoffs : StartHandoff(p, h)
    BY <2>3, <2>4 DEF StartHandoff, Start, NoJob
  <2>5. CASE \E h \in Handoffs : StartCapture(p, h)
    BY <2>3, <2>5 DEF StartCapture, Start, NoJob
  <2>6. CASE \E h \in Handoffs, force \in BOOLEAN, approved \in Workstreams \cup {NoName} :
                StartApply(p, h, force, approved)
    BY <2>3, <2>6 DEF StartApply, Start, NoJob
  <2>7. CASE StartBuild(p)
    BY <2>3, <2>7 DEF StartBuild, Start, NoJob
  <2> QED  BY <1>1, <2>1, <2>2, <2>4, <2>5, <2>6, <2>7 DEF Begin
<1>2. CASE Fault(p)
  BY <1>2 DEF Fault, Fails, Leave, FirstWriteFails, PageWriteFails, RecordFails, RestoreFails,
              ProjectionFails
<1>3. CASE EnterLock(p)
  <2>1. job' = job /\ stamp' = stamp /\ pc[p] = "lock" /\ pc'[p] = FirstStep(job[p].cmd)
    BY <1>3 DEF EnterLock
  <2>2. job[p].cmd \in Commands \ {"count"}
    BY <2>1 DEF Control, Job
  <2> QED  BY <2>1, <2>2 DEF FirstStep, Commands
<1>4. CASE AppendBlock(p)
  <2>1. pc'[p] = "record" /\ stamp'[p] = clock + 1
    BY <1>4 DEF AppendBlock, Tick
  <2> QED  BY <2>1
<1>5. CASE Step(p)
  <2>1. CASE WriteHandoff(p) \/ WriteDisposition(p) \/ RecordApply(p) \/ WriteIndex(p)
    <3>1. pc'[p] \in {"index", "latest"}
      BY <2>1 DEF WriteHandoff, WriteDisposition, RecordApply, WriteIndex
    <3> QED  BY <3>1
  <2>3. CASE OpenPage(p)
    BY <2>3 DEF OpenPage
  <2>2. CASE \/ LockTimeout(p) \/ RefuseTarget(p) \/ CaptureSources(p) \/ RefuseDisposed(p)
             \/ RefuseManual(p) \/ RefuseRoute(p) \/ Restore(p) \/ WriteLatest(p)
             \/ CompareCount(p)
    <3>1. pc'[p] = "idle"
      BY <2>2 DEF LockTimeout, RefuseTarget, CaptureSources, RefuseDisposed, RefuseManual,
         RefuseRoute, Refuse, Restore, WriteLatest, CompareCount, Leave
    <3> QED  BY <3>1
  <2> QED  BY <1>3, <1>4, <1>5, <2>1, <2>2, <2>3 DEF Step
<1>6. CASE Kill(p)
  BY <1>6 DEF Kill
<1> QED  BY <1>1, <1>2, <1>5, <1>6

\* The event a step writes has the stamp of its process.
LEMMA AppendedStamp ==
  ASSUME TypeOK, Control, NEW p \in Procs, Begin(p) \/ Step(p) \/ Fault(p) \/ Kill(p),
         applies' # applies
  PROVE  /\ pc[p] \in {"target", "record"} /\ stamp' = stamp
         /\ \A k \in DOMAIN applies : k \in DOMAIN applies' /\ applies'[k] = applies[k]
         /\ Len(applies) + 1 \in DOMAIN applies'
         /\ applies'[Len(applies) + 1].stamp = stamp[p]
         /\ \A k \in DOMAIN applies' : k \in DOMAIN applies \/ k = Len(applies) + 1
<1>1. PICK a : applies' = Append(applies, a) /\ a.stamp = stamp[p]
  <2>1. CASE WriteDisposition(p)
    <3> DEFINE a == [stamp |-> stamp[p], target |-> job[p].event, status |-> job[p].status,
                     page |-> NoName, forced |-> FALSE]
    <3>1. applies' = Append(applies, a) /\ a.stamp = stamp[p]
      BY <2>1 DEF WriteDisposition, Record
    <3> QED  BY <3>1
  <2>2. CASE RecordApply(p)
    <3> DEFINE a == [stamp |-> stamp[p], target |-> job[p].event,
                     status |-> IF job[p].approved = NoName THEN "applied" ELSE "applied-manually",
                     page |-> draft[p].name, forced |-> job[p].force]
    <3>1. applies' = Append(applies, a) /\ a.stamp = stamp[p]
      BY <2>2 DEF RecordApply, Record
    <3> QED  BY <3>1
  <2> QED  BY <2>1, <2>2, ApplyWriters
<1>2. pc[p] \in {"target", "record"} /\ stamp' = stamp
  BY ApplyWriters DEF WriteDisposition, RecordApply, local
<1>3. applies \in Seq(Apply)
  BY DEF TypeOK
<1> QED  BY <1>1, <1>2, <1>3

\* Every step keeps the stamps apart.
LEMMA StampStep ==
  TypeOK /\ Control /\ Stamped /\ StampInv /\ [Next]_vars => StampInv'
<1> SUFFICES ASSUME TypeOK, Control, Stamped, StampInv, [Next]_vars
             PROVE  StampInv'
  OBVIOUS
<1>1. CASE UNCHANGED vars
  <2>1. UNCHANGED <<clock, applies, pc, job, stamp>>
    BY <1>1 DEF vars, store, local
  <2>2. \A p \in Procs : Placed(p)'
    BY <2>1 DEF StampInv, Placed
  <2> QED  BY <2>1, <2>2 DEF StampInv
<1>2. ASSUME NEW p \in Procs, Begin(p) \/ Step(p) \/ Fault(p) \/ Kill(p)
      PROVE  StampInv'
  <2>1. clock \in Nat /\ clock' \in Nat /\ clock <= clock' /\ stamp \in [Procs -> Nat]
    <3>1. TypeOK'
      BY TypeStep
    <3> QED  BY <1>2, <3>1, HolderChanges DEF TypeOK
  <2>2. \A k \in DOMAIN applies' : applies'[k].stamp \in 1..clock'
    <3>1. CASE applies' = applies
      BY <2>1, <3>1 DEF StampInv
    <3>2. CASE applies' # applies
      <4>1. stamp[p] \in 1..clock
        BY <1>2, <2>1, <3>2, AppendedStamp DEF StampInv, Placed, Stamped
      <4> QED  BY <1>2, <2>1, <3>2, <4>1, AppendedStamp DEF StampInv
    <3> QED  BY <3>1, <3>2
  <2>3. ASSUME NEW q \in Procs, NEW r \in Procs, stamp'[q] # 0, stamp'[q] = stamp'[r]
        PROVE  q = r
    <3>1. \A s \in Procs \ {p} : stamp'[s] = stamp[s] /\ stamp'[s] <= clock
      BY <1>2, OwnSteps DEF Stamped
    <3>2. stamp'[p] \in {stamp[p], 0} \/ stamp'[p] = clock + 1
      BY <1>2, StampTaken
    <3> QED  BY <2>1, <2>3, <3>1, <3>2 DEF StampInv
  <2>4. ASSUME NEW q \in Procs
        PROVE  Placed(q)'
    <3>1. CASE q = p
      BY <1>2, <3>1, PlacedStep DEF StampInv
    <3>2. CASE q # p
      BY <1>2, <3>2, OwnSteps DEF StampInv, Placed
    <3> QED  BY <3>1, <3>2
  <2> QED  BY <2>2, <2>3, <2>4 DEF StampInv
<1> QED  BY <1>1, <1>2 DEF Next

\* Among these applies, or on these pages, is the stamp.
Dated(events, s) == \E k \in DOMAIN events : events[k].stamp = s
OnPage(places, s) ==
    \E w \in Workstreams : \E i \in DOMAIN places[w].blocks : places[w].blocks[i].stamp = s

\* The event of an apply is recorded from its write to its report and not
\* before, and the end it reports is the one it came to.
Told(p) ==
    /\ pc[p] \in {"record", "restore"} => ~Dated(applies, stamp[p])
    /\ pc[p] \in {"index", "latest"} /\ job[p].cmd = "apply" => Dated(applies, stamp[p])
    /\ pc[p] = "idle" /\ job[p].cmd = "apply" /\ result[p] # "none" =>
          /\ Dated(applies, stamp[p]) <=> result[p] \in {"ok", "durable"}
          /\ \/ Dated(applies, stamp[p])
             \/ stamp[p] \in orphaned
             \/ ~OnPage(pages, stamp[p])

\* What others do changes nothing of what a process has told.
LEMMA ToldOthers ==
  ASSUME TypeOK, Control, PageInv, Stamped, StampInv,
         NEW p \in Procs, Begin(p) \/ Step(p) \/ Fault(p) \/ Kill(p),
         NEW s \in 0..clock
  PROVE  /\ s # stamp[p] => (Dated(applies', s) <=> Dated(applies, s))
         /\ Dated(applies, s) => Dated(applies', s)
         /\ OnPage(pages', s) => OnPage(pages, s)
<1>1. /\ s # stamp[p] => (Dated(applies', s) <=> Dated(applies, s))
      /\ Dated(applies, s) => Dated(applies', s)
  <2>1. CASE applies' = applies
    BY <2>1
  <2>2. CASE applies' # applies
    BY <2>2, AppendedStamp DEF Dated
  <2> QED  BY <2>1, <2>2
<1>2. ASSUME OnPage(pages', s)
      PROVE  OnPage(pages, s)
  <2>0. PICK w \in Workstreams : \E i \in DOMAIN pages'[w].blocks : pages'[w].blocks[i].stamp = s
    BY <1>2 DEF OnPage
  <2>1. PICK i \in DOMAIN pages'[w].blocks : pages'[w].blocks[i].stamp = s
    BY <2>0
  <2>2. /\ clock \in Nat
        /\ \A v \in Workstreams : pages[v].blocks \in Seq(Block) /\ pages'[v].blocks \in Seq(Block)
    <3>1. TypeOK'
      BY TypeStep DEF Next
    <3> QED  BY <3>1 DEF TypeOK, Page
  <2>3. CASE pages'[w].blocks = pages[w].blocks
    BY <2>1, <2>3 DEF OnPage
  <2>4. CASE pages'[w].blocks # pages[w].blocks /\ AppendBlock(p)
    <3> DEFINE block == [event |-> job[p].event, stamp |-> clock']
    <3>1. w = draft[p].name /\ pages'[w].blocks = Append(pages[w].blocks, block)
      BY <2>1, <2>4, BlockChanges
    <3>2. block.stamp = clock + 1
      BY <2>4 DEF AppendBlock, Tick
    <3> HIDE DEF block
    <3>3. i \in DOMAIN pages[w].blocks /\ pages'[w].blocks[i] = pages[w].blocks[i]
      BY <2>1, <2>2, <3>1, <3>2
    <3> QED  BY <2>1, <3>3 DEF OnPage
  <2>5. CASE pages'[w].blocks # pages[w].blocks /\ Restore(p)
    <3> DEFINE block == [event |-> job[p].event, stamp |-> stamp[p]]
    <3>1. pages[w].blocks = Append(pages'[w].blocks, block)
      BY <2>1, <2>5, BlockChanges
    <3> HIDE DEF block
    <3>3. i \in DOMAIN pages[w].blocks /\ pages'[w].blocks[i] = pages[w].blocks[i]
      BY <2>1, <2>2, <3>1
    <3> QED  BY <2>1, <3>3 DEF OnPage
  <2> QED  BY <2>1, <2>3, <2>4, <2>5, BlockChanges
<1> QED  BY <1>1, <1>2

\* The step of a process keeps what it tells true.
LEMMA ToldStep ==
  ASSUME TypeOK, Control, PageInv, Stamped, BlockInv, StampInv,
         NEW p \in Procs, Told(p), Begin(p) \/ Step(p) \/ Fault(p) \/ Kill(p)
  PROVE  Told(p)'
<1> USE DEF TypeOK, Goto, local, store
<1>0. clock \in Nat /\ stamp[p] \in 0..clock
  BY DEF Stamped
<1>16. Ended(p) => job'[p].cmd = job[p].cmd
  BY DEF Ended, NoJob
\* No event and no block has the stamp of none.
<1>1. ~Dated(applies, 0) /\ ~OnPage(pages, 0)
  BY DEF Dated, OnPage, StampInv, BlockInv
<1>2. CASE Begin(p)
  <2>1. pc'[p] \in {"lock", "compare"}
    BY <1>2 DEF Begin, Start, StartHandoff, StartApply, StartDispose, StartBuild,
                StartCapture, StartCount
  <2> QED  BY <2>1 DEF Told
<1>3. CASE Kill(p)
  <2>1. pc'[p] = "idle" /\ job'[p].cmd = "build"
    BY <1>3 DEF Kill, NoJob
  <2> QED  BY <2>1 DEF Told
\* A command other than apply, or one that has not appended its block.
<1>4. CASE /\ pc'[p] = "idle" /\ job'[p].cmd = job[p].cmd
           /\ UNCHANGED <<applies, stamp, pages>>
           /\ \/ job[p].cmd # "apply"
              \/ stamp[p] = 0 /\ result'[p] \notin {"ok", "durable"}
  BY <1>1, <1>4 DEF Told
<1>5. CASE \/ LockTimeout(p) \/ RefuseTarget(p) \/ CaptureSources(p) \/ CompareCount(p)
           \/ FirstWriteFails(p)
  <2>1. pc'[p] = "idle" /\ job'[p].cmd = job[p].cmd
    BY <1>5, <1>16 DEF LockTimeout, RefuseTarget, CaptureSources, CompareCount, FirstWriteFails,
                       Fails, Leave
  <2>2. UNCHANGED <<applies, stamp, pages>>
    BY <1>5 DEF LockTimeout, RefuseTarget, CaptureSources, CompareCount, FirstWriteFails, Fails
  <2>3. job[p].cmd = "apply" => pc[p] = "lock" /\ stamp[p] = 0 /\ result'[p] = "error"
    BY <1>5 DEF LockTimeout, RefuseTarget, CaptureSources, CompareCount, FirstWriteFails,
                StampInv, Placed
  <2> QED  BY <1>4, <2>1, <2>2, <2>3
<1>6. CASE RefuseDisposed(p) \/ RefuseManual(p) \/ RefuseRoute(p) \/ PageWriteFails(p)
  <2>1. pc'[p] = "idle" /\ job'[p].cmd = job[p].cmd
    BY <1>6, <1>16 DEF RefuseDisposed, RefuseManual, RefuseRoute, Refuse, PageWriteFails, Fails,
                       Leave
  <2>2. UNCHANGED <<applies, stamp, pages>>
    BY <1>6 DEF RefuseDisposed, RefuseManual, RefuseRoute, Refuse, PageWriteFails, Fails
  <2>3. pc[p] \in {"check", "append"} /\ result'[p] \in {"refused", "manual", "error"}
    BY <1>6 DEF RefuseDisposed, RefuseManual, RefuseRoute, Refuse, PageWriteFails, Fails, Leave
  <2> QED  BY <1>4, <2>1, <2>2, <2>3 DEF StampInv, Placed
<1>7. CASE EnterLock(p)
  <2>1. pc'[p] = FirstStep(job[p].cmd) /\ job'[p] = job[p] /\ pc[p] = "lock"
    BY <1>7 DEF EnterLock
  <2>2. job[p].cmd \in Commands \ {"count"}
    BY <2>1 DEF Control, Job
  <2> QED  BY <2>1, <2>2 DEF Told, FirstStep, Commands
<1>8. CASE WriteHandoff(p) \/ OpenPage(p)
  <2>1. \/ pc'[p] = "append"
        \/ pc'[p] = "index" /\ pc[p] = "emit" /\ job'[p] = job[p]
    BY <1>8 DEF WriteHandoff, OpenPage
  <2> QED  BY <2>1 DEF Told, StampInv, Placed
<1>9. CASE WriteDisposition(p) \/ RecordApply(p)
  <2>1. pc'[p] = "index" /\ stamp'[p] = stamp[p]
    BY <1>9 DEF WriteDisposition, RecordApply
  <2>2. applies' # applies
    BY <1>9 DEF WriteDisposition, RecordApply, Record
  <2>3. Dated(applies', stamp[p])
    BY <2>2, AppendedStamp DEF Dated
  <2> QED  BY <2>1, <2>3 DEF Told
<1>10. CASE AppendBlock(p)
  <2>1. pc'[p] = "record" /\ stamp'[p] = clock + 1 /\ applies' = applies
    BY <1>10 DEF AppendBlock, Tick
  <2>2. ~Dated(applies', stamp'[p])
    BY <1>0, <2>1 DEF Dated, StampInv
  <2> QED  BY <2>1, <2>2 DEF Told
<1>11. CASE RecordFails(p)
  BY <1>11 DEF RecordFails, Told
\* The restore takes the one block with the stamp away, or fails and says so.
<1>12. CASE Restore(p)
  <2>1. /\ pc[p] = "restore" /\ pc'[p] = "idle" /\ result'[p] = "error"
        /\ applies' = applies /\ stamp' = stamp
    BY <1>12 DEF Restore, Leave
  <2>2. ~OnPage(pages', stamp[p])
    <3> SUFFICES ASSUME NEW w \in Workstreams, NEW i \in DOMAIN pages'[w].blocks,
                        pages'[w].blocks[i].stamp = stamp[p]
                 PROVE  FALSE
      BY DEF OnPage
    <3> DEFINE w0 == draft[p].name
               n == Len(pages'[w0].blocks) + 1
               block == [event |-> job[p].event, stamp |-> stamp[p]]
    <3>1. w0 \in Workstreams
      BY <2>1 DEF Control
    <3>2. pages[w0].blocks = Append(pages'[w0].blocks, block)
      BY <1>12, RestoredBlock
    <3>3. \A v \in Workstreams \ {w0} : pages'[v].blocks = pages[v].blocks
      BY <1>12, RestoredBlock
    <3>4. \A v \in Workstreams : pages'[v].blocks \in Seq(Block)
      <4>1. TypeOK'
        BY TypeStep DEF Next
      <4> QED  BY <4>1 DEF Page
    <3>5. block.stamp = stamp[p]
      OBVIOUS
    <3> HIDE DEF w0, n, block
    <3>6. n \in DOMAIN pages[w0].blocks /\ pages[w0].blocks[n].stamp = stamp[p]
      BY <3>1, <3>2, <3>4, <3>5 DEF n
    <3>7. i \in DOMAIN pages[w].blocks /\ pages[w].blocks[i].stamp = stamp[p] /\ ~(w = w0 /\ i = n)
      <4>1. CASE w = w0
        <5>1. pages'[w0].blocks \in Seq(Block) /\ i \in DOMAIN pages'[w0].blocks
          BY <3>1, <3>4, <4>1
        <5>2. i \in DOMAIN pages[w0].blocks /\ pages[w0].blocks[i] = pages'[w0].blocks[i] /\ i # n
          BY <3>2, <5>1 DEF n
        <5> QED  BY <4>1, <5>2
      <4>2. CASE w # w0
        BY <3>3, <4>2
      <4> QED  BY <4>1, <4>2
    <3> QED  BY <3>1, <3>6, <3>7 DEF BlockInv
  <2> QED  BY <1>12, <2>1, <2>2 DEF Told, Restore, Leave, Ended
<1>13. CASE RestoreFails(p)
  <2>1. /\ pc[p] = "restore" /\ pc'[p] = "idle" /\ result'[p] = "error"
        /\ applies' = applies /\ stamp' = stamp /\ stamp[p] \in orphaned'
    BY <1>13 DEF RestoreFails, Fails, Leave
  <2> QED  BY <2>1 DEF Told
<1>14. CASE WriteIndex(p)
  <2>1. pc[p] = "index" /\ pc'[p] = "latest" /\ UNCHANGED <<applies, stamp, job>>
    BY <1>14 DEF WriteIndex
  <2> QED  BY <2>1 DEF Told
<1>15. CASE WriteLatest(p) \/ ProjectionFails(p)
  <2>1. /\ pc[p] \in {"index", "latest"} /\ pc'[p] = "idle" /\ job'[p].cmd = job[p].cmd
        /\ job[p].cmd = "apply" => result'[p] \in {"ok", "durable"}
        /\ applies' = applies /\ stamp' = stamp
    BY <1>15, <1>16 DEF WriteLatest, ProjectionFails, Fails, Leave
  <2> QED  BY <2>1 DEF Told
<1> QED
  BY <1>2, <1>3, <1>5, <1>6, <1>7, <1>8, <1>9, <1>10, <1>11, <1>12, <1>13, <1>14, <1>15
  DEF Step, Fault

\* A step of one process leaves the result of the others alone.
LEMMA OwnResult ==
  ASSUME TypeOK, NEW p \in Procs, Begin(p) \/ Step(p) \/ Fault(p) \/ Kill(p)
  PROVE  \A q \in Procs \ {p} : result'[q] = result[q]
<1> USE DEF TypeOK, local, Leave
<1>1. CASE Begin(p)
  BY <1>1 DEF Begin, Start, StartHandoff, StartApply, StartDispose, StartBuild, StartCapture,
              StartCount
<1>2. CASE Fault(p)
  BY <1>2 DEF Fault, Fails, FirstWriteFails, PageWriteFails, RecordFails, RestoreFails,
              ProjectionFails
<1>3. CASE Step(p)
  BY <1>3 DEF Step, EnterLock, LockTimeout, WriteHandoff, WriteDisposition, RefuseTarget,
     CaptureSources, RefuseDisposed, RefuseManual, RefuseRoute, Refuse, OpenPage, AppendBlock,
     RecordApply, Restore, WriteIndex, WriteLatest, CompareCount
<1>4. CASE Kill(p)
  BY <1>4 DEF Kill
<1> QED  BY <1>1, <1>2, <1>3, <1>4

\* The stamps and the reports are right in every reachable state.
LEMMA ReportInvariant == Spec => [](StampInv /\ \A p \in Procs : Told(p))
<1>1. Init => StampInv /\ \A p \in Procs : Told(p)
  BY DEF Init, StampInv, Placed, Told, NoJob
<1>2. TypeOK /\ TogetherInv /\ BlockInv /\ StampInv /\ (\A p \in Procs : Told(p)) /\ [Next]_vars
        => StampInv' /\ (\A p \in Procs : Told(p))'
  <2> SUFFICES ASSUME TypeOK, Control, PageInv, Stamped, BlockInv, StampInv,
                      \A p \in Procs : Told(p), [Next]_vars
               PROVE  \A q \in Procs : Told(q)'
    BY StampStep DEF TogetherInv, StoreInv
  <2>1. CASE UNCHANGED vars
    <3>1. UNCHANGED <<applies, pages, orphaned, pc, job, stamp, result>>
      BY <2>1 DEF vars, store, local
    <3> QED  BY <3>1 DEF Told
  <2>2. ASSUME NEW p \in Procs, Begin(p) \/ Step(p) \/ Fault(p) \/ Kill(p), NEW q \in Procs
        PROVE  Told(q)'
    <3>1. CASE q = p
      BY <2>2, <3>1, ToldStep
    <3>2. CASE q # p
      <4>1. /\ pc'[q] = pc[q] /\ job'[q] = job[q] /\ stamp'[q] = stamp[q] /\ result'[q] = result[q]
            /\ orphaned \subseteq orphaned'
        BY <2>2, <3>2, OwnSteps, OwnResult, HolderChanges
      <4>2. stamp[q] \in 0..clock
        BY DEF TypeOK, Stamped
      <4>3. Dated(applies, stamp[q]) => Dated(applies', stamp[q])
        BY <2>2, <4>2, ToldOthers
      <4>4. OnPage(pages', stamp[q]) => OnPage(pages, stamp[q])
        BY <2>2, <4>2, ToldOthers
      <4>5. Dated(applies', stamp[q]) => Dated(applies, stamp[q])
        <5>1. CASE stamp[q] # stamp[p]
          BY <2>2, <4>2, <5>1, ToldOthers
        <5>2. CASE stamp[q] = stamp[p]
          <6>1. stamp[p] = 0
            BY <3>2, <5>2 DEF StampInv
          <6>2. applies' = applies
            BY <2>2, <6>1, AppendedStamp DEF StampInv, Placed
          <6> QED  BY <6>2
        <5> QED  BY <5>1, <5>2
      <4> QED  BY <4>1, <4>3, <4>4, <4>5 DEF Told
    <3> QED  BY <3>1, <3>2
  <2> QED  BY <2>1, <2>2 DEF Next
<1> QED  BY <1>1, <1>2, TogetherInvariant, BlockInvariant, PTL DEF Spec

\* An apply that reports success, or that it stands, has its event in the store;
\* one that ends in any other way leaves neither event nor block, but for a
\* restore that failed.
THEOREM Reports == Spec => []ReportsAreTrue
<1>1. TypeOK /\ (\A p \in Procs : Told(p)) => ReportsAreTrue
  <2> SUFFICES ASSUME TypeOK, NEW p \in Procs, Told(p),
                      pc[p] = "idle" /\ job[p].cmd = "apply" /\ result[p] # "none"
               PROVE  LET recorded == \E a \in Elements(applies) : a.stamp = stamp[p]
                      IN  /\ recorded <=> result[p] \in {"ok", "durable"}
                          /\ ~recorded /\ stamp[p] \notin orphaned
                                 => \A w \in Workstreams : \A i \in BlocksOf(w) :
                                       BlockAt(w, i).stamp # stamp[p]
    BY DEF ReportsAreTrue
  <2>1. Dated(applies, stamp[p]) <=> \E a \in Elements(applies) : a.stamp = stamp[p]
    BY DEF Dated, Elements
  <2> QED  BY <2>1 DEF Told, OnPage, BlocksOf, BlockAt
<1> QED  BY <1>1, ReportInvariant, TogetherInvariant, PTL

-----------------------------------------------------------------------------
\* The store implements PendingLedger.
THEOREM LedgerRefinement == Spec => ImplementsLedger
<1>1. Init => Ledger!Init
  BY DEF Init, Ledger!Init, Disposed, Elements, EmptyProjection
<1>2. TypeOK /\ TogetherInv /\ [Next]_vars => [Ledger!Next]_(Ledger!vars)
  <2> SUFFICES ASSUME TypeOK, TogetherInv, [Next]_vars
               PROVE  [Ledger!Next]_(Ledger!vars)
    OBVIOUS
  <2> USE DEF Ledger!vars
  <2>0. ASSUME UNCHANGED <<handoffs, applies, index, latest>>
        PROVE  UNCHANGED Ledger!vars
    BY <2>0 DEF Disposed
  <2>1. CASE UNCHANGED vars
    BY <2>0, <2>1 DEF vars, store, projection
  <2>2. ASSUME NEW p \in Procs, Begin(p) \/ Step(p) \/ Fault(p) \/ Kill(p)
        PROVE  [Ledger!Next]_(Ledger!vars)
    <3>1. CASE applies' # applies
      <4>1. PICK a \in Apply : applies' = Append(applies, a) /\ a.target = job[p].event
        BY <2>2, <3>1, NewApply DEF TogetherInv, StoreInv
      <4>2. Disposed' = Disposed \cup {job[p].event}
        <5>1. applies \in Seq(Apply)
          BY DEF TypeOK
        <5>2. Elements(applies)' = Elements(applies) \cup {a}
          BY <4>1, <5>1 DEF Elements
        <5> QED  BY <4>1, <5>2 DEF Disposed
      <4>3. (WriteDisposition(p) \/ RecordApply(p)) /\ job[p].event \in handoffs
        <5>1. WriteDisposition(p) \/ RecordApply(p)
          BY <2>2, <3>1, ApplyWriters DEF TogetherInv, StoreInv
        <5>2. WriteDisposition(p) => job[p].event \in handoffs
          BY DEF WriteDisposition
        <5>3. RecordApply(p) => job[p].event \in handoffs
          BY DEF RecordApply, TogetherInv, StoreInv, GatePassed
        <5> QED  BY <5>1, <5>2, <5>3
      <4>4. UNCHANGED <<handoffs, index, latest>>
        BY <4>3 DEF WriteDisposition, RecordApply, projection
      <4>5. job[p].event \in Handoffs
        BY <4>3 DEF TypeOK
      <4> QED  BY <4>2, <4>3, <4>4, <4>5 DEF Ledger!Next, Ledger!Dispose
    <3>2. CASE applies' = applies
      <4>1. Disposed' = Disposed
        BY <3>2 DEF Disposed
      <4>2. CASE WriteHandoff(p)
        <5>1. handoffs' = handoffs \cup {job[p].event} /\ UNCHANGED <<index, latest>>
          BY <4>2 DEF WriteHandoff, projection
        <5>2. job[p].event \in Handoffs
          BY <4>2 DEF WriteHandoff, TogetherInv, StoreInv, Control, Writing
        <5> QED  BY <4>1, <5>1, <5>2 DEF Ledger!Next, Ledger!Emit
      <4>3. CASE WriteIndex(p)
        <5>1. index'.pending = handoffs \ Disposed /\ UNCHANGED <<handoffs, latest>>
          BY <4>3 DEF WriteIndex, BuildPendingIndex, store
        <5> QED  BY <4>1, <5>1 DEF Ledger!Next, Ledger!PublishIndex, Ledger!Pending
      <4>4. CASE WriteLatest(p)
        <5>1. latest' = index /\ UNCHANGED <<handoffs, index>> /\ index = BuildPendingIndex
          BY <4>4 DEF WriteLatest, TogetherInv, StoreInv, Projecting
        <5>2. index.pending = handoffs \ Disposed
          BY <5>1 DEF BuildPendingIndex
        <5> QED  BY <4>1, <5>1, <5>2 DEF Ledger!Next, Ledger!PublishLatest, Ledger!Pending
      <4>5. CASE ~(WriteHandoff(p) \/ WriteIndex(p) \/ WriteLatest(p))
        <5> USE <4>5 DEF projection, store
        <5>1. CASE Begin(p)
          BY <2>0, <3>2, <5>1 DEF Begin, Start, StartHandoff, StartApply, StartDispose, StartBuild,
             StartCapture, StartCount
        <5>2. CASE Fault(p)
          BY <2>0, <3>2, <5>2 DEF Fault, Fails, FirstWriteFails, PageWriteFails, RecordFails,
             RestoreFails, ProjectionFails
        <5>3. CASE Step(p)
          BY <2>0, <3>2, <5>3 DEF Step, EnterLock, LockTimeout, WriteDisposition, RefuseTarget,
             CaptureSources, RefuseDisposed, RefuseManual, RefuseRoute, Refuse, OpenPage,
             AppendBlock, RecordApply, Restore, CompareCount
        <5>4. CASE Kill(p)
          BY <2>0, <3>2, <5>4 DEF Kill
        <5> QED  BY <2>2, <5>1, <5>2, <5>3, <5>4
      <4> QED  BY <4>2, <4>3, <4>4, <4>5
    <3> QED  BY <3>1, <3>2
  <2> QED  BY <2>1, <2>2 DEF Next
<1> QED  BY <1>1, <1>2, TogetherInvariant, PTL DEF Spec, ImplementsLedger, Ledger!Spec
=============================================================================
