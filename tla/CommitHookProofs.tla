-------------------------- MODULE CommitHookProofs --------------------------
(***************************************************************************)
(* Theorems about CommitHook, for any events, contents, ledgers,           *)
(* boundaries and texts and any number of commits: while nobody stages     *)
(* past a hook, the committed store only grows by fit events, the legacy   *)
(* record stays, both projections follow the store they were committed     *)
(* with, although the hook checks them only when it sees a reason to, and  *)
(* no session leaves the log.                                              *)
(***************************************************************************)
EXTENDS CommitHook, TLAPS

\* A tree has its nine fields, its events are a function of the names, its
\* boundary and legacy text are what sessions write, and its log did not fail.
Shaped(tree) ==
    /\ DOMAIN tree = Fields
    /\ tree.events \in [Events -> Contents \cup {Absent}]
    /\ tree.epoch \in Epochs \cup {Absent, Invalid}
    /\ tree.legacy \in Texts \cup {Absent, Headless}
    /\ tree.log # Failed

\* While nobody has staged past a hook: what the hook lists is what it checks,
\* and what it accepts is what git writes.
HookInv ==
    /\ Shaped(head) /\ Shaped(index)
    /\ slipped \in BOOLEAN
    /\ pc = "hook" /\ ~slipped => seen = index
    /\ pc = "write" /\ ~slipped => Accepts(head, index, index)
    /\ StoreSound /\ LogIsProjection /\ PendingIsProjection

-----------------------------------------------------------------------------
\* The log depends on the events, the ledger, the boundary and the legacy text,
\* and on nothing else of a tree (render_log).
LEMMA LogInputs ==
    ASSUME NEW s, NEW t, s.events = t.events, s.quarantine = t.quarantine,
           s.epoch = t.epoch, s.legacy = t.legacy
    PROVE  LogOf(s) = LogOf(t)
<1>1. Quarantined(s) = Quarantined(t)
  BY DEF Quarantined
<1>2. Stored(s) = Stored(t)
  BY DEF Stored
<1>3. Loaded(s) = Loaded(t)
  BY <1>1, <1>2 DEF Loaded
<1>4. LogInputsFit(s) = LogInputsFit(t)
  BY <1>1, <1>2, <1>3 DEF LogInputsFit, Loads
<1>5. \A h \in Handoffs : Entry(s, h) = Entry(t, h)
  <2>1. \A h \in Handoffs : Disposition(s, h) = Disposition(t, h)
    BY <1>3 DEF Disposition
  <2> QED  BY <2>1 DEF Entry
<1>6. Entered(s) = Entered(t) /\ Entered(s) \subseteq Handoffs
  BY <1>3 DEF Entered
<1>7. {Entry(s, h) : h \in Entered(s)} = {Entry(t, h) : h \in Entered(t)}
  BY <1>5, <1>6
<1> QED  BY <1>4, <1>7 DEF LogOf

\* The pending index depends on the events, the ledger and the captures
\* (build_pending_index).
LEMMA PendingInputs ==
    ASSUME NEW s, NEW t, s.events = t.events, s.quarantine = t.quarantine,
           s.manifests = t.manifests
    PROVE  PendingOf(s) = PendingOf(t)
<1>1. Quarantined(s) = Quarantined(t)
  BY DEF Quarantined
<1>2. Stored(s) = Stored(t)
  BY DEF Stored
<1>3. Loaded(s) = Loaded(t)
  BY <1>1, <1>2 DEF Loaded
<1>4. Loads(s) = Loads(t)
  BY <1>1, <1>2, <1>3 DEF Loads
<1>5. Disposed(s) = Disposed(t)
  BY <1>3 DEF Disposed
<1> QED  BY <1>3, <1>4, <1>5 DEF PendingOf

\* Where the hook sees no reason to check a projection, its inputs and the
\* projection itself are those of HEAD (log_projection_relevant,
\* pending_projection_relevant), but for the ledger behind the pending index.
LEMMA Irrelevant ==
    ASSUME Shaped(head), Shaped(index)
    PROVE  /\ ~LogRelevant(head, index) =>
                 index.log = head.log /\ LogOf(index) = LogOf(head)
           /\ ~PendingRelevant(head, index) /\ head.quarantine = index.quarantine =>
                 index.pending = head.pending /\ PendingOf(index) = PendingOf(head)
<1>1. Changed(head, index) = {} => head.events = index.events
  BY DEF Changed, Shaped
<1>2. ~LogRelevant(head, index) =>
        index.log = head.log /\ LogOf(index) = LogOf(head)
  <2> SUFFICES ASSUME ~LogRelevant(head, index)
               PROVE  index.log = head.log /\ LogOf(index) = LogOf(head)
    OBVIOUS
  <2>1. /\ head.events = index.events /\ head.quarantine = index.quarantine
        /\ head.epoch = index.epoch /\ head.legacy = index.legacy /\ head.log = index.log
    BY <1>1 DEF LogRelevant
  <2> QED  BY <2>1, LogInputs
<1>3. ~PendingRelevant(head, index) /\ head.quarantine = index.quarantine =>
        index.pending = head.pending /\ PendingOf(index) = PendingOf(head)
  <2> SUFFICES ASSUME ~PendingRelevant(head, index), head.quarantine = index.quarantine
               PROVE  index.pending = head.pending /\ PendingOf(index) = PendingOf(head)
    OBVIOUS
  <2>1. /\ head.events = index.events /\ head.manifests = index.manifests
        /\ head.pending = index.pending
    BY <1>1 DEF PendingRelevant
  <2> QED  BY <2>1, PendingInputs
<1> QED  BY <1>2, <1>3

-----------------------------------------------------------------------------
\* Whatever sessions stage keeps the shape of the index.
LEMMA StageShaped ==
    ASSUME Shaped(index), Stage
    PROVE  /\ Shaped(index') /\ UNCHANGED <<head, pc, seen, first, unbuilt>>
           /\ slipped' = (slipped \/ pc # "idle")
<1> USE DEF Shaped, Fields, Stages
<1>1. ASSUME NEW e \in Events, NEW content \in Contents \cup {Absent}, StageEvent(e, content)
      PROVE  /\ Shaped(index') /\ UNCHANGED <<head, pc, seen, first, unbuilt>>
             /\ slipped' = (slipped \/ pc # "idle")
  <2>1. index' = [index EXCEPT !.events = [index.events EXCEPT ![e] = content]]
    BY <1>1 DEF StageEvent
  <2>2. DOMAIN index' = Fields
    BY <2>1
  <2>3. index'.events = [index.events EXCEPT ![e] = content]
    BY <2>1
  <2>4. index'.events \in [Events -> Contents \cup {Absent}]
    BY <2>3
  <2>5. /\ index'.epoch = index.epoch /\ index'.legacy = index.legacy
        /\ index'.log = index.log
    BY <2>1
  <2> QED  BY <1>1, <2>2, <2>4, <2>5 DEF StageEvent
<1>2. ASSUME NEW v, StageLedger(v) \/ StagePages(v) \/ StageToml(v) \/ StagePending(v)
      PROVE  /\ Shaped(index') /\ UNCHANGED <<head, pc, seen, first, unbuilt>>
             /\ slipped' = (slipped \/ pc # "idle")
  BY <1>2 DEF StageLedger, StagePages, StageToml, StagePending
<1>6. ASSUME NEW v \in Epochs \cup {Absent, Invalid}, StageEpoch(v)
      PROVE  /\ Shaped(index') /\ UNCHANGED <<head, pc, seen, first, unbuilt>>
             /\ slipped' = (slipped \/ pc # "idle")
  BY <1>6 DEF StageEpoch
<1>7. ASSUME NEW v \in Texts \cup {Absent, Headless}, StageLegacy(v)
      PROVE  /\ Shaped(index') /\ UNCHANGED <<head, pc, seen, first, unbuilt>>
             /\ slipped' = (slipped \/ pc # "idle")
  BY <1>7 DEF StageLegacy
<1>8. ASSUME NEW v \in {HandEdited, Absent}, StageLog(v)
      PROVE  /\ Shaped(index') /\ UNCHANGED <<head, pc, seen, first, unbuilt>>
             /\ slipped' = (slipped \/ pc # "idle")
  BY <1>8, CommitHookAssumption DEF StageLog
<1>3. ASSUME NEW epoch \in Epochs, NEW legacy \in Texts, StagePair(epoch, legacy)
      PROVE  /\ Shaped(index') /\ UNCHANGED <<head, pc, seen, first, unbuilt>>
             /\ slipped' = (slipped \/ pc # "idle")
  BY <1>3 DEF StagePair
<1>4. ASSUME NEW h, StageCapture(h)
      PROVE  /\ Shaped(index') /\ UNCHANGED <<head, pc, seen, first, unbuilt>>
             /\ slipped' = (slipped \/ pc # "idle")
  BY <1>4 DEF StageCapture
<1>5. ASSUME StageRegenerated
      PROVE  /\ Shaped(index') /\ UNCHANGED <<head, pc, seen, first, unbuilt>>
             /\ slipped' = (slipped \/ pc # "idle")
  BY <1>5 DEF StageRegenerated, Regenerated
<1> QED  BY <1>1, <1>2, <1>3, <1>4, <1>5, <1>6, <1>7, <1>8 DEF Stage

\* A commit that git writes on an acceptance keeps the store and its projections.
LEMMA WriteKeeps ==
    ASSUME HookInv, CommitWrites
    PROVE  (StoreSound /\ LogIsProjection /\ PendingIsProjection)'
<1>1. /\ head' = index /\ slipped' = slipped /\ first' = first /\ pc = "write"
      /\ unbuilt' = (~PendingRelevant(head, index)
                       /\ (unbuilt \/ head.quarantine # index.quarantine))
  BY DEF CommitWrites
<1> SUFFICES ASSUME ~slipped
             PROVE  (StoreSound /\ LogIsProjection /\ PendingIsProjection)'
  BY <1>1 DEF StoreSound, LogIsProjection, PendingIsProjection
<1>2. Accepts(head, index, index)
  BY <1>1 DEF HookInv
<1>3. StoreSound'
  <2>1. ASSUME NEW e \in Events
        PROVE  IF first.events[e] # Absent THEN index.events[e] = first.events[e]
                                            ELSE index.events[e] \in Fit \cup {Absent}
    <3>1. \/ index.events[e] = head.events[e]
          \/ head.events[e] = Absent /\ index.events[e] \in Fit
      BY <1>2 DEF Accepts, EventsImmutable, AddedFit, Added, Changed
    <3>2. IF first.events[e] # Absent THEN head.events[e] = first.events[e]
                                      ELSE head.events[e] \in Fit \cup {Absent}
      BY DEF HookInv, StoreSound
    <3> QED  BY <3>1, <3>2
  <2> QED  BY <1>1, <2>1 DEF StoreSound
<1>4. LogIsProjection'
  <2>1. index.log \in {Absent, LogOf(index)}
    <3>1. CASE LogRelevant(head, index)
      BY <1>2, <3>1 DEF Accepts, LogProjected
    <3>2. CASE ~LogRelevant(head, index)
      BY <3>2, Irrelevant DEF HookInv, LogIsProjection
    <3> QED  BY <3>1, <3>2
  <2>2. LogOf(head)' = LogOf(index)
    BY <1>1 DEF LogOf, LogInputsFit, Loads, Loaded, Stored, Quarantined, Entered, Entry,
       Disposition
  <2> QED  BY <1>1, <2>1, <2>2 DEF LogIsProjection
<1>5. PendingIsProjection'
  <2>1. ~unbuilt' => index.pending = PendingOf(index)
    <3>1. CASE PendingRelevant(head, index)
      BY <1>2, <3>1 DEF Accepts, PendingProjected
    <3>2. CASE ~PendingRelevant(head, index)
      BY <1>1, <3>2, Irrelevant DEF HookInv, PendingIsProjection
    <3> QED  BY <3>1, <3>2
  <2>2. PendingOf(head)' = PendingOf(index)
    BY <1>1 DEF PendingOf, Loads, Loaded, Stored, Quarantined, Disposed
  <2> QED  BY <1>1, <2>1, <2>2 DEF PendingIsProjection
<1> QED  BY <1>3, <1>4, <1>5

\* Every step of a commit and of the sessions beside it keeps the invariant.
LEMMA HookStep == HookInv /\ [Next]_vars => HookInv'
<1> SUFFICES ASSUME HookInv, [Next]_vars
             PROVE  HookInv'
  OBVIOUS
<1>0. ASSUME UNCHANGED <<head, first, slipped, unbuilt>>
      PROVE  (StoreSound /\ LogIsProjection /\ PendingIsProjection)'
  BY <1>0 DEF HookInv, StoreSound, LogIsProjection, PendingIsProjection, PendingOf, LogOf,
     LogInputsFit, Loads, Loaded, Stored, Quarantined, Entered, Entry, Disposition, Disposed
<1>1. CASE CommitBegins
  BY <1>0, <1>1 DEF CommitBegins, HookInv, Goto, Shaped
<1>2. CASE HookDecides
  <2>1. /\ pc = "hook" /\ UNCHANGED <<head, index, first, slipped, unbuilt>>
        /\ pc' = "write" => Accepts(head, seen, index)
        /\ pc' \in {"write", "idle"}
    BY <1>2 DEF HookDecides, Goto
  <2>2. pc' = "write" /\ ~slipped => Accepts(head, index, index)
    BY <2>1 DEF HookInv
  <2>3. Accepts(head, index, index)' = Accepts(head, index, index)
    BY <2>1
  <2> QED  BY <1>0, <2>1, <2>2, <2>3 DEF HookInv, Shaped
<1>3. CASE CommitWrites
  BY <1>3, WriteKeeps DEF CommitWrites, HookInv, Goto, Shaped
<1>4. CASE Stage
  <2>1. /\ Shaped(index') /\ UNCHANGED <<head, pc, seen, first, unbuilt>>
        /\ slipped' = (slipped \/ pc # "idle")
    BY <1>4, StageShaped DEF HookInv
  <2>2. (StoreSound /\ LogIsProjection /\ PendingIsProjection)'
    BY <2>1 DEF HookInv, StoreSound, LogIsProjection, PendingIsProjection, PendingOf, LogOf,
       LogInputsFit, Loads, Loaded, Stored, Quarantined, Entered, Entry, Disposition, Disposed
  <2> QED  BY <2>1, <2>2 DEF HookInv, Shaped
<1>5. CASE UNCHANGED vars
  <2>1. UNCHANGED <<head, index, pc, seen, first, slipped, unbuilt>>
    BY <1>5 DEF vars
  <2>2. Accepts(head, index, index)' = Accepts(head, index, index)
    BY <2>1
  <2> QED  BY <1>0, <2>1, <2>2 DEF HookInv, Shaped
<1> QED  BY <1>1, <1>2, <1>3, <1>4, <1>5 DEF Next

\* A deployment starts with any store, and with the projections of that store.
LEMMA HookBegins == Init => HookInv
<1> SUFFICES ASSUME Init
             PROVE  HookInv
  OBVIOUS
<1>1. head \in Heads /\ index = head /\ first = head /\ pc = "idle" /\ slipped = FALSE
  BY DEF Init
<1>2. Shaped(head)
  BY <1>1, CommitHookAssumption DEF Shaped, Fields
<1>3. head.log \in {Absent, LogOf(head)} /\ head.pending = PendingOf(head)
  BY <1>1, CommitHookAssumption
<1> QED  BY <1>1, <1>2, <1>3 DEF HookInv, StoreSound, LogIsProjection, PendingIsProjection

-----------------------------------------------------------------------------
\* The committed events are those the deployment started with, unchanged, and
\* others that were fit when they came (check_event_immutability,
\* check_added_events).
THEOREM Store == Spec => []StoreSound
<1>1. HookInv => StoreSound
  BY DEF HookInv
<1> QED  BY <1>1, HookBegins, HookStep, PTL DEF Spec

\* The committed projections are those of the committed store, although a change
\* of an input alone, of a projection alone or of neither is checked differently.
THEOREM Projected == Spec => []ProjectionsFit
<1>1. HookInv => ProjectionsFit
  BY DEF HookInv, ProjectionsFit
<1> QED  BY <1>1, HookBegins, HookStep, PTL DEF Spec

\* A committed legacy record is neither rewritten nor dropped
\* (check_legacy_immutable).
THEOREM Legacy == Spec => LegacyKept
<1>1. HookInv /\ [Next]_vars =>
        [head.legacy # Absent /\ ~slipped' => head'.legacy = head.legacy]_vars
  <2> SUFFICES ASSUME HookInv, Next, head.legacy # Absent, ~slipped'
               PROVE  head'.legacy = head.legacy
    OBVIOUS
  <2>1. CASE CommitWrites
    BY <2>1 DEF CommitWrites, HookInv, Accepts, LegacyFrozen
  <2>2. CASE CommitBegins \/ HookDecides
    BY <2>2 DEF CommitBegins, HookDecides
  <2>3. CASE Stage
    BY <2>3, StageShaped DEF HookInv
  <2> QED  BY <2>1, <2>2, <2>3 DEF Next
<1> QED  BY <1>1, HookBegins, HookStep, PTL DEF Spec, LegacyKept

\* A log that was rendered and did not fail tells the entered handoffs, and is
\* none of the marks of a log that is not there (render_log).
LEMMA SessionsOfLog ==
    ASSUME NEW tree, Shaped(tree), tree.log = LogOf(tree), tree.log # Failed
    PROVE  Sessions(tree) = Entered(tree)
<1>1. LogInputsFit(tree)
  BY DEF LogOf
<1>2. tree.log = [boundary |-> tree.epoch, legacy |-> tree.legacy,
                  entries |-> {Entry(tree, h) : h \in Entered(tree)}]
  BY <1>1 DEF LogOf
<1>3. /\ tree.epoch \in Epochs \cup {Absent} /\ tree.legacy \in Texts \cup {Absent}
  BY <1>1 DEF LogInputsFit, Shaped
<1>4. \A h \in Entered(tree) :
         Entry(tree, h) \in [handoff : Handoffs, says : Contents,
                             garden : SUBSET (Applies \X Contents)]
  <2> SUFFICES ASSUME NEW h \in Entered(tree)
               PROVE  Entry(tree, h) \in [handoff : Handoffs, says : Contents,
                                          garden : SUBSET (Applies \X Contents)]
    OBVIOUS
  <2>1. \A e \in Loaded(tree) : tree.events[e] \in Contents
    BY DEF Loaded, Stored, Shaped
  <2>2. h \in Handoffs /\ tree.events[h] \in Contents
    BY <2>1 DEF Entered
  <2>3. {<<a, tree.events[a]>> : a \in Disposition(tree, h)} \subseteq Applies \X Contents
    BY <2>1 DEF Disposition
  <2> QED  BY <2>2, <2>3 DEF Entry
<1>5. tree.log \in Logs
  BY <1>2, <1>3, <1>4 DEF Logs
<1>6. tree.log \notin {Absent, HandEdited, Failed}
  BY <1>5, CommitHookAssumption
<1>7. tree.log.entries = {Entry(tree, h) : h \in Entered(tree)}
  BY <1>2
<1>8. Sessions(tree) = {entry.handoff : entry \in tree.log.entries}
  BY <1>6 DEF Sessions
<1>9. \A h \in Entered(tree) : Entry(tree, h).handoff = h
  BY DEF Entry
<1> HIDE DEF Entry
<1> QED  BY <1>7, <1>8, <1>9

\* No commit takes a session out of the log, but for the quarantine of its
\* handoff or a new boundary (check_log_projection, check_event_immutability).
THEOREM SessionsStay == Spec => LogKeepsSessions
<1>1. HookInv /\ [Next]_vars =>
        [~slipped' /\ head'.epoch = head.epoch =>
            Sessions(head) \subseteq Sessions(head') \cup Quarantined(head')]_vars
  <2> SUFFICES ASSUME HookInv, Next, ~slipped', head'.epoch = head.epoch,
                      NEW h \in Sessions(head), h \notin Quarantined(head')
               PROVE  h \in Sessions(head')
    OBVIOUS
  <2>1. CASE head' = head
    BY <2>1
  <2>2. CASE CommitWrites
    <3>1. head' = index /\ pc = "write" /\ ~slipped
      BY <2>2 DEF CommitWrites
    <3>2. Accepts(head, index, index) /\ Shaped(head) /\ Shaped(index)
      BY <3>1 DEF HookInv
    <3>3. head.log = LogOf(head) /\ head.log # Absent /\ head.log # Failed
      BY <3>1 DEF HookInv, LogIsProjection, Sessions, Shaped
    <3>4. index.log = LogOf(index) /\ index.log # Failed
      <4>1. CASE LogRelevant(head, index)
        BY <3>2, <3>3, <4>1 DEF Accepts, LogProjected, Shaped
      <4>2. CASE ~LogRelevant(head, index)
        BY <3>2, <3>3, <4>2, Irrelevant
      <4> QED  BY <4>1, <4>2
    <3>5. h \in Entered(head)
      BY <3>2, <3>3, SessionsOfLog
    <3>6. index.events[h] # Absent
      BY <3>2, <3>5 DEF Entered, Loaded, Stored, Accepts, EventsImmutable, Changed, Added
    <3>7. h \in Loaded(index)
      BY <3>1, <3>5, <3>6 DEF Entered, Loaded, Stored
    <3>8. h \in Entered(index)
      BY <3>1, <3>5, <3>7 DEF Entered
    <3> QED  BY <3>1, <3>2, <3>4, <3>8, SessionsOfLog
  <2>3. CASE CommitBegins \/ HookDecides
    BY <2>1, <2>3 DEF CommitBegins, HookDecides
  <2>4. CASE Stage
    BY <2>1, <2>4, StageShaped DEF HookInv
  <2> QED  BY <2>2, <2>3, <2>4 DEF Next
<1> QED  BY <1>1, HookBegins, HookStep, PTL DEF Spec, LogKeepsSessions
=============================================================================
