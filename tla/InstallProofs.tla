--------------------------- MODULE InstallProofs ---------------------------
(* Theorems about Install, for any states of the repository before the first *)
(* run, any commits of the kit, and any sequence of runs, kills and moves of *)
(* the owner:                                                                *)
(*   OwnersStay  no step takes away what is the owner's, but for a latest.md *)
(*               where the index is missing,                                 *)
(*   Clean       what is committed is what should be,                        *)
(*   Sound       a run that ended well leaves nothing to do,                 *)
(*   Causes      a run that failed has a cause to mend, not one of its own.  *)
EXTENDS Install, TLAPS

FileNames == Files \union {"ledger"}

\* A step writes one file, and leaves the others and every other checkout.
Changed(f, v) ==
    /\ tree'[at][f] = v
    /\ \A g \in FileNames \ {f} : tree'[at][g] = tree[at][g]
    /\ \A k \in Checkouts \ {at} : tree'[k] = tree[k]

\* The values a file can have.
Contents ==
    [toml |-> Tomls \union {Absent, Broken}, keep |-> {Absent, Kit},
     quarantine |-> {Absent, Own, Kit}, ignore |-> Lines,
     index |-> Projected \union {Absent}, latest |-> Projected \union {Absent, Own},
     log |-> Projected \union {Absent, Own, Link},
     settings |-> Rules \union {Absent, Broken}, orient |-> {Absent, Own, Kit},
     ledger |-> Ledgers]

\* Reading and writing one file of a checkout.
LEMMA TreesAre ==
    ASSUME NEW t \in Trees
    PROVE  DOMAIN t = FileNames /\ \A f \in FileNames : t[f] \in Contents[f]
BY DEF Trees, FileNames, Files, Contents

LEMMA TreesPut ==
    ASSUME NEW t \in Trees, NEW f \in FileNames, NEW v \in Contents[f]
    PROVE  [t EXCEPT ![f] = v] \in Trees
BY DEF Trees, FileNames, Files, Contents

LEMMA PutFacts ==
    ASSUME TypeOK, NEW f \in FileNames, NEW v \in Contents[f],
           NEW k \in Checkouts, tree' = [tree EXCEPT ![k][f] = v]
    PROVE  /\ tree' \in [Checkouts -> Trees]
           /\ tree'[k][f] = v
           /\ \A g \in FileNames \ {f} : tree'[k][g] = tree[k][g]
           /\ \A c \in Checkouts \ {k} : tree'[c] = tree[c]
<1>1. tree[k] \in Trees /\ tree \in [Checkouts -> Trees]
  BY DEF TypeOK
<1>2. tree'[k] = [tree[k] EXCEPT ![f] = v]
  BY <1>1
<1>3. tree'[k] \in Trees
  BY <1>1, <1>2, TreesPut
<1>4. DOMAIN tree[k] = FileNames
  BY <1>1, TreesAre
<1>5. \A c \in Checkouts \ {k} : tree'[c] = tree[c]
  BY <1>1
<1> QED  BY <1>1, <1>2, <1>3, <1>4, <1>5

\* A commit holds the files taken, and of the others nothing.
LEMMA SnapshotFacts ==
    ASSUME NEW c \in Trees, NEW rels
    PROVE  /\ Snapshot(c, rels) \in Trees
           /\ \A f \in rels \intersect FileNames : Snapshot(c, rels)[f] = c[f]
           /\ "ledger" \notin rels => Snapshot(c, rels).ledger = "none"
           /\ "ignore" \notin rels => Snapshot(c, rels).ignore = {}
           /\ \A f \in FileNames \ (rels \union {"ignore", "ledger"}) :
                 Snapshot(c, rels)[f] = Absent
BY TreesAre DEF Snapshot, Trees, FileNames, Files, Contents, Lines, Ledgers

\* The wiki.toml the kit seeds.
LEMMA DefaultTyped == DefaultToml \in Tomls /\ DefaultToml # Absent
<1>1. DefaultToml \in Tomls
  BY DEF DefaultToml, Tomls
<1> QED  BY <1>1, InstallAssumption

-----------------------------------------------------------------------------
\* What a step of a run does unless it fails: nothing is left to do, or it writes.
Skip ==
    /\ \/ pc = "config" /\ Loads /\ pc' = "ignore"
       \/ /\ pc = "stamp" /\ Here.toml \notin {Absent, Broken} /\ Here.toml.stamp = kit
          /\ pc' = "kitpath"
       \/ pc = "pending" /\ Here.index # Absent /\ pc' = "log"
       \/ pc = "log" /\ Here.log = Link /\ pc' = "settings"
       \/ pc = "commit" /\ head # Absent /\ pc' = "orient"
    /\ Stay /\ Quiet
Stamps ==
    /\ pc = "stamp" /\ pc' = "kitpath"
    /\ Here.toml \notin {Absent, Broken} /\ Here.toml.stamp # kit
    /\ Put("toml", Stamped(Here.toml)) /\ written' = written \union {"toml"}
    /\ Quiet
Points ==
    /\ pc = "kitpath" /\ pc' = "hook" /\ "findable" \in able
    /\ overlay' = Pointed(overlay)
    /\ strayed' = (strayed \/ (overlay' # overlay /\ at = Linked))
    /\ wrote' = IF overlay' = overlay THEN wrote ELSE wrote \union {"overlay"}
    /\ UNCHANGED <<World, tree, made, written, hook, head, units, first, cut>>
HooksUp ==
    /\ pc = "hook" /\ pc' = "pending" /\ hook # Foreign /\ hook' = Kit
    /\ wrote' = IF hook = Kit THEN wrote ELSE wrote \union {"hook"}
    /\ UNCHANGED <<World, tree, made, written, overlay, head, units, first, strayed, cut>>
Indexes ==
    /\ pc = "pending" /\ pc' = "latest" /\ Here.index = Absent /\ Here.ledger # "corrupt"
    /\ PutNew("index", Here.ledger) /\ UNCHANGED written /\ Quiet
Logs ==
    /\ pc = "log" /\ pc' = "settings" /\ Here.log # Link /\ Here.ledger # "corrupt"
    /\ Put("log", Seeded(Here.log, Here.ledger)) /\ Owns("log") /\ Quiet
Denies ==
    /\ pc = "settings" /\ pc' = "commit" /\ Here.settings # Broken
    /\ Put("settings", Denying(Here.settings))
    /\ OwnsIfChanged("settings", Denying(Here.settings)) /\ Quiet
Commits ==
    /\ pc = "commit" /\ pc' = "orient" /\ head = Absent
    /\ head' = Snapshot(tree[Main], Rels) /\ first' = Rels
    /\ wrote' = wrote \union {"head"}
    /\ UNCHANGED <<World, tree, made, written, overlay, hook, units, strayed, cut>>
Orients ==
    /\ pc = "orient" /\ pc' = "scheduler"
    /\ Put("orient", Seeded(Here.orient, Kit)) /\ UNCHANGED written /\ Quiet
Schedules ==
    /\ pc = "scheduler" /\ pc' = "installed"
    /\ units' = IF skip THEN units ELSE at
    /\ wrote' = IF units' = units THEN wrote ELSE wrote \union {"units"}
    /\ UNCHANGED <<World, tree, made, written, overlay, hook, head, first, strayed, cut>>

\* Why a step fails.
Fails ==
    /\ \/ pc = "config" /\ ~Loads
       \/ /\ pc = "stamp"
          /\ Here.toml \in {Absent, Broken} \/ Here.toml.stamp = Odd \/ kit = Absent
       \/ pc = "kitpath" /\ ("findable" \notin able \/ (overlay # Absent /\ overlay.kit = Odd))
       \/ pc = "hook" /\ hook = Foreign
       \/ pc = "pending" /\ Here.ledger = "corrupt"
       \/ pc = "log" /\ (~Loads \/ Here.ledger = "corrupt")
       \/ pc = "settings" /\ Here.settings = Broken
       \/ /\ pc = "commit" /\ head = Absent
          /\ \/ Rels = {} \/ Refused(Rels) \/ Unforeseen
             \/ Blocks(Snapshot(tree[Main], Rels))
       \/ /\ pc = "orient" /\ Here.orient = Absent
          /\ ~Loads \/ Here.ledger = "corrupt" \/ (Overlaid # Absent /\ Overlaid.own = "missing")
       \/ pc = "scheduler" /\ ~skip /\ (~Loads \/ "tools" \notin able)
    /\ Fail

\* Each step of a run is one of these.
LEMMA StepForms ==
    ASSUME RunStep
    PROVE  \/ SeedToml \/ EnsureSkeleton \/ SeedQuarantine \/ EnsureGitignore
           \/ BuildLatest \/ Skip \/ Stamps \/ Points \/ HooksUp \/ Indexes \/ Logs
           \/ Denies \/ Commits \/ Orients \/ Schedules \/ Fails
<1>1. CASE LoadConfig
  BY <1>1 DEF LoadConfig, Skip, Fails, Fail
<1>2. CASE StampKit
  BY <1>2 DEF StampKit, Skip, Stamps, Fails, Fail
<1>3. CASE EnsureKitPath
  BY <1>3 DEF EnsureKitPath, Points, Fails, Fail
<1>4. CASE InstallHook
  BY <1>4 DEF InstallHook, HooksUp, Fails, Fail
<1>5. CASE BuildIndex
  BY <1>5 DEF BuildIndex, PairPresent, Here, Skip, Indexes, Fails, Fail
<1>6. CASE RenderLog
  BY <1>6 DEF RenderLog, Skip, Logs, Fails, Fail
<1>7. CASE MergeSettings
  BY <1>7 DEF MergeSettings, Denies, Fails, Fail
<1>8. CASE InitialCommit
  BY <1>8 DEF InitialCommit, Skip, Commits, Fails, Fail
<1>9. CASE RenderOrientation
  BY <1>9 DEF RenderOrientation, Orients, Fails, Fail
<1>10. CASE InstallScheduler
  BY <1>10 DEF InstallScheduler, Schedules, Fails, Fail
<1> QED  BY <1>1, <1>2, <1>3, <1>4, <1>5, <1>6, <1>7, <1>8, <1>9, <1>10 DEF RunStep

-----------------------------------------------------------------------------
\* Every step of a run, of the operator and of the owner keeps the types.
Counts ==
    /\ moves \in Nat /\ runs \in Nat
    /\ at \in there /\ (head = Absent => there = {Main})
    /\ pc \in {"orient", "scheduler", "installed"} => head # Absent
    /\ pc \in Steps \union {"installed"} => runs > 0
    /\ written \subseteq Files \ {"orient"}
Typed == TypeOK /\ Counts

LEMMA TypedInit == Init => Typed
<1> SUFFICES ASSUME Init
             PROVE  Typed
  OBVIOUS
<1>1. PICK s \in Starts : /\ tree = [k \in Checkouts |-> s.tree] /\ overlay = s.overlay
                          /\ able = s.able /\ hook = s.hook /\ head = s.head /\ kit = s.kit
  BY DEF Init
<1>2. /\ tree \in [Checkouts -> Trees] /\ overlay \in Overlays /\ able \subseteq Equipment
      /\ hook \in Hooks /\ head \in Trees \union {Absent} /\ kit \in Kits \union {Absent}
  BY <1>1, InstallAssumption
<1> QED  BY <1>2 DEF Init, Typed, TypeOK, Counts, Checkouts, Steps, Ended

\* A step's write keeps the types, and changes one file.
LEMMA PutTyped ==
    ASSUME Typed, NEW f \in Files, NEW v \in Contents[f], Put(f, v) \/ PutNew(f, v)
    PROVE  /\ tree' \in [Checkouts -> Trees]
           /\ Changed(f, v)
           /\ wrote' \subseteq Files \union {"overlay", "hook", "head", "units"}
           /\ made' \subseteq Files
<1>1. tree' = [tree EXCEPT ![at][f] = v]
  BY DEF Put, PutNew
<1>2. f \in FileNames /\ at \in Checkouts
  BY DEF FileNames, Typed, TypeOK
<1>3. TypeOK
  BY DEF Typed
<1>4. tree' \in [Checkouts -> Trees] /\ Changed(f, v)
  BY <1>1, <1>2, <1>3, PutFacts DEF Changed
<1>5. /\ wrote' \subseteq Files \union {"overlay", "hook", "head", "units"}
      /\ made' \subseteq Files
  BY DEF Put, PutNew, Typed, TypeOK
<1> QED  BY <1>4, <1>5

LEMMA HereTyped ==
    ASSUME Typed
    PROVE  /\ Here \in Trees /\ DOMAIN Here = FileNames
           /\ \A f \in FileNames : Here[f] \in Contents[f]
<1>1. Here \in Trees
  BY DEF Typed, TypeOK, Here
<1> QED  BY <1>1, TreesAre

LEMMA FailTyped ==
    ASSUME Typed, Fails
    PROVE  Typed'
BY DEF Fails, Fail, Early, Stay, World, Typed, TypeOK, Counts, Steps, Ended

LEMMA RunTyped ==
    ASSUME Typed, RunStep
    PROVE  Typed'
<1>0. /\ Here \in Trees /\ DOMAIN Here = FileNames
      /\ \A f \in FileNames : Here[f] \in Contents[f]
  BY HereTyped
<1> USE DEF Files, FileNames, Contents, Typed, TypeOK, Counts, World, Quiet, Stay, Steps,
        Ended, Owns, OwnsIfChanged
<1>1. CASE SeedToml
  <2>1. Seeded(Here.toml, DefaultToml) \in Contents["toml"]
    BY <1>0, DefaultTyped DEF Seeded
  <2> QED  BY <1>1, <2>1, PutTyped DEF SeedToml
<1>2. CASE EnsureSkeleton
  <2>1. Seeded(Here.keep, Kit) \in Contents["keep"]
    BY <1>0 DEF Seeded
  <2> QED  BY <1>2, <2>1, PutTyped DEF EnsureSkeleton
<1>3. CASE SeedQuarantine
  <2>1. Seeded(Here.quarantine, Kit) \in Contents["quarantine"]
    BY <1>0 DEF Seeded
  <2> QED  BY <1>3, <2>1, PutTyped DEF SeedQuarantine
<1>4. CASE Skip
  BY <1>4 DEF Skip
<1>5. CASE EnsureGitignore
  <2>1. Covering(Here.ignore) \in Contents["ignore"]
    BY <1>0 DEF Covering, Lines
  <2> QED  BY <1>5, <2>1, PutTyped DEF EnsureGitignore
<1>6. CASE Stamps
  <2>1. Stamped(Here.toml) \in Contents["toml"]
    BY <1>0, <1>6 DEF Stamps, Stamped, Tomls
  <2> QED  BY <1>6, <2>1, PutTyped DEF Stamps
<1>7. CASE Points
  <2>1. Pointed(overlay) \in Overlays
    BY DEF Pointed, Overlays, Pointers
  <2> QED  BY <1>7, <2>1 DEF Points
<1>8. CASE HooksUp
  BY <1>8 DEF HooksUp, Hooks
<1>9. CASE Indexes
  <2>1. Here.ledger \in Contents["index"]
    BY <1>0, <1>9 DEF Indexes, Projected
  <2> QED  BY <1>9, <2>1, PutTyped DEF Indexes
<1>10. CASE BuildLatest
  <2>1. Here.index \in Contents["latest"]
    BY <1>0
  <2> QED  BY <1>10, <2>1, PutTyped DEF BuildLatest
<1>11. CASE Logs
  <2>1. Seeded(Here.log, Here.ledger) \in Contents["log"]
    BY <1>0, <1>11 DEF Logs, Seeded, Projected
  <2> QED  BY <1>11, <2>1, PutTyped DEF Logs
<1>12. CASE Denies
  <2>1. Denying(Here.settings) \in Contents["settings"]
    BY <1>0, <1>12 DEF Denies, Denying, Rules
  <2> QED  BY <1>12, <2>1, PutTyped DEF Denies
<1>13. CASE Commits
  <2>1. tree[Main] \in Trees
    BY DEF Checkouts
  <2>2. Snapshot(tree[Main], Rels) \in Trees /\ Snapshot(tree[Main], Rels) # Absent
    BY <2>1, SnapshotFacts, InstallAssumption
  <2> QED  BY <1>13, <2>2 DEF Commits
<1>14. CASE Orients
  <2>1. Seeded(Here.orient, Kit) \in Contents["orient"]
    BY <1>0 DEF Seeded
  <2> QED  BY <1>14, <2>1, PutTyped DEF Orients
<1>15. CASE Schedules
  BY <1>15 DEF Schedules
<1> QED  BY <1>1, <1>2, <1>3, <1>4, <1>5, <1>6, <1>7, <1>8, <1>9, <1>10, <1>11, <1>12,
            <1>13, <1>14, <1>15, StepForms, FailTyped

\* What an edit of the owner changes.
LEMMA EditFacts ==
    ASSUME Typed, NEW k \in Checkouts, NEW e \in Edits, OwnerEdits(k, e)
    PROVE  /\ e.file \in FileNames /\ e.to \in Contents[e.file]
           /\ tree' \in [Checkouts -> Trees]
           /\ tree'[k][e.file] = e.to
           /\ \A g \in FileNames \ {e.file} : tree'[k][g] = tree[k][g]
           /\ \A c \in Checkouts \ {k} : tree'[c] = tree[c]
<1>1. e.file \in FileNames /\ e.to \in Contents[e.file]
  BY InstallAssumption DEF FileNames, Files, Contents
<1>2. tree' = [tree EXCEPT ![k][e.file] = e.to]
  BY DEF OwnerEdits
<1>3. TypeOK
  BY DEF Typed
<1> QED  BY ONLY <1>1, <1>2, <1>3, PutFacts, k \in Checkouts

LEMMA OwnerTyped ==
    ASSUME Typed, Owner
    PROVE  Typed'
<1> USE DEF Typed, TypeOK, Counts, Move, Running, Steps, Ended
<1>1. ASSUME NEW c \in Kits \union {Absent}, KitMoves(c)
      PROVE  Typed'
  BY <1>1 DEF KitMoves
<1>2. ASSUME NEW k \in Checkouts, NEW e \in Edits, OwnerEdits(k, e)
      PROVE  Typed'
  <2>1. tree' \in [Checkouts -> Trees]
    BY <1>2, EditFacts
  <2> QED  BY <1>2, <2>1 DEF OwnerEdits
<1>3. ASSUME NEW v \in {Absent, Foreign, Stale}, OwnerHook(v)
      PROVE  Typed'
  BY <1>3 DEF OwnerHook, Hooks
<1>4. ASSUME NEW o \in Repoints, OwnerOverlay(o)
      PROVE  Typed'
  BY <1>4, InstallAssumption DEF OwnerOverlay
<1>5. CASE OwnerCommits
  <2>1. tree[Main] \in Trees
    BY DEF Checkouts
  <2>2. Snapshot(tree[Main], Everything) \in Trees /\ Snapshot(tree[Main], Everything) # Absent
    BY <2>1, SnapshotFacts, InstallAssumption
  <2> QED  BY <1>5, <2>2 DEF OwnerCommits
<1>6. CASE AddWorktree
  <2>1. tree' = [tree EXCEPT ![Linked] = head] /\ head \in Trees
    BY <1>6 DEF AddWorktree
  <2> QED  BY <1>6, <2>1 DEF AddWorktree, Checkouts
<1> QED  BY <1>1, <1>2, <1>3, <1>4, <1>5, <1>6 DEF Owner

LEMMA TypedStep == Typed /\ [Next]_vars => Typed'
<1> SUFFICES ASSUME Typed, [Next]_vars
             PROVE  Typed'
  OBVIOUS
<1>1. ASSUME NEW k \in Checkouts, NEW s \in BOOLEAN, Run(k, s)
      PROVE  Typed'
  BY <1>1 DEF Run, Typed, TypeOK, Counts, Steps, Ended
<1>2. CASE RunStep
  BY <1>2, RunTyped
<1>3. CASE Kill
  BY <1>3 DEF Kill, Early, Typed, TypeOK, Counts, Steps, Ended, Running
<1>4. CASE Owner
  BY <1>4, OwnerTyped
<1>5. CASE UNCHANGED vars
  BY <1>5 DEF vars, Typed, TypeOK, Counts
<1> QED  BY <1>1, <1>2, <1>3, <1>4, <1>5 DEF Next

LEMMA Typing == Spec => []Typed
<1> QED  BY TypedInit, TypedStep, PTL DEF Spec

-----------------------------------------------------------------------------
\* A step of a run keeps what is the owner's.
KeepsFiles(old, new) ==
    /\ old.toml \notin {Absent, Broken} => /\ new.toml.by = old.toml.by
                                           /\ new.toml.companion = old.toml.companion
    /\ \A f \in {"quarantine", "log", "orient"} : old[f] \in {Own, Link} => new[f] = old[f]
    /\ old.latest = Own => new.latest = Own \/ pc = "latest"
    /\ old.ignore \subseteq new.ignore
    /\ old.settings \notin {Absent, Broken} => old.settings \subseteq new.settings

\* A write that respects what the file was takes nothing of the owner's.
LEMMA KeptByPut ==
    ASSUME Typed, NEW f \in Files, NEW v \in Contents[f], Put(f, v) \/ PutNew(f, v),
           f = "toml" /\ Here.toml \notin {Absent, Broken} =>
               v.by = Here.toml.by /\ v.companion = Here.toml.companion,
           f \in {"quarantine", "log", "orient"} /\ Here[f] \in {Own, Link} => v = Here[f],
           f = "latest" => pc = "latest",
           f = "ignore" => Here.ignore \subseteq v,
           f = "settings" /\ Here.settings \notin {Absent, Broken} => Here.settings \subseteq v
    PROVE  \A k \in Checkouts : KeepsFiles(tree[k], tree'[k])
<1>1. Changed(f, v)
  BY PutTyped
<1>2. ASSUME NEW k \in Checkouts, k # at
      PROVE  KeepsFiles(tree[k], tree'[k])
  BY <1>1, <1>2 DEF Changed, KeepsFiles
<1>3. KeepsFiles(tree[at], tree'[at])
  BY <1>1 DEF Changed, KeepsFiles, Here, FileNames, Files
<1> QED  BY <1>2, <1>3

LEMMA RunKeeps ==
    ASSUME Typed, RunStep
    PROVE  KeepsOwner /\ (KeepsLatest \/ pc = "latest")
<1>0. /\ Here \in Trees /\ DOMAIN Here = FileNames
      /\ \A f \in FileNames : Here[f] \in Contents[f]
  BY HereTyped
<1>00. ASSUME \A k \in Checkouts : KeepsFiles(tree[k], tree'[k]), UNCHANGED <<overlay, hook>>
       PROVE  KeepsOwner /\ (KeepsLatest \/ pc = "latest")
  BY <1>00 DEF KeepsOwner, KeepsLatest, KeepsFiles, Typed, TypeOK
<1>01. ASSUME UNCHANGED tree
       PROVE  \A k \in Checkouts : KeepsFiles(tree[k], tree'[k])
  BY <1>01 DEF KeepsFiles
<1> USE DEF Files, FileNames, Contents, Quiet, Stay
<1>1. CASE SeedToml
  <2> DEFINE v == Seeded(Here.toml, DefaultToml)
  <2>1. /\ v \in Contents["toml"]
        /\ Here.toml \notin {Absent, Broken} =>
               v.by = Here.toml.by /\ v.companion = Here.toml.companion
    BY <1>0, DefaultTyped DEF Seeded
  <2> QED  BY <1>1, <1>00, <2>1, KeptByPut DEF SeedToml
<1>2. CASE EnsureSkeleton
  <2> DEFINE v == Seeded(Here.keep, Kit)
  <2>1. v \in Contents["keep"]
    BY <1>0 DEF Seeded
  <2> QED  BY <1>2, <1>00, <2>1, KeptByPut DEF EnsureSkeleton
<1>3. CASE SeedQuarantine
  <2> DEFINE v == Seeded(Here.quarantine, Kit)
  <2>1. /\ v \in Contents["quarantine"]
        /\ Here.quarantine \in {Own, Link} => v = Here.quarantine
    BY <1>0, InstallAssumption DEF Seeded
  <2> QED  BY <1>3, <1>00, <2>1, KeptByPut DEF SeedQuarantine
<1>4. CASE Skip
  BY <1>4, <1>00, <1>01 DEF Skip
<1>5. CASE EnsureGitignore
  <2> DEFINE v == Covering(Here.ignore)
  <2>1. v \in Contents["ignore"] /\ Here.ignore \subseteq v
    BY <1>0 DEF Covering, Lines
  <2> QED  BY <1>5, <1>00, <2>1, KeptByPut DEF EnsureGitignore
<1>6. CASE Stamps
  <2> DEFINE v == Stamped(Here.toml)
  <2>1. v \in Contents["toml"] /\ v.by = Here.toml.by /\ v.companion = Here.toml.companion
    BY <1>0, <1>6 DEF Stamps, Stamped, Tomls, Typed, TypeOK
  <2> QED  BY <1>6, <1>00, <2>1, KeptByPut DEF Stamps
<1>7. CASE Points
  <2>1. overlay # Absent => overlay' \in Pointers /\ overlay'.own = overlay.own
    BY <1>7 DEF Points, Pointed, Typed, TypeOK, Overlays, Pointers
  <2> QED  BY <1>7, <1>01, <2>1, InstallAssumption
           DEF Points, KeepsOwner, KeepsLatest, KeepsFiles, Typed, TypeOK
<1>8. CASE HooksUp
  BY <1>8, <1>01 DEF HooksUp, KeepsOwner, KeepsLatest, KeepsFiles, Typed, TypeOK
<1>9. CASE Indexes
  <2> DEFINE v == Here.ledger
  <2>1. v \in Contents["index"]
    BY <1>0, <1>9 DEF Indexes, Projected
  <2> QED  BY <1>9, <1>00, <2>1, KeptByPut DEF Indexes
<1>10. CASE BuildLatest
  <2> DEFINE v == Here.index
  <2>1. v \in Contents["latest"]
    BY <1>0
  <2> QED  BY <1>10, <1>00, <2>1, KeptByPut DEF BuildLatest
<1>11. CASE Logs
  <2> DEFINE v == Seeded(Here.log, Here.ledger)
  <2>1. v \in Contents["log"] /\ (Here.log \in {Own, Link} => v = Here.log)
    BY <1>0, <1>11, InstallAssumption DEF Logs, Seeded, Projected
  <2> QED  BY <1>11, <1>00, <2>1, KeptByPut DEF Logs
<1>12. CASE Denies
  <2> DEFINE v == Denying(Here.settings)
  <2>1. v \in Contents["settings"]
        /\ (Here.settings \notin {Absent, Broken} => Here.settings \subseteq v)
    BY <1>0, <1>12 DEF Denies, Denying, Rules
  <2> QED  BY <1>12, <1>00, <2>1, KeptByPut DEF Denies
<1>13. CASE Commits \/ Schedules \/ Fails
  BY <1>13, <1>00, <1>01 DEF Commits, Schedules, Fails, Fail
<1>14. CASE Orients
  <2> DEFINE v == Seeded(Here.orient, Kit)
  <2>1. v \in Contents["orient"] /\ (Here.orient \in {Own, Link} => v = Here.orient)
    BY <1>0, InstallAssumption DEF Seeded
  <2> QED  BY <1>14, <1>00, <2>1, KeptByPut DEF Orients
<1> QED  BY <1>1, <1>2, <1>3, <1>4, <1>5, <1>6, <1>7, <1>8, <1>9, <1>10, <1>11, <1>12,
            <1>13, <1>14, StepForms

\* Whatever the owner does between its steps, no step of the installer takes
\* away the owner's file, ignore line, deny rule, overlay entry or hook, but for
\* one: a latest.md of the owner's can go where there is no index beside it.
THEOREM OwnersStay == Spec => OwnerKeptButPair
<1>1. Typed /\ [Next]_vars =>
         [moves' = moves => KeepsOwner /\ (KeepsLatest \/ pc = "latest")]_vars
  <2> SUFFICES ASSUME Typed, Next, moves' = moves
               PROVE  KeepsOwner /\ (KeepsLatest \/ pc = "latest")
    BY DEF vars
  <2>1. CASE RunStep
    BY <2>1, RunKeeps
  <2>2. ASSUME NEW k \in Checkouts, NEW s \in BOOLEAN, Run(k, s)
        PROVE  KeepsOwner /\ KeepsLatest
    BY <2>2 DEF Run, KeepsOwner, KeepsLatest
  <2>3. CASE Kill \/ Owner
    <3>1. moves' = moves + 1
      BY <2>3 DEF Kill, Owner, KitMoves, OwnerEdits, OwnerHook, OwnerOverlay, OwnerCommits,
         AddWorktree, Move
    <3> QED  BY <3>1 DEF Typed, Counts
  <2> QED  BY <2>1, <2>2, <2>3 DEF Next
<1> QED  BY <1>1, Typing, PTL DEF Spec, OwnerKeptButPair

-----------------------------------------------------------------------------
\* The places of a run behind each of its steps.
AfterScheduler == {"installed"}
AfterOrient == AfterScheduler \union {"scheduler"}
AfterCommit == AfterOrient \union {"orient"}
AfterSettings == AfterCommit \union {"commit"}
AfterLog == AfterSettings \union {"settings"}
AfterPending == AfterLog \union {"log"}
AfterHook == AfterPending \union {"latest", "pending"}
AfterKitPath == AfterHook \union {"hook"}
AfterStamp == AfterKitPath \union {"kitpath"}
AfterIgnore == AfterStamp \union {"stamp"}
AfterConfig == AfterIgnore \union {"ignore"}
AfterQuarantine == AfterConfig \union {"config"}
AfterKeep == AfterQuarantine \union {"quarantine"}
AfterToml == AfterKeep \union {"keep"}

\* Where the kit has written what is machine-local, the lines that keep it out of
\* commits are in the ignore file already, and nobody takes them away.
LocalInv ==
    /\ LocalsUncommitted
    /\ tree[Main].orient = Kit => "orient" \in tree[Main].ignore
    /\ at = Main /\ pc \in AfterIgnore => IgnoreLines \subseteq tree[Main].ignore

LEMMA LocalInit == Init => LocalInv
<1> SUFFICES ASSUME Init
             PROVE  LocalInv
  OBVIOUS
<1>1. PICK s \in Starts : /\ tree = [k \in Checkouts |-> s.tree] /\ overlay = s.overlay
                          /\ head = s.head
  BY DEF Init
<1>2. tree[Main] = s.tree
  BY <1>1 DEF Checkouts
<1>3. pc \notin AfterIgnore
  BY DEF Init, AfterIgnore, AfterStamp, AfterKitPath, AfterHook, AfterPending, AfterLog,
     AfterSettings, AfterCommit, AfterOrient, AfterScheduler
<1> QED  BY <1>1, <1>2, <1>3, StartsAssumption DEF LocalInv, LocalsUncommitted

\* A write that takes no ignore line away, and renders the orientation only after
\* the lines are there.
LEMMA LocalByPut ==
    ASSUME Typed, LocalInv, NEW f \in Files, NEW v \in Contents[f], Put(f, v) \/ PutNew(f, v),
           f = "ignore" => Here.ignore \subseteq v,
           f = "orient" => v = Here.orient \/ pc \in AfterIgnore
    PROVE  /\ tree[Main].ignore \subseteq tree'[Main].ignore
           /\ tree'[Main].orient = Kit => "orient" \in tree'[Main].ignore
<1>1. Changed(f, v)
  BY PutTyped
<1>2. CASE at = Main
  <2>1. tree'[Main].ignore = IF f = "ignore" THEN v ELSE tree[Main].ignore
    BY <1>1, <1>2 DEF Changed, FileNames, Files
  <2>2. tree'[Main].orient = IF f = "orient" THEN v ELSE tree[Main].orient
    BY <1>1, <1>2 DEF Changed, FileNames, Files
  <2> QED  BY <1>2, <2>1, <2>2 DEF LocalInv, Here, IgnoreLines
<1>3. CASE at # Main
  BY <1>1, <1>3 DEF Changed, LocalInv, Checkouts
<1> QED  BY <1>2, <1>3

LEMMA RunLocal ==
    ASSUME Typed, LocalInv, RunStep
    PROVE  LocalInv'
<1>0. /\ Here \in Trees /\ DOMAIN Here = FileNames
      /\ \A f \in FileNames : Here[f] \in Contents[f]
  BY HereTyped
<1>00. ASSUME tree[Main].ignore \subseteq tree'[Main].ignore,
              tree'[Main].orient = Kit => "orient" \in tree'[Main].ignore,
              UNCHANGED <<head, overlay, at, strayed>>,
              pc' \in AfterIgnore => pc \in AfterIgnore
       PROVE  LocalInv'
  BY <1>00 DEF LocalInv, LocalsUncommitted
<1> USE DEF Files, FileNames, Contents, Quiet, Stay, World, AfterIgnore, AfterStamp,
        AfterKitPath, AfterHook, AfterPending, AfterLog, AfterSettings, AfterCommit,
        AfterOrient, AfterScheduler
<1>1. CASE SeedToml
  <2> DEFINE v == Seeded(Here.toml, DefaultToml)
  <2>1. v \in Contents["toml"]
    BY <1>0, DefaultTyped DEF Seeded
  <2> QED  BY <1>1, <1>00, <2>1, LocalByPut DEF SeedToml
<1>2. CASE EnsureSkeleton
  <2> DEFINE v == Seeded(Here.keep, Kit)
  <2>1. v \in Contents["keep"]
    BY <1>0 DEF Seeded
  <2> QED  BY <1>2, <1>00, <2>1, LocalByPut DEF EnsureSkeleton
<1>3. CASE SeedQuarantine
  <2> DEFINE v == Seeded(Here.quarantine, Kit)
  <2>1. v \in Contents["quarantine"]
    BY <1>0 DEF Seeded
  <2> QED  BY <1>3, <1>00, <2>1, LocalByPut DEF SeedQuarantine
<1>4. CASE Skip \/ HooksUp \/ Schedules \/ Fails
  BY <1>4 DEF Skip, HooksUp, Schedules, Fails, Fail, LocalInv, LocalsUncommitted
<1>5. CASE EnsureGitignore
  <2> DEFINE v == Covering(Here.ignore)
  <2>1. v \in Contents["ignore"] /\ Here.ignore \subseteq v /\ IgnoreLines \subseteq v
    BY <1>0 DEF Covering, Lines
  <2>2. /\ tree[Main].ignore \subseteq tree'[Main].ignore
        /\ tree'[Main].orient = Kit => "orient" \in tree'[Main].ignore
    BY <1>5, <2>1, LocalByPut DEF EnsureGitignore
  <2>3. tree'[at].ignore = v
    BY <1>5, <2>1, PutTyped DEF EnsureGitignore, Changed
  <2> QED  BY <1>5, <2>1, <2>2, <2>3 DEF EnsureGitignore, LocalInv, LocalsUncommitted
<1>6. CASE Stamps
  <2> DEFINE v == Stamped(Here.toml)
  <2>1. v \in Contents["toml"]
    BY <1>0, <1>6 DEF Stamps, Stamped, Tomls, Typed, TypeOK
  <2> QED  BY <1>6, <1>00, <2>1, LocalByPut DEF Stamps
<1>7. CASE Points
  <2>1. overlay' # overlay /\ at # Main => strayed'
    BY <1>7 DEF Points, Typed, TypeOK, Checkouts
  <2> QED  BY <1>7, <2>1 DEF Points, LocalInv, LocalsUncommitted, IgnoreLines
<1>8. CASE Indexes
  <2> DEFINE v == Here.ledger
  <2>1. v \in Contents["index"]
    BY <1>0, <1>8 DEF Indexes, Projected
  <2> QED  BY <1>8, <1>00, <2>1, LocalByPut DEF Indexes
<1>9. CASE BuildLatest
  <2> DEFINE v == Here.index
  <2>1. v \in Contents["latest"]
    BY <1>0
  <2> QED  BY <1>9, <1>00, <2>1, LocalByPut DEF BuildLatest
<1>10. CASE Logs
  <2> DEFINE v == Seeded(Here.log, Here.ledger)
  <2>1. v \in Contents["log"]
    BY <1>0, <1>10 DEF Logs, Seeded, Projected
  <2> QED  BY <1>10, <1>00, <2>1, LocalByPut DEF Logs
<1>11. CASE Denies
  <2> DEFINE v == Denying(Here.settings)
  <2>1. v \in Contents["settings"]
    BY <1>0, <1>11 DEF Denies, Denying, Rules
  <2> QED  BY <1>11, <1>00, <2>1, LocalByPut DEF Denies
<1>12. CASE Commits
  <2>1. tree[Main] \in Trees
    BY DEF Checkouts, Typed, TypeOK
  <2>2. "orient" \notin Rels
    BY DEF Rels, Typed, Counts
  <2>3. head'.orient = Absent
    BY <1>12, <2>1, <2>2, SnapshotFacts DEF Commits
  <2> QED  BY <1>12, <2>3, InstallAssumption DEF Commits, LocalInv, LocalsUncommitted
<1>13. CASE Orients
  <2> DEFINE v == Seeded(Here.orient, Kit)
  <2>1. v \in Contents["orient"]
    BY <1>0 DEF Seeded
  <2> QED  BY <1>13, <1>00, <2>1, LocalByPut DEF Orients
<1> QED  BY <1>1, <1>2, <1>3, <1>4, <1>5, <1>6, <1>7, <1>8, <1>9, <1>10, <1>11, <1>12,
            <1>13, StepForms

\* Runs, kills and the owner keep the machine-local files out of commits.
LEMMA LocalStep == Typed /\ LocalInv /\ [Next]_vars => LocalInv'
<1> SUFFICES ASSUME Typed, LocalInv, [Next]_vars
             PROVE  LocalInv'
  OBVIOUS
<1>1. CASE RunStep
  BY <1>1, RunLocal
<1>2. ASSUME NEW k \in Checkouts, NEW s \in BOOLEAN, Run(k, s)
      PROVE  LocalInv'
  <2>1. pc' \notin AfterIgnore
    BY <1>2 DEF Run, AfterIgnore, AfterStamp, AfterKitPath, AfterHook, AfterPending,
       AfterLog, AfterSettings, AfterCommit, AfterOrient, AfterScheduler
  <2> QED  BY <1>2, <2>1 DEF Run, LocalInv, LocalsUncommitted
<1>3. CASE Kill
  <2>1. pc' \notin AfterIgnore
    BY <1>3 DEF Kill, AfterIgnore, AfterStamp, AfterKitPath, AfterHook, AfterPending,
       AfterLog, AfterSettings, AfterCommit, AfterOrient, AfterScheduler
  <2> QED  BY <1>3, <2>1 DEF Kill, LocalInv, LocalsUncommitted
<1>4. CASE Owner
  <2> USE DEF Move, LocalInv, LocalsUncommitted
  <2>1. ASSUME NEW c \in Kits \union {Absent}, KitMoves(c)
        PROVE  LocalInv'
    BY <2>1 DEF KitMoves
  <2>2. ASSUME NEW k \in Checkouts, NEW e \in Edits, OwnerEdits(k, e)
        PROVE  LocalInv'
    <3>1. e.file \in FileNames
      BY <2>2, EditFacts
    <3>2. /\ tree'[k][e.file] = e.to
          /\ \A g \in FileNames \ {e.file} : tree'[k][g] = tree[k][g]
          /\ \A c \in Checkouts \ {k} : tree'[c] = tree[c]
      BY <2>2, EditFacts
    <3>3. e.file = "ignore" => IgnoreLines \subseteq e.to
      BY InstallAssumption
    <3>4. e.file = "orient" => e.to # Kit
      BY InstallAssumption
    <3>5. /\ IgnoreLines \intersect tree[Main].ignore \subseteq tree'[Main].ignore
          /\ tree'[Main].orient = Kit => tree[Main].orient = Kit
      BY <3>1, <3>2, <3>3, <3>4 DEF FileNames, Files, Checkouts
    <3> QED  BY <2>2, <3>5 DEF OwnerEdits, IgnoreLines
  <2>3. ASSUME NEW v \in {Absent, Foreign, Stale}, OwnerHook(v)
        PROVE  LocalInv'
    BY <2>3 DEF OwnerHook
  <2>4. ASSUME NEW o \in Repoints, OwnerOverlay(o)
        PROVE  LocalInv'
    <3>1. o # Absent => o.kit # Kit
      BY InstallAssumption
    <3> QED  BY <2>4, <3>1 DEF OwnerOverlay
  <2>5. CASE OwnerCommits
    <3>1. tree[Main] \in Trees
      BY DEF Checkouts, Typed, TypeOK
    <3>2. head'.orient = IF "orient" \in Everything THEN tree[Main].orient ELSE Absent
      BY <2>5, <3>1, SnapshotFacts DEF OwnerCommits, FileNames, Files
    <3>3. "orient" \in tree[Main].ignore => "orient" \notin Everything
      BY DEF Everything, Files
    <3>4. head'.orient # Kit
      BY <3>2, <3>3, InstallAssumption
    <3> QED  BY <2>5, <3>4 DEF OwnerCommits
  <2>6. CASE AddWorktree
    <3>1. tree'[Main] = tree[Main]
      BY <2>6 DEF AddWorktree, Typed, TypeOK, Checkouts
    <3> QED  BY <2>6, <3>1 DEF AddWorktree
  <2> QED  BY <1>4, <2>1, <2>2, <2>3, <2>4, <2>5, <2>6 DEF Owner
<1>5. CASE UNCHANGED vars
  BY <1>5 DEF vars, LocalInv, LocalsUncommitted
<1> QED  BY <1>1, <1>2, <1>3, <1>4, <1>5 DEF Next

LEMMA LocalInvariant == Spec => []LocalInv
BY LocalInit, LocalStep, Typing, PTL DEF Spec

-----------------------------------------------------------------------------
\* Before the first commit: what the run at work has recorded as its own it or an
\* earlier run wrote, but for an index its owner removed; and unless an earlier run
\* ended early or the owner meddled, it has recorded all that was written.
Unread == {f \in {"index"} : pc = "latest"}
MadeInv ==
    head = Absent =>
        /\ first = Absent
        /\ pc \in Steps =>
              \A f \in written \union Unread :
                  f \in made \/ (f = "index" /\ tree[Main].index = Absent)
        /\ ~cut => \/ pc = "ready" /\ runs = 0 /\ made = {}
                   \/ /\ pc \in Steps
                      /\ Unread \subseteq made /\ made \subseteq written \union Unread
                      /\ \A f \in made : ~Lacks(tree[Main], f)
CommitInv == FirstCommitExact /\ MadeInv

LEMMA CommitInit == Init => CommitInv
BY DEF Init, CommitInv, FirstCommitExact, MadeInv, Steps

\* A file a step writes it records, when it was not what the step wants.
LEMMA MadeByPut ==
    ASSUME Typed, CommitInv, head = Absent, NEW f \in Files, NEW v \in Contents[f], Put(f, v),
           f # "index", IF f = "ignore" THEN v # {} ELSE v # Absent,
           written' = IF Here[f] # v THEN written \union {f} ELSE written,
           pc \in Steps, pc' \in Steps, pc # "latest", pc' # "latest",
           UNCHANGED <<head, cut, first>>
    PROVE  CommitInv'
<1>1. at = Main
  BY DEF Typed, Counts
<1>2. Changed(f, v)
  BY PutTyped
<1>3. \A g \in Files : Lacks(tree'[Main], g) => g # f /\ Lacks(tree[Main], g)
  BY <1>1, <1>2 DEF Lacks, Changed, FileNames, Files
<1>4. tree'[Main].index = tree[Main].index
  BY <1>1, <1>2 DEF Changed, FileNames, Files
<1>5. made' = IF Here[f] # v THEN made \union {f} ELSE made
  BY DEF Put
<1>6. made \subseteq Files
  BY DEF Typed, TypeOK
<1> QED  BY <1>3, <1>4, <1>5, <1>6 DEF CommitInv, FirstCommitExact, MadeInv, Unread, Steps

\* Once there is a commit nothing of this changes.
LEMMA CommitPast ==
    ASSUME Typed, CommitInv, head # Absent, head' # Absent, UNCHANGED <<first, made>>,
           cut => cut'
    PROVE  CommitInv'
BY DEF CommitInv, FirstCommitExact, MadeInv

LEMMA RunCommit ==
    ASSUME Typed, CommitInv, RunStep
    PROVE  CommitInv'
<1>0. /\ Here \in Trees /\ DOMAIN Here = FileNames
      /\ \A f \in FileNames : Here[f] \in Contents[f]
  BY HereTyped
<1>1. CASE head # Absent
  <2> USE <1>1 DEF Put, PutNew, Quiet, World, Stay
  <2>1. CASE SeedToml \/ EnsureSkeleton \/ SeedQuarantine \/ EnsureGitignore
    BY <2>1, CommitPast DEF SeedToml, EnsureSkeleton, SeedQuarantine, EnsureGitignore
  <2>2. CASE BuildLatest \/ Orients \/ Stamps \/ Indexes \/ Logs \/ Denies
    BY <2>2, CommitPast DEF BuildLatest, Orients, Stamps, Indexes, Logs, Denies
  <2>3. CASE Skip \/ Points \/ HooksUp \/ Schedules
    BY <2>3, CommitPast DEF Skip, Points, HooksUp, Schedules
  <2>4. CASE Fails
    BY <2>4, CommitPast DEF Fails, Fail, Early
  <2> QED  BY <1>1, <2>1, <2>2, <2>3, <2>4, StepForms DEF Commits
<1>2. CASE head = Absent
  <2>1. at = Main /\ Here = tree[Main]
    BY <1>2 DEF Typed, Counts, Here
  <2>2. pc \notin {"orient", "scheduler"}
    BY <1>2 DEF Typed, Counts
  <2> USE <1>2, InstallAssumption DEF Files, FileNames, Contents, Quiet, World
  <2>3. CASE SeedToml
    <3> DEFINE v == Seeded(Here.toml, DefaultToml)
    <3>1. v \in Contents["toml"] /\ v # Absent
      BY <1>0, DefaultTyped DEF Seeded
    <3>2. written' = IF Here["toml"] # v THEN written \union {"toml"} ELSE written
      BY <2>3, <3>1 DEF SeedToml, Owns, Lacks, Seeded
    <3> QED  BY <2>3, <3>1, <3>2, MadeByPut DEF SeedToml, Steps
  <2>4. CASE EnsureSkeleton
    <3> DEFINE v == Seeded(Here.keep, Kit)
    <3>1. v \in Contents["keep"] /\ v # Absent
      BY <1>0 DEF Seeded
    <3>2. written' = IF Here["keep"] # v THEN written \union {"keep"} ELSE written
      BY <2>4, <3>1 DEF EnsureSkeleton, Owns, Lacks, Seeded
    <3> QED  BY <2>4, <3>1, <3>2, MadeByPut DEF EnsureSkeleton, Steps
  <2>5. CASE SeedQuarantine
    <3> DEFINE v == Seeded(Here.quarantine, Kit)
    <3>1. v \in Contents["quarantine"] /\ v # Absent
      BY <1>0 DEF Seeded
    <3>2. written' = IF Here["quarantine"] # v THEN written \union {"quarantine"} ELSE written
      BY <2>5, <3>1 DEF SeedQuarantine, Owns, Lacks, Seeded
    <3> QED  BY <2>5, <3>1, <3>2, MadeByPut DEF SeedQuarantine, Steps
  <2>6. CASE EnsureGitignore
    <3> DEFINE v == Covering(Here.ignore)
    <3>1. v \in Contents["ignore"] /\ "overlay" \in v
      BY <1>0 DEF Covering, Lines, IgnoreLines
    <3>2. v # {}
      BY <3>1
    <3>3. written' = IF Here["ignore"] # v THEN written \union {"ignore"} ELSE written
      BY <2>6 DEF EnsureGitignore, OwnsIfChanged
    <3> QED  BY <2>6, <3>1, <3>2, <3>3, MadeByPut DEF EnsureGitignore, Steps
  <2>7. CASE Stamps
    <3> DEFINE v == Stamped(Here.toml)
    <3>1. v \in Contents["toml"] /\ v # Absent /\ v.stamp = kit
      BY <1>0, <2>7 DEF Stamps, Stamped, Tomls, Typed, TypeOK
    <3>2. written' = IF Here["toml"] # v THEN written \union {"toml"} ELSE written
      BY <2>7, <3>1 DEF Stamps
    <3> QED  BY <2>7, <3>1, <3>2, MadeByPut DEF Stamps, Steps
  <2>8. CASE Logs
    <3> DEFINE v == Seeded(Here.log, Here.ledger)
    <3>1. v \in Contents["log"] /\ v # Absent
      BY <1>0, <2>8 DEF Logs, Seeded, Projected
    <3>2. written' = IF Here["log"] # v THEN written \union {"log"} ELSE written
      BY <2>8, <3>1 DEF Logs, Owns, Lacks, Seeded
    <3> QED  BY <2>8, <3>1, <3>2, MadeByPut DEF Logs, Steps
  <2>9. CASE Denies
    <3> DEFINE v == Denying(Here.settings)
    <3>1. v \in Rules
      BY <1>0, <2>9 DEF Denies, Denying, Rules
    <3>2. v \in Contents["settings"] /\ v # Absent
      BY <3>1
    <3>3. written' = IF Here["settings"] # v THEN written \union {"settings"} ELSE written
      BY <2>9 DEF Denies, OwnsIfChanged
    <3> QED  BY <2>9, <3>2, <3>3, MadeByPut DEF Denies, Steps
  <2>10. CASE Indexes
    <3>1. Here.ledger \in Contents["index"] /\ Here.ledger # Absent
      BY <1>0, <2>10 DEF Indexes, Projected
    <3>2. Changed("index", Here.ledger)
      BY <2>10, <3>1, PutTyped DEF Indexes
    <3>3. \A g \in Files : Lacks(tree'[Main], g) => g # "index" /\ Lacks(tree[Main], g)
      BY <2>1, <3>1, <3>2 DEF Changed, Lacks
    <3>4. made' = made \union {"index"} /\ made \subseteq Files
      BY <2>10 DEF Indexes, PutNew, Typed, TypeOK
    <3>5. pc = "pending" /\ pc' = "latest" /\ UNCHANGED <<written, head, cut, first>>
      BY <2>10 DEF Indexes
    <3> QED  BY <3>3, <3>4, <3>5 DEF CommitInv, FirstCommitExact, MadeInv, Unread, Steps
  <2>11. CASE BuildLatest
    <3>1. Here.index \in Contents["latest"]
      BY <1>0
    <3>2. Changed("latest", Here.index)
      BY <2>11, <3>1, PutTyped DEF BuildLatest
    <3>3. tree'[Main].index = tree[Main].index
      BY <2>1, <3>2 DEF Changed
    <3>4. made' = made \union {"latest"} /\ made \subseteq Files
      BY <2>11 DEF BuildLatest, PutNew, Typed, TypeOK
    <3>5. /\ pc = "latest" /\ pc' = "log" /\ UNCHANGED <<head, cut, first>>
          /\ written' = written \union {"index", "latest"}
      BY <2>11 DEF BuildLatest
    <3>6. \A g \in Files \ {"latest"} : Lacks(tree'[Main], g) => Lacks(tree[Main], g)
      BY <2>1, <3>2 DEF Changed, Lacks
    <3>7. Lacks(tree'[Main], "latest") => Lacks(tree[Main], "index")
      BY <2>1, <3>2 DEF Changed, Lacks
    <3> QED  BY <3>3, <3>4, <3>5, <3>6, <3>7
             DEF CommitInv, FirstCommitExact, MadeInv, Unread, Steps
  <2>12. CASE Skip
    BY <2>12 DEF Skip, Stay, CommitInv, FirstCommitExact, MadeInv, Unread, Steps
  <2>13. CASE Points
    BY <2>13 DEF Points, CommitInv, FirstCommitExact, MadeInv, Unread, Steps
  <2>14. CASE HooksUp
    BY <2>14 DEF HooksUp, CommitInv, FirstCommitExact, MadeInv, Unread, Steps
  <2>15. CASE Fails
    BY <2>15 DEF Fails, Fail, Early, Stay, CommitInv, FirstCommitExact, MadeInv, Steps
  <2>16. CASE Commits
    <3>1. tree[Main] \in Trees
      BY DEF Typed, TypeOK, Checkouts
    <3>2. Snapshot(tree[Main], Rels) # Absent
      BY <3>1, SnapshotFacts
    <3>3. head' # Absent /\ first' = Rels /\ UNCHANGED <<made, cut, tree>> /\ pc = "commit"
      BY <2>16, <3>2 DEF Commits
    <3>4. Rels \subseteq made \union {"toml"}
      BY <3>3 DEF Rels, CommitInv, MadeInv, Unread, Lacks, Steps
    <3>5. ~cut => made \subseteq Rels
      BY <3>3 DEF Rels, CommitInv, MadeInv, Unread
    <3> QED  BY <3>3, <3>4, <3>5 DEF CommitInv, FirstCommitExact, MadeInv
  <2> QED  BY <2>2, <2>3, <2>4, <2>5, <2>6, <2>7, <2>8, <2>9, <2>10, <2>11, <2>12, <2>13,
              <2>14, <2>15, <2>16, StepForms DEF Orients, Schedules
<1> QED  BY <1>1, <1>2

LEMMA OwnerCommit ==
    ASSUME Typed, CommitInv, Owner
    PROVE  CommitInv'
<1> USE DEF Move, Running, CommitInv, FirstCommitExact, MadeInv, Unread
<1>0. (pc \in Steps <=> Running) /\ (pc = "ready" => ~Running)
  BY DEF Typed, TypeOK, Steps, Ended
<1>1. ASSUME NEW c \in Kits \union {Absent}, KitMoves(c)
      PROVE  CommitInv'
  BY <1>0, <1>1 DEF KitMoves
<1>2. ASSUME NEW k \in Checkouts, NEW e \in Edits, OwnerEdits(k, e)
      PROVE  CommitInv'
  <2>1. CASE head # Absent
    BY <1>2, <2>1, CommitPast DEF OwnerEdits
  <2>2. CASE head = Absent
    <3>1. tree'[Main].index = tree[Main].index \/ tree'[Main].index = Absent
      <4>1. e.file = "index" => e.to = Absent
        BY InstallAssumption
      <4> QED  BY <1>2, <4>1, EditFacts DEF FileNames, Files, Checkouts
    <3>2. /\ UNCHANGED <<head, first, pc, written, runs>>
          /\ cut' = (cut \/ Running \/ runs > 0)
          /\ made' = IF ~(Running /\ e.file \in written) THEN made \ {e.file} ELSE made
      BY <1>2, <2>2 DEF OwnerEdits
    <3>3. e.file = "index" => tree'[Main].index = Absent
      <4>1. e.file = "index" => e.to = Absent
        BY InstallAssumption
      <4>2. k = Main
        BY <1>2, <2>2 DEF OwnerEdits, Typed, Counts
      <4> QED  BY <1>2, <4>1, <4>2, EditFacts
    <3> QED  BY <1>0, <2>2, <3>1, <3>2, <3>3
  <2> QED  BY <2>1, <2>2
<1>3. ASSUME NEW v \in {Absent, Foreign, Stale}, OwnerHook(v)
      PROVE  CommitInv'
  BY <1>0, <1>3 DEF OwnerHook
<1>4. ASSUME NEW o \in Repoints, OwnerOverlay(o)
      PROVE  CommitInv'
  BY <1>0, <1>4 DEF OwnerOverlay
<1>5. CASE OwnerCommits
  <2>1. tree[Main] \in Trees
    BY DEF Typed, TypeOK, Checkouts
  <2>2. head' # Absent
    BY <1>5, <2>1, SnapshotFacts, InstallAssumption DEF OwnerCommits
  <2>3. UNCHANGED <<first, made>> /\ (cut => cut')
    BY <1>5 DEF OwnerCommits
  <2> QED  BY <2>2, <2>3, InstallAssumption
<1>6. CASE AddWorktree
  BY <1>6, CommitPast DEF AddWorktree
<1> QED  BY <1>1, <1>2, <1>3, <1>4, <1>5, <1>6 DEF Owner

\* Runs, kills and the owner keep what the first commit will be.
LEMMA CommitStep == Typed /\ CommitInv /\ [Next]_vars => CommitInv'
<1> SUFFICES ASSUME Typed, CommitInv, [Next]_vars
             PROVE  CommitInv'
  OBVIOUS
<1> USE DEF CommitInv, FirstCommitExact, MadeInv, Unread
<1>1. CASE RunStep
  BY <1>1, RunCommit
<1>2. ASSUME NEW k \in Checkouts, NEW s \in BOOLEAN, Run(k, s)
      PROVE  CommitInv'
  <2>1. /\ pc' = "toml" /\ written' = {} /\ pc \notin Steps
        /\ UNCHANGED <<head, made, first, cut, tree>>
    BY <1>2 DEF Run, Steps, Ended
  <2> QED  BY <2>1 DEF Steps
<1>3. CASE Kill
  BY <1>3 DEF Kill, Early, Steps
<1>4. CASE Owner
  BY <1>4, OwnerCommit
<1>5. CASE UNCHANGED vars
  BY <1>5 DEF vars
<1> QED  BY <1>1, <1>2, <1>3, <1>4, <1>5 DEF Next

\* The first commit is what the installer wrote, and nothing machine-local is ever
\* committed: by no order of runs, kills, edits and commits.
THEOREM Clean == Spec => []CommitsClean
<1>1. CommitInv /\ LocalInv => CommitsClean
  BY DEF CommitInv, LocalInv, CommitsClean
<1>2. Spec => []CommitInv
  BY CommitInit, CommitStep, Typing, PTL DEF Spec
<1> QED  BY <1>1, <1>2, LocalInvariant, PTL

-----------------------------------------------------------------------------
\* What has been brought about since a run began stays until something moves; and
\* when a run repeats one that ended well all of it is there from the start.
Past(places) == pc \in Steps \union {"installed"} /\ (again \/ pc \in places)

FloorInv ==
    ~moved =>
        /\ Past(AfterToml) => Here.toml # Absent
        /\ Past(AfterKeep) => Here.keep # Absent
        /\ Past(AfterQuarantine) => Here.quarantine # Absent
        /\ Past(AfterConfig) => Here.toml # Broken
        /\ Past(AfterIgnore) => IgnoreLines \subseteq Here.ignore
        /\ Past(AfterStamp) => Here.toml.stamp = kit
        /\ Past(AfterKitPath) => overlay # Absent /\ overlay.kit = Kit
        /\ Past(AfterHook) => hook = Kit
        /\ Past({"latest"} \union AfterPending) => Here.index # Absent
        /\ Past(AfterLog) => Here.log # Absent
        /\ Past(AfterSettings) => /\ Here.settings \notin {Absent, Broken}
                                  /\ "deny" \in Here.settings
        /\ Past(AfterCommit) => head # Absent
        /\ Past(AfterOrient) => Here.orient # Absent
        /\ Past(AfterScheduler) /\ ~skip => units = at
SettleInv == again /\ ~moved => wrote = {} /\ pc # "latest"

\* Pointing the overlay at the kit, and again.
LEMMA PointedFacts ==
    ASSUME Typed
    PROVE  /\ Pointed(overlay) # Absent /\ Pointed(overlay).kit = Kit
           /\ overlay # Absent /\ overlay.kit = Kit => Pointed(overlay) = overlay
<1>1. overlay \in Pointers \union {Absent}
  BY DEF Typed, TypeOK, Overlays
<1>2. Pointed(overlay) \in Pointers
  BY <1>1 DEF Pointed, Pointers
<1>3. Pointed(overlay).kit = Kit
  BY <1>1 DEF Pointed, Pointers
<1>4. overlay # Absent /\ overlay.kit = Kit => Pointed(overlay) = overlay
  BY <1>1 DEF Pointed, Pointers
<1> QED  BY <1>2, <1>3, <1>4, InstallAssumption

\* Each step brings about what it is for, and undoes nothing.
LEMMA RunFloor ==
    ASSUME Typed, FloorInv, SettleInv, RunStep
    PROVE  FloorInv' /\ SettleInv'
<1>0. /\ Here \in Trees /\ DOMAIN Here = FileNames
      /\ \A f \in FileNames : Here[f] \in Contents[f]
  BY HereTyped
<1> USE InstallAssumption DEF FloorInv, SettleInv, Past, Steps, Files, FileNames, Contents,
        Quiet, Stay, World, AfterToml, AfterKeep, AfterQuarantine, AfterConfig, AfterIgnore,
        AfterStamp, AfterKitPath, AfterHook, AfterPending, AfterLog, AfterSettings,
        AfterCommit, AfterOrient, AfterScheduler
<1>1. CASE SeedToml
  <2> DEFINE v == Seeded(Here.toml, DefaultToml)
  <2>1. v \in Contents["toml"] /\ v # Absent /\ (Here.toml # Absent => v = Here.toml)
    BY <1>0, DefaultTyped DEF Seeded
  <2>2. Changed("toml", v) /\ (Here.toml = v => wrote' = wrote)
    BY <1>1, <2>1, PutTyped DEF SeedToml, Put
  <2> QED  BY <1>1, <2>1, <2>2 DEF SeedToml, Changed, Here
<1>2. CASE EnsureSkeleton
  <2> DEFINE v == Seeded(Here.keep, Kit)
  <2>1. v \in Contents["keep"] /\ v # Absent /\ (Here.keep # Absent => v = Here.keep)
    BY <1>0 DEF Seeded
  <2>2. Changed("keep", v) /\ (Here.keep = v => wrote' = wrote)
    BY <1>2, <2>1, PutTyped DEF EnsureSkeleton, Put
  <2> QED  BY <1>2, <2>1, <2>2 DEF EnsureSkeleton, Changed, Here
<1>3. CASE SeedQuarantine
  <2> DEFINE v == Seeded(Here.quarantine, Kit)
  <2>1. /\ v \in Contents["quarantine"] /\ v # Absent
        /\ Here.quarantine # Absent => v = Here.quarantine
    BY <1>0 DEF Seeded
  <2>2. Changed("quarantine", v) /\ (Here.quarantine = v => wrote' = wrote)
    BY <1>3, <2>1, PutTyped DEF SeedQuarantine, Put
  <2> QED  BY <1>3, <2>1, <2>2 DEF SeedQuarantine, Changed, Here
<1>4. CASE EnsureGitignore
  <2> DEFINE v == Covering(Here.ignore)
  <2>1. v \in Contents["ignore"] /\ IgnoreLines \subseteq v
        /\ (IgnoreLines \subseteq Here.ignore => v = Here.ignore)
    BY <1>0 DEF Covering, Lines
  <2>2. Changed("ignore", v) /\ (Here.ignore = v => wrote' = wrote)
    BY <1>4, <2>1, PutTyped DEF EnsureGitignore, Put
  <2> QED  BY <1>4, <2>1, <2>2 DEF EnsureGitignore, Changed, Here
<1>5. CASE Stamps
  <2> DEFINE v == Stamped(Here.toml)
  <2>1. v \in Tomls /\ v.stamp = kit
    BY <1>0, <1>5 DEF Stamps, Stamped, Tomls, Typed, TypeOK
  <2>2. v \in Contents["toml"] /\ v \notin {Absent, Broken}
    BY <2>1
  <2>3. Changed("toml", v) /\ (again => moved)
    BY <1>5, <2>2, PutTyped DEF Stamps
  <2> QED  BY <1>5, <2>1, <2>2, <2>3 DEF Stamps, Changed, Here
<1>6. CASE Points
  <2>1. overlay' = Pointed(overlay)
    BY <1>6 DEF Points
  <2>2. /\ overlay' # Absent /\ overlay'.kit = Kit
        /\ overlay # Absent /\ overlay.kit = Kit => overlay' = overlay
    BY <2>1, PointedFacts
  <2> QED  BY <1>6, <2>2 DEF Points, Here
<1>7. CASE HooksUp
  BY <1>7 DEF HooksUp, Here
<1>8. CASE Indexes
  <2>1. Here.ledger \in Contents["index"] /\ Here.ledger # Absent
    BY <1>0, <1>8 DEF Indexes, Projected
  <2>2. Changed("index", Here.ledger) /\ (again => moved)
    BY <1>8, <2>1, PutTyped DEF Indexes
  <2> QED  BY <1>8, <2>1, <2>2 DEF Indexes, Changed, Here
<1>9. CASE BuildLatest
  <2>1. Here.index \in Contents["latest"]
    BY <1>0
  <2>2. Changed("latest", Here.index) /\ (again => moved)
    BY <1>9, <2>1, PutTyped DEF BuildLatest
  <2> QED  BY <1>9, <2>2 DEF BuildLatest, Changed, Here
<1>10. CASE Logs
  <2> DEFINE v == Seeded(Here.log, Here.ledger)
  <2>1. v \in Contents["log"] /\ v # Absent /\ (Here.log # Absent => v = Here.log)
    BY <1>0, <1>10 DEF Logs, Seeded, Projected
  <2>2. Changed("log", v) /\ (Here.log = v => wrote' = wrote)
    BY <1>10, <2>1, PutTyped DEF Logs, Put
  <2> QED  BY <1>10, <2>1, <2>2 DEF Logs, Changed, Here
<1>11. CASE Denies
  <2> DEFINE v == Denying(Here.settings)
  <2>1. v \in Rules /\ "deny" \in v
        /\ (Here.settings # Absent /\ "deny" \in Here.settings => v = Here.settings)
    BY <1>0, <1>11 DEF Denies, Denying, Rules
  <2>2. v \in Contents["settings"] /\ v \notin {Absent, Broken}
    BY <2>1
  <2>3. Changed("settings", v) /\ (Here.settings = v => wrote' = wrote)
    BY <1>11, <2>2, PutTyped DEF Denies, Put
  <2> QED  BY <1>11, <2>1, <2>2, <2>3 DEF Denies, Changed, Here
<1>12. CASE Commits
  <2>1. Typed' /\ pc' = "orient"
    BY <1>12, RunTyped DEF Commits
  <2>2. head' # Absent
    BY <2>1 DEF Typed, Counts
  <2> QED  BY <1>12, <2>2 DEF Commits, Here
<1>13. CASE Orients
  <2> DEFINE v == Seeded(Here.orient, Kit)
  <2>1. v \in Contents["orient"] /\ v # Absent /\ (Here.orient # Absent => v = Here.orient)
    BY <1>0 DEF Seeded
  <2>2. Changed("orient", v) /\ (Here.orient = v => wrote' = wrote)
    BY <1>13, <2>1, PutTyped DEF Orients, Put
  <2> QED  BY <1>13, <2>1, <2>2 DEF Orients, Changed, Here
<1>14. CASE Skip
  <2>1. UNCHANGED <<tree, overlay, hook, head, kit, units, at, skip, wrote, moved, again>>
    BY <1>14 DEF Skip
  <2>2. CASE pc = "config" /\ pc' = "ignore" /\ Here.toml # Broken
    BY <2>1, <2>2 DEF Here
  <2>3. CASE pc = "stamp" /\ pc' = "kitpath" /\ Here.toml.stamp = kit
    BY <2>1, <2>3 DEF Here
  <2>4. CASE pc = "pending" /\ pc' = "log" /\ Here.index # Absent
    BY <2>1, <2>4 DEF Here
  <2>5. CASE pc = "log" /\ pc' = "settings" /\ Here.log # Absent
    BY <2>1, <2>5 DEF Here
  <2>6. CASE pc = "commit" /\ pc' = "orient" /\ head # Absent
    BY <2>1, <2>6 DEF Here
  <2>7. Loads => Here.toml # Broken
    BY DEF Loads
  <2> QED  BY <1>14, <2>2, <2>3, <2>4, <2>5, <2>6, <2>7 DEF Skip
<1>15. CASE Fails
  <2>1. pc' = "error" /\ UNCHANGED <<wrote, again, moved>>
    BY <1>15 DEF Fails, Fail
  <2>2. FloorInv'
    BY ONLY <2>1 DEF FloorInv, Past, Steps
  <2>3. SettleInv'
    BY <2>1 DEF SettleInv
  <2> QED  BY <2>2, <2>3
<1>16. CASE Schedules
  BY <1>16 DEF Schedules, Here
<1> QED  BY <1>1, <1>2, <1>3, <1>4, <1>5, <1>6, <1>7, <1>8, <1>9, <1>10, <1>11, <1>12,
            <1>13, <1>14, <1>15, <1>16, StepForms

\* What was brought about stands until something moves, and a run that repeats a
\* successful one finds it there and writes nothing.
LEMMA FloorStep == Typed /\ FloorInv /\ SettleInv /\ [Next]_vars => FloorInv' /\ SettleInv'
<1> SUFFICES ASSUME Typed, FloorInv, SettleInv, [Next]_vars
             PROVE  FloorInv' /\ SettleInv'
  OBVIOUS
<1>1. CASE RunStep
  BY <1>1, RunFloor
<1> USE DEF FloorInv, SettleInv, Past
<1>2. ASSUME NEW k \in Checkouts, NEW s \in BOOLEAN, Run(k, s)
      PROVE  FloorInv' /\ SettleInv'
  BY <1>2 DEF Run, Here, AfterToml, AfterKeep, AfterQuarantine, AfterConfig, AfterIgnore,
     AfterStamp, AfterKitPath, AfterHook, AfterPending, AfterLog, AfterSettings,
     AfterCommit, AfterOrient, AfterScheduler
<1>3. CASE Kill
  BY <1>3 DEF Kill, Steps
<1>4. CASE Owner
  <2>1. moved'
    BY <1>4 DEF Owner, KitMoves, OwnerEdits, OwnerHook, OwnerOverlay, OwnerCommits,
       AddWorktree, Move
  <2> QED  BY <2>1
<1>5. CASE UNCHANGED vars
  BY <1>5 DEF vars, Here
<1> QED  BY <1>1, <1>2, <1>3, <1>4, <1>5 DEF Next

LEMMA FloorInvariant == Spec => [](FloorInv /\ SettleInv)
<1>1. Init => FloorInv /\ SettleInv
  BY DEF Init, FloorInv, SettleInv, Past, Steps
<1> QED  BY <1>1, FloorStep, Typing, PTL DEF Spec

-----------------------------------------------------------------------------
\* The second pending file is there with the first, but for a run between the two
\* and for one killed or committed there.
Paired(t) == t.index # Absent => t.latest # Absent
PairInv ==
    /\ pc \in Steps /\ "index" \in written => "latest" \in written
    /\ \/ torn
       \/ /\ \A k \in Checkouts : Paired(tree[k]) \/ (pc = "latest" /\ at = k)
          /\ head = Absent \/ Paired(head)

LEMMA PairInit == Init => PairInv
<1> SUFFICES ASSUME Init
             PROVE  PairInv
  OBVIOUS
<1>1. PICK s \in Starts : tree = [k \in Checkouts |-> s.tree] /\ head = s.head
  BY DEF Init
<1>2. Paired(s.tree) /\ (s.head = Absent \/ Paired(s.head))
  <2>1. s.tree # Absent
    BY InstallAssumption
  <2> QED  BY <2>1, StartsAssumption DEF Paired
<1> QED  BY <1>1, <1>2 DEF Init, PairInv

\* A write of another file leaves the pending pair.
LEMMA PairByPut ==
    ASSUME Typed, PairInv, NEW f \in Files \ {"index", "latest"}, NEW v \in Contents[f],
           Put(f, v), pc \in Steps, pc # "latest", UNCHANGED <<head, torn, at>>,
           written \subseteq written', written' \subseteq written \union {f}
    PROVE  PairInv'
<1>1. Changed(f, v)
  BY PutTyped
<1>2. ASSUME NEW k \in Checkouts
      PROVE  tree'[k].index = tree[k].index /\ tree'[k].latest = tree[k].latest
  BY <1>1 DEF Changed, FileNames, Files
<1> QED  BY <1>2 DEF PairInv, Paired

LEMMA RunPair ==
    ASSUME Typed, PairInv, RunStep
    PROVE  PairInv'
<1>0. /\ Here \in Trees /\ DOMAIN Here = FileNames
      /\ \A f \in FileNames : Here[f] \in Contents[f]
  BY HereTyped
<1> USE InstallAssumption DEF Files, FileNames, Contents, Quiet, World, Stay, Steps
<1>1. CASE SeedToml
  <2>1. Seeded(Here.toml, DefaultToml) \in Contents["toml"]
    BY <1>0, DefaultTyped DEF Seeded
  <2> QED  BY <1>1, <2>1, PairByPut DEF SeedToml, Owns
<1>2. CASE EnsureSkeleton
  <2>1. Seeded(Here.keep, Kit) \in Contents["keep"]
    BY <1>0 DEF Seeded
  <2> QED  BY <1>2, <2>1, PairByPut DEF EnsureSkeleton, Owns
<1>3. CASE SeedQuarantine
  <2>1. Seeded(Here.quarantine, Kit) \in Contents["quarantine"]
    BY <1>0 DEF Seeded
  <2> QED  BY <1>3, <2>1, PairByPut DEF SeedQuarantine, Owns
<1>4. CASE EnsureGitignore
  <2>1. Covering(Here.ignore) \in Contents["ignore"]
    BY <1>0 DEF Covering, Lines
  <2> QED  BY <1>4, <2>1, PairByPut DEF EnsureGitignore, OwnsIfChanged
<1>5. CASE Stamps
  <2>1. Stamped(Here.toml) \in Contents["toml"]
    BY <1>0, <1>5 DEF Stamps, Stamped, Tomls, Typed, TypeOK
  <2> QED  BY <1>5, <2>1, PairByPut DEF Stamps
<1>6. CASE Skip \/ Points \/ HooksUp \/ Schedules
  BY <1>6 DEF Skip, Points, HooksUp, Schedules, PairInv
<1>7. CASE Indexes
  <2>1. Here.ledger \in Contents["index"]
    BY <1>0, <1>7 DEF Indexes, Projected
  <2>2. Changed("index", Here.ledger)
    BY <1>7, <2>1, PutTyped DEF Indexes
  <2> QED  BY <1>7, <2>2 DEF Indexes, Changed, PairInv
<1>8. CASE BuildLatest
  <2>1. Here.index \in Contents["latest"]
    BY <1>0
  <2>2. Changed("latest", Here.index)
    BY <1>8, <2>1, PutTyped DEF BuildLatest
  <2>3. Paired(tree'[at])
    BY <2>2 DEF Changed, Paired, Here
  <2> QED  BY <1>8, <2>2, <2>3 DEF BuildLatest, Changed, PairInv
<1>9. CASE Logs
  <2>1. Seeded(Here.log, Here.ledger) \in Contents["log"]
    BY <1>0, <1>9 DEF Logs, Seeded, Projected
  <2> QED  BY <1>9, <2>1, PairByPut DEF Logs, Owns
<1>10. CASE Denies
  <2>1. Denying(Here.settings) \in Contents["settings"]
    BY <1>0, <1>10 DEF Denies, Denying, Rules
  <2> QED  BY <1>10, <2>1, PairByPut DEF Denies, OwnsIfChanged
<1>11. CASE Commits
  <2>1. tree[Main] \in Trees
    BY DEF Typed, TypeOK, Checkouts
  <2>2. "index" \in Rels /\ Paired(tree[Main]) => "latest" \in Rels
    BY <1>11 DEF Commits, Rels, Lacks, PairInv, Paired
  <2>3. Paired(tree[Main]) => Paired(head')
    <3>1. head' = Snapshot(tree[Main], Rels)
      BY <1>11 DEF Commits
    <3>2. "index" \notin Rels => head'.index = Absent
      BY <2>1, <3>1, SnapshotFacts
    <3>3. "latest" \in Rels => head'.latest = tree[Main].latest
      BY <2>1, <3>1, SnapshotFacts
    <3>4. "latest" \in Rels => tree[Main].latest # Absent
      BY DEF Rels, Lacks
    <3> QED  BY <2>2, <3>2, <3>3, <3>4 DEF Paired
  <2> QED  BY <1>11, <2>3 DEF Commits, PairInv, Checkouts
<1>12. CASE Orients
  <2>1. Seeded(Here.orient, Kit) \in Contents["orient"]
    BY <1>0 DEF Seeded
  <2> QED  BY <1>12, <2>1, PairByPut DEF Orients
<1>13. CASE Fails
  BY <1>13 DEF Fails, Fail, PairInv
<1> QED  BY <1>1, <1>2, <1>3, <1>4, <1>5, <1>6, <1>7, <1>8, <1>9, <1>10, <1>11, <1>12,
            <1>13, StepForms

LEMMA OwnerPair ==
    ASSUME Typed, PairInv, Owner
    PROVE  PairInv'
<1> USE DEF Move
<1>1. ASSUME NEW c \in Kits \union {Absent}, KitMoves(c)
      PROVE  PairInv'
  BY <1>1 DEF KitMoves, PairInv
<1>2. ASSUME NEW k \in Checkouts, NEW e \in Edits, OwnerEdits(k, e)
      PROVE  PairInv'
  <2>1. CASE e.file \in {"index", "latest"}
    BY <1>2, <2>1 DEF OwnerEdits, PairInv
  <2>2. CASE e.file \notin {"index", "latest"}
    <3>1. ASSUME NEW c \in Checkouts
          PROVE  tree'[c].index = tree[c].index /\ tree'[c].latest = tree[c].latest
      BY <1>2, <2>2, EditFacts DEF FileNames, Files
    <3> QED  BY <1>2, <3>1 DEF OwnerEdits, PairInv, Paired
  <2> QED  BY <2>1, <2>2
<1>3. ASSUME NEW v \in {Absent, Foreign, Stale}, OwnerHook(v)
      PROVE  PairInv'
  BY <1>3 DEF OwnerHook, PairInv
<1>4. ASSUME NEW o \in Repoints, OwnerOverlay(o)
      PROVE  PairInv'
  BY <1>4 DEF OwnerOverlay, PairInv
<1>5. CASE OwnerCommits
  <2>1. tree[Main] \in Trees
    BY DEF Typed, TypeOK, Checkouts
  <2>2. {"index", "latest"} \subseteq Everything
    BY <2>1, InstallAssumption DEF Everything, Trees, Lines, IgnoreLines, Files
  <2>3. head'.index = tree[Main].index /\ head'.latest = tree[Main].latest
    BY <1>5, <2>1, <2>2, SnapshotFacts DEF OwnerCommits, FileNames, Files
  <2> QED  BY <1>5, <2>3 DEF OwnerCommits, PairInv, Paired, Checkouts
<1>6. CASE AddWorktree
  BY <1>6 DEF AddWorktree, PairInv, Checkouts, Typed, TypeOK
<1> QED  BY <1>1, <1>2, <1>3, <1>4, <1>5, <1>6 DEF Owner

LEMMA PairInvariant == Spec => []PairInv
<1>1. Typed /\ PairInv /\ [Next]_vars => PairInv'
  <2> SUFFICES ASSUME Typed, PairInv, [Next]_vars
               PROVE  PairInv'
    OBVIOUS
  <2>1. CASE RunStep
    BY <2>1, RunPair
  <2>2. ASSUME NEW k \in Checkouts, NEW s \in BOOLEAN, Run(k, s)
        PROVE  PairInv'
    BY <2>2 DEF Run, Ended, Steps, PairInv
  <2>3. CASE Kill
    BY <2>3 DEF Kill, Steps, PairInv
  <2>4. CASE Owner
    BY <2>4, OwnerPair
  <2>5. CASE UNCHANGED vars
    BY <2>5 DEF vars, PairInv
  <2> QED  BY <2>1, <2>2, <2>3, <2>4, <2>5 DEF Next
<1> QED  BY <1>1, PairInit, Typing, PTL DEF Spec

\* After a run that ended well the floor stands, whatever earlier runs left half
\* done; and a run again, with nothing moved since, changes nothing.
THEOREM Sound == Spec => []RunsSound
<1>1. Typed /\ FloorInv /\ SettleInv /\ PairInv => RunsSound
  <2> SUFFICES ASSUME Typed, FloorInv, SettleInv, PairInv
               PROVE  RunsSound
    OBVIOUS
  <2>1. ASSUME pc = "installed", ~moved
        PROVE  FloorStands
    <3> USE <2>1 DEF FloorInv, Past, AfterToml, AfterKeep, AfterQuarantine, AfterConfig,
            AfterIgnore, AfterStamp, AfterKitPath, AfterHook, AfterPending, AfterLog,
            AfterSettings, AfterCommit, AfterOrient, AfterScheduler
    <3>1. \A f \in Files \ {"latest"} : ~Lacks(Here, f)
      BY DEF Files, Lacks, IgnoreLines
    <3>2. torn \/ Here.latest # Absent
      BY DEF PairInv, Paired, Here, Typed, TypeOK
    <3> QED  BY <3>1, <3>2 DEF FloorStands
  <2>2. FloorStands
    BY <2>1 DEF FloorStands
  <2> QED  BY <2>2 DEF RunsSound, Typed, SettleInv, RerunSettles
<1> QED  BY <1>1, Typing, FloorInvariant, PairInvariant, PTL

-----------------------------------------------------------------------------
\* Until something moves, the projections the run has recorded are those of the
\* ledger.
WrittenInv ==
    pc \in Steps /\ ~moved =>
        /\ "log" \in written => Here.log = Here.ledger
        /\ "index" \in written => /\ "latest" \in written
                                  /\ Here.index = Here.ledger /\ Here.latest = Here.ledger
        /\ pc = "latest" => Here.index = Here.ledger

\* A write of another file than the projections leaves them.
LEMMA WrittenByPut ==
    ASSUME Typed, WrittenInv, pc \in Steps, pc # "latest", pc' # "latest",
           UNCHANGED <<at, moved>>,
           NEW f \in Files \ {"index", "latest"}, NEW v \in Contents[f], Put(f, v),
           f = "log" /\ "log" \in written'
               => v = Here.ledger \/ ("log" \in written /\ v = Here.log),
           written \subseteq written', written' \subseteq written \union {f}
    PROVE  WrittenInv'
<1>1. Changed(f, v)
  BY PutTyped
<1> QED  BY <1>1 DEF Changed, WrittenInv, Here, FileNames, Files

LEMMA RunWritten ==
    ASSUME Typed, WrittenInv, RunStep
    PROVE  WrittenInv'
<1>0. /\ Here \in Trees /\ DOMAIN Here = FileNames
      /\ \A f \in FileNames : Here[f] \in Contents[f]
  BY HereTyped
<1> USE InstallAssumption DEF Files, FileNames, Contents, Quiet, World, Stay, Steps
<1>1. CASE SeedToml
  <2>1. Seeded(Here.toml, DefaultToml) \in Contents["toml"]
    BY <1>0, DefaultTyped DEF Seeded
  <2> QED  BY <1>1, <2>1, WrittenByPut DEF SeedToml, Owns
<1>2. CASE EnsureSkeleton
  <2>1. Seeded(Here.keep, Kit) \in Contents["keep"]
    BY <1>0 DEF Seeded
  <2> QED  BY <1>2, <2>1, WrittenByPut DEF EnsureSkeleton, Owns
<1>3. CASE SeedQuarantine
  <2>1. Seeded(Here.quarantine, Kit) \in Contents["quarantine"]
    BY <1>0 DEF Seeded
  <2> QED  BY <1>3, <2>1, WrittenByPut DEF SeedQuarantine, Owns
<1>4. CASE EnsureGitignore
  <2>1. Covering(Here.ignore) \in Contents["ignore"]
    BY <1>0 DEF Covering, Lines
  <2> QED  BY <1>4, <2>1, WrittenByPut DEF EnsureGitignore, OwnsIfChanged
<1>5. CASE Stamps
  <2>1. Stamped(Here.toml) \in Contents["toml"]
    BY <1>0, <1>5 DEF Stamps, Stamped, Tomls, Typed, TypeOK
  <2> QED  BY <1>5, <2>1, WrittenByPut DEF Stamps
<1>6. CASE Skip \/ Points \/ HooksUp \/ Commits \/ Schedules
  BY <1>6 DEF Skip, Points, HooksUp, Commits, Schedules, WrittenInv, Here
<1>7. CASE Indexes
  <2>1. Here.ledger \in Contents["index"] /\ Here.ledger # Absent
    BY <1>0, <1>7 DEF Indexes, Projected
  <2>2. Changed("index", Here.ledger)
    BY <1>7, <2>1, PutTyped DEF Indexes
  <2> QED  BY <1>7, <2>1, <2>2 DEF Indexes, Changed, WrittenInv, Here
<1>8. CASE BuildLatest
  <2>1. Here.index \in Contents["latest"]
    BY <1>0
  <2>2. Changed("latest", Here.index)
    BY <1>8, <2>1, PutTyped DEF BuildLatest
  <2> QED  BY <1>8, <2>2 DEF BuildLatest, Changed, WrittenInv, Here
<1>9. CASE Logs
  <2> DEFINE v == Seeded(Here.log, Here.ledger)
  <2>1. v \in Contents["log"]
    BY <1>0, <1>9 DEF Logs, Seeded, Projected
  <2>2. "log" \in written' => v = Here.ledger \/ ("log" \in written /\ v = Here.log)
    <3>1. CASE Here.log = Absent
      BY <3>1 DEF Seeded
    <3>2. CASE Here.log # Absent
      <4>1. v = Here.log
        BY <3>2 DEF Seeded
      <4>2. written' = written
        BY <1>9, <3>2 DEF Logs, Owns, Lacks
      <4> QED  BY <4>1, <4>2
    <3> QED  BY <3>1, <3>2
  <2> QED  BY <1>9, <2>1, <2>2, WrittenByPut DEF Logs, Owns
<1>10. CASE Denies
  <2>1. Denying(Here.settings) \in Contents["settings"]
    BY <1>0, <1>10 DEF Denies, Denying, Rules
  <2> QED  BY <1>10, <2>1, WrittenByPut DEF Denies, OwnsIfChanged
<1>11. CASE Orients
  <2>1. Seeded(Here.orient, Kit) \in Contents["orient"]
    BY <1>0 DEF Seeded
  <2> QED  BY <1>11, <2>1, WrittenByPut DEF Orients
<1>12. CASE Fails
  BY <1>12 DEF Fails, Fail, WrittenInv
<1> QED  BY <1>1, <1>2, <1>3, <1>4, <1>5, <1>6, <1>7, <1>8, <1>9, <1>10, <1>11, <1>12,
            StepForms

\* What the first commit would take passes the hook, and git, unless the ledger has
\* events or does not load, or an ignore line of the owner's covers the settings.
LEMMA CommitFits ==
    ASSUME Typed, WrittenInv, pc = "commit", ~moved, head = Absent,
           Here.toml \notin {Absent, Broken}, Here.ledger = "none",
           "settings" \notin Here.ignore
    PROVE  Rels # {} /\ ~Refused(Rels) /\ HookPasses(Snapshot(tree[Main], Rels))
<1> DEFINE c == Snapshot(tree[Main], Rels)
<1>1. at = Main /\ Here = tree[Main]
  BY DEF Typed, Counts, Here
<1>2. tree[Main] \in Trees
  BY <1>1, HereTyped
<1>3. "toml" \in Rels /\ Rels \subseteq Files \ {"orient"}
  BY <1>1 DEF Rels, Lacks, Typed, Counts, Files
<1>4. ~Refused(Rels)
  <2>1. tree[Main].ignore \subseteq IgnoreLines \union {Own}
    BY <1>1, <1>2 DEF Trees, Lines
  <2> QED  BY <1>3, <2>1, InstallAssumption DEF Refused, IgnoreLines, Files
<1>5. c.toml \notin {Absent, Broken}
  BY <1>1, <1>2, <1>3, SnapshotFacts DEF FileNames, Files
<1>6. c.ledger = "none"
  BY <1>2, <1>3, SnapshotFacts DEF Files
<1>7. c.log \in {Absent, "none"}
  <2>1. CASE "log" \in Rels
    <3>1. tree[Main].log = "none"
      BY <1>1, <2>1 DEF Rels, WrittenInv, Steps
    <3> QED  BY <1>2, <2>1, <3>1, SnapshotFacts DEF FileNames, Files
  <2>2. CASE "log" \notin Rels
    BY <1>2, <2>2, SnapshotFacts DEF FileNames, Files
  <2> QED  BY <2>1, <2>2
<1>8. c.index # Absent => c.index = "none" /\ c.latest = "none"
  <2>1. CASE "index" \in Rels
    <3>1. tree[Main].index = "none" /\ tree[Main].latest = "none" /\ "latest" \in written
      BY <1>1, <2>1 DEF Rels, WrittenInv, Steps
    <3>2. "latest" \in Rels
      BY <3>1, InstallAssumption DEF Rels, Lacks, Ledgers
    <3> QED  BY <1>2, <2>1, <3>1, <3>2, SnapshotFacts DEF FileNames, Files
  <2>2. CASE "index" \notin Rels
    BY <1>2, <2>2, SnapshotFacts DEF FileNames, Files
  <2> QED  BY <2>1, <2>2
<1> QED  BY <1>3, <1>4, <1>5, <1>6, <1>7, <1>8 DEF HookPasses

\* A failing step has a cause to be seen.
LEMMA FailCause ==
    ASSUME Typed, FloorInv, WrittenInv, Fails
    PROVE  FailsForCause'
<1> USE DEF FloorInv, Past, Steps, AfterToml, AfterKeep, AfterQuarantine, AfterConfig,
        AfterIgnore, AfterStamp, AfterKitPath, AfterHook, AfterPending, AfterLog,
        AfterSettings, AfterCommit, AfterOrient, AfterScheduler
<1>1. UNCHANGED <<tree, at, hook, able, overlay, head, kit, skip, moved>>
  BY DEF Fails, Fail, Stay, World
<1> DEFINE Cause ==
             \/ Here.toml # Absent /\ ~Loads
             \/ Here.toml \notin {Absent, Broken} /\ Here.toml.stamp = Odd
             \/ kit = Absent \/ hook = Foreign \/ "findable" \notin able
             \/ overlay # Absent /\ overlay.kit = Odd
             \/ Here.settings = Broken
             \/ Here.ledger = "corrupt"
             \/ overlay # Absent /\ overlay.own = "missing" /\ Here.orient = Absent
             \/ ~skip /\ "tools" \notin able
             \/ /\ head = Absent
                /\ "python" \notin able \/ Here.ledger = "events" \/ "settings" \in Here.ignore
<1>2. Cause => FailsForCause'
  BY <1>1 DEF FailsForCause, Here, Loads, Overlaid
<1>3. moved => FailsForCause'
  BY <1>1 DEF FailsForCause
<1>4. ASSUME ~moved, pc = "commit"
      PROVE  Cause
  <2>1. Here.toml # Absent /\ Here.toml # Broken
    BY <1>4
  <2>2. Here.ledger \in Ledgers
    BY HereTyped DEF FileNames, Contents
  <2>3. /\ head = Absent
        /\ \/ Rels = {} \/ Refused(Rels) \/ Unforeseen
           \/ Blocks(Snapshot(tree[Main], Rels))
    BY <1>4 DEF Fails
  <2>4. hook = Kit /\ overlay # Absent /\ overlay.kit = Kit
    BY <1>4
  <2>5. ~Unforeseen
    BY <2>4, InstallAssumption DEF Unforeseen
  <2>6. CASE "python" \in able /\ Here.ledger = "none" /\ "settings" \notin Here.ignore
    <3>1. Rels # {} /\ ~Refused(Rels) /\ HookPasses(Snapshot(tree[Main], Rels))
      BY <1>4, <2>1, <2>3, <2>6, CommitFits
    <3> QED  BY <2>3, <2>4, <2>5, <2>6, <3>1, InstallAssumption DEF Blocks
  <2> QED  BY <2>2, <2>3, <2>6 DEF Ledgers
<1>5. ASSUME ~moved, pc # "commit"
      PROVE  Cause
  <2>1. (Here.toml # Absent /\ Here.toml # Broken) \/ pc = "config"
    BY <1>5 DEF Fails
  <2>2. pc = "config" => Here.toml # Absent
    BY <1>5
  <2> QED  BY <1>5, <2>1, <2>2 DEF Fails, Overlaid
<1> QED  BY <1>2, <1>3, <1>4, <1>5

\* A run fails only for something in the owner's files or on the machine, never for
\* what an earlier run left behind.
THEOREM Causes == Spec => []FailsForCause
<1>1. Init => WrittenInv /\ FailsForCause
  BY DEF Init, WrittenInv, FailsForCause, Steps
<1>2. Typed /\ WrittenInv /\ [Next]_vars => WrittenInv'
  <2> SUFFICES ASSUME Typed, WrittenInv, [Next]_vars
               PROVE  WrittenInv'
    OBVIOUS
  <2>1. CASE RunStep
    BY <2>1, RunWritten
  <2>2. ASSUME NEW k \in Checkouts, NEW s \in BOOLEAN, Run(k, s)
        PROVE  WrittenInv'
    BY <2>2 DEF Run, WrittenInv
  <2>3. CASE Kill
    BY <2>3 DEF Kill, Steps, WrittenInv
  <2>4. CASE Owner
    <3>1. moved'
      BY <2>4 DEF Owner, KitMoves, OwnerEdits, OwnerHook, OwnerOverlay, OwnerCommits,
         AddWorktree, Move
    <3> QED  BY <3>1 DEF WrittenInv
  <2>5. CASE UNCHANGED vars
    BY <2>5 DEF vars, WrittenInv, Here
  <2> QED  BY <2>1, <2>2, <2>3, <2>4, <2>5 DEF Next
<1>3. Typed /\ FloorInv /\ WrittenInv /\ FailsForCause /\ [Next]_vars => FailsForCause'
  <2> SUFFICES ASSUME Typed, FloorInv, WrittenInv, FailsForCause, [Next]_vars
               PROVE  FailsForCause'
    OBVIOUS
  <2>1. CASE RunStep
    <3>1. CASE Fails
      BY <3>1, FailCause
    <3>2. CASE ~Fails
      <4>1. pc' # "error"
        BY <2>1, <3>2, StepForms DEF SeedToml, EnsureSkeleton, SeedQuarantine,
           EnsureGitignore, BuildLatest, Skip, Stamps, Points, HooksUp, Indexes, Logs,
           Denies, Commits, Orients, Schedules
      <4> QED  BY <4>1 DEF FailsForCause
    <3> QED  BY <3>1, <3>2
  <2>2. CASE (\E k \in Checkouts, s \in BOOLEAN : Run(k, s)) \/ Kill
    BY <2>2 DEF Run, Kill, FailsForCause
  <2>3. CASE Owner
    <3>1. moved'
      BY <2>3 DEF Owner, KitMoves, OwnerEdits, OwnerHook, OwnerOverlay, OwnerCommits,
         AddWorktree, Move
    <3> QED  BY <3>1 DEF FailsForCause
  <2>4. CASE UNCHANGED vars
    BY <2>4 DEF vars, FailsForCause, Here, Loads, Overlaid
  <2> QED  BY <2>1, <2>2, <2>3, <2>4 DEF Next
<1> QED  BY <1>1, <1>2, <1>3, Typing, FloorInvariant, PTL DEF Spec
=============================================================================
