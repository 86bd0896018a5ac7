----------------------------- MODULE DockProofs -----------------------------
(* Theorems about Dock, for any files of the checkouts, any skill directories *)
(* and revisions of the kit, and any sequence of commands, kills and moves of *)
(* the owner:                                                                 *)
(*   SkillsStay  no skill file of the owner's is rewritten,                   *)
(*   Resolved    a checkout resolves to the wiki its manifest names or none,  *)
(*   Hidden      no commit shows what the posture hides,                      *)
(*   Settles     a command that fails changed nothing, nor does one repeated, *)
(*   Agrees      after an install what was generated agrees.                  *)
EXTENDS Dock, TLAPS

FileNames == {"manifest", "overlay", "ignore", "agents", "claude", "plugin", "skill",
              "record", "orient"}
OwnContents == {Edited, Foreign, Outside}

\* The files of a checkout, whose record vouches for renders of the kit alone.
Sound(t) ==
    /\ DOMAIN t = FileNames
    /\ DOMAIN t.skill = Dirs
    /\ t.record \in Vouched \union {Absent, Corrupt}

InstallSteps == {"manifest", "overlay", "posture", "agents", "claude", "hook", "plugin",
                 "record", "skills", "save", "orient", "final"}

\* No record, on disk, in a commit or in the memory of a run, vouches for a content
\* of the owner's.
RecordInv ==
    /\ kit \in Kits /\ moves \in Nat /\ there \subseteq Checkouts
    /\ DOMAIN tree = Checkouts /\ Here \in Checkouts
    /\ \A k \in Checkouts : Sound(tree[k])
    /\ Sound(committed)
    /\ entries \in Vouched /\ updated \in Vouched
    /\ pc \in InstallSteps => read.kit \in Kits

\* A write of one file leaves the others, and the record if it is not the record.
LEMMA PutFacts ==
    ASSUME RecordInv, NEW f \in FileNames \ {"skill"}, NEW v, Put(f, v),
           f = "record" => v \in Vouched
    PROVE  /\ DOMAIN tree' = Checkouts
           /\ \A k \in Checkouts : Sound(tree'[k]) /\ tree'[k].skill = tree[k].skill
<1>1. tree' = [tree EXCEPT ![Here] = [tree[Here] EXCEPT ![f] = v]]
  BY DEF Put
<1>2. DOMAIN tree' = Checkouts
  BY <1>1 DEF RecordInv
<1>3. ASSUME NEW k \in Checkouts
      PROVE  Sound(tree'[k]) /\ tree'[k].skill = tree[k].skill
  <2>1. Sound(tree[k])
    BY DEF RecordInv
  <2>2. CASE k = Here
    <3>1. tree'[k] = [tree[k] EXCEPT ![f] = v]
      BY <1>1, <2>2 DEF RecordInv
    <3>2. DOMAIN tree'[k] = FileNames /\ tree'[k].skill = tree[k].skill
      BY <2>1, <3>1 DEF Sound, FileNames
    <3>3. tree'[k].record \in {tree[k].record} \union {w \in {v} : f = "record"}
      BY <2>1, <3>1 DEF Sound, FileNames
    <3> QED  BY <2>1, <3>2, <3>3 DEF Sound
  <2>3. CASE k # Here
    BY <1>1, <2>1, <2>3 DEF RecordInv
  <2> QED  BY <2>2, <2>3
<1> QED  BY <1>2, <1>3

\* At most one file is written, neither a skill nor the record.
Writes == \/ UNCHANGED tree
          \/ \E f \in FileNames \ {"skill", "record"} : \E v : Put(f, v)

\* Writes of other files leave skills and records.
LEMMA WritesFacts ==
    ASSUME RecordInv, Writes
    PROVE  /\ DOMAIN tree' = Checkouts
           /\ \A k \in Checkouts : Sound(tree'[k]) /\ tree'[k].skill = tree[k].skill
<1>1. CASE UNCHANGED tree
  BY <1>1 DEF RecordInv
<1>2. ASSUME NEW f \in FileNames \ {"skill", "record"}, NEW v, Put(f, v)
      PROVE  /\ DOMAIN tree' = Checkouts
             /\ \A k \in Checkouts : Sound(tree'[k]) /\ tree'[k].skill = tree[k].skill
  BY <1>2, PutFacts
<1> QED  BY <1>1, <1>2 DEF Writes

\* A render replaces what is absent or vouched for, and what it records it wrote.
LEMMA RenderFacts ==
    ASSUME RecordInv, NEW d \in Dirs, RenderSkill(d)
    PROVE  /\ DOMAIN tree' = Checkouts
           /\ \A k \in Checkouts : Sound(tree'[k])
           /\ \A k \in Checkouts, e \in Dirs :
                tree[k].skill[e] \in OwnContents => tree'[k].skill[e] = tree[k].skill[e]
           /\ updated' \in Vouched
<1> DEFINE current == Files.skill[d]
           rendered == Rendered(current, entries[d], read.kit)
<1>1. pc = "skills" /\ read.kit \in Kits /\ entries[d] \in Kits \union {Absent}
  BY DEF RenderSkill, RecordInv, InstallSteps, Vouched
<1>2. tree' = [tree EXCEPT ![Here] =
                 [tree[Here] EXCEPT !["skill"] = [Files.skill EXCEPT ![d] = rendered]]]
  BY DEF RenderSkill, Put
<1>3. current \in OwnContents => rendered = current
  BY <1>1, DockAssumption DEF Rendered, OwnContents
<1>4. updated' \in Vouched
  <2>1. Entry(current, updated[d], read.kit) \in Kits \union {Absent}
    BY <1>1 DEF Entry, RecordInv, Vouched
  <2>2. updated' = [updated EXCEPT ![d] = Entry(current, updated[d], read.kit)]
    BY DEF RenderSkill
  <2> QED  BY <2>1, <2>2 DEF RecordInv, Vouched
<1>5. ASSUME NEW k \in Checkouts
      PROVE  /\ Sound(tree'[k])
             /\ \A e \in Dirs :
                  tree[k].skill[e] \in OwnContents => tree'[k].skill[e] = tree[k].skill[e]
  <2>1. Sound(tree[k])
    BY DEF RecordInv
  <2>2. CASE k = Here
    <3>1. tree'[k] = [tree[k] EXCEPT !["skill"] = [tree[k].skill EXCEPT ![d] = rendered]]
      BY <1>2, <2>2 DEF RecordInv, Files
    <3>2. /\ DOMAIN tree'[k] = FileNames /\ tree'[k].record = tree[k].record
          /\ tree'[k].skill = [tree[k].skill EXCEPT ![d] = rendered]
      BY <2>1, <3>1 DEF Sound, FileNames
    <3>3. DOMAIN tree'[k].skill = Dirs
      BY <2>1, <3>2 DEF Sound
    <3>4. ASSUME NEW e \in Dirs, tree[k].skill[e] \in OwnContents
          PROVE  tree'[k].skill[e] = tree[k].skill[e]
      <4>1. tree'[k].skill[e] = IF e = d THEN rendered ELSE tree[k].skill[e]
        BY <2>1, <3>2 DEF Sound
      <4>2. e = d => tree[k].skill[e] = current
        BY <2>2 DEF Files
      <4> QED  BY <1>3, <3>4, <4>1, <4>2
    <3> QED  BY <2>1, <3>2, <3>3, <3>4 DEF Sound
  <2>3. CASE k # Here
    <3>1. tree'[k] = tree[k]
      BY <1>2, <2>3 DEF RecordInv
    <3> QED  BY <2>1, <3>1
  <2> QED  BY <2>2, <2>3
<1>6. DOMAIN tree' = Checkouts
  BY <1>2 DEF RecordInv
<1> QED  BY <1>4, <1>5, <1>6

\* A step of a command keeps the records sound and the owner's skills as they are.
LEMMA CommandFacts ==
    ASSUME RecordInv, CommandStep
    PROVE  /\ RecordInv'
           /\ \A k \in Checkouts, d \in Dirs :
                tree[k].skill[d] \in OwnContents => tree'[k].skill[d] = tree[k].skill[d]
<1> USE DEF Bystanders, world, locals
<1>0. ASSUME DOMAIN tree' = Checkouts, \A k \in Checkouts : Sound(tree'[k]),
             entries' \in Vouched, updated' \in Vouched, UNCHANGED <<world, cmd, read>>,
             pc' \in InstallSteps => pc \in InstallSteps
      PROVE  RecordInv'
  BY <1>0 DEF RecordInv, Here
<1>1. entries \in Vouched /\ updated \in Vouched
  BY DEF RecordInv
<1>2. ASSUME UNCHANGED tree
      PROVE  /\ DOMAIN tree' = Checkouts
             /\ \A k \in Checkouts : Sound(tree'[k]) /\ tree'[k].skill = tree[k].skill
  BY <1>2 DEF RecordInv
<1>3. ASSUME Writes, UNCHANGED <<world, locals>>, pc' \in InstallSteps => pc \in InstallSteps
      PROVE  /\ RecordInv'
             /\ \A k \in Checkouts, d \in Dirs :
                  tree[k].skill[d] \in OwnContents => tree'[k].skill[d] = tree[k].skill[d]
  BY <1>0, <1>1, <1>3, WritesFacts
<1>4. CASE \/ WriteManifest \/ WriteOverlay \/ ApplyPosture \/ WriteAgents \/ WriteClaude
           \/ WriteHook \/ WritePlugin \/ WriteOrientation \/ Finish
  <2>1. CASE WriteManifest
    <3>1. Writes
      <4>1. (\E v : Put("manifest", v)) \/ UNCHANGED tree
        BY <2>1 DEF WriteManifest, Fail, files
      <4> QED  BY <4>1 DEF Writes, FileNames
    <3>2. UNCHANGED <<world, locals>> /\ (pc' \in InstallSteps => pc \in InstallSteps)
      BY <2>1 DEF WriteManifest, Fail, InstallSteps
    <3> QED  BY <1>3, <3>1, <3>2
  <2>2. CASE WriteOverlay
    <3>1. Writes
      <4>1. (\E v : Put("overlay", v)) \/ UNCHANGED tree
        BY <2>2 DEF WriteOverlay, files
      <4> QED  BY <4>1 DEF Writes, FileNames
    <3>2. UNCHANGED <<world, locals>> /\ (pc' \in InstallSteps => pc \in InstallSteps)
      BY <2>2 DEF WriteOverlay, InstallSteps
    <3> QED  BY <1>3, <3>1, <3>2
  <2>3. CASE ApplyPosture
    <3>1. Writes
      <4>1. (\E v : Put("ignore", v)) \/ UNCHANGED tree
        BY <2>3 DEF ApplyPosture, files
      <4> QED  BY <4>1 DEF Writes, FileNames
    <3>2. UNCHANGED <<world, locals>> /\ (pc' \in InstallSteps => pc \in InstallSteps)
      BY <2>3 DEF ApplyPosture, InstallSteps
    <3> QED  BY <1>3, <3>1, <3>2
  <2>4. CASE WriteAgents
    <3>1. Writes
      <4>1. (\E v : Put("agents", v)) \/ UNCHANGED tree
        BY <2>4 DEF WriteAgents, Fail, files
      <4> QED  BY <4>1 DEF Writes, FileNames
    <3>2. UNCHANGED <<world, locals>> /\ (pc' \in InstallSteps => pc \in InstallSteps)
      BY <2>4 DEF WriteAgents, Fail, InstallSteps
    <3> QED  BY <1>3, <3>1, <3>2
  <2>5. CASE WriteClaude
    <3>1. Writes
      <4>1. (\E v : Put("claude", v)) \/ UNCHANGED tree
        BY <2>5 DEF WriteClaude, Fail, files
      <4> QED  BY <4>1 DEF Writes, FileNames
    <3>2. UNCHANGED <<world, locals>> /\ (pc' \in InstallSteps => pc \in InstallSteps)
      BY <2>5 DEF WriteClaude, Fail, InstallSteps
    <3> QED  BY <1>3, <3>1, <3>2
  <2>6. CASE WriteHook
    BY <1>3, <2>6 DEF WriteHook, Writes, Fail, files, InstallSteps
  <2>7. CASE WritePlugin
    <3>1. Writes
      <4>1. (\E v : Put("plugin", v)) \/ UNCHANGED tree
        BY <2>7 DEF WritePlugin, files
      <4> QED  BY <4>1 DEF Writes, FileNames
    <3>2. UNCHANGED <<world, locals>> /\ (pc' \in InstallSteps => pc \in InstallSteps)
      BY <2>7 DEF WritePlugin, InstallSteps
    <3> QED  BY <1>3, <3>1, <3>2
  <2>8. CASE WriteOrientation
    <3>1. Writes
      <4>1. (\E v : Put("orient", v)) \/ UNCHANGED tree
        BY <2>8 DEF WriteOrientation, Fail, files
      <4> QED  BY <4>1 DEF Writes, FileNames
    <3>2. UNCHANGED <<world, locals>> /\ (pc' \in InstallSteps => pc \in InstallSteps)
      BY <2>8 DEF WriteOrientation, Fail, InstallSteps
    <3> QED  BY <1>3, <3>1, <3>2
  <2>9. CASE Finish
    BY <1>3, <2>9 DEF Finish, Writes, Fail, files, InstallSteps
  <2> QED  BY <1>4, <2>1, <2>2, <2>3, <2>4, <2>5, <2>6, <2>7, <2>8, <2>9
<1>5. CASE Relink \/ Reorient
  <2>1. CASE Relink
    <3>1. Writes
      <4>1. (\E v : Put("overlay", v)) \/ UNCHANGED tree
        BY <2>1 DEF Relink, files
      <4> QED  BY <4>1 DEF Writes, FileNames
    <3>2. UNCHANGED <<world, locals>> /\ (pc' \in InstallSteps => pc \in InstallSteps)
      BY <2>1 DEF Relink, InstallSteps
    <3> QED  BY <1>3, <3>1, <3>2
  <2>2. CASE Reorient
    <3>1. Writes
      <4>1. (\E v : Put("orient", v)) \/ UNCHANGED tree
        BY <2>2 DEF Reorient, files
      <4> QED  BY <4>1 DEF Writes, FileNames
    <3>2. UNCHANGED <<world, locals>> /\ (pc' \in InstallSteps => pc \in InstallSteps)
      BY <2>2 DEF Reorient, InstallSteps
    <3> QED  BY <1>3, <3>1, <3>2
  <2> QED  BY <1>5, <2>1, <2>2
<1>6. CASE LoadRecord
  <2>1. Loaded(Files.record) \in Vouched
    <3>1. NoRenders \in Vouched
      BY DEF NoRenders, Vouched
    <3>2. ASSUME NEW k \in Checkouts
          PROVE  Loaded(tree[k].record) \in Vouched
      <4>1. tree[k].record \in Vouched \union {Absent, Corrupt}
        BY DEF RecordInv, Sound
      <4> QED  BY <3>1, <4>1, DockAssumption DEF Loaded
    <3> QED  BY <3>2 DEF Files, RecordInv
  <2>2. /\ entries' = Loaded(Files.record) /\ updated' = Loaded(Files.record)
        /\ UNCHANGED <<world, tree, cmd, read>> /\ pc \in InstallSteps
    BY <1>6 DEF LoadRecord, Carried, files, InstallSteps
  <2> QED  BY <1>0, <1>2, <2>1, <2>2
<1>7. ASSUME NEW d \in Dirs, RenderSkill(d)
      PROVE  /\ RecordInv'
             /\ \A k \in Checkouts, e \in Dirs :
                  tree[k].skill[e] \in OwnContents => tree'[k].skill[e] = tree[k].skill[e]
  <2>1. UNCHANGED <<world, cmd, read, entries, pc>>
    BY <1>7 DEF RenderSkill
  <2> QED  BY <1>0, <1>1, <1>7, <2>1, RenderFacts
<1>8. CASE SaveRecord
  <2>1. /\ UNCHANGED <<world, locals>> /\ pc \in InstallSteps
        /\ Put("record", updated)
    BY <1>8 DEF SaveRecord, InstallSteps
  <2> QED  BY <1>0, <1>1, <2>1, PutFacts DEF FileNames
<1> QED  BY <1>3, <1>4, <1>5, <1>6, <1>7, <1>8 DEF CommandStep

\* A command that begins, or dies, changes no file.
LEMMA BeginFacts ==
    ASSUME RecordInv,
           \/ \E i \in Asks : Install(i)
           \/ \E k \in Checkouts, w \in Wikis :
                 CompleteDock([op |-> "complete", at |-> k, wiki |-> w])
           \/ Kill
    PROVE  RecordInv' /\ UNCHANGED tree
<1>0. NoRenders \in Vouched
  BY DEF NoRenders, Vouched
<1>1. ASSUME NEW i \in Asks, Install(i)
      PROVE  RecordInv' /\ UNCHANGED tree
  <2>1. /\ UNCHANGED <<world, files>> /\ entries' = NoRenders /\ updated' = NoRenders
        /\ pc' = "error" \/ read'.kit = kit
        /\ cmd'.at \in there
    BY <1>1 DEF Install, Begin
  <2> QED  BY <1>0, <2>1 DEF RecordInv, Here, world, files, InstallSteps
<1>2. ASSUME NEW c, CompleteDock(c)
      PROVE  RecordInv' /\ UNCHANGED tree
  <2>1. /\ UNCHANGED <<world, files>> /\ entries' = NoRenders /\ updated' = NoRenders
        /\ pc' \in {"relink", "error"} /\ cmd'.at \in there
    BY <1>2 DEF CompleteDock, Begin
  <2> QED  BY <1>0, <2>1 DEF RecordInv, Here, world, files, InstallSteps
<1>3. CASE Kill
  BY <1>3 DEF Kill, RecordInv, Here, locals, files, InstallSteps
<1> QED  BY <1>1, <1>2, <1>3

\* What the owner does leaves sound records, and counts as a move.
LEMMA OwnerFacts ==
    ASSUME RecordInv, Owner
    PROVE  RecordInv' /\ moves' = moves + 1
<1>1. Move
  <2>1. CASE \/ \E v \in Kits : KitMoves(v)
             \/ \E w \in Wikis : \E c \in Confs : WikiEdited(w, c)
             \/ \E v \in {Absent, Foreign} : OwnerHook(v)
    BY <2>1 DEF KitMoves, WikiEdited, OwnerHook
  <2>2. ASSUME NEW k \in Checkouts, NEW e \in Edits, OwnerEdits(k, e)
        PROVE  Move
    BY <2>2 DEF OwnerEdits
  <2>3. ASSUME NEW k \in Checkouts, NEW e \in SkillEdits, OwnerEditsSkill(k, e[1], e[2])
        PROVE  Move
    BY <2>3 DEF OwnerEditsSkill
  <2>4. CASE OwnerCommits
    BY <2>4 DEF OwnerCommits
  <2>5. CASE AddWorktree \/ Reclone
    BY <2>5 DEF AddWorktree, Reclone
  <2> QED  BY <2>1, <2>2, <2>3, <2>4, <2>5 DEF Owner
<1>2. moves' = moves + 1 /\ UNCHANGED <<cmd, read, todo, entries, updated, pc>>
  BY <1>1 DEF Move, locals
<1>3. ASSUME kit' \in Kits, there' \subseteq Checkouts, DOMAIN tree' = Checkouts,
             \A k \in Checkouts : Sound(tree'[k]), Sound(committed')
      PROVE  RecordInv'
  BY <1>2, <1>3 DEF RecordInv, Here
<1>a. /\ kit \in Kits /\ there \subseteq Checkouts /\ DOMAIN tree = Checkouts
      /\ \A k \in Checkouts : Sound(tree[k])
      /\ Sound(committed)
  BY DEF RecordInv
<1>4. CASE \/ \E v \in Kits : KitMoves(v)
           \/ \E w \in Wikis : \E c \in Confs : WikiEdited(w, c)
           \/ \E v \in {Absent, Foreign} : OwnerHook(v)
  <2>1. kit' \in Kits /\ UNCHANGED <<there, tree, committed>>
    BY <1>a, <1>4 DEF KitMoves, WikiEdited, OwnerHook, files
  <2> QED  BY <1>2, <1>3, <1>a, <2>1
<1>5. ASSUME NEW k \in Checkouts, NEW e \in Edits, OwnerEdits(k, e)
      PROVE  RecordInv'
  <2>1. tree' = [tree EXCEPT ![k] = [tree[k] EXCEPT ![e.file] = e.to]]
    BY <1>5 DEF OwnerEdits
  <2>2. Sound(tree[k])
    BY DEF RecordInv
  <2>3. Sound(tree'[k])
    <3>1. tree'[k] = [tree[k] EXCEPT ![e.file] = e.to]
      BY <2>1 DEF RecordInv
    <3>2. e.file \in FileNames \ {"skill"} /\ (e.file = "record" => e.to \in {Absent, Corrupt})
      BY DockAssumption DEF FileNames, DockFiles, Entries
    <3>3. DOMAIN tree'[k] = FileNames /\ tree'[k].skill = tree[k].skill
      BY <2>2, <3>1, <3>2 DEF Sound, FileNames
    <3>4. tree'[k].record = tree[k].record \/ tree'[k].record \in {Absent, Corrupt}
      BY <2>2, <3>1, <3>2 DEF Sound, FileNames
    <3> QED  BY <2>2, <3>3, <3>4 DEF Sound
  <2> QED  BY <1>3, <1>5, <2>1, <2>3 DEF OwnerEdits, RecordInv
<1>6. ASSUME NEW k \in Checkouts, NEW e \in SkillEdits, OwnerEditsSkill(k, e[1], e[2])
      PROVE  RecordInv'
  <2>1. tree' = [tree EXCEPT ![k] =
                   [tree[k] EXCEPT !["skill"] = [tree[k].skill EXCEPT ![e[1]] = e[2]]]]
    BY <1>6 DEF OwnerEditsSkill
  <2>2. Sound(tree[k])
    BY DEF RecordInv
  <2>3. Sound(tree'[k])
    <3>1. tree'[k] = [tree[k] EXCEPT !["skill"] = [tree[k].skill EXCEPT ![e[1]] = e[2]]]
      BY <2>1 DEF RecordInv
    <3>2. /\ DOMAIN tree'[k] = FileNames /\ tree'[k].record = tree[k].record
          /\ tree'[k].skill = [tree[k].skill EXCEPT ![e[1]] = e[2]]
      BY <2>2, <3>1 DEF Sound, FileNames
    <3> QED  BY <2>2, <3>2 DEF Sound
  <2> QED  BY <1>3, <1>6, <2>1, <2>3 DEF OwnerEditsSkill, RecordInv
<1>7. CASE OwnerCommits
  <2>1. committed' = [f \in DOMAIN tree[Main] |->
                        CASE f = "ignore" -> tree[Main].ignore
                          [] f = "skill" -> [d \in Dirs |-> StagedSkill(d)]
                          [] OTHER -> Staged(f)]
    BY <1>7 DEF OwnerCommits
  <2>2. Sound(tree[Main])
    BY DEF RecordInv, Checkouts
  <2>3. committed'.skill = [d \in Dirs |-> StagedSkill(d)] /\ DOMAIN committed' = FileNames
    BY <2>1, <2>2 DEF Sound, FileNames
  <2>4. committed'.record = Staged("record")
    BY <2>1, <2>2 DEF Sound, FileNames
  <2>5. Sound(committed')
    BY <2>2, <2>3, <2>4 DEF Sound, Staged
  <2>6. UNCHANGED <<kit, there, tree>>
    BY <1>7 DEF OwnerCommits, files
  <2> QED  BY <1>2, <1>3, <1>a, <2>5, <2>6
<1>8. CASE AddWorktree \/ Reclone
  <2>1. Sound(committed) /\ kit' = kit /\ committed' = committed
    BY <1>8 DEF AddWorktree, Reclone, RecordInv
  <2>2. /\ DOMAIN tree' = Checkouts /\ there' \subseteq Checkouts
        /\ \A k \in Checkouts : tree'[k] \in {tree[k], committed}
    BY <1>8 DEF AddWorktree, Reclone, RecordInv, Checkouts
  <2>3. \A k \in Checkouts : Sound(tree'[k])
    BY <2>1, <2>2 DEF RecordInv
  <2> QED  BY <1>2, <1>3, <1>a, <2>1, <2>2, <2>3
<1> QED  BY <1>2, <1>4, <1>5, <1>6, <1>7, <1>8 DEF Owner

-----------------------------------------------------------------------------
\* No repository starts with a record that vouches for the owner's contents.
LEMMA InitRecords ==
    ASSUME Init
    PROVE  RecordInv
<1>1. PICK s \in Starts : /\ committed = s.committed /\ kit = s.kit
                          /\ tree = [k \in Checkouts |-> s.tree]
  BY DEF Init
<1>2. Sound(s.tree) /\ Sound(s.committed) /\ s.kit \in Kits
  BY DockAssumption DEF Sound, Trees, FileNames, Renders
<1>3. NoRenders \in Vouched
  BY DEF NoRenders, Vouched
<1> QED  BY <1>1, <1>2, <1>3 DEF Init, RecordInv, Here, InstallSteps, Checkouts

\* What a record vouches for is the kit's at every moment.
LEMMA RecordInvariant == Spec => []RecordInv
<1>1. RecordInv /\ [Next]_vars => RecordInv'
  <2> SUFFICES ASSUME RecordInv, [Next]_vars
               PROVE  RecordInv'
    OBVIOUS
  <2>1. CASE UNCHANGED vars
    BY <2>1 DEF vars, world, files, locals, RecordInv, Here
  <2> QED  BY <2>1, CommandFacts, BeginFacts, OwnerFacts DEF Next
<1> QED  BY <1>1, InitRecords, PTL DEF Spec

\* No sequence of installs, over any revisions of the kit and with any of them
\* killed, rewrites a skill file the owner edited or supplied (render_skills,
\* _load_render_manifest).
THEOREM SkillsStay == Spec => SkillsKept
<1>1. RecordInv /\ [Next]_vars =>
        [\A k \in there, d \in Dirs :
            tree[k].skill[d] \in {Edited, Foreign, Outside} /\ moves' = moves
               => tree'[k].skill[d] = tree[k].skill[d]]_vars
  <2> SUFFICES ASSUME RecordInv, Next, NEW k \in there, NEW d \in Dirs,
                      tree[k].skill[d] \in OwnContents, moves' = moves
               PROVE  tree'[k].skill[d] = tree[k].skill[d]
    BY DEF OwnContents
  <2>1. k \in Checkouts /\ moves \in Nat
    BY DEF RecordInv
  <2>2. ~Owner
    BY <2>1, OwnerFacts
  <2> QED  BY <2>1, <2>2, CommandFacts, BeginFacts DEF Next
<1> QED  BY <1>1, RecordInvariant, PTL DEF Spec, SkillsKept

-----------------------------------------------------------------------------
\* Types.

Kinds(f) ==
    CASE f = "manifest" -> Manifests \union {Absent}
      [] f = "overlay" -> Wikis \union {Absent}
      [] f = "ignore" -> SUBSET Lines
      [] f \in Entries -> EntryFiles \union {Absent}
      [] f = "plugin" -> Outboxes \union {Absent, Foreign}
      [] f = "skill" -> Renders
      [] f = "record" -> Renders \union {Absent, Corrupt}
      [] f = "orient" -> Orientations \union {Absent}

\* A checkout is typed file by file.
LEMMA TreeByFile ==
    ASSUME NEW t
    PROVE  t \in Trees <=> t = [f \in FileNames |-> t[f]] /\ \A f \in FileNames : t[f] \in Kinds(f)
BY DEF Trees, FileNames, Kinds, Entries

\* A write of one file gives a checkout that differs in that file.
LEMMA TreeWith ==
    ASSUME NEW t \in Trees, NEW f \in FileNames, NEW v \in Kinds(f)
    PROVE  /\ [t EXCEPT ![f] = v] \in Trees
           /\ [t EXCEPT ![f] = v][f] = v
           /\ \A g \in FileNames \ {f} : [t EXCEPT ![f] = v][g] = t[g]
<1> DEFINE u == [t EXCEPT ![f] = v]
<1>1. t = [g \in FileNames |-> t[g]] /\ \A g \in FileNames : t[g] \in Kinds(g)
  BY TreeByFile
<1>2. u[f] = v /\ (\A g \in FileNames \ {f} : u[g] = t[g]) /\ u = [g \in FileNames |-> u[g]]
  BY <1>1
<1>3. \A g \in FileNames : u[g] \in Kinds(g)
  BY <1>1, <1>2
<1>4. u \in Trees
  BY <1>2, <1>3, TreeByFile
<1> QED  BY <1>2, <1>4

\* A command writes one file of its checkout.
LEMMA PutEffect ==
    ASSUME tree \in [Checkouts -> Trees], Here \in Checkouts,
           NEW f \in FileNames, NEW v \in Kinds(f), Put(f, v)
    PROVE  /\ tree' \in [Checkouts -> Trees]
           /\ tree'[Here][f] = v
           /\ \A g \in FileNames \ {f} : tree'[Here][g] = tree[Here][g]
           /\ \A k \in Checkouts \ {Here} : tree'[k] = tree[k]
           /\ wrote' \subseteq wrote \union {f}
           /\ Files[f] = v => wrote' = wrote
<1>1. tree' = [tree EXCEPT ![Here] = [tree[Here] EXCEPT ![f] = v]]
  BY DEF Put
<1>2. tree'[Here] = [tree[Here] EXCEPT ![f] = v] /\ tree[Here] \in Trees
  BY <1>1
<1>3. tree'[Here] \in Trees /\ tree'[Here][f] = v
      /\ \A g \in FileNames \ {f} : tree'[Here][g] = tree[Here][g]
  BY <1>2, TreeWith
<1>4. \A k \in Checkouts \ {Here} : tree'[k] = tree[k]
  BY <1>1
<1>5. tree' = [k \in Checkouts |-> tree'[k]]
  BY <1>1
<1>6. tree' \in [Checkouts -> Trees]
  BY <1>3, <1>4, <1>5
<1> QED  BY <1>3, <1>4, <1>6 DEF Put

AfterOrient == {"final", "installed"}
AfterSkills == AfterOrient \union {"orient"}
AfterPlugin == AfterSkills \union {"record", "skills"}
AfterHook == AfterPlugin \union {"plugin"}
AfterClaude == AfterHook \union {"hook"}
AfterAgents == AfterClaude \union {"claude"}
AfterPosture == AfterAgents \union {"agents"}
AfterOverlay == AfterPosture \union {"posture"}
AfterManifest == AfterOverlay \union {"overlay"}
Installs == AfterManifest \union {"manifest"}

\* What a running command has read, and where it runs.
CommandInv ==
    /\ cmd.at \in Checkouts
    /\ pc \notin Ended => Here \in there
    /\ pc \in Installs =>
          /\ cmd \in Asks /\ read.conf \in Configs /\ read.kit \in Kits
          /\ read.posture \in Postures /\ read.docs \in Outboxes \union {Absent}
          /\ "agents" \in read.shims
          /\ read.shims \subseteq Entries
    /\ pc \in {"relink", "reorient"} => cmd.wiki \in Wikis /\ read.orient \in Orientations
    /\ pc \in {"hook", "plugin"} => read.docs # Absent
    /\ pc \in {"record", "skills"} => cmd.dirs # {}
    /\ pc = "skills" => todo \subseteq cmd.dirs

\* What a command writes is of the file's kind.
LEMMA CommandKinds ==
    ASSUME TypeOK, CommandInv
    PROVE  /\ pc \in Installs =>
                /\ cmd.wiki \in Wikis /\ cmd.dirs \subseteq Dirs
                /\ ManifestOf(cmd, read.conf.name) \in Manifests
                /\ \A e \in EntryFiles \union {Absent} :
                      /\ Blocked(e, read.conf.name) \in EntryFiles
                      /\ Shimmed(e, read.conf.name) \in EntryFiles
                /\ PostureLines(read.posture, read.docs # Absent, cmd.dirs, read.shims) \subseteq Lines
                /\ \A at : OrientationOf(cmd.wiki, ManifestOf(cmd, read.conf.name), at, kit)
                              \in Orientations
<1> SUFFICES ASSUME pc \in Installs
             PROVE  /\ cmd.wiki \in Wikis /\ cmd.dirs \subseteq Dirs
                    /\ ManifestOf(cmd, read.conf.name) \in Manifests
                    /\ \A e \in EntryFiles \union {Absent} :
                          /\ Blocked(e, read.conf.name) \in EntryFiles
                          /\ Shimmed(e, read.conf.name) \in EntryFiles
                    /\ PostureLines(read.posture, read.docs # Absent, cmd.dirs, read.shims) \subseteq Lines
                    /\ \A at : OrientationOf(cmd.wiki, ManifestOf(cmd, read.conf.name), at, kit)
                                  \in Orientations
  OBVIOUS
<1>1. /\ cmd \in Asks /\ read.conf \in Configs /\ kit \in Kits
      /\ read.shims \subseteq Entries
  BY DEF CommandInv, TypeOK
<1>2. cmd.wiki \in Wikis /\ cmd.companion \in Companions /\ cmd.dirs \subseteq Dirs
  BY <1>1, DockAssumption
<1>3. read.conf.name \in Names
  BY <1>1 DEF Configs
<1>4. ManifestOf(cmd, read.conf.name) \in Manifests
  BY <1>2, <1>3 DEF ManifestOf, Manifests
<1>5. \A e \in EntryFiles \union {Absent} : Blocked(e, read.conf.name) \in EntryFiles
  BY <1>3 DEF Blocked, EntryFiles
<1>6. ASSUME NEW e \in EntryFiles \union {Absent}
      PROVE  Shimmed(e, read.conf.name) \in EntryFiles
  <2>1. [text |-> "shim", block |-> Absent] \in EntryFiles
    BY DEF EntryFiles
  <2>2. Blocked(e, read.conf.name) \in EntryFiles
    BY <1>5
  <2>3. CASE e = Absent
    BY <2>1, <2>3 DEF Shimmed, Points
  <2>4. CASE e # Absent /\ Points(e)
    BY <2>4 DEF Shimmed
  <2>5. CASE e # Absent /\ ~Points(e)
    BY <2>2, <2>5 DEF Shimmed
  <2> QED  BY <2>3, <2>4, <2>5
<1>7. PostureLines(read.posture, read.docs # Absent, cmd.dirs, read.shims) \subseteq Lines
  BY <1>1, <1>2 DEF PostureLines, Lines
<1>8. ASSUME NEW at
      PROVE  OrientationOf(cmd.wiki, ManifestOf(cmd, read.conf.name), at, kit) \in Orientations
  BY <1>1, <1>2, <1>3 DEF OrientationOf, ManifestOf, Orientations, recorded_skill_renders
<1> QED  BY <1>2, <1>4, <1>5, <1>6, <1>7, <1>8

Typed == TypeOK /\ RecordInv /\ CommandInv

\* A file of the checkout is written at its own steps only.
StepsOf(f) ==
    CASE f = "overlay" -> {"overlay", "relink"}
      [] f = "ignore" -> {"posture"}
      [] f \in {"skill", "record"} -> {"skills"}
      [] f = "orient" -> {"orient", "reorient"}
      [] OTHER -> {f}

\* What a step may do to the files, and the ghost of what was written.
FileFrame ==
    /\ tree' \in [Checkouts -> Trees]
    /\ \A k \in Checkouts \ {Here} : tree'[k] = tree[k]
    /\ \A f \in FileNames : pc \notin StepsOf(f) => tree'[Here][f] = tree[Here][f]
    /\ wrote' \subseteq FileNames \union {"exclude", "hook"}
    /\ (\A f \in FileNames : tree'[Here][f] = tree[Here][f]) /\ exclude' = exclude /\ hook' = hook
          => wrote' = wrote

\* A write at the step of its file keeps the frame.
LEMMA FrameOfPut ==
    ASSUME Typed, NEW f \in FileNames, NEW v \in Kinds(f), Put(f, v), pc \in StepsOf(f)
    PROVE  FileFrame /\ tree'[Here][f] = v /\ \A g \in FileNames \ {f} : tree'[Here][g] = tree[Here][g]
<1>1. /\ tree \in [Checkouts -> Trees] /\ Here \in Checkouts
      /\ wrote \subseteq FileNames \union {"exclude", "hook"}
  <2>1. tree \in [Checkouts -> Trees] /\ Main \in Checkouts
        /\ wrote \subseteq DOMAIN tree[Main] \union {"exclude", "hook"}
    BY DEF Typed, TypeOK, Checkouts
  <2>2. DOMAIN tree[Main] = FileNames
    BY <2>1 DEF Trees, FileNames
  <2> QED  BY <2>1, <2>2 DEF Typed, CommandInv, Here
<1>2. /\ tree' \in [Checkouts -> Trees]
      /\ tree'[Here][f] = v
      /\ \A g \in FileNames \ {f} : tree'[Here][g] = tree[Here][g]
      /\ \A k \in Checkouts \ {Here} : tree'[k] = tree[k]
      /\ wrote' \subseteq wrote \union {f}
      /\ Files[f] = v => wrote' = wrote
  BY <1>1, PutEffect
<1> QED  BY <1>1, <1>2 DEF FileFrame, Files

\* So does a step that writes no file of a checkout.
LEMMA FrameOfNone ==
    ASSUME Typed, UNCHANGED tree, \/ wrote' = wrote
                                  \/ wrote' = wrote \union {"exclude"} /\ exclude' # exclude
                                  \/ wrote' = wrote \union {"hook"} /\ hook' # hook
    PROVE  FileFrame
<1>1. tree \in [Checkouts -> Trees] /\ Main \in Checkouts
      /\ wrote \subseteq DOMAIN tree[Main] \union {"exclude", "hook"}
  BY DEF Typed, TypeOK, Checkouts
<1>2. DOMAIN tree[Main] = FileNames
  BY <1>1 DEF Trees, FileNames
<1> QED  BY <1>1, <1>2 DEF FileFrame

Planned == PostureLines(read.posture, read.docs # Absent, cmd.dirs, read.shims)

\* What the steps of a command do, and what they leave alone.
Frame ==
    /\ FileFrame
    /\ UNCHANGED <<world, cmd, read, moved, exposed, open, before, loose, again>>
    /\ pc \notin Ended
    /\ pc # "hook" => hook' = hook
    /\ pc # "posture" => exclude' = exclude
    /\ pc \notin {"record", "skills"} => UNCHANGED <<todo, entries, updated>>
    /\ pc' = "error" => UNCHANGED <<files, wrote>>

\* Where each step goes and what it leaves in the file it writes.
Advance ==
    \/ /\ pc = "manifest" /\ SlotFree(Here, ManifestOf(cmd, read.conf.name))
       /\ pc' = "overlay" /\ tree'[Here]["manifest"] = ManifestOf(cmd, read.conf.name)
    \/ /\ pc = "manifest" /\ ~SlotFree(Here, ManifestOf(cmd, read.conf.name))
       /\ pc' = "error"
    \/ pc = "overlay" /\ pc' = "posture" /\ tree'[Here]["overlay"] = cmd.wiki
    \/ /\ pc = "posture" /\ pc' = "agents"
       /\ IF read.posture = "invisible"
          THEN exclude' = exclude \union Planned /\ tree'[Here]["ignore"] = tree[Here]["ignore"]
          ELSE tree'[Here]["ignore"] = tree[Here]["ignore"] \union Planned /\ exclude' = exclude
    \/ /\ pc = "agents" /\ pc' = "claude" /\ WellMarked(Files["agents"])
       /\ tree'[Here]["agents"] = Blocked(Files["agents"], read.conf.name)
    \/ pc = "agents" /\ pc' = "error" /\ ~WellMarked(Files["agents"])
    \/ /\ pc = "claude"
       /\ pc' = IF read.docs # Absent THEN "hook" ELSE IF cmd.dirs # {} THEN "record" ELSE "orient"
       /\ tree'[Here]["claude"] = Shimmed(Files["claude"], read.conf.name)
    \/ /\ pc = "claude" /\ pc' = "error"
       /\ ~(Points(Files["claude"]) \/ WellMarked(Files["claude"]))
    \/ pc = "hook" /\ pc' = "plugin" /\ hook' = [wiki |-> cmd.wiki, docs |-> read.docs]
    \/ pc = "hook" /\ pc' = "error" /\ ~HookFree
    \/ /\ pc = "plugin" /\ pc' = IF cmd.dirs # {} THEN "record" ELSE "orient"
       /\ tree'[Here]["plugin"] = Replugged(Files["plugin"], read.docs)
    \/ /\ pc = "record" /\ pc' = "skills" /\ UNCHANGED <<files, wrote>>
       /\ entries' = Loaded(Files["record"]) /\ updated' = Loaded(Files["record"])
       /\ todo' = cmd.dirs
    \/ \E d \in todo :
          /\ pc = "skills" /\ pc' = "skills" /\ todo' = todo \ {d} /\ UNCHANGED entries
          /\ tree'[Here]["skill"] =
                [Files["skill"] EXCEPT ![d] = Rendered(Files["skill"][d], entries[d], read.kit)]
          /\ tree'[Here]["record"] = tree[Here]["record"]
          /\ updated' = [updated EXCEPT ![d] = Entry(Files["skill"][d], @, read.kit)]
    \/ /\ pc = "skills" /\ todo = {} /\ pc' = "orient" /\ UNCHANGED <<todo, entries, updated>>
       /\ tree'[Here]["record"] = updated
       /\ tree'[Here]["skill"] = tree[Here]["skill"]
    \/ pc = "orient" /\ pc' = "error" /\ kit \in BrokenKits
    \/ /\ pc = "orient" /\ pc' = "final"
       /\ tree'[Here]["orient"] =
             OrientationOf(cmd.wiki, ManifestOf(cmd, read.conf.name), Here, kit)
    \/ /\ pc = "final" /\ UNCHANGED <<files, wrote>>
       /\ pc' = IF Files["manifest"] # Absent /\ Identifies(Files["manifest"], cmd.wiki)
                THEN "installed" ELSE "error"
    \/ pc = "relink" /\ pc' = "reorient" /\ tree'[Here]["overlay"] = cmd.wiki
    \/ pc = "reorient" /\ pc' = "completed" /\ tree'[Here]["orient"] = read.orient

\* Every step of a command has this form: the one lemma that opens the actions.
LEMMA CommandFrame ==
    ASSUME Typed, CommandStep
    PROVE  Frame /\ Advance
<1> DEFINE m == ManifestOf(cmd, read.conf.name)
<1> USE DEF Bystanders, locals, ghosts, Installs, AfterManifest, AfterOverlay, AfterPosture,
        AfterAgents, AfterClaude, AfterHook, AfterPlugin, AfterSkills, AfterOrient, Ended
<1>0. /\ tree \in [Checkouts -> Trees] /\ Here \in Checkouts /\ TypeOK /\ CommandInv /\ RecordInv
      /\ Files["agents"] \in EntryFiles \union {Absent}
      /\ Files["claude"] \in EntryFiles \union {Absent}
      /\ Files["plugin"] \in Outboxes \union {Absent, Foreign}
      /\ Files["ignore"] \subseteq Lines
      /\ Files["skill"] \in Renders
  BY DEF Typed, TypeOK, CommandInv, Here, Files, Trees
<1>1. CASE WriteManifest
  <2>1. CASE SlotFree(Here, m)
    <3>1. pc = "manifest" /\ pc' = "overlay" /\ Put("manifest", m) /\ UNCHANGED <<exclude, hook>>
      BY <1>1, <2>1 DEF WriteManifest
    <3>2. m \in Kinds("manifest") /\ "manifest" \in FileNames /\ pc \in StepsOf("manifest")
      BY <1>0, <3>1, CommandKinds DEF Kinds, FileNames, StepsOf, Entries
    <3>3. FileFrame /\ tree'[Here]["manifest"] = m
      BY <3>1, <3>2, FrameOfPut
    <3> QED  BY <1>1, <2>1, <3>1, <3>3 DEF WriteManifest, Frame, Advance
  <2>2. CASE ~SlotFree(Here, m)
    <3>1. UNCHANGED <<files, wrote>> /\ pc = "manifest" /\ pc' = "error"
      BY <1>1, <2>2 DEF WriteManifest, Fail
    <3>2. FileFrame
      BY <3>1, FrameOfNone DEF files
    <3> QED  BY <1>1, <2>2, <3>1, <3>2 DEF WriteManifest, Frame, Advance, files
  <2> QED  BY <2>1, <2>2
<1>2. CASE WriteOverlay
  <2>1. pc = "overlay" /\ Put("overlay", cmd.wiki) /\ pc' = "posture"
    BY <1>2 DEF WriteOverlay
  <2>2. cmd.wiki \in Kinds("overlay") /\ "overlay" \in FileNames /\ pc \in StepsOf("overlay")
    BY <1>0, <2>1, CommandKinds DEF Kinds, FileNames, StepsOf, Entries
  <2>3. FileFrame /\ tree'[Here]["overlay"] = cmd.wiki
    BY <2>1, <2>2, FrameOfPut
  <2> QED  BY <1>2, <2>1, <2>3 DEF WriteOverlay, Frame, Advance
<1>3. CASE ApplyPosture
  <2>0. pc = "posture" /\ pc' = "agents" /\ Planned \subseteq Lines /\ hook' = hook
    BY <1>0, <1>3, CommandKinds DEF ApplyPosture, Planned
  <2>1. CASE read.posture = "invisible"
    <3>1. /\ exclude' = exclude \union Planned /\ UNCHANGED tree
          /\ wrote' = IF Planned \subseteq exclude THEN wrote ELSE wrote \union {"exclude"}
      BY <1>3, <2>1 DEF ApplyPosture, Planned
    <3>2. FileFrame
      BY <3>1, FrameOfNone
    <3> QED  BY <1>3, <2>0, <2>1, <3>1, <3>2 DEF ApplyPosture, Frame, Advance
  <2>2. CASE read.posture # "invisible"
    <3>1. Put("ignore", Files["ignore"] \union Planned) /\ UNCHANGED exclude
      BY <1>3, <2>2 DEF ApplyPosture, Planned
    <3>2. /\ Files["ignore"] \union Planned \in Kinds("ignore") /\ "ignore" \in FileNames
          /\ pc \in StepsOf("ignore")
      BY <1>0, <2>0 DEF Kinds, FileNames, StepsOf, Entries
    <3>3. FileFrame /\ tree'[Here]["ignore"] = Files["ignore"] \union Planned
      BY <3>1, <3>2, FrameOfPut
    <3> QED  BY <1>3, <2>0, <2>2, <3>1, <3>3 DEF ApplyPosture, Frame, Advance, Files
  <2> QED  BY <2>1, <2>2
<1>4. CASE WriteAgents
  <2>1. CASE WellMarked(Files["agents"])
    <3>1. /\ pc = "agents" /\ pc' = "claude" /\ UNCHANGED <<exclude, hook>>
          /\ Put("agents", Blocked(Files["agents"], read.conf.name))
      BY <1>4, <2>1 DEF WriteAgents
    <3>2. /\ Blocked(Files["agents"], read.conf.name) \in Kinds("agents")
          /\ "agents" \in FileNames /\ pc \in StepsOf("agents")
      BY <1>0, <3>1, CommandKinds DEF Kinds, FileNames, StepsOf, Entries
    <3>3. FileFrame /\ tree'[Here]["agents"] = Blocked(Files["agents"], read.conf.name)
      BY <3>1, <3>2, FrameOfPut
    <3> QED  BY <1>4, <2>1, <3>1, <3>3 DEF WriteAgents, Frame, Advance
  <2>2. CASE ~WellMarked(Files["agents"])
    <3>1. UNCHANGED <<files, wrote>> /\ pc = "agents" /\ pc' = "error"
      BY <1>4, <2>2 DEF WriteAgents, Fail
    <3>2. FileFrame
      BY <3>1, FrameOfNone DEF files
    <3> QED  BY <1>4, <2>2, <3>1, <3>2 DEF WriteAgents, Frame, Advance, files
  <2> QED  BY <2>1, <2>2
<1>5. CASE WriteClaude
  <2>1. CASE Points(Files["claude"]) \/ WellMarked(Files["claude"])
    <3>1. /\ pc = "claude" /\ UNCHANGED <<exclude, hook>>
          /\ pc' = IF read.docs # Absent THEN "hook"
                   ELSE IF cmd.dirs # {} THEN "record" ELSE "orient"
          /\ Put("claude", Shimmed(Files["claude"], read.conf.name))
      BY <1>5, <2>1 DEF WriteClaude
    <3>2. /\ Shimmed(Files["claude"], read.conf.name) \in Kinds("claude")
          /\ "claude" \in FileNames /\ pc \in StepsOf("claude")
      BY <1>0, <3>1, CommandKinds DEF Kinds, FileNames, StepsOf, Entries
    <3>3. FileFrame /\ tree'[Here]["claude"] = Shimmed(Files["claude"], read.conf.name)
      BY <3>1, <3>2, FrameOfPut
    <3> QED  BY <1>5, <2>1, <3>1, <3>3 DEF WriteClaude, Frame, Advance
  <2>2. CASE ~(Points(Files["claude"]) \/ WellMarked(Files["claude"]))
    <3>1. UNCHANGED <<files, wrote>> /\ pc = "claude" /\ pc' = "error"
      BY <1>5, <2>2 DEF WriteClaude, Fail
    <3>2. FileFrame
      BY <3>1, FrameOfNone DEF files
    <3> QED  BY <1>5, <2>2, <3>1, <3>2 DEF WriteClaude, Frame, Advance, files
  <2> QED  BY <2>1, <2>2
<1>6. CASE WriteHook
  <2> DEFINE wrapper == [wiki |-> cmd.wiki, docs |-> read.docs]
  <2>1. CASE HookFree
    <3>1. /\ pc = "hook" /\ pc' = "plugin" /\ UNCHANGED <<tree, exclude>> /\ hook' = wrapper
          /\ wrote' = IF hook = wrapper THEN wrote ELSE wrote \union {"hook"}
      BY <1>6, <2>1 DEF WriteHook
    <3>2. FileFrame
      BY <3>1, FrameOfNone
    <3> QED  BY <1>6, <2>1, <3>1, <3>2 DEF WriteHook, Frame, Advance
  <2>2. CASE ~HookFree
    <3>1. UNCHANGED <<files, wrote>> /\ pc = "hook" /\ pc' = "error"
      BY <1>6, <2>2 DEF WriteHook, Fail
    <3>2. FileFrame
      BY <3>1, FrameOfNone DEF files
    <3> QED  BY <1>6, <2>2, <3>1, <3>2 DEF WriteHook, Frame, Advance, files
  <2> QED  BY <2>1, <2>2
<1>7. CASE WritePlugin
  <2>1. /\ pc = "plugin" /\ Put("plugin", Replugged(Files["plugin"], read.docs))
        /\ pc' = IF cmd.dirs # {} THEN "record" ELSE "orient"
    BY <1>7 DEF WritePlugin
  <2>2. /\ Replugged(Files["plugin"], read.docs) \in Kinds("plugin") /\ "plugin" \in FileNames
        /\ pc \in StepsOf("plugin")
    BY <1>0, <2>1 DEF Kinds, FileNames, StepsOf, Entries, Replugged, CommandInv
  <2>3. FileFrame /\ tree'[Here]["plugin"] = Replugged(Files["plugin"], read.docs)
    BY <2>1, <2>2, FrameOfPut
  <2> QED  BY <1>7, <2>1, <2>3 DEF WritePlugin, Frame, Advance
<1>8. CASE LoadRecord
  <2>1. UNCHANGED <<files, wrote>> /\ pc = "record" /\ pc' = "skills"
    BY <1>8 DEF LoadRecord
  <2>2. FileFrame
    BY <2>1, FrameOfNone DEF files
  <2> QED  BY <1>8, <2>1, <2>2 DEF LoadRecord, Carried, Frame, Advance, files
<1>9. ASSUME NEW d \in Dirs, RenderSkill(d)
      PROVE  Frame /\ Advance
  <2> DEFINE v == [Files["skill"] EXCEPT ![d] = Rendered(Files["skill"][d], entries[d], read.kit)]
  <2>1. pc = "skills" /\ pc' = "skills" /\ Put("skill", v) /\ d \in todo
    BY <1>9 DEF RenderSkill
  <2>2. v \in Kinds("skill") /\ "skill" \in FileNames /\ pc \in StepsOf("skill")
    <3>1. Rendered(Files["skill"][d], entries[d], read.kit) \in Contents \union {Absent}
      BY <1>0, <2>1 DEF Rendered, Renders, Contents, CommandInv
    <3> QED  BY <1>0, <2>1, <3>1 DEF Kinds, FileNames, StepsOf, Entries, Renders
  <2>3. FileFrame /\ tree'[Here]["skill"] = v /\ \A g \in FileNames \ {"skill"} : tree'[Here][g] = tree[Here][g]
    BY <2>1, <2>2, FrameOfPut
  <2>4. tree'[Here]["record"] = tree[Here]["record"]
    BY <2>3 DEF FileNames
  <2> QED  BY <1>9, <2>1, <2>3, <2>4 DEF RenderSkill, Frame, Advance
<1>10. CASE SaveRecord
  <2>1. pc = "skills" /\ todo = {} /\ Put("record", updated) /\ pc' = "orient"
    BY <1>10 DEF SaveRecord
  <2>2. updated \in Kinds("record") /\ "record" \in FileNames /\ pc \in StepsOf("record")
    BY <1>0, <2>1 DEF Kinds, FileNames, StepsOf, Entries, TypeOK
  <2>3. FileFrame /\ tree'[Here]["record"] = updated /\ \A g \in FileNames \ {"record"} : tree'[Here][g] = tree[Here][g]
    BY <2>1, <2>2, FrameOfPut
  <2>4. tree'[Here]["skill"] = tree[Here]["skill"]
    BY <2>3 DEF FileNames
  <2> QED  BY <1>10, <2>1, <2>3, <2>4 DEF SaveRecord, Frame, Advance
<1>11. CASE WriteOrientation
  <2> DEFINE o == OrientationOf(cmd.wiki, m, Here, kit)
  <2>1. CASE kit \notin BrokenKits
    <3>1. pc = "orient" /\ Put("orient", o) /\ pc' = "final" /\ UNCHANGED <<exclude, hook>>
      BY <1>11, <2>1 DEF WriteOrientation
    <3>2. o \in Kinds("orient") /\ "orient" \in FileNames /\ pc \in StepsOf("orient")
      BY <1>0, <3>1, CommandKinds DEF Kinds, FileNames, StepsOf, Entries
    <3>3. FileFrame /\ tree'[Here]["orient"] = o
      BY <3>1, <3>2, FrameOfPut
    <3> QED  BY <1>11, <3>1, <3>3 DEF WriteOrientation, Frame, Advance
  <2>2. CASE kit \in BrokenKits
    <3>1. pc = "orient" /\ pc' = "error" /\ UNCHANGED <<files, wrote>>
      BY <1>11, <2>2 DEF WriteOrientation, Fail
    <3>2. FileFrame
      BY <3>1, FrameOfNone DEF files
    <3> QED  BY <1>11, <2>2, <3>1, <3>2 DEF WriteOrientation, Frame, Advance, files
  <2> QED  BY <2>1, <2>2
<1>12. CASE Finish
  <2>1. UNCHANGED <<files, wrote>> /\ pc = "final"
    BY <1>12 DEF Finish
  <2>2. FileFrame
    BY <2>1, FrameOfNone DEF files
  <2> QED  BY <1>12, <2>1, <2>2 DEF Finish, Frame, Advance, files
<1>13. CASE Relink
  <2>1. pc = "relink" /\ Put("overlay", cmd.wiki) /\ pc' = "reorient"
    BY <1>13 DEF Relink
  <2>2. cmd.wiki \in Kinds("overlay") /\ "overlay" \in FileNames /\ pc \in StepsOf("overlay")
    BY <1>0, <2>1 DEF CommandInv, Kinds, FileNames, StepsOf, Entries
  <2>3. FileFrame /\ tree'[Here]["overlay"] = cmd.wiki
    BY <2>1, <2>2, FrameOfPut
  <2> QED  BY <1>13, <2>1, <2>3 DEF Relink, Frame, Advance
<1>14. CASE Reorient
  <2>1. pc = "reorient" /\ Put("orient", read.orient) /\ pc' = "completed"
    BY <1>14 DEF Reorient
  <2>2. read.orient \in Kinds("orient") /\ "orient" \in FileNames /\ pc \in StepsOf("orient")
    BY <1>0, <2>1 DEF CommandInv, Kinds, FileNames, StepsOf, Entries
  <2>3. FileFrame /\ tree'[Here]["orient"] = read.orient
    BY <2>1, <2>2, FrameOfPut
  <2> QED  BY <1>14, <2>1, <2>3 DEF Reorient, Frame, Advance
<1> QED
  BY <1>1, <1>2, <1>3, <1>4, <1>5, <1>6, <1>7, <1>8, <1>9, <1>10, <1>11, <1>12, <1>13, <1>14
  DEF CommandStep

\* A step of a command keeps the types.
LEMMA TypesOfCommand ==
    ASSUME Typed, CommandStep
    PROVE  Typed'
<1> USE DEF Installs, AfterManifest, AfterOverlay, AfterPosture, AfterAgents, AfterClaude,
        AfterHook, AfterPlugin, AfterSkills, AfterOrient
<1>0. Frame /\ Advance /\ RecordInv' /\ TypeOK /\ CommandInv /\ Here' = Here
  BY CommandFrame, CommandFacts DEF Typed, Frame, Here
<1>1. UNCHANGED <<conf, kit, there, committed, cmd, read>> /\ tree' \in [Checkouts -> Trees]
  BY <1>0 DEF Frame, FileFrame, world
<1>2. exclude' \subseteq Lines /\ hook' \in Hooks
  <2>1. pc \in Installs =>
          /\ Planned \subseteq Lines /\ cmd.wiki \in Wikis
          /\ read.docs \in Outboxes \union {Absent}
    BY <1>0, CommandKinds DEF Planned, CommandInv
  <2>2. pc = "hook" => read.docs \in Outboxes
    BY <1>0, <2>1 DEF CommandInv
  <2>3. exclude \subseteq Lines /\ hook \in Hooks
    BY <1>0 DEF TypeOK
  <2>4. pc = "posture" => exclude' \subseteq exclude \union Planned
    BY <1>0 DEF Advance
  <2>5. pc = "hook" => hook' = hook \/ hook' = [wiki |-> cmd.wiki, docs |-> read.docs]
    BY <1>0 DEF Advance, Frame, files
  <2> QED  BY <1>0, <2>1, <2>2, <2>3, <2>4, <2>5 DEF Frame, Hooks
<1>3. pc' \in Ended \union Steps
  BY <1>0 DEF Advance, Ended, Steps
<1>4. entries' \in Renders /\ updated' \in Renders
  BY <1>0 DEF RecordInv, Vouched, Renders, Contents
<1>5. todo \subseteq Dirs /\ todo' \subseteq Dirs /\ (pc' = "skills" => todo' \subseteq cmd.dirs)
  <2>1. pc \in Installs => cmd.dirs \subseteq Dirs
    BY <1>0, CommandKinds
  <2> QED  BY <1>0, <2>1 DEF Advance, Frame, TypeOK, CommandInv
<1>6. wrote' \subseteq DOMAIN tree'[Main] \union {"exclude", "hook"}
  <2>1. DOMAIN tree'[Main] = FileNames
    BY <1>1 DEF Trees, FileNames, Checkouts
  <2> QED  BY <1>0, <2>1 DEF Frame, FileFrame
<1>7. TypeOK'
  BY <1>0, <1>1, <1>2, <1>3, <1>4, <1>5, <1>6 DEF TypeOK
<1>8. /\ pc' \in Installs => pc \in Installs
      /\ pc' \in {"relink", "reorient"} => pc \in {"relink", "reorient"}
      /\ pc' \notin Ended => pc \notin Ended
      /\ pc' \in {"hook", "plugin"} => read.docs # Absent
      /\ pc' \in {"record", "skills"} => cmd.dirs # {}
  BY <1>0 DEF Advance, Frame, CommandInv, Ended
<1>9. CommandInv'
  BY <1>0, <1>1, <1>5, <1>8 DEF CommandInv
<1> QED  BY <1>0, <1>7, <1>9 DEF Typed

\* What an install reads before its first write.
LEMMA CheckedFacts ==
    ASSUME TypeOK, NEW i \in Asks, Checked(i)
    PROVE  /\ conf[i.wiki] \in Configs /\ Posture(i) \in Postures
           /\ Docs(i) \in Outboxes \union {Absent}
           /\ planned_shim_paths(i.at) \subseteq Entries /\ "agents" \in planned_shim_paths(i.at)
<1>1. /\ i.wiki \in Wikis /\ i.companion \in Companions
      /\ i.posture \in Postures \union {Absent}
  BY DockAssumption
<1>2. conf[i.wiki] \in Configs
  BY <1>1 DEF TypeOK, Checked
<1>3. conf[i.wiki].companions[i.companion] \in Companies
  BY <1>2 DEF Checked, Configs
<1>4. Posture(i) \in Postures /\ Docs(i) \in Outboxes \union {Absent}
  BY <1>1, <1>3 DEF Companies, Posture, Recorded, Docs, Checked, PostureKnown
<1> QED  BY <1>2, <1>4 DEF planned_shim_paths, Entries

\* A command that begins, or dies, keeps the types.
LEMMA TypesOfBegin ==
    ASSUME Typed,
           \/ \E i \in Asks : Install(i)
           \/ \E k \in Checkouts, w \in Wikis :
                 CompleteDock([op |-> "complete", at |-> k, wiki |-> w])
           \/ Kill
    PROVE  Typed'
<1> USE DEF Installs, AfterManifest, AfterOverlay, AfterPosture, AfterAgents, AfterClaude,
        AfterHook, AfterPlugin, AfterSkills, AfterOrient
<1>0. TypeOK /\ CommandInv /\ RecordInv /\ RecordInv' /\ UNCHANGED tree
  BY BeginFacts DEF Typed
<1>1. NoRenders \in Renders
  BY DEF NoRenders, Renders
<1>2. ASSUME NEW c, NEW place \in {"manifest", "relink", "error"}, NEW saw, Begin(c, place, saw)
      PROVE  /\ TypeOK' /\ cmd' = c /\ read' = saw /\ pc' = place
             /\ cmd'.at \in there' /\ cmd'.at \in Checkouts
  <2>1. /\ UNCHANGED <<conf, kit, there, committed, tree, exclude, hook>>
        /\ cmd' = c /\ read' = saw /\ pc' = place /\ c.at \in there
        /\ todo' = {} /\ entries' = NoRenders /\ updated' = NoRenders /\ wrote' = {}
    BY <1>2 DEF Begin, world, files
  <2>2. place \in Ended \union Steps
    BY DEF Ended, Steps
  <2> QED  BY <1>0, <1>1, <2>1, <2>2 DEF TypeOK
<1>3. ASSUME NEW i \in Asks, Install(i)
      PROVE  TypeOK' /\ CommandInv'
  <2>1. CASE Checked(i)
    <3>1. Begin(i, "manifest",
                  [conf |-> conf[i.wiki], kit |-> kit, posture |-> Posture(i),
                   docs |-> Docs(i), shims |-> planned_shim_paths(i.at)])
      BY <1>3, <2>1 DEF Install
    <3>2. /\ conf[i.wiki] \in Configs /\ Posture(i) \in Postures
          /\ Docs(i) \in Outboxes \union {Absent}
          /\ planned_shim_paths(i.at) \subseteq Entries /\ "agents" \in planned_shim_paths(i.at)
      BY <1>0, <2>1, CheckedFacts
    <3>3. TypeOK' /\ cmd' = i /\ pc' = "manifest" /\ cmd'.at \in there' /\ cmd'.at \in Checkouts
      BY <1>2, <3>1
    <3>4. /\ read'.conf = conf[i.wiki] /\ read'.kit = kit /\ read'.posture = Posture(i)
          /\ read'.docs = Docs(i) /\ read'.shims = planned_shim_paths(i.at)
      BY <3>1 DEF Begin
    <3> QED  BY <1>0, <3>2, <3>3, <3>4 DEF CommandInv, Here, TypeOK
  <2>2. CASE ~Checked(i)
    <3>1. TypeOK' /\ pc' = "error" /\ cmd'.at \in Checkouts
      BY <1>2, <1>3, <2>2 DEF Install
    <3> QED  BY <3>1 DEF CommandInv, Ended
  <2> QED  BY <2>1, <2>2
<1>4. ASSUME NEW k \in Checkouts, NEW w \in Wikis,
             CompleteDock([op |-> "complete", at |-> k, wiki |-> w])
      PROVE  TypeOK' /\ CommandInv'
  <2> DEFINE c == [op |-> "complete", at |-> k, wiki |-> w]
             m == tree[k].manifest
             o == OrientationOf(w, m, k, kit)
  <2>1. CASE m # Absent /\ Identifies(m, w) /\ kit \notin BrokenKits
    <3>1. Begin(c, "relink", [orient |-> o])
      BY <1>4, <2>1 DEF CompleteDock
    <3>2. m \in Manifests /\ kit \in Kits
      BY <1>0, <2>1 DEF TypeOK, Trees
    <3>3. o \in Orientations
      BY <3>2 DEF OrientationOf, Orientations, Manifests, recorded_skill_renders
    <3>4. TypeOK' /\ cmd' = c /\ read' = [orient |-> o] /\ pc' = "relink"
          /\ cmd'.at \in there' /\ cmd'.at \in Checkouts
      BY <1>2, <3>1
    <3> QED  BY <3>3, <3>4 DEF CommandInv, Here
  <2>2. CASE ~(m # Absent /\ Identifies(m, w) /\ kit \notin BrokenKits)
    <3>1. Begin(c, "error", read)
      BY <1>4, <2>2 DEF CompleteDock
    <3>2. TypeOK' /\ pc' = "error" /\ cmd'.at \in Checkouts
      BY <1>2, <3>1
    <3> QED  BY <3>2 DEF CommandInv, Ended
  <2> QED  BY <2>1, <2>2
<1>5. CASE Kill
  <2>1. /\ pc' = "killed" /\ cmd' = cmd
        /\ UNCHANGED <<conf, kit, there, committed, tree, exclude, hook, todo, entries, updated, wrote>>
    BY <1>5 DEF Kill, files, locals
  <2>2. pc' \in Ended \union Steps
    BY <2>1 DEF Ended
  <2>3. TypeOK'
    BY <1>0, <2>1, <2>2 DEF TypeOK
  <2>4. CommandInv'
    BY <1>0, <2>1 DEF CommandInv, Ended
  <2> QED  BY <1>0, <2>3, <2>4 DEF Typed
<1> QED  BY <1>0, <1>3, <1>4, <1>5 DEF Typed

\* What the owner's steps do to the files.
OwnerEffect ==
    \/ UNCHANGED <<tree, committed, exclude, there>>
    \/ \E k \in there : \E e \in Edits :
          /\ tree' = [tree EXCEPT ![k] = [tree[k] EXCEPT ![e.file] = e.to]]
          /\ e.file \in DockFiles => tree[k][e.file] # Absent
          /\ exposed' = (exposed \/ (e.file = "claude" /\ pc \notin Ended))
          /\ loose' = IF e.file = "record" THEN loose \union ({k} \X Dirs) ELSE loose
          /\ UNCHANGED <<committed, exclude, there>>
    \/ \E k \in there : \E e \in SkillEdits :
          /\ tree' = [tree EXCEPT ![k] =
                        [tree[k] EXCEPT !["skill"] = [tree[k]["skill"] EXCEPT ![e[1]] = e[2]]]]
          /\ UNCHANGED <<committed, exclude, there>>
    \/ /\ committed' = [f \in FileNames |->
                          CASE f = "ignore" -> tree[Main]["ignore"]
                            [] f = "skill" -> [d \in Dirs |-> StagedSkill(d)]
                            [] OTHER -> Staged(f)]
       /\ exposed' = (exposed \/ InWindow)
       /\ before' = before \union Plain(committed')
       /\ UNCHANGED <<tree, exclude, there>>
    \/ /\ Linked \notin there /\ there' = Checkouts
       /\ tree' = [tree EXCEPT ![Linked] = committed]
       /\ UNCHANGED <<committed, exclude>>
    \/ /\ pc \in Ended
       /\ there' = {Main} /\ tree' = [k \in Checkouts |-> committed] /\ exclude' = {}
       /\ UNCHANGED committed

\* Every step of the owner has one of these effects.
LEMMA OwnerSteps ==
    ASSUME TypeOK, Owner
    PROVE  /\ OwnerEffect /\ Move
           /\ conf' \in [Wikis -> Configs \union {Gone}] /\ kit' \in Kits /\ hook' \in Hooks
           /\ exposed => exposed'
           /\ before \subseteq before' /\ (committed' = committed => before' = before)
           /\ loose \subseteq loose'
<1> USE DEF TypeOK
<1>1. ASSUME NEW v \in Kits, KitMoves(v)
      PROVE  /\ OwnerEffect /\ Move
             /\ conf' \in [Wikis -> Configs \union {Gone}] /\ kit' \in Kits /\ hook' \in Hooks
             /\ exposed' = exposed /\ before' = before /\ loose' = loose
  BY <1>1 DEF KitMoves, OwnerEffect, files
<1>2. ASSUME NEW w \in Wikis, NEW c \in Confs, WikiEdited(w, c)
      PROVE  /\ OwnerEffect /\ Move
             /\ conf' \in [Wikis -> Configs \union {Gone}] /\ kit' \in Kits /\ hook' \in Hooks
             /\ exposed' = exposed /\ before' = before /\ loose' = loose
  BY <1>2, DockAssumption DEF WikiEdited, OwnerEffect, files
<1>3. ASSUME NEW k \in Checkouts, NEW e \in Edits, OwnerEdits(k, e)
      PROVE  /\ OwnerEffect /\ Move /\ UNCHANGED <<conf, kit, hook, before>>
             /\ exposed => exposed'
             /\ loose \subseteq loose'
  <2>1. /\ k \in there /\ UNCHANGED <<conf, kit, hook, before, committed, exclude, there>> /\ Move
        /\ tree' = [tree EXCEPT ![k] = [tree[k] EXCEPT ![e.file] = e.to]]
        /\ e.file \in DockFiles => tree[k][e.file] # Absent
        /\ exposed' = (exposed \/ (e.file = "claude" /\ pc \notin Ended))
        /\ loose' = IF e.file = "record" THEN loose \union ({k} \X Dirs) ELSE loose
    BY <1>3 DEF OwnerEdits
  <2>2. OwnerEffect
    BY <2>1 DEF OwnerEffect
  <2> QED  BY <2>1, <2>2
<1>4. ASSUME NEW k \in Checkouts, NEW e \in SkillEdits, OwnerEditsSkill(k, e[1], e[2])
      PROVE  /\ OwnerEffect /\ Move /\ UNCHANGED <<conf, kit, hook, exposed, before, loose>>
  <2>1. /\ k \in there /\ Move
        /\ UNCHANGED <<conf, kit, hook, exposed, before, loose, committed, exclude, there>>
        /\ tree' = [tree EXCEPT ![k] =
                      [tree[k] EXCEPT !["skill"] = [tree[k]["skill"] EXCEPT ![e[1]] = e[2]]]]
    BY <1>4 DEF OwnerEditsSkill
  <2>2. OwnerEffect
    BY <2>1 DEF OwnerEffect
  <2> QED  BY <2>1, <2>2
<1>5. ASSUME NEW v \in {Absent, Foreign}, OwnerHook(v)
      PROVE  /\ OwnerEffect /\ Move /\ UNCHANGED <<conf, kit, exposed, before, loose>> /\ hook' \in Hooks
  BY <1>5 DEF OwnerHook, OwnerEffect, Hooks
<1>6. CASE OwnerCommits
  <2>1. DOMAIN tree[Main] = FileNames
    BY DEF Trees, FileNames, Checkouts
  <2>2. OwnerEffect /\ Move /\ UNCHANGED <<conf, kit, hook, loose>>
    BY <1>6, <2>1 DEF OwnerCommits, OwnerEffect, files
  <2>3. /\ exposed' = (exposed \/ InWindow)
        /\ before' = before \union Plain(committed') /\ committed' # committed
    BY <1>6 DEF OwnerCommits
  <2> QED  BY <2>2, <2>3
<1>7. CASE AddWorktree
  BY <1>7 DEF AddWorktree, OwnerEffect
<1>8. CASE Reclone
  BY <1>8 DEF Reclone, OwnerEffect, Hooks
<1> QED  BY <1>1, <1>2, <1>3, <1>4, <1>5, <1>6, <1>7, <1>8 DEF Owner

\* An edit, or a commit, leaves files of their kinds.
LEMMA EditKinds ==
    ASSUME NEW e \in Edits
    PROVE  /\ e.file \in FileNames \ {"ignore", "skill"} /\ e.to \in Kinds(e.file)
           /\ e.file = "plugin" => e.to \notin Outboxes
           /\ e.file \in DockFiles => e.to = Absent \/ e.file = "record"
BY DockAssumption DEF FileNames, Kinds, DockFiles, Entries

\* A step of the owner keeps the types.
LEMMA TypesOfOwner ==
    ASSUME Typed, Owner
    PROVE  Typed'
<1>0. /\ TypeOK /\ CommandInv /\ RecordInv' /\ OwnerEffect /\ Move
      /\ conf' \in [Wikis -> Configs \union {Gone}] /\ kit' \in Kits /\ hook' \in Hooks
  BY OwnerFacts, OwnerSteps DEF Typed
<1>1. UNCHANGED <<pc, cmd, read, todo, entries, updated, wrote>>
  BY <1>0 DEF Move, locals
<1>2. /\ tree \in [Checkouts -> Trees] /\ committed \in Trees /\ there \subseteq Checkouts
      /\ Main \in there /\ Main \in Checkouts /\ exclude \subseteq Lines
  BY <1>0 DEF TypeOK, Checkouts
<1>3. /\ tree' \in [Checkouts -> Trees] /\ committed' \in Trees /\ exclude' \subseteq Lines
      /\ Main \in there' /\ there' \subseteq Checkouts /\ (pc \notin Ended => there \subseteq there')
  <2>1. CASE UNCHANGED <<tree, committed, exclude, there>>
    BY <1>2, <2>1
  <2>2. ASSUME NEW k \in there, NEW e \in Edits,
               tree' = [tree EXCEPT ![k] = [tree[k] EXCEPT ![e.file] = e.to]],
               UNCHANGED <<committed, exclude, there>>
        PROVE  tree' \in [Checkouts -> Trees]
    <3>1. [tree[k] EXCEPT ![e.file] = e.to] \in Trees
      BY <1>2, EditKinds, TreeWith
    <3> QED  BY <1>2, <2>2, <3>1
  <2>3. ASSUME NEW k \in there, NEW e \in SkillEdits,
               tree' = [tree EXCEPT ![k] =
                          [tree[k] EXCEPT !["skill"] = [tree[k]["skill"] EXCEPT ![e[1]] = e[2]]]],
               UNCHANGED <<committed, exclude, there>>
        PROVE  tree' \in [Checkouts -> Trees]
    <3>1. tree[k]["skill"] \in Renders /\ e[1] \in Dirs /\ e[2] \in {Absent, Edited, Foreign, Outside}
      BY <1>2, DockAssumption DEF Trees
    <3>2. [tree[k]["skill"] EXCEPT ![e[1]] = e[2]] \in Kinds("skill")
      BY <3>1 DEF Kinds, Renders, Contents, Entries
    <3>3. [tree[k] EXCEPT !["skill"] = [tree[k]["skill"] EXCEPT ![e[1]] = e[2]]] \in Trees
      BY <1>2, <3>2, TreeWith DEF FileNames
    <3> QED  BY <1>2, <2>3, <3>3
  <2>4. CASE /\ committed' = [f \in FileNames |->
                                CASE f = "ignore" -> tree[Main]["ignore"]
                                  [] f = "skill" -> [d \in Dirs |-> StagedSkill(d)]
                                  [] OTHER -> Staged(f)]
             /\ UNCHANGED <<tree, exclude, there>>
    <3>1. \A f \in FileNames : tree[Main][f] \in Kinds(f)
      BY <1>2, TreeByFile
    <3>2. \A f \in FileNames \ {"ignore", "skill"} : Absent \in Kinds(f)
      BY DEF FileNames, Kinds, Entries
    <3>3. [d \in Dirs |-> StagedSkill(d)] \in Kinds("skill")
      <4>1. tree[Main]["skill"] \in Renders
        BY <1>2 DEF Trees
      <4> QED  BY <4>1 DEF StagedSkill, Kinds, Entries, Renders
    <3>4. \A f \in FileNames \ {"ignore", "skill"} : committed'[f] = Staged(f)
      BY <2>4
    <3>5. /\ committed'["ignore"] = tree[Main]["ignore"]
          /\ committed'["skill"] = [d \in Dirs |-> StagedSkill(d)]
      BY <2>4 DEF FileNames
    <3>6. \A f \in FileNames : committed'[f] \in Kinds(f)
      BY <3>1, <3>2, <3>3, <3>4, <3>5 DEF Staged, FileNames
    <3>7. committed' = [f \in FileNames |-> committed'[f]]
      BY <2>4
    <3>8. committed' \in Trees
      BY <3>6, <3>7, TreeByFile
    <3> QED  BY <1>2, <2>4, <3>8
  <2>5. CASE /\ there' = Checkouts /\ tree' = [tree EXCEPT ![Linked] = committed]
             /\ UNCHANGED <<committed, exclude>>
    BY <1>2, <2>5
  <2>6. CASE /\ pc \in Ended /\ there' = {Main} /\ tree' = [k \in Checkouts |-> committed]
             /\ exclude' = {} /\ UNCHANGED committed
    BY <1>2, <2>6
  <2> QED  BY <1>0, <1>2, <2>1, <2>2, <2>3, <2>4, <2>5, <2>6 DEF OwnerEffect
<1>4. TypeOK'
  <2>1. DOMAIN tree[Main] = FileNames /\ DOMAIN tree'[Main] = FileNames
    BY <1>2, <1>3 DEF Trees, FileNames
  <2> QED  BY <1>0, <1>1, <1>3, <2>1 DEF TypeOK
<1>5. CommandInv'
  BY <1>0, <1>1, <1>3 DEF CommandInv, Here
<1> QED  BY <1>0, <1>4, <1>5 DEF Typed

\* The types, and what a running command has read, at every moment.
LEMMA TypedInvariant == Spec => []Typed
<1>1. Init => Typed
  <2> SUFFICES ASSUME Init  PROVE Typed
    OBVIOUS
  <2>1. PICK s \in Starts : /\ conf = s.conf /\ hook = s.hook /\ committed = s.committed
                            /\ tree = [k \in Checkouts |-> s.tree] /\ kit = s.kit
    BY DEF Init
  <2>2. NoRenders \in Renders /\ "ready" \in Ended
    BY DEF NoRenders, Renders, Ended
  <2>3. TypeOK
    BY <2>1, <2>2, DockAssumption DEF Init, TypeOK, Checkouts
  <2>4. CommandInv
    BY <2>2 DEF Init, CommandInv, Checkouts, Installs, AfterManifest, AfterOverlay, AfterPosture,
       AfterAgents, AfterClaude, AfterHook, AfterPlugin, AfterSkills, AfterOrient
  <2> QED  BY <2>3, <2>4, InitRecords DEF Typed
<1>2. Typed /\ [Next]_vars => Typed'
  <2>1. Typed /\ UNCHANGED vars => Typed'
    BY DEF vars, world, files, locals, Typed, TypeOK, CommandInv, RecordInv, Here
  <2> QED  BY <2>1, TypesOfCommand, TypesOfBegin, TypesOfOwner DEF Next
<1> QED  BY <1>1, <1>2, PTL DEF Spec

\* What the resolver does with the files as they are.
LEMMA ResolvedNow ==
    ASSUME NEW k \in there
    PROVE  LET w == Resolve(k) IN
           /\ w # Absent /\ tree[k].manifest # Absent => Identifies(tree[k].manifest, w)
           /\ Complete(k) => w \in {Absent, tree[k].overlay}
           /\ Status(k) \in {Absent, w}
<1> DEFINE w == Resolve(k)
           m == tree[k].manifest
<1>1. ASSUME NEW v, NEW ms, Verified(v, ms) # Absent
      PROVE  Verified(v, ms) = v /\ \A n \in ms : Identifies(n, v)
  BY <1>1 DEF Verified
<1>2. CASE Complete(k)
  <2>1. w = Verified(tree[k].overlay, {m})
    <3>1. Resolve(k) = FromDock(k, m) /\ m # Absent
      BY <1>2 DEF Resolve, Complete
    <3>2. Binds(k, m) = {m}
      BY DEF Binds
    <3> QED  BY <3>1, <3>2 DEF FromDock
  <2>2. Status(k) = w
    BY <1>2, <2>1 DEF Status
  <2> QED  BY <1>1, <2>1, <2>2
<1>3. CASE ~Complete(k)
  <2>1. Status(k) = Absent
    BY <1>3 DEF Status
  <2>2. ASSUME w # Absent, m # Absent
        PROVE  Identifies(m, w)
    <3>1. HasDock(k)
      BY <2>2 DEF HasDock, DockFiles
    <3>2. k # Main /\ Complete(Main)
      BY <1>3, <2>2, <3>1 DEF Resolve
    <3>3. w = Verified(tree[Main].overlay, Binds(Main, m))
      BY <1>3, <2>2, <3>1, <3>2 DEF Resolve, FromDock
    <3>4. m \in Binds(Main, m)
      BY DEF Binds
    <3> QED  BY <1>1, <2>2, <3>3, <3>4
  <2> QED  BY <1>3, <2>1, <2>2
<1> QED  BY <1>2, <1>3

\* Whatever is installed, killed, edited or cloned, a checkout with a manifest
\* resolves to no wiki but one that carries its name and companion, and status
\* says what the resolver finds (resolve_wiki_root, verify_dock_identity, cmd_status).
THEOREM Resolved == Spec => []ResolvesDocked
<1>1. ResolvesDocked
  BY ResolvedNow DEF ResolvesDocked
<1> QED  BY <1>1, PTL

-----------------------------------------------------------------------------
\* What git is kept from.

Overlaid == {"overlay", "record", "orient"}
Shielding == AfterPosture \ Ended

\* What a command past its ignore lines has covered, and what it relies on before.
CoverInv ==
    /\ pc \in Shielding => Planned \subseteq Covers(Here)
    /\ pc \in Installs \ Ended /\ ~open => read.posture # "committed"
    /\ pc \in {"manifest", "overlay", "posture", "agents", "claude"} /\ ~exposed
          => "claude" \in read.shims \/ Points(Files["claude"])
    /\ exclude \intersect Overlaid = {}
    /\ committed["ignore"] \subseteq tree[Main]["ignore"]
    /\ Plain(committed) \subseteq before

\* An install in Main between its overlay and its ignore lines.
Window == InWindow /\ Here = Main
\* Main holds files of the dock, or is about to.
Docked == \/ \E f \in DockFiles : tree[Main][f] # Absent
          \/ Here = Main /\ pc \in Shielding \union {"relink", "reorient"}
\* They are kept from git, as one directory or one by one.
Shielded == "dock" \in Covers(Main) \/ Overlaid \subseteq tree[Main]["ignore"]

\* What embeds paths of this machine is in no commit, and covered where it is on disk.
LocalsInv ==
    /\ \A f \in Overlaid : committed[f] = Absent
    /\ committed["manifest"] # Absent => Overlaid \subseteq committed["ignore"]
    /\ Docked /\ ~Window => Shielded
    /\ \A d \in Dirs \ before :
          /\ committed["skill"][d] = Absent
          /\ tree[Main]["skill"][d] \in Kits => d \in Covers(Main)
\* So is what names the wiki, while no install had the committed posture.
NamesInv ==
    /\ committed["manifest"] = Absent
    /\ tree[Main]["manifest"] # Absent /\ ~Window => "dock" \in Covers(Main)
    /\ "plugin" \notin before =>
          /\ committed["plugin"] = Absent
          /\ tree[Main]["plugin"] \in Outboxes => "plugin" \in Covers(Main)
    /\ \A f \in Entries \ before :
          /\ committed[f] = Absent
          /\ Wikified(tree[Main][f]) => f \in Covers(Main)
HiddenInv == ~exposed => LocalsInv /\ (~open => NamesInv)

\* Where the lines only grow, what is new needs to be covered.
LEMMA HiddenStays ==
    ASSUME HiddenInv, committed' = committed, exposed => exposed', open => open',
           before \subseteq before', Covers(Main) \subseteq Covers(Main)',
           tree[Main]["ignore"] \subseteq tree'[Main]["ignore"],
           ~exposed' =>
              /\ (Docked /\ ~Window)' => (Docked /\ ~Window) \/ Shielded'
              /\ \A d \in Dirs \ before : tree'[Main]["skill"][d] \in Kits
                    => tree[Main]["skill"][d] \in Kits \/ d \in Covers(Main)'
              /\ ~open' =>
                    /\ tree'[Main]["manifest"] # Absent /\ ~Window'
                          => (tree[Main]["manifest"] # Absent /\ ~Window) \/ "dock" \in Covers(Main)'
                    /\ tree'[Main]["plugin"] \in Outboxes
                          => tree[Main]["plugin"] \in Outboxes \/ "plugin" \in Covers(Main)'
                    /\ \A f \in Entries : Wikified(tree'[Main][f])
                          => Wikified(tree[Main][f]) \/ f \in Covers(Main)'
    PROVE  HiddenInv'
<1> SUFFICES ASSUME ~exposed'
             PROVE  LocalsInv' /\ (~open' => NamesInv')
  BY DEF HiddenInv
<1>1. LocalsInv
  BY DEF HiddenInv
<1>2. Shielded => Shielded'
  BY DEF Shielded
<1>3. LocalsInv'
  BY <1>1, <1>2 DEF LocalsInv
<1>4. ASSUME ~open'
      PROVE  NamesInv'
  <2>1. NamesInv
    BY <1>4 DEF HiddenInv
  <2> QED  BY <1>4, <2>1 DEF NamesInv
<1> QED  BY <1>3, <1>4

\* A command adds ignore lines and takes none away.
LEMMA CoverOfCommand ==
    ASSUME Typed, CoverInv, CommandStep
    PROVE  /\ CoverInv'
           /\ Covers(Main) \subseteq Covers(Main)'
           /\ tree[Main]["ignore"] \subseteq tree'[Main]["ignore"]
<1> USE DEF Shielding, Installs, AfterManifest, AfterOverlay, AfterPosture, AfterAgents, AfterClaude,
        AfterHook, AfterPlugin, AfterSkills, AfterOrient, Ended
<1>0. Frame /\ Advance /\ Here' = Here /\ Here \in Checkouts /\ Main \in Checkouts
  BY CommandFrame DEF Frame, Here, Typed, CommandInv, Checkouts
<1>1. Planned' = Planned /\ UNCHANGED <<cmd, read, open, exposed, before, committed>>
  BY <1>0 DEF Frame, Planned, world
<1>2. \A k \in Checkouts : tree[k]["ignore"] \subseteq tree'[k]["ignore"]
  <2>1. pc # "posture" => tree'[Here]["ignore"] = tree[Here]["ignore"]
    BY <1>0 DEF Frame, FileFrame, FileNames, StepsOf
  <2>2. pc = "posture" => tree[Here]["ignore"] \subseteq tree'[Here]["ignore"]
    BY <1>0 DEF Advance
  <2> QED  BY <1>0, <2>1, <2>2 DEF Frame, FileFrame
<1>3. exclude \subseteq exclude'
  BY <1>0 DEF Frame, Advance
<1>4. \A k \in Checkouts : Covers(k) \subseteq Covers(k)'
  BY <1>2, <1>3 DEF Covers
<1>5. pc' \in Shielding => Planned \subseteq Covers(Here)'
  <2>1. pc = "posture" => Planned \subseteq Covers(Here)'
    BY <1>0 DEF Advance, Covers
  <2>2. pc' \in Shielding => pc = "posture" \/ pc \in Shielding
    BY <1>0 DEF Advance
  <2> QED  BY <1>0, <1>4, <2>1, <2>2 DEF CoverInv
<1>6. pc' \in {"manifest", "overlay", "posture", "agents", "claude"}
         => /\ pc \in {"manifest", "overlay", "posture", "agents"}
            /\ tree'[Here]["claude"] = tree[Here]["claude"]
  <2>1. pc' \in {"manifest", "overlay", "posture", "agents", "claude"}
           => pc \in {"manifest", "overlay", "posture", "agents"}
    BY <1>0 DEF Advance
  <2>2. pc # "claude" => tree'[Here]["claude"] = tree[Here]["claude"]
    BY <1>0 DEF Frame, FileFrame, FileNames, StepsOf
  <2> QED  BY <2>1, <2>2
<1>7. pc' \in Installs \ Ended => pc \in Installs \ Ended
  BY <1>0 DEF Advance
<1>8. exclude' \intersect Overlaid = {}
  <2>1. CASE pc = "posture" /\ read.posture = "invisible"
    <3>1. cmd.dirs \subseteq Dirs /\ read.shims \subseteq Entries
      BY <2>1, CommandKinds DEF Typed, CommandInv
    <3>2. Planned \intersect Overlaid = {}
      BY <2>1, <3>1, DockAssumption DEF Planned, PostureLines, Overlaid, Entries
    <3>3. exclude' = exclude \union Planned
      BY <1>0, <2>1 DEF Advance
    <3> QED  BY <3>2, <3>3 DEF CoverInv
  <2>2. CASE ~(pc = "posture" /\ read.posture = "invisible")
    <3>1. exclude' = exclude
      BY <1>0, <2>2 DEF Frame, Advance
    <3> QED  BY <3>1 DEF CoverInv
  <2> QED  BY <2>1, <2>2
<1>9. CoverInv'
  <2>1. committed'["ignore"] \subseteq tree'[Main]["ignore"] /\ Plain(committed') \subseteq before'
    BY <1>0, <1>1, <1>2 DEF CoverInv
  <2>2. pc' \in {"manifest", "overlay", "posture", "agents", "claude"} /\ ~exposed'
          => "claude" \in read'.shims \/ Points(tree'[Here]["claude"])
    BY <1>1, <1>6 DEF CoverInv, Files
  <2> QED  BY <1>0, <1>1, <1>5, <1>7, <1>8, <2>1, <2>2 DEF CoverInv, Files
<1> QED  BY <1>0, <1>2, <1>4, <1>9

\* What a command writes is covered by then.
LEMMA HiddenByCommand ==
    ASSUME Typed, CoverInv, HiddenInv, CommandStep
    PROVE  HiddenInv'
<1> USE DEF Shielding, Installs, AfterManifest, AfterOverlay, AfterPosture, AfterAgents, AfterClaude,
        AfterHook, AfterPlugin, AfterSkills, AfterOrient, Ended
<1>0. Frame /\ Advance /\ Here' = Here /\ Here \in Checkouts /\ Main \in Checkouts
      /\ TypeOK /\ CommandInv
  BY CommandFrame DEF Frame, Here, Typed, CommandInv, Checkouts
<1>1. /\ CoverInv' /\ Covers(Main) \subseteq Covers(Main)'
      /\ tree[Main]["ignore"] \subseteq tree'[Main]["ignore"]
  BY CoverOfCommand
<1>2. UNCHANGED <<cmd, read, open, exposed, before, committed>>
  BY <1>0 DEF Frame, world
<1>3. CASE Here # Main
  <2>1. tree'[Main] = tree[Main] /\ ~Window /\ ~Window' /\ (Docked' => Docked)
    BY <1>0, <1>3 DEF Frame, FileFrame, Window, Docked
  <2> QED  BY <1>1, <1>2, <2>1, HiddenStays
<1>4. CASE Here = Main
  <2>1. pc \in Shielding => Planned \subseteq Covers(Main)'
    BY <1>1, <1>4 DEF CoverInv
  <2>2. pc = "posture" => Planned \subseteq Covers(Main)'
    BY <1>0, <1>4 DEF Advance, Covers
  <2>3. (Docked /\ ~Window)' => (Docked /\ ~Window) \/ Shielded'
    <3>1. CASE pc \in Shielding \union {"relink", "reorient"}
      BY <1>4, <3>1 DEF Docked, Window, InWindow
    <3>2. CASE pc = "posture"
      <4>1. CASE read.posture = "committed"
        <5>1. Overlaid \subseteq Planned
          BY <4>1 DEF Planned, PostureLines, Overlaid
        <5>2. tree'[Main]["ignore"] = tree[Main]["ignore"] \union Planned
          BY <1>0, <1>4, <3>2, <4>1 DEF Advance
        <5> QED  BY <5>1, <5>2 DEF Shielded
      <4>2. CASE read.posture # "committed"
        <5>1. "dock" \in Planned
          BY <4>2 DEF Planned, PostureLines
        <5> QED  BY <2>2, <3>2, <5>1 DEF Shielded
      <4> QED  BY <4>1, <4>2
    <3>3. CASE pc = "manifest" /\ pc' = "error"
      <4>1. tree' = tree /\ ~Window
        BY <1>0, <3>3 DEF Frame, files, Window, InWindow
      <4>2. Docked' => Docked
        BY <3>3, <4>1 DEF Docked
      <4> QED  BY <4>1, <4>2
    <3>4. CASE pc = "overlay" \/ (pc = "manifest" /\ pc' # "error")
      <4>1. pc' \in {"overlay", "posture"}
        BY <1>0, <3>4 DEF Advance
      <4> QED  BY <1>0, <1>4, <4>1 DEF Window, InWindow
    <3>5. pc \in Shielding \union {"relink", "reorient", "posture", "manifest", "overlay"}
      BY <1>0 DEF Advance
    <3> QED  BY <3>1, <3>2, <3>3, <3>4, <3>5
  <2>4. ASSUME NEW d \in Dirs, tree'[Main]["skill"][d] \in Kits
        PROVE  tree[Main]["skill"][d] \in Kits \/ d \in Covers(Main)'
    <3>1. CASE pc # "skills"
      <4>1. tree'[Main]["skill"] = tree[Main]["skill"]
        BY <1>0, <1>4, <3>1 DEF Frame, FileFrame, FileNames, StepsOf
      <4> QED  BY <2>4, <4>1
    <3>2. CASE pc = "skills"
      <4>1. todo \subseteq Planned
        BY <1>0, <3>2 DEF CommandInv, Planned, PostureLines
      <4>2. d \in todo \/ tree'[Main]["skill"][d] = tree[Main]["skill"][d]
        <5>1. tree[Main]["skill"] \in Renders
          BY <1>0 DEF TypeOK, Trees
        <5> QED  BY <1>0, <1>4, <3>2, <5>1 DEF Advance, Files, Renders
      <4> QED  BY <2>1, <2>4, <3>2, <4>1, <4>2
    <3> QED  BY <3>1, <3>2
  <2>5. ASSUME ~open', ~exposed'
        PROVE  /\ tree'[Main]["manifest"] # Absent /\ ~Window'
                     => (tree[Main]["manifest"] # Absent /\ ~Window) \/ "dock" \in Covers(Main)'
               /\ tree'[Main]["plugin"] \in Outboxes
                     => tree[Main]["plugin"] \in Outboxes \/ "plugin" \in Covers(Main)'
               /\ \A f \in Entries : Wikified(tree'[Main][f])
                     => Wikified(tree[Main][f]) \/ f \in Covers(Main)'
    <3>1. /\ pc \in Installs \ Ended => read.posture # "committed" /\ "dock" \in Planned
          /\ pc \in {"agents", "claude", "plugin"} => Planned \subseteq Covers(Main)'
      BY <1>2, <2>1, <2>5 DEF CoverInv, Planned, PostureLines
    <3>2. tree'[Main]["manifest"] # Absent /\ ~Window'
             => (tree[Main]["manifest"] # Absent /\ ~Window) \/ "dock" \in Covers(Main)'
      <4>1. CASE pc = "manifest"
        <5>1. pc' = "overlay" => Window'
          BY <1>0, <1>4 DEF Window, InWindow
        <5>2. pc' = "error" => tree' = tree /\ ~Window
          BY <1>0, <4>1 DEF Frame, files, Window, InWindow
        <5> QED  BY <1>0, <4>1, <5>1, <5>2 DEF Advance
      <4>2. CASE pc = "overlay"
        BY <1>0, <1>4, <4>2 DEF Advance, Window, InWindow
      <4>3. CASE pc = "posture"
        BY <2>2, <3>1, <4>3
      <4>4. CASE pc \notin {"manifest", "overlay", "posture"}
        BY <1>0, <1>4, <4>4 DEF Frame, FileFrame, FileNames, StepsOf, Window, InWindow
      <4> QED  BY <4>1, <4>2, <4>3, <4>4
    <3>3. tree'[Main]["plugin"] \in Outboxes
             => tree[Main]["plugin"] \in Outboxes \/ "plugin" \in Covers(Main)'
      <4>1. CASE pc = "plugin"
        <5>1. "plugin" \in Planned
          BY <1>0, <3>1, <4>1 DEF CommandInv, Planned, PostureLines
        <5> QED  BY <3>1, <4>1, <5>1
      <4>2. CASE pc # "plugin"
        BY <1>0, <1>4, <4>2 DEF Frame, FileFrame, FileNames, StepsOf
      <4> QED  BY <4>1, <4>2
    <3>4. ASSUME NEW f \in Entries, Wikified(tree'[Main][f])
          PROVE  Wikified(tree[Main][f]) \/ f \in Covers(Main)'
      <4>1. CASE pc = f /\ f \in read.shims
        <5>1. f \in Planned
          BY <3>1, <4>1 DEF Planned, PostureLines, Entries
        <5> QED  BY <3>1, <4>1, <5>1 DEF Entries
      <4>2. CASE pc = f /\ f \notin read.shims
        <5>1. f = "claude"
          BY <1>0, <4>2 DEF Entries, CommandInv
        <5>2. Points(Files["claude"])
          BY <1>2, <2>5, <4>2, <5>1 DEF CoverInv
        <5>3. Shimmed(Files["claude"], read.conf.name) = Files["claude"]
          BY <5>2 DEF Shimmed, Points
        <5>4. tree'[Main]["claude"] = tree[Main]["claude"]
          <6>1. CASE pc' = "error"
            BY <1>0, <6>1 DEF Frame, files
          <6>2. CASE pc' # "error"
            BY <1>0, <1>4, <4>2, <5>1, <5>3, <6>2 DEF Advance, Files
          <6> QED  BY <6>1, <6>2
        <5> QED  BY <3>4, <5>1, <5>4
      <4>3. CASE pc # f
        <5>1. tree'[Main][f] = tree[Main][f]
          BY <1>0, <1>4, <4>3 DEF Frame, FileFrame, FileNames, StepsOf, Entries
        <5> QED  BY <3>4, <5>1
      <4> QED  BY <4>1, <4>2, <4>3
    <3> QED  BY <3>2, <3>3, <3>4
  <2> QED  BY <1>1, <1>2, <2>3, <2>4, <2>5, HiddenStays
<1> QED  BY <1>3, <1>4

\* A command that begins writes nothing, one that dies in the window exposes it.
LEMMA HiddenByBegin ==
    ASSUME Typed, CoverInv, HiddenInv,
           \/ \E i \in Asks : Install(i)
           \/ \E k \in Checkouts, w \in Wikis :
                 CompleteDock([op |-> "complete", at |-> k, wiki |-> w])
           \/ Kill
    PROVE  CoverInv' /\ HiddenInv'
<1> USE DEF Shielding, Installs, AfterManifest, AfterOverlay, AfterPosture, AfterAgents, AfterClaude,
        AfterHook, AfterPlugin, AfterSkills, AfterOrient, Ended
<1>1. ASSUME NEW c, NEW place \in {"manifest", "relink", "error"}, NEW saw, Begin(c, place, saw),
             open => open',
             place = "relink" => tree[c.at]["manifest"] # Absent,
             place = "manifest" =>
                /\ open' \/ saw.posture # "committed"
                /\ "claude" \in saw.shims \/ Points(tree[c.at]["claude"])
      PROVE  CoverInv' /\ HiddenInv'
  <2>1. /\ UNCHANGED <<tree, exclude, committed, exposed, before>>
        /\ pc' = place /\ cmd' = c /\ read' = saw /\ pc \in Ended
    BY <1>1 DEF Begin, world, files
  <2>2. CoverInv'
    BY <1>1, <2>1 DEF CoverInv, Here, Files
  <2>3. Docked' => Docked
    BY <1>1, <2>1 DEF Docked, Here, DockFiles
  <2>4. ~Window
    BY <2>1 DEF Window, InWindow
  <2> QED  BY <1>1, <2>1, <2>2, <2>3, <2>4, HiddenStays DEF Covers
<1>2. ASSUME NEW i \in Asks, Install(i)
      PROVE  CoverInv' /\ HiddenInv'
  <2>1. CASE Checked(i)
    <3> DEFINE saw == [conf |-> conf[i.wiki], kit |-> kit, posture |-> Posture(i),
                       docs |-> Docs(i), shims |-> planned_shim_paths(i.at)]
    <3>1. Begin(i, "manifest", saw) /\ open' = (open \/ Posture(i) = "committed")
      BY <1>2, <2>1 DEF Install
    <3>2. "claude" \in saw.shims \/ Points(tree[i.at]["claude"])
      BY DEF planned_shim_paths
    <3>3. saw.posture = Posture(i)
      OBVIOUS
    <3> HIDE DEF saw
    <3> QED  BY <1>1, <3>1, <3>2, <3>3
  <2>2. CASE ~Checked(i)
    BY <1>1, <1>2, <2>2 DEF Install
  <2> QED  BY <2>1, <2>2
<1>3. ASSUME NEW k \in Checkouts, NEW w \in Wikis,
             CompleteDock([op |-> "complete", at |-> k, wiki |-> w])
      PROVE  CoverInv' /\ HiddenInv'
  <2> DEFINE c == [op |-> "complete", at |-> k, wiki |-> w]
             m == tree[k]["manifest"]
  <2>1. open' = open /\ c.at = k
    BY <1>3 DEF CompleteDock
  <2>2. CASE m # Absent /\ Identifies(m, w) /\ kit \notin BrokenKits
    <3>1. Begin(c, "relink", [orient |-> OrientationOf(w, m, k, kit)])
      BY <1>3, <2>2 DEF CompleteDock
    <3> HIDE DEF c
    <3> QED  BY <1>1, <2>1, <2>2, <3>1
  <2>3. CASE ~(m # Absent /\ Identifies(m, w) /\ kit \notin BrokenKits)
    <3>1. Begin(c, "error", read)
      BY <1>3, <2>3 DEF CompleteDock
    <3> HIDE DEF c
    <3> QED  BY <1>1, <2>1, <3>1
  <2> QED  BY <2>2, <2>3
<1>4. CASE Kill
  <2>1. /\ UNCHANGED <<tree, exclude, committed, before, open, cmd, read>> /\ pc' = "killed"
        /\ exposed' = (exposed \/ InWindow)
    BY <1>4 DEF Kill, files, locals
  <2>2. CoverInv'
    BY <2>1 DEF CoverInv, Here, Files
  <2>3. ~exposed' => ~Window
    BY <2>1 DEF Window
  <2>4. Docked' => Docked
    BY <2>1 DEF Docked, Here
  <2> QED  BY <2>1, <2>3, <2>4, <2>2, HiddenStays DEF Covers
<1> QED  BY <1>2, <1>3, <1>4

\* A commit of everything git would take leaves out what is covered.
LEMMA HiddenByCommit ==
    ASSUME Typed, CoverInv, HiddenInv, UNCHANGED <<tree, exclude, pc, cmd, open>>,
           committed' = [f \in FileNames |->
                           CASE f = "ignore" -> tree[Main]["ignore"]
                             [] f = "skill" -> [d \in Dirs |-> StagedSkill(d)]
                             [] OTHER -> Staged(f)],
           exposed' = (exposed \/ InWindow), before' = before \union Plain(committed')
    PROVE  HiddenInv'
<1> SUFFICES ASSUME ~exposed'
             PROVE  LocalsInv' /\ (~open' => NamesInv')
  BY DEF HiddenInv
<1>0. /\ tree \in [Checkouts -> Trees] /\ committed \in Trees /\ Main \in Checkouts
      /\ tree[Main] \in Trees
  BY DEF Typed, TypeOK, Checkouts
<1>1. LocalsInv /\ ~exposed /\ ~InWindow /\ ~Window
  BY DEF HiddenInv, Window
<1>2. \A f \in FileNames \ {"ignore", "skill"} : committed'[f] = Staged(f)
  OBVIOUS
<1>3. /\ committed'["ignore"] = tree[Main]["ignore"]
      /\ \A d \in Dirs : committed'["skill"][d] = StagedSkill(d)
  BY DEF FileNames
<1>4. Docked' = Docked /\ Window' = Window /\ Covers(Main)' = Covers(Main) /\ Shielded' = Shielded
  BY DEF Docked, Window, InWindow, Covers, Shielded, Here
<1>5. (\E f \in DockFiles : tree[Main][f] # Absent) => Shielded
  BY <1>1 DEF LocalsInv, Docked
<1>6. ASSUME NEW f \in Overlaid
      PROVE  committed'[f] = Absent
  <2>1. f \in DockFiles /\ f \in FileNames \ {"ignore", "skill"} /\ committed[f] = Absent
    BY <1>1 DEF LocalsInv, Overlaid, DockFiles, FileNames
  <2>2. tree[Main][f] # Absent => Ignored(Main, f)
    BY <1>5, <2>1 DEF Shielded, Ignored, Covers
  <2> QED  BY <1>2, <2>1, <2>2 DEF Staged
<1>7. committed'["manifest"] # Absent => Overlaid \subseteq committed'["ignore"]
  <2>1. CASE committed["manifest"] # Absent
    BY <1>1, <1>3, <2>1 DEF LocalsInv, CoverInv
  <2>2. CASE committed["manifest"] = Absent
    <3>1. committed'["manifest"] = Staged("manifest")
      BY <1>2 DEF FileNames
    <3>2. committed'["manifest"] # Absent
             => tree[Main]["manifest"] # Absent /\ ~Ignored(Main, "manifest")
      BY <2>2, <3>1 DEF Staged
    <3> QED  BY <1>3, <1>5, <3>2 DEF Shielded, Ignored, DockFiles
  <2> QED  BY <2>1, <2>2
<1>8. ASSUME NEW d \in Dirs \ before'
      PROVE  /\ committed'["skill"][d] = Absent
             /\ tree[Main]["skill"][d] \in Kits => d \in Covers(Main)
  <2>1. committed["skill"][d] = Absent /\ (tree[Main]["skill"][d] \in Kits => d \in Covers(Main))
    BY <1>1 DEF LocalsInv
  <2>2. committed'["skill"][d] = IF d \notin Covers(Main) THEN tree[Main]["skill"][d] ELSE Absent
    BY <1>3, <2>1 DEF StagedSkill
  <2>3. tree[Main]["skill"][d] \in Kits \union {Absent, Edited, Foreign, Outside}
    BY <1>0 DEF Trees, Renders, Contents
  <2>4. committed'["skill"][d] \notin {Edited, Foreign, Outside}
    BY DEF Plain
  <2> QED  BY <2>1, <2>2, <2>3, <2>4
<1>9. LocalsInv'
  BY <1>1, <1>4, <1>6, <1>7, <1>8 DEF LocalsInv
<1>10. ASSUME ~open'
       PROVE  NamesInv'
  <2>1. NamesInv
    BY <1>1, <1>10 DEF HiddenInv
  <2>2. committed'["manifest"] = Absent
    <3>1. tree[Main]["manifest"] # Absent => Ignored(Main, "manifest")
      BY <1>1, <2>1 DEF NamesInv, Ignored, DockFiles
    <3> QED  BY <1>2, <2>1, <3>1 DEF NamesInv, Staged, FileNames
  <2>3. "plugin" \notin before' => committed'["plugin"] = Absent
    <3> SUFFICES ASSUME "plugin" \notin before'
                 PROVE  committed'["plugin"] = Absent
      OBVIOUS
    <3>1. /\ committed["plugin"] = Absent
          /\ tree[Main]["plugin"] \in Outboxes => Ignored(Main, "plugin")
      BY <2>1 DEF NamesInv, Ignored
    <3>2. committed'["plugin"] = IF ~Ignored(Main, "plugin") THEN tree[Main]["plugin"] ELSE Absent
      BY <1>2, <3>1 DEF Staged, FileNames
    <3>3. tree[Main]["plugin"] \in Outboxes \union {Absent, Foreign}
      BY <1>0 DEF Trees
    <3>4. committed'["plugin"] # Foreign
      BY DEF Plain
    <3> QED  BY <3>1, <3>2, <3>3, <3>4
  <2>4. ASSUME NEW f \in Entries \ before'
        PROVE  committed'[f] = Absent
    <3>1. committed[f] = Absent /\ (Wikified(tree[Main][f]) => Ignored(Main, f))
      BY <2>1 DEF NamesInv, Ignored
    <3>2. committed'[f] = IF ~Ignored(Main, f) THEN tree[Main][f] ELSE Absent
      BY <1>2, <3>1 DEF Staged, FileNames, Entries
    <3>3. committed'[f] # Absent => Wikified(committed'[f])
      BY DEF Plain
    <3> QED  BY <3>1, <3>2, <3>3
  <2>5. /\ tree[Main]["manifest"] # Absent /\ ~Window => "dock" \in Covers(Main)
        /\ "plugin" \notin before' => (tree[Main]["plugin"] \in Outboxes => "plugin" \in Covers(Main))
        /\ \A f \in Entries \ before' : Wikified(tree[Main][f]) => f \in Covers(Main)
    BY <2>1 DEF NamesInv
  <2> QED  BY <1>4, <2>2, <2>3, <2>4, <2>5 DEF NamesInv
<1> QED  BY <1>9, <1>10

\* No other step of the owner brings in what is hidden.
LEMMA HiddenByOwner ==
    ASSUME Typed, CoverInv, HiddenInv, Owner
    PROVE  CoverInv' /\ HiddenInv'
<1>0. /\ OwnerEffect /\ Move /\ (exposed => exposed') /\ before \subseteq before'
      /\ committed' = committed => before' = before
      /\ tree \in [Checkouts -> Trees] /\ committed \in Trees /\ Main \in Checkouts
      /\ there \subseteq Checkouts /\ Main \in there /\ Here \in Checkouts
      /\ pc \notin Ended => Here \in there
  BY OwnerSteps DEF Typed, TypeOK, CommandInv, Checkouts, Here
<1>1. UNCHANGED <<pc, cmd, read, open>> /\ Here' = Here /\ Planned' = Planned /\ Window' = Window
  BY <1>0 DEF Move, locals, Here, Planned, Window, InWindow
<1>2. ASSUME UNCHANGED <<tree, committed, exclude>>
      PROVE  CoverInv' /\ HiddenInv'
  <2>1. CoverInv'
    BY <1>0, <1>1, <1>2 DEF CoverInv, Files, Covers
  <2>2. Docked' => Docked
    BY <1>1, <1>2 DEF Docked
  <2> QED  BY <1>0, <1>1, <1>2, <2>1, <2>2, HiddenStays DEF Covers
<1>3. ASSUME NEW k \in there, NEW e \in Edits,
             tree' = [tree EXCEPT ![k] = [tree[k] EXCEPT ![e.file] = e.to]],
             e.file \in DockFiles => tree[k][e.file] # Absent,
             exposed' = (exposed \/ (e.file = "claude" /\ pc \notin Ended)),
             UNCHANGED <<committed, exclude, there>>
      PROVE  CoverInv' /\ HiddenInv'
  <2>1. /\ e.file \in FileNames \ {"ignore", "skill"} /\ e.to \in Kinds(e.file)
        /\ e.file = "plugin" => e.to \notin Outboxes
        /\ e.file \in DockFiles => e.to = Absent \/ e.file = "record"
        /\ e.file \in Entries => ~Wikified(e.to)
    BY EditKinds, UndockedAssumption
  <2>2. /\ \A f \in FileNames \ {e.file} : tree'[k][f] = tree[k][f]
        /\ tree'[k][e.file] = e.to
        /\ \A j \in Checkouts \ {k} : tree'[j] = tree[j]
    <3>1. tree'[k] = [tree[k] EXCEPT ![e.file] = e.to] /\ tree[k] \in Trees
      BY <1>0, <1>3
    <3>2. \A f \in FileNames \ {e.file} : tree'[k][f] = tree[k][f]
      BY <2>1, <3>1, TreeWith
    <3>3. tree'[k][e.file] = e.to
      BY <2>1, <3>1, TreeWith
    <3> QED  BY <1>3, <3>2, <3>3, <1>0
  <2>3. \A j \in Checkouts : tree'[j]["ignore"] = tree[j]["ignore"] /\ tree'[j]["skill"] = tree[j]["skill"]
    BY <2>1, <2>2 DEF FileNames
  <2>4. \A j \in Checkouts : Covers(j)' = Covers(j)
    BY <1>3, <2>3 DEF Covers
  <2>5. ASSUME pc \notin Ended, ~exposed'
        PROVE  tree'[Here]["claude"] = tree[Here]["claude"]
    BY <1>0, <1>3, <2>2, <2>5 DEF FileNames
  <2>6. {"manifest", "overlay", "posture", "agents", "claude"} \intersect Ended = {}
    BY DEF Ended
  <2>7. /\ pc' \in {"manifest", "overlay", "posture", "agents", "claude"} /\ ~exposed'
              => "claude" \in read'.shims \/ Points(tree'[Here]["claude"])
        /\ pc' \in Shielding => Planned' \subseteq Covers(Here)'
        /\ committed'["ignore"] \subseteq tree'[Main]["ignore"]
        /\ Plain(committed') \subseteq before'
    BY <1>0, <1>1, <1>3, <2>3, <2>4, <2>5, <2>6 DEF CoverInv, Files
  <2>8. CoverInv'
    BY <1>1, <1>3, <2>7 DEF CoverInv, Files
  <2>9. \A f \in DockFiles : tree'[Main][f] # Absent => tree[Main][f] # Absent
    <3>1. DockFiles \subseteq FileNames
      BY DEF DockFiles, FileNames
    <3> QED  BY <1>0, <1>3, <2>1, <2>2, <3>1
  <2>10. Docked' => Docked
    BY <1>1, <2>9 DEF Docked
  <2>11. tree'[Main]["plugin"] \in Outboxes => tree[Main]["plugin"] \in Outboxes
    BY <1>0, <2>1, <2>2 DEF FileNames
  <2>12. \A f \in Entries : Wikified(tree'[Main][f]) => Wikified(tree[Main][f])
    <3>1. Entries \subseteq FileNames
      BY DEF Entries, FileNames
    <3> QED  BY <1>0, <2>1, <2>2, <3>1
  <2>13. tree'[Main]["manifest"] # Absent => tree[Main]["manifest"] # Absent
    BY <2>9 DEF DockFiles
  <2> QED  BY <1>0, <1>1, <1>3, <2>3, <2>4, <2>8, <2>10, <2>11, <2>12, <2>13, HiddenStays
<1>4. ASSUME NEW k \in there, NEW e \in SkillEdits,
             tree' = [tree EXCEPT ![k] =
                        [tree[k] EXCEPT !["skill"] = [tree[k]["skill"] EXCEPT ![e[1]] = e[2]]]],
             UNCHANGED <<committed, exclude, there>>
      PROVE  CoverInv' /\ HiddenInv'
  <2>1. e[1] \in Dirs /\ e[2] \in {Absent, Edited, Foreign, Outside} /\ e[2] \notin Kits
    BY DockAssumption
  <2>2. \A j \in Checkouts : tree[j] \in Trees
    BY <1>0
  <2>3. ASSUME NEW j \in Checkouts
        PROVE  /\ \A f \in FileNames \ {"skill"} : tree'[j][f] = tree[j][f]
               /\ \A d \in Dirs : tree'[j]["skill"][d] \in Kits => tree[j]["skill"][d] \in Kits
    <3>1. CASE j # k
      BY <1>4, <3>1, <1>0
    <3>2. CASE j = k
      <4> DEFINE s == [tree[k]["skill"] EXCEPT ![e[1]] = e[2]]
      <4>1. tree'[k] = [tree[k] EXCEPT !["skill"] = s]
        BY <1>0, <1>4
      <4>2. tree[k]["skill"] \in Renders
        BY <2>2, <1>0 DEF Trees
      <4>3. s \in Kinds("skill")
        BY <2>1, <4>2 DEF Kinds, Renders, Contents, Entries
      <4>4. tree'[k]["skill"] = s /\ \A f \in FileNames \ {"skill"} : tree'[k][f] = tree[k][f]
        BY <1>0, <2>2, <4>1, <4>3, TreeWith DEF FileNames
      <4>5. \A d \in Dirs : s[d] \in Kits => tree[k]["skill"][d] \in Kits
        BY <2>1, <4>2 DEF Renders
      <4> QED  BY <3>2, <4>4, <4>5
    <3> QED  BY <3>1, <3>2
  <2>4. \A j \in Checkouts : tree'[j]["ignore"] = tree[j]["ignore"] /\ tree'[j]["claude"] = tree[j]["claude"]
    BY <2>3 DEF FileNames
  <2>5. \A j \in Checkouts : Covers(j)' = Covers(j)
    BY <1>4, <2>4 DEF Covers
  <2>6. CoverInv'
    BY <1>0, <1>1, <1>4, <2>4, <2>5 DEF CoverInv, Files
  <2>7. /\ \A f \in DockFiles \union Entries \union {"plugin"} : tree'[Main][f] = tree[Main][f]
        /\ tree'[Main]["manifest"] = tree[Main]["manifest"]
    BY <1>0, <2>3 DEF FileNames, DockFiles, Entries
  <2>8. Docked' => Docked
    BY <1>1, <2>7 DEF Docked
  <2> QED  BY <1>0, <1>1, <1>4, <2>3, <2>4, <2>5, <2>6, <2>7, <2>8, HiddenStays
<1>5. ASSUME committed' = [f \in FileNames |->
                             CASE f = "ignore" -> tree[Main]["ignore"]
                               [] f = "skill" -> [d \in Dirs |-> StagedSkill(d)]
                               [] OTHER -> Staged(f)],
             exposed' = (exposed \/ InWindow), before' = before \union Plain(committed'),
             UNCHANGED <<tree, exclude, there>>
      PROVE  CoverInv' /\ HiddenInv'
  <2>1. committed'["ignore"] = tree[Main]["ignore"]
    BY <1>5 DEF FileNames
  <2>2. CoverInv'
    BY <1>0, <1>1, <1>5, <2>1 DEF CoverInv, Files, Covers
  <2> QED  BY <1>1, <1>5, <2>2, HiddenByCommit
<1>6. ASSUME Linked \notin there, tree' = [tree EXCEPT ![Linked] = committed],
             UNCHANGED <<committed, exclude>>
      PROVE  CoverInv' /\ HiddenInv'
  <2>1. tree'[Main] = tree[Main] /\ (pc \notin Ended => tree'[Here] = tree[Here])
    BY <1>0, <1>6
  <2>2. Covers(Main)' = Covers(Main) /\ (pc \notin Ended => Covers(Here)' = Covers(Here))
    BY <1>1, <1>6, <2>1 DEF Covers
  <2>3. /\ pc' \in Shielding => Planned' \subseteq Covers(Here)'
        /\ pc' \in {"manifest", "overlay", "posture", "agents", "claude"} /\ ~exposed'
              => "claude" \in read'.shims \/ Points(tree'[Here]["claude"])
    BY <1>0, <1>1, <2>1, <2>2 DEF CoverInv, Files, Shielding, Ended
  <2>4. CoverInv'
    BY <1>0, <1>1, <1>6, <2>1, <2>3 DEF CoverInv, Files
  <2>5. Docked' => Docked
    BY <1>1, <2>1 DEF Docked
  <2> QED  BY <1>0, <1>1, <1>6, <2>1, <2>2, <2>4, <2>5, HiddenStays
<1>7. ASSUME pc \in Ended, tree' = [k \in Checkouts |-> committed], exclude' = {}, UNCHANGED committed
      PROVE  CoverInv' /\ HiddenInv'
  <2>1. tree'[Main] = committed /\ before' = before
    BY <1>0, <1>7
  <2>2. pc' \notin Shielding \union {"relink", "reorient", "manifest", "overlay", "posture", "agents", "claude"}
    BY <1>1, <1>7 DEF Shielding, Ended
  <2>3. Plain(committed') \subseteq before' /\ committed'["ignore"] \subseteq tree'[Main]["ignore"]
    BY <1>7, <2>1 DEF CoverInv
  <2>4. CoverInv'
    BY <1>1, <1>7, <2>2, <2>3 DEF CoverInv
  <2>5. HiddenInv'
    <3> SUFFICES ASSUME ~exposed'
                 PROVE  LocalsInv' /\ (~open' => NamesInv')
      BY DEF HiddenInv
    <3>1. LocalsInv /\ (~open => NamesInv)
      BY <1>0 DEF HiddenInv
    <3>2. Docked' => committed["manifest"] # Absent
      BY <2>1, <2>2, <3>1 DEF Docked, LocalsInv, Overlaid, DockFiles
    <3>3. \A d \in Dirs \ before : committed["skill"][d] \notin Kits
      BY <3>1, DockAssumption DEF LocalsInv
    <3>4. LocalsInv'
      BY <1>7, <2>1, <3>1, <3>2, <3>3 DEF LocalsInv, Shielded
    <3>5. ASSUME ~open'
          PROVE  NamesInv'
      <4>1. NamesInv
        BY <1>1, <3>1, <3>5
      <4> QED  BY <1>7, <2>1, <4>1, DockAssumption DEF NamesInv, Wikified
    <3> QED  BY <3>4, <3>5
  <2> QED  BY <2>4, <2>5
<1> QED  BY <1>0, <1>2, <1>3, <1>4, <1>5, <1>6, <1>7 DEF OwnerEffect

\* What the posture hides stays hidden.
LEMMA HiddenInvariant == Spec => [](CoverInv /\ HiddenInv)
<1>1. Init => CoverInv /\ HiddenInv
  <2> SUFFICES ASSUME Init
               PROVE  CoverInv /\ HiddenInv
    OBVIOUS
  <2>1. PICK s \in Starts : /\ committed = s.committed /\ tree = [k \in Checkouts |-> s.tree]
                            /\ before = Plain(s.committed)
    BY DEF Init
  <2>2. pc = "ready" /\ exclude = {} /\ Main \in Checkouts
    BY DEF Init, Checkouts
  <2>3. tree[Main] = s.tree /\ s.tree \in Trees /\ committed \in Trees
    BY <2>1, <2>2, DockAssumption
  <2>4. /\ committed["ignore"] \subseteq tree[Main]["ignore"]
        /\ \A t \in {tree[Main], committed} :
              /\ \A f \in DockFiles : t[f] = Absent
              /\ \A f \in Entries : ~Wikified(t[f])
              /\ t["plugin"] \notin Outboxes
              /\ \A d \in Dirs : t["skill"][d] \notin Kits
    BY <2>1, <2>3, UndockedAssumption
  <2>5. CoverInv
    BY <2>1, <2>2, <2>4 DEF CoverInv, Shielding, Installs, AfterManifest, AfterOverlay, AfterPosture,
       AfterAgents, AfterClaude, AfterHook, AfterPlugin, AfterSkills, AfterOrient
  <2>6. ~Docked
    BY <2>2, <2>4 DEF Docked, Shielding, AfterPosture,
       AfterAgents, AfterClaude, AfterHook, AfterPlugin, AfterSkills, AfterOrient
  <2>7. \A d \in Dirs \ before : committed["skill"][d] = Absent
    <3>1. \A d \in Dirs : committed["skill"][d] \in Kits \union {Absent, Edited, Foreign, Outside}
      BY <2>3 DEF Trees, Renders, Contents
    <3> QED  BY <2>1, <2>4, <3>1 DEF Plain
  <2>8. /\ \A f \in Entries \ before : committed[f] = Absent
        /\ "plugin" \notin before => committed["plugin"] = Absent
    <3>1. committed["plugin"] \in Outboxes \union {Absent, Foreign}
      BY <2>3 DEF Trees
    <3> QED  BY <2>1, <2>4, <3>1 DEF Plain
  <2>9. LocalsInv /\ NamesInv
    BY <2>4, <2>6, <2>7, <2>8 DEF LocalsInv, NamesInv, Overlaid, DockFiles
  <2> QED  BY <2>5, <2>9 DEF HiddenInv
<1>2. Typed /\ CoverInv /\ HiddenInv /\ [Next]_vars => (CoverInv /\ HiddenInv)'
  <2>1. CoverInv /\ HiddenInv /\ UNCHANGED vars => (CoverInv /\ HiddenInv)'
    BY DEF vars, world, files, locals, ghosts, CoverInv, HiddenInv, LocalsInv, NamesInv, Docked,
       Window, InWindow, Shielded, Covers, Planned, Here, Files
  <2> QED  BY <2>1, CoverOfCommand, HiddenByCommand, HiddenByBegin, HiddenByOwner DEF Next
<1> QED  BY <1>1, <1>2, TypedInvariant, PTL DEF Spec

\* No commit of everything git would take holds what embeds a path of this machine,
\* nor, while no install had the committed posture, what names the wiki; except
\* where a command was overtaken before its ignore lines, and at files git tracked
\* while they were the owner's (_apply_posture, generated_wiring_paths).
THEOREM Hidden == Spec => []LocalsHidden
<1>1. HiddenInv => LocalsHidden
  <2> SUFFICES ASSUME HiddenInv, ~exposed
               PROVE  /\ \A f \in {"overlay", "record", "orient"} : committed[f] = Absent
                      /\ \A d \in Dirs \ before : committed["skill"][d] \notin Kits
                      /\ open \/ /\ committed["manifest"] = Absent
                                 /\ committed["plugin"] \in Outboxes => "plugin" \in before
                                 /\ \A f \in Entries \ before : ~Wikified(committed[f])
    BY DEF LocalsHidden, LocalsUncommitted, HiddenStaysHidden
  <2>1. LocalsInv /\ (~open => NamesInv)
    BY DEF HiddenInv
  <2> QED  BY <2>1, DockAssumption DEF LocalsInv, NamesInv, Overlaid, Wikified
<1> QED  BY <1>1, HiddenInvariant, PTL

-----------------------------------------------------------------------------
\* What an install finds and leaves while nothing else moves.

M == ManifestOf(cmd, read.conf.name)
\* A skill as a render with this record leaves it.
Settled(current, recorded, revision) ==
    \/ current = revision /\ recorded = revision
    \/ current \notin {Absent, recorded, revision}

ManifestPut == Files["manifest"] = M
OverlayPut == Files["overlay"] = cmd.wiki
PosturePut == Planned \subseteq IF read.posture = "invisible" THEN exclude ELSE Files["ignore"]
AgentsPut == Files["agents"] = Blocked(Files["agents"], read.conf.name)
ClaudePut == Files["claude"] = Shimmed(Files["claude"], read.conf.name)
HookPut == read.docs # Absent => hook = [wiki |-> cmd.wiki, docs |-> read.docs]
PluginPut == read.docs # Absent => Files["plugin"] = Replugged(Files["plugin"], read.docs)
SkillsPut ==
    cmd.dirs # {} =>
        /\ Files["record"] \in Renders
        /\ \A d \in cmd.dirs : Settled(Files["skill"][d], Files["record"][d], read.kit)
OrientPut == Files["orient"] = OrientationOf(cmd.wiki, M, Here, kit)

\* What the install read still holds.
Reading ==
    /\ read.conf = conf[cmd.wiki] /\ read.conf # Gone
    /\ cmd.companion \in DOMAIN read.conf.companions
    /\ read.kit = kit /\ read.docs = Docs(cmd) /\ read.posture = Posture(cmd)
\* No check that is ahead will fail.
Unblocked ==
    /\ pc = "manifest" => wrote = {}
    /\ "claude" \in read.shims \/ Points(Files["claude"])
    /\ pc \notin AfterAgents => WellMarked(Files["agents"])
    /\ pc \notin AfterClaude => Points(Files["claude"]) \/ WellMarked(Files["claude"])
    /\ pc \notin AfterHook /\ read.docs # Absent => HookFree
    /\ kit \notin BrokenKits
\* What the loop over the directories has done so far.
Rendering ==
    pc = "skills" =>
        /\ entries = Loaded(Files["record"])
        /\ \A d \in Dirs \ (cmd.dirs \ todo) : updated[d] = entries[d]
        /\ \A d \in cmd.dirs \ todo : Settled(Files["skill"][d], updated[d], read.kit)
        /\ again => updated = entries
\* What is behind, and all of it in a repeated install, is in place.
InPlace ==
    /\ pc \in AfterManifest \/ again => ManifestPut
    /\ pc \in AfterOverlay \/ again => OverlayPut
    /\ pc \in AfterPosture \/ again => PosturePut
    /\ pc \in AfterAgents \/ again => AgentsPut
    /\ pc \in AfterClaude \/ again => ClaudePut
    /\ pc \in AfterHook \/ again => HookPut
    /\ pc \in AfterPlugin \/ again => PluginPut
    /\ pc \in AfterSkills \/ again => SkillsPut
    /\ pc \in AfterOrient \/ again => OrientPut
Unmoved == Reading /\ Unblocked /\ Rendering /\ InPlace

\* An install nobody moves under fails after its first write only where the wiki
\* states no name.
SettleInv ==
    ~moved =>
        /\ pc \in Installs => Unmoved
        /\ pc \in {"relink", "reorient"} => ~again
        /\ pc = "error" => wrote = {} \/ Unnamed
        /\ again => wrote = {}

\* A render leaves a file settled, and a settled file as it is.
LEMMA RenderSettles ==
    ASSUME NEW current, NEW recorded, NEW revision
    PROVE  /\ Settled(Rendered(current, recorded, revision),
                      Entry(current, recorded, revision), revision)
           /\ Settled(current, recorded, revision) =>
                 /\ Rendered(current, recorded, revision) = current
                 /\ Entry(current, recorded, revision) = recorded
BY DEF Settled, Rendered, Entry

\* Once more changes nothing.
LEMMA WiringTwice ==
    /\ \A e \in EntryFiles \union {Absent} : \A n \in Names :
          /\ Blocked(Blocked(e, n), n) = Blocked(e, n)
          /\ Shimmed(Shimmed(e, n), n) = Shimmed(e, n)
          /\ Points(e) => Shimmed(e, n) = e
    /\ \A p, docs : Replugged(Replugged(p, docs), docs) = Replugged(p, docs)
<1>1. ASSUME NEW e \in EntryFiles \union {Absent}, NEW n \in Names
      PROVE  /\ Blocked(e, n) \in EntryFiles /\ Blocked(e, n).block = n
             /\ e # Absent => Blocked(e, n).text = e.text
             /\ e = Absent => Blocked(e, n).text = "none"
             /\ Blocked(Blocked(e, n), n) = Blocked(e, n)
  <2>1. CASE e = Absent
    BY <2>1, DockAssumption DEF Blocked, EntryFiles
  <2>2. CASE e # Absent
    BY <2>2, DockAssumption DEF Blocked, EntryFiles
  <2> QED  BY <2>1, <2>2
<1>2. ASSUME NEW e \in EntryFiles \union {Absent}, NEW n \in Names
      PROVE  /\ Shimmed(Shimmed(e, n), n) = Shimmed(e, n)
             /\ Points(e) => Shimmed(e, n) = e
  <2>1. CASE e = Absent
    <3>1. Shimmed(e, n) = [text |-> "shim", block |-> Absent]
      BY <2>1 DEF Shimmed, Points
    <3>2. [text |-> "shim", block |-> Absent] # Absent
      BY DockAssumption DEF EntryFiles
    <3> QED  BY <2>1, <3>1, <3>2 DEF Shimmed, Points
  <2>2. CASE e # Absent /\ Points(e)
    BY <2>2 DEF Shimmed
  <2>3. CASE e # Absent /\ ~Points(e)
    <3>1. Shimmed(e, n) = Blocked(e, n)
      BY <2>3 DEF Shimmed
    <3>2. Blocked(e, n) # Absent /\ ~Points(Blocked(e, n))
      BY <1>1, <2>3, DockAssumption DEF Points
    <3> QED  BY <1>1, <2>3, <3>1, <3>2 DEF Shimmed
  <2> QED  BY <2>1, <2>2, <2>3
<1> QED  BY <1>1, <1>2 DEF Replugged

\* A repeated install finds everything in place.
LEMMA RerunStep ==
    ASSUME Typed, Unmoved, again, pc \in Installs, CommandStep
    PROVE  /\ \A f \in FileNames : tree'[Here][f] = tree[Here][f]
           /\ exclude' = exclude /\ hook' = hook /\ wrote' = wrote
           /\ pc' = "skills" => updated' = entries'
<1> USE DEF Installs, AfterManifest, AfterOverlay, AfterPosture, AfterAgents, AfterClaude,
        AfterHook, AfterPlugin, AfterSkills, AfterOrient, Ended
<1>0. /\ Frame /\ Advance /\ Here \in Checkouts /\ Reading /\ Unblocked /\ Rendering
      /\ ManifestPut /\ OverlayPut /\ PosturePut /\ AgentsPut /\ ClaudePut /\ HookPut /\ PluginPut
      /\ SkillsPut /\ OrientPut
      /\ TypeOK /\ CommandInv
  BY CommandFrame DEF Typed, CommandInv, Here, Unmoved, InPlace
<1>a. pc' = "error" => /\ \A f \in FileNames : tree'[Here][f] = tree[Here][f]
                       /\ exclude' = exclude /\ hook' = hook
  BY <1>0 DEF Frame, files
<1>1. tree'[Here]["manifest"] = tree[Here]["manifest"]
  <2>1. pc # "manifest" => tree'[Here]["manifest"] = tree[Here]["manifest"]
    BY <1>0 DEF Frame, FileFrame, FileNames, StepsOf, Entries
  <2>2. pc = "manifest" /\ pc' # "error" => tree'[Here]["manifest"] = M
    BY <1>0 DEF Advance, M
  <2> QED  BY <1>0, <1>a, <2>1, <2>2 DEF ManifestPut, Files, FileNames
<1>2. tree'[Here]["overlay"] = tree[Here]["overlay"]
  <2>1. pc # "overlay" => tree'[Here]["overlay"] = tree[Here]["overlay"]
    BY <1>0 DEF Frame, FileFrame, FileNames, StepsOf, Entries
  <2>2. pc = "overlay" => tree'[Here]["overlay"] = cmd.wiki
    BY <1>0 DEF Advance
  <2> QED  BY <1>0, <2>1, <2>2 DEF OverlayPut, Files
<1>3. tree'[Here]["ignore"] = tree[Here]["ignore"] /\ exclude' = exclude
  <2>1. pc # "posture" => tree'[Here]["ignore"] = tree[Here]["ignore"] /\ exclude' = exclude
    BY <1>0 DEF Frame, FileFrame, FileNames, StepsOf, Entries
  <2>2. CASE pc = "posture" /\ read.posture = "invisible"
    BY <1>0, <2>2 DEF Advance, PosturePut
  <2>3. CASE pc = "posture" /\ read.posture # "invisible"
    BY <1>0, <2>3 DEF Advance, PosturePut, Files
  <2> QED  BY <2>1, <2>2, <2>3
<1>4. tree'[Here]["agents"] = tree[Here]["agents"]
  <2>1. pc # "agents" => tree'[Here]["agents"] = tree[Here]["agents"]
    BY <1>0 DEF Frame, FileFrame, FileNames, StepsOf, Entries
  <2>2. pc = "agents" /\ pc' # "error" => tree'[Here]["agents"] = Blocked(Files["agents"], read.conf.name)
    BY <1>0 DEF Advance
  <2> QED  BY <1>0, <1>a, <2>1, <2>2 DEF AgentsPut, Files, FileNames
<1>5. tree'[Here]["claude"] = tree[Here]["claude"]
  <2>1. pc # "claude" => tree'[Here]["claude"] = tree[Here]["claude"]
    BY <1>0 DEF Frame, FileFrame, FileNames, StepsOf, Entries
  <2>2. pc = "claude" /\ pc' # "error" => tree'[Here]["claude"] = Shimmed(Files["claude"], read.conf.name)
    BY <1>0 DEF Advance
  <2> QED  BY <1>0, <1>a, <2>1, <2>2 DEF ClaudePut, Files, FileNames
<1>6. hook' = hook
  <2>1. pc # "hook" => hook' = hook
    BY <1>0 DEF Frame
  <2>2. pc = "hook" /\ pc' # "error" => hook' = [wiki |-> cmd.wiki, docs |-> read.docs]
    BY <1>0 DEF Advance
  <2> QED  BY <1>0, <1>a, <2>1, <2>2 DEF HookPut, CommandInv
<1>7. tree'[Here]["plugin"] = tree[Here]["plugin"]
  <2>1. pc # "plugin" => tree'[Here]["plugin"] = tree[Here]["plugin"]
    BY <1>0 DEF Frame, FileFrame, FileNames, StepsOf, Entries
  <2>2. pc = "plugin" => tree'[Here]["plugin"] = Replugged(Files["plugin"], read.docs)
    BY <1>0 DEF Advance
  <2> QED  BY <1>0, <2>1, <2>2 DEF PluginPut, Files, CommandInv
<1>8. /\ tree'[Here]["skill"] = tree[Here]["skill"] /\ tree'[Here]["record"] = tree[Here]["record"]
      /\ pc' = "skills" => updated' = entries'
  <2>1. CASE pc # "skills"
    <3>1. tree'[Here]["skill"] = tree[Here]["skill"] /\ tree'[Here]["record"] = tree[Here]["record"]
      BY <1>0, <2>1 DEF Frame, FileFrame, FileNames, StepsOf, Entries
    <3> QED  BY <1>0, <2>1, <3>1 DEF Advance
  <2>2. CASE pc = "skills"
    <3>1. /\ Files["record"] \in Renders /\ entries = Files["record"] /\ updated = entries
          /\ \A d \in cmd.dirs : Settled(Files["skill"][d], entries[d], read.kit)
          /\ todo \subseteq cmd.dirs
      BY <1>0, <2>2 DEF CommandInv, SkillsPut, Rendering, Loaded
    <3>2. Files["skill"] \in Renders
      BY <1>0 DEF TypeOK, Trees, Files
    <3>3. CASE todo = {} /\ tree'[Here]["record"] = updated
               /\ tree'[Here]["skill"] = tree[Here]["skill"] /\ pc' = "orient"
      BY <3>1, <3>3 DEF Files
    <3>4. ASSUME NEW d \in todo, UNCHANGED entries,
                 tree'[Here]["skill"] =
                    [Files["skill"] EXCEPT ![d] = Rendered(Files["skill"][d], entries[d], read.kit)],
                 tree'[Here]["record"] = tree[Here]["record"],
                 updated' = [updated EXCEPT ![d] = Entry(Files["skill"][d], @, read.kit)]
          PROVE  tree'[Here]["skill"] = tree[Here]["skill"] /\ updated' = entries'
      <4>1. /\ Rendered(Files["skill"][d], entries[d], read.kit) = Files["skill"][d]
            /\ Entry(Files["skill"][d], entries[d], read.kit) = entries[d]
        BY <3>1, RenderSettles
      <4> QED  BY <3>1, <3>2, <3>4, <4>1 DEF Files, Renders
    <3> QED  BY <1>0, <2>2, <3>3, <3>4 DEF Advance
  <2> QED  BY <2>1, <2>2
<1>9. tree'[Here]["orient"] = tree[Here]["orient"]
  <2>1. pc # "orient" => tree'[Here]["orient"] = tree[Here]["orient"]
    BY <1>0 DEF Frame, FileFrame, FileNames, StepsOf, Entries
  <2>2. pc = "orient" /\ pc' # "error" => tree'[Here]["orient"] = OrientationOf(cmd.wiki, M, Here, kit)
    BY <1>0 DEF Advance, M
  <2> QED  BY <1>0, <1>a, <2>1, <2>2 DEF OrientPut, Files, FileNames
<1>10. \A f \in FileNames : tree'[Here][f] = tree[Here][f]
  BY <1>1, <1>2, <1>3, <1>4, <1>5, <1>7, <1>8, <1>9 DEF FileNames
<1>11. wrote' = wrote
  BY <1>0, <1>3, <1>6, <1>10 DEF Frame, FileFrame
<1> QED  BY <1>3, <1>6, <1>8, <1>10, <1>11

\* A step keeps what was read and checked, and fails only at the first write or,
\* where the wiki states no name, after the last.
LEMMA UnblockedStep ==
    ASSUME Typed, Unmoved, ~moved, pc \in Installs, CommandStep
    PROVE  Reading' /\ (pc' # "error" => Unblocked') /\ (pc' = "error" => wrote' = {} \/ Unnamed')
<1> USE DEF Installs, AfterManifest, AfterOverlay, AfterPosture, AfterAgents, AfterClaude,
        AfterHook, AfterPlugin, AfterSkills, AfterOrient, Ended
<1>0. /\ Frame /\ Advance /\ Here \in Checkouts /\ Reading /\ Unblocked /\ InPlace
      /\ TypeOK /\ CommandInv /\ Here' = Here
  BY CommandFrame DEF Typed, CommandInv, Here, Unmoved, Frame
<1>1. UNCHANGED <<cmd, read, conf, kit>>
  BY <1>0 DEF Frame, world
<1>2. Reading'
  BY <1>0, <1>1 DEF Reading, Docs, Posture, Recorded
<1>3. /\ Files["agents"] \in EntryFiles \union {Absent}
      /\ Files["claude"] \in EntryFiles \union {Absent} /\ read.conf.name \in Names
  <2>1. tree[Here] \in Trees /\ read.conf \in Configs
    BY <1>0 DEF TypeOK, CommandInv
  <2> QED  BY <2>1 DEF Trees, Files, Configs
<1>4. "claude" \in read'.shims \/ Points(tree'[Here]["claude"])
  <2>1. pc # "claude" \/ pc' = "error" => tree'[Here]["claude"] = tree[Here]["claude"]
    BY <1>0 DEF Frame, FileFrame, FileNames, StepsOf, Entries, files
  <2>2. pc = "claude" /\ pc' # "error" => tree'[Here]["claude"] = Shimmed(Files["claude"], read.conf.name)
    BY <1>0 DEF Advance
  <2>3. Points(Files["claude"]) => Shimmed(Files["claude"], read.conf.name) = Files["claude"]
    BY <1>3, WiringTwice
  <2> QED  BY <1>0, <1>1, <2>1, <2>2, <2>3 DEF Unblocked, Files
<1>5. pc' \notin AfterAgents \union {"error"} => WellMarked(tree'[Here]["agents"])
  <2>1. pc' \notin AfterAgents \union {"error"} => pc \notin AfterAgents \union {"agents"}
    BY <1>0 DEF Advance
  <2>2. pc # "agents" => tree'[Here]["agents"] = tree[Here]["agents"]
    BY <1>0 DEF Frame, FileFrame, FileNames, StepsOf, Entries
  <2> QED  BY <1>0, <2>1, <2>2 DEF Unblocked, Files
<1>6. pc' \notin AfterClaude \union {"error"}
         => Points(tree'[Here]["claude"]) \/ WellMarked(tree'[Here]["claude"])
  <2>1. pc' \notin AfterClaude \union {"error"} => pc \notin AfterClaude \union {"claude"}
    BY <1>0 DEF Advance
  <2>2. pc # "claude" => tree'[Here]["claude"] = tree[Here]["claude"]
    BY <1>0 DEF Frame, FileFrame, FileNames, StepsOf, Entries
  <2> QED  BY <1>0, <2>1, <2>2 DEF Unblocked, Files
<1>7. pc' \notin AfterHook \union {"error"} /\ read.docs # Absent => hook' # Foreign
  <2>1. pc' \notin AfterHook \union {"error"} => pc \notin AfterHook \union {"hook"}
    BY <1>0 DEF Advance
  <2> QED  BY <1>0, <2>1 DEF Unblocked, HookFree, Frame
<1>8. pc' = "error" => wrote' = wrote /\ (pc = "manifest" \/ Unnamed')
  <2>1. pc = "final" => pc' = "installed" \/ Unnamed'
    <3> SUFFICES ASSUME pc = "final"
                 PROVE  pc' = "installed" \/ Unnamed'
      OBVIOUS
    <3>1. /\ Files["manifest"] = M /\ Files["overlay"] = cmd.wiki
          /\ Files["orient"] = OrientationOf(cmd.wiki, M, Here, kit)
      BY <1>0 DEF InPlace, ManifestPut, OverlayPut, OrientPut
    <3>2. M \in Manifests /\ M.wiki = read.conf.name /\ M.companion = cmd.companion
      BY <1>0, CommandKinds DEF M, ManifestOf
    <3>3. /\ cmd.wiki \in Wikis /\ OrientationOf(cmd.wiki, M, Here, kit) \in Orientations
      BY <1>0, CommandKinds DEF M
    <3>4. \A f \in {"manifest", "overlay", "orient"} : tree[Here][f] # Absent
      BY <3>1, <3>2, <3>3, DockAssumption DEF Files
    <3>5. read.conf.stated => pc' = "installed"
      BY <1>0, <3>1, <3>2, DockAssumption DEF Identifies, Reading, Advance
    <3>6. tree' = tree
      BY <1>0 DEF Advance, files
    <3>7. cmd.op = "install"
      BY <1>0, DockAssumption DEF CommandInv
    <3> QED  BY <1>0, <1>1, <3>4, <3>5, <3>6, <3>7 DEF Unnamed, Reading, Files, Here
  <2>2. pc = "agents" => WellMarked(Files["agents"])
    BY <1>0 DEF Unblocked
  <2>3. pc = "claude" => Points(Files["claude"]) \/ WellMarked(Files["claude"])
    BY <1>0 DEF Unblocked
  <2>4. pc = "hook" => HookFree
    BY <1>0 DEF Unblocked, CommandInv
  <2>5. pc = "orient" => kit \notin BrokenKits
    BY <1>0 DEF Unblocked
  <2>6. pc' = "error" => wrote' = wrote
    BY <1>0 DEF Frame
  <2> QED  BY <1>0, <2>1, <2>2, <2>3, <2>4, <2>5, <2>6 DEF Advance
<1>9. pc' # "manifest"
  BY <1>0 DEF Advance
<1>10. pc' # "error" => Unblocked'
  BY <1>0, <1>1, <1>4, <1>5, <1>6, <1>7, <1>9 DEF Unblocked, Files, HookFree
<1> QED  BY <1>0, <1>2, <1>8, <1>10 DEF Unblocked

\* The loop settles one directory after another.
LEMMA RenderingStep ==
    ASSUME Typed, Unmoved, pc \in Installs, CommandStep
    PROVE  Rendering'
<1> USE DEF Installs, AfterManifest, AfterOverlay, AfterPosture, AfterAgents, AfterClaude,
        AfterHook, AfterPlugin, AfterSkills, AfterOrient, Ended
<1>0. /\ Frame /\ Advance /\ Rendering /\ TypeOK /\ CommandInv /\ Here' = Here
      /\ Here \in Checkouts
      /\ UNCHANGED <<cmd, read, again>>
  BY CommandFrame DEF Unmoved, Typed, Frame, Here, CommandInv
<1> SUFFICES ASSUME pc' = "skills"
             PROVE  Rendering'
  BY DEF Rendering
<1>1. again => updated' = entries'
  BY RerunStep
<1>2. CASE pc = "record"
  <2>1. entries' = Loaded(Files["record"]) /\ updated' = entries' /\ todo' = cmd.dirs /\ tree' = tree
    BY <1>0, <1>2 DEF Advance, files
  <2> QED  BY <1>0, <1>1, <2>1 DEF Rendering, Files
<1>3. CASE pc = "skills"
  <2>1. PICK d \in todo :
          /\ todo' = todo \ {d} /\ UNCHANGED entries
          /\ tree'[Here]["skill"] =
                [Files["skill"] EXCEPT ![d] = Rendered(Files["skill"][d], entries[d], read.kit)]
          /\ tree'[Here]["record"] = tree[Here]["record"]
          /\ updated' = [updated EXCEPT ![d] = Entry(Files["skill"][d], @, read.kit)]
    BY <1>0, <1>3 DEF Advance
  <2>2. /\ todo \subseteq cmd.dirs /\ cmd.dirs \subseteq Dirs
        /\ Files["skill"] \in Renders /\ updated \in Renders
    BY <1>0, <1>3, CommandKinds DEF CommandInv, TypeOK, Trees, Files
  <2>3. updated[d] = entries[d] /\ d \in Dirs /\ d \in cmd.dirs
    BY <1>0, <1>3, <2>1, <2>2 DEF Rendering
  <2>4. /\ tree'[Here]["skill"][d] = Rendered(Files["skill"][d], entries[d], read.kit)
        /\ updated'[d] = Entry(Files["skill"][d], entries[d], read.kit)
        /\ \A c \in Dirs \ {d} : /\ tree'[Here]["skill"][c] = Files["skill"][c]
                               /\ updated'[c] = updated[c]
    BY <2>1, <2>2, <2>3 DEF Renders
  <2>5. Settled(tree'[Here]["skill"][d], updated'[d], read.kit)
    BY <2>4, RenderSettles
  <2>6. \A c \in cmd.dirs \ todo' : Settled(tree'[Here]["skill"][c], updated'[c], read.kit)
    BY <1>0, <1>3, <2>1, <2>2, <2>4, <2>5 DEF Rendering
  <2>7. \A c \in Dirs \ (cmd.dirs \ todo') : updated'[c] = entries'[c]
    BY <1>0, <1>3, <2>1, <2>3, <2>4 DEF Rendering
  <2>8. entries' = Loaded(tree'[Here]["record"])
    BY <1>0, <1>3, <2>1 DEF Rendering, Files
  <2> QED  BY <1>0, <1>1, <2>6, <2>7, <2>8 DEF Rendering, Files
<1> QED  BY <1>0, <1>2, <1>3 DEF Advance

\* A step puts its file in place and leaves the others there.
LEMMA InPlaceStep ==
    ASSUME Typed, Unmoved, pc \in Installs, CommandStep
    PROVE  InPlace'
<1> USE DEF Installs, AfterManifest, AfterOverlay, AfterPosture, AfterAgents, AfterClaude,
        AfterHook, AfterPlugin, AfterSkills, AfterOrient, Ended
<1>0. /\ Frame /\ Advance /\ InPlace /\ Rendering /\ TypeOK /\ CommandInv /\ Here' = Here
      /\ Here \in Checkouts
      /\ UNCHANGED <<cmd, read, again, kit>> /\ Planned' = Planned /\ M' = M
  BY CommandFrame DEF Unmoved, Typed, Frame, Here, CommandInv, Planned, M, world
<1>1. CASE again
  <2>1. /\ \A f \in FileNames : tree'[Here][f] = tree[Here][f]
        /\ exclude' = exclude /\ hook' = hook
    BY <1>1, RerunStep
  <2>2. /\ ManifestPut /\ OverlayPut /\ PosturePut /\ AgentsPut /\ ClaudePut /\ HookPut
        /\ PluginPut /\ SkillsPut /\ OrientPut
    BY <1>0, <1>1 DEF InPlace
  <2>3. OrientationOf(cmd.wiki, M, Here, kit)' = OrientationOf(cmd.wiki, M, Here, kit)
    BY <1>0, <2>1 DEF OrientationOf, recorded_skill_renders, RecordOf, FileNames
  <2>4. /\ ManifestPut' /\ OverlayPut' /\ PosturePut' /\ AgentsPut' /\ ClaudePut' /\ HookPut'
        /\ PluginPut'
    BY <1>0, <2>1, <2>2 DEF ManifestPut, OverlayPut, PosturePut, AgentsPut, ClaudePut, HookPut,
       PluginPut, Files, FileNames
  <2>5. SkillsPut' /\ OrientPut'
    BY <1>0, <2>1, <2>2, <2>3 DEF SkillsPut, OrientPut, Files, FileNames
  <2> QED  BY <2>4, <2>5 DEF InPlace
<1>2. CASE ~again
  <2> DEFINE Same(f) == tree'[Here][f] = tree[Here][f]
  <2>0. /\ Files["agents"] \in EntryFiles \union {Absent}
        /\ Files["claude"] \in EntryFiles \union {Absent} /\ read.conf.name \in Names
    <3>1. tree[Here] \in Trees /\ read.conf \in Configs
      BY <1>0 DEF TypeOK, CommandInv
    <3> QED  BY <3>1 DEF Trees, Files, Configs
  <2>1. pc' \in AfterManifest => ManifestPut'
    <3>1. pc # "manifest" => Same("manifest")
      BY <1>0 DEF Frame, FileFrame, FileNames, StepsOf, Entries
    <3>2. pc = "manifest" /\ pc' # "error" => tree'[Here]["manifest"] = M
      BY <1>0 DEF Advance, M
    <3>3. pc # "manifest" => pc \in AfterManifest
      OBVIOUS
    <3> QED  BY <1>0, <3>1, <3>2, <3>3 DEF InPlace, ManifestPut, Files
  <2>2. pc' \in AfterOverlay => OverlayPut'
    <3>1. pc # "overlay" => Same("overlay")
      BY <1>0 DEF Frame, FileFrame, FileNames, StepsOf, Entries
    <3>2. pc = "overlay" => tree'[Here]["overlay"] = cmd.wiki
      BY <1>0 DEF Advance
    <3>3. pc' \in AfterOverlay /\ pc # "overlay" => pc \in AfterOverlay
      BY <1>0 DEF Advance
    <3> QED  BY <1>0, <3>1, <3>2, <3>3 DEF InPlace, OverlayPut, Files
  <2>3. pc' \in AfterPosture => PosturePut'
    <3>1. pc # "posture" => Same("ignore") /\ exclude' = exclude
      BY <1>0 DEF Frame, FileFrame, FileNames, StepsOf, Entries
    <3>2. pc = "posture" => PosturePut'
      BY <1>0 DEF Advance, PosturePut, Files
    <3>3. pc' \in AfterPosture /\ pc # "posture" => pc \in AfterPosture
      BY <1>0 DEF Advance
    <3> QED  BY <1>0, <3>1, <3>2, <3>3 DEF InPlace, PosturePut, Files
  <2>4. pc' \in AfterAgents => AgentsPut'
    <3>1. pc # "agents" => Same("agents")
      BY <1>0 DEF Frame, FileFrame, FileNames, StepsOf, Entries
    <3>2. pc = "agents" /\ pc' # "error" => AgentsPut'
      BY <1>0, <2>0, WiringTwice DEF Advance, AgentsPut, Files
    <3>3. pc' \in AfterAgents /\ pc # "agents" => pc \in AfterAgents
      BY <1>0 DEF Advance
    <3> QED  BY <1>0, <3>1, <3>2, <3>3 DEF InPlace, AgentsPut, Files
  <2>5. pc' \in AfterClaude => ClaudePut'
    <3>1. pc # "claude" => Same("claude")
      BY <1>0 DEF Frame, FileFrame, FileNames, StepsOf, Entries
    <3>2. pc = "claude" /\ pc' # "error" => ClaudePut'
      BY <1>0, <2>0, WiringTwice DEF Advance, ClaudePut, Files
    <3>3. pc' \in AfterClaude /\ pc # "claude" => pc \in AfterClaude
      BY <1>0 DEF Advance
    <3> QED  BY <1>0, <3>1, <3>2, <3>3 DEF InPlace, ClaudePut, Files
  <2>6. pc' \in AfterHook => HookPut'
    <3>1. pc # "hook" => hook' = hook
      BY <1>0 DEF Frame
    <3>2. pc' \in AfterHook => pc \in AfterHook \union {"hook"} \/ read.docs = Absent
      BY <1>0 DEF Advance
    <3>3. pc = "hook" /\ pc' # "error" => hook' = [wiki |-> cmd.wiki, docs |-> read.docs]
      BY <1>0 DEF Advance
    <3> QED  BY <1>0, <3>1, <3>2, <3>3 DEF InPlace, HookPut
  <2>7. pc' \in AfterPlugin => PluginPut'
    <3>1. pc # "plugin" => Same("plugin")
      BY <1>0 DEF Frame, FileFrame, FileNames, StepsOf, Entries
    <3>2. pc' \in AfterPlugin => pc \in AfterPlugin \union {"plugin"} \/ read.docs = Absent
      BY <1>0 DEF Advance
    <3>3. pc = "plugin" => PluginPut'
      BY <1>0, WiringTwice DEF Advance, PluginPut, Files
    <3> QED  BY <1>0, <3>1, <3>2, <3>3 DEF InPlace, PluginPut, Files
  <2>8. pc' \in AfterSkills => SkillsPut'
    <3>1. pc # "skills" => Same("skill") /\ Same("record")
      BY <1>0 DEF Frame, FileFrame, FileNames, StepsOf, Entries
    <3>2. pc' \in AfterSkills => pc \in AfterSkills \union {"skills"} \/ cmd.dirs = {}
      BY <1>0 DEF Advance
    <3>3. ASSUME pc = "skills", pc' \in AfterSkills
          PROVE  SkillsPut'
      <4>1. /\ todo = {} /\ tree'[Here]["record"] = updated
            /\ tree'[Here]["skill"] = tree[Here]["skill"]
        BY <1>0, <3>3 DEF Advance
      <4>2. \A d \in cmd.dirs : Settled(Files["skill"][d], updated[d], read.kit)
        BY <1>0, <3>3, <4>1 DEF Rendering
      <4> QED  BY <1>0, <4>1, <4>2 DEF SkillsPut, Files, TypeOK
    <3> QED  BY <1>0, <3>1, <3>2, <3>3 DEF InPlace, SkillsPut, Files
  <2>9. pc' \in AfterOrient => OrientPut'
    <3>1. pc' \in AfterOrient => pc \in AfterOrient \union {"orient"}
      BY <1>0 DEF Advance
    <3>2. pc \in AfterOrient \union {"orient"} =>
            OrientationOf(cmd.wiki, M, Here, kit)' = OrientationOf(cmd.wiki, M, Here, kit)
      <4>1. pc \in AfterOrient \union {"orient"} => Same("record")
        BY <1>0 DEF Frame, FileFrame, FileNames, StepsOf, Entries
      <4> QED  BY <1>0, <4>1 DEF OrientationOf, recorded_skill_renders, RecordOf
    <3>3. pc \in AfterOrient => Same("orient")
      BY <1>0 DEF Frame, FileFrame, FileNames, StepsOf, Entries
    <3>4. pc = "orient" /\ pc' # "error" => tree'[Here]["orient"] = OrientationOf(cmd.wiki, M, Here, kit)
      BY <1>0 DEF Advance, M
    <3> QED  BY <1>0, <3>1, <3>2, <3>3, <3>4 DEF InPlace, OrientPut, Files
  <2> QED  BY <1>0, <1>2, <2>1, <2>2, <2>3, <2>4, <2>5, <2>6, <2>7, <2>8, <2>9 DEF InPlace
<1> QED  BY <1>1, <1>2

\* The steps of a command, together.
LEMMA SettleByCommand ==
    ASSUME Typed, SettleInv, CommandStep
    PROVE  SettleInv'
<1> USE DEF Installs, AfterManifest, AfterOverlay, AfterPosture, AfterAgents, AfterClaude,
        AfterHook, AfterPlugin, AfterSkills, AfterOrient, Ended
<1>0. Frame /\ Advance /\ UNCHANGED <<moved, again>>
  BY CommandFrame DEF Frame
<1> SUFFICES ASSUME ~moved
             PROVE  SettleInv'
  BY <1>0 DEF SettleInv
<1>1. CASE pc \in Installs
  <2>1. Unmoved
    BY <1>1 DEF SettleInv
  <2>2. Reading' /\ (pc' # "error" => Unblocked') /\ (pc' = "error" => wrote' = {} \/ Unnamed')
    BY <1>1, <2>1, UnblockedStep
  <2>3. Rendering' /\ InPlace'
    BY <1>1, <2>1, RenderingStep, InPlaceStep
  <2>4. again => wrote' = {}
    BY <1>1, <2>1, RerunStep DEF SettleInv
  <2>5. pc' \notin {"relink", "reorient"}
    BY <1>0, <1>1 DEF Advance
  <2> QED  BY <1>0, <2>2, <2>3, <2>4, <2>5 DEF SettleInv, Unmoved
<1>2. CASE pc \in {"relink", "reorient"}
  <2>1. ~again /\ pc' \in {"reorient", "completed"}
    BY <1>0, <1>2 DEF SettleInv, Advance
  <2> QED  BY <1>0, <2>1 DEF SettleInv
<1>3. pc \in Installs \union {"relink", "reorient"}
  BY <1>0 DEF Advance
<1> QED  BY <1>1, <1>2, <1>3

\* The same install finds what the one before it left.
LEMMA RepeatBegins ==
    ASSUME Typed, Unmoved, pc = "installed", NEW i \in Asks, cmd = i, Checked(i),
           Begin(i, "manifest",
                 [conf |-> conf[i.wiki], kit |-> kit, posture |-> Posture(i),
                  docs |-> Docs(i), shims |-> planned_shim_paths(i.at)])
    PROVE  InPlace'
<1> USE DEF Installs, AfterManifest, AfterOverlay, AfterPosture, AfterAgents, AfterClaude,
        AfterHook, AfterPlugin, AfterSkills, AfterOrient
<1>1. /\ UNCHANGED <<tree, exclude, hook, kit>> /\ cmd' = cmd /\ Here' = Here
      /\ read'.conf = conf[i.wiki] /\ read'.kit = kit /\ read'.posture = Posture(i)
      /\ read'.docs = Docs(i) /\ read'.shims = planned_shim_paths(i.at)
  BY DEF Begin, files, Here, world
<1>2. /\ read'.conf = read.conf /\ read'.kit = read.kit /\ read'.posture = read.posture
      /\ read'.docs = read.docs
  BY <1>1 DEF Unmoved, Reading
<1>3. read'.shims \subseteq read.shims
  BY <1>1 DEF planned_shim_paths, Unmoved, Unblocked, Files, Here, Typed, CommandInv
<1>4. Planned' \subseteq Planned
  BY <1>1, <1>2, <1>3 DEF Planned, PostureLines
<1>5. /\ ManifestPut /\ OverlayPut /\ PosturePut /\ AgentsPut /\ ClaudePut /\ HookPut
      /\ PluginPut /\ SkillsPut /\ OrientPut
  BY DEF Unmoved, InPlace
<1>6. M' = M
  BY <1>1, <1>2 DEF M
<1>7. /\ ManifestPut' /\ OverlayPut' /\ AgentsPut' /\ ClaudePut' /\ HookPut' /\ PluginPut'
      /\ SkillsPut'
  BY <1>1, <1>2, <1>5, <1>6 DEF ManifestPut, OverlayPut, AgentsPut, ClaudePut, HookPut, PluginPut,
     SkillsPut, Files
<1>8. PosturePut'
  BY <1>1, <1>2, <1>4, <1>5 DEF PosturePut, Files
<1>9. OrientPut'
  BY <1>1, <1>2, <1>5, <1>6 DEF OrientPut, Files, OrientationOf, recorded_skill_renders, RecordOf
<1> QED  BY <1>7, <1>8, <1>9 DEF InPlace

\* A command that begins has checked what it relies on.
LEMMA SettleByBegin ==
    ASSUME Typed, SettleInv,
           \/ \E i \in Asks : Install(i)
           \/ \E k \in Checkouts, w \in Wikis :
                 CompleteDock([op |-> "complete", at |-> k, wiki |-> w])
           \/ Kill
    PROVE  SettleInv'
<1> USE DEF Installs, AfterManifest, AfterOverlay, AfterPosture, AfterAgents, AfterClaude,
        AfterHook, AfterPlugin, AfterSkills, AfterOrient
<1>1. ASSUME NEW c, NEW saw, Begin(c, "error", saw)
      PROVE  SettleInv'
  BY <1>1 DEF Begin, SettleInv
<1>2. ASSUME NEW i \in Asks, Install(i)
      PROVE  SettleInv'
  <2>1. CASE Checked(i)
    <3> DEFINE saw == [conf |-> conf[i.wiki], kit |-> kit, posture |-> Posture(i),
                       docs |-> Docs(i), shims |-> planned_shim_paths(i.at)]
    <3>1. Begin(i, "manifest", saw)
      BY <1>2, <2>1 DEF Install
    <3>2. /\ UNCHANGED <<conf, kit, tree, hook>> /\ cmd' = i /\ Here' = i.at /\ wrote' = {}
          /\ pc' = "manifest" /\ again' = (pc = "installed" /\ ~moved /\ cmd = i)
          /\ read'.conf = conf[i.wiki] /\ read'.kit = kit /\ read'.posture = Posture(i)
          /\ read'.docs = Docs(i) /\ read'.shims = planned_shim_paths(i.at)
      BY <3>1 DEF Begin, world, files, Here
    <3>3. Reading'
      BY <2>1, <3>2 DEF Reading, Checked, Docs, Posture, Recorded
    <3>4. Unblocked'
      BY <2>1, <3>2 DEF Unblocked, Checked, planned_shim_paths, Files, HookFree
    <3>5. Rendering'
      BY <3>2 DEF Rendering
    <3>6. again' => InPlace'
      BY <2>1, <3>1, <3>2, RepeatBegins DEF SettleInv
    <3>7. InPlace'
      BY <3>2, <3>6 DEF InPlace
    <3> QED  BY <3>2, <3>3, <3>4, <3>5, <3>7 DEF SettleInv, Unmoved
  <2>2. CASE ~Checked(i)
    BY <1>1, <1>2, <2>2 DEF Install
  <2> QED  BY <2>1, <2>2
<1>3. ASSUME NEW k \in Checkouts, NEW w \in Wikis,
             CompleteDock([op |-> "complete", at |-> k, wiki |-> w])
      PROVE  SettleInv'
  <2> DEFINE c == [op |-> "complete", at |-> k, wiki |-> w]
  <2>1. pc = "installed" => cmd # c
    <3>1. pc = "installed" => cmd.op = "install"
      BY DockAssumption DEF Typed, CommandInv
    <3> QED  BY <3>1
  <2>2. ASSUME NEW saw, Begin(c, "relink", saw)
        PROVE  SettleInv'
    BY <2>1, <2>2 DEF Begin, SettleInv
  <2> HIDE DEF c
  <2> QED  BY <1>1, <1>3, <2>2 DEF CompleteDock, c
<1>4. CASE Kill
  BY <1>4 DEF Kill, SettleInv
<1> QED  BY <1>2, <1>3, <1>4

\* It holds at every moment.
LEMMA SettleInvariant == Spec => []SettleInv
<1>1. Init => SettleInv
  BY DEF Init, SettleInv, Installs, AfterManifest, AfterOverlay, AfterPosture, AfterAgents,
     AfterClaude, AfterHook, AfterPlugin, AfterSkills, AfterOrient
<1>2. Typed /\ SettleInv /\ [Next]_vars => SettleInv'
  <2> SUFFICES ASSUME Typed, SettleInv, [Next]_vars
               PROVE  SettleInv'
    OBVIOUS
  <2>1. CASE Owner
    <3>1. moved'
      BY <2>1, OwnerSteps DEF Move, Typed
    <3> QED  BY <3>1 DEF SettleInv
  <2>2. CASE UNCHANGED vars
    <3>1. /\ UNCHANGED <<conf, kit, tree, exclude, hook, pc, cmd, read, todo, entries, updated,
                         wrote, moved, again>>
      BY <2>2 DEF vars, world, files, locals, ghosts
    <3>2. Reading' = Reading /\ Unblocked' = Unblocked /\ Rendering' = Rendering
      BY <3>1 DEF Reading, Unblocked, Rendering, Docs, Posture, Recorded, Files, Here, HookFree
    <3>3. InPlace' = InPlace
      BY <3>1 DEF InPlace, ManifestPut, OverlayPut, PosturePut, AgentsPut, ClaudePut, HookPut,
         PluginPut, SkillsPut, OrientPut, Planned, M, Files, Here, OrientationOf,
         recorded_skill_renders, RecordOf
    <3>4. Unnamed' = Unnamed
      BY <3>1 DEF Unnamed, Files, Here
    <3> QED  BY <3>1, <3>2, <3>3, <3>4 DEF SettleInv, Unmoved
  <2> QED  BY <2>1, <2>2, SettleByCommand, SettleByBegin DEF Next
<1> QED  BY <1>1, <1>2, TypedInvariant, PTL DEF Spec

\* An install or a complete that reports an error has changed no file, as every
\* check but one runs before the first write and the later ones repeat it, and
\* that one asks a stated name of the wiki once the dock is complete; and the same
\* install again changes nothing; unless somebody moved something in between
\* (cmd_install, cmd_complete, update_marked_block, render_skills).
THEOREM Settles == Spec => []CommandsSound
<1>1. Typed /\ SettleInv => CommandsSound
  BY DEF Typed, SettleInv, CommandsSound, FailsClean, RerunSettles
<1> QED  BY <1>1, TypedInvariant, SettleInvariant, PTL

-----------------------------------------------------------------------------
\* What the record of renders says of the renders.

\* A pristine render is the one its record tells of, in the file or in the run's memory.
Vouching(k, d) ==
    /\ pc = "skills" /\ k = Here =>
          /\ entries[d] = RecordOf(k)[d]
          /\ d \notin cmd.dirs \ todo => updated[d] = entries[d]
    /\ tree[k]["skill"][d] \in Kits =>
          tree[k]["skill"][d] = IF pc = "skills" /\ k = Here /\ d \in cmd.dirs \ todo
                                THEN updated[d] ELSE RecordOf(k)[d]
VouchInv ==
    ~exposed => \A k \in Checkouts : \A d \in Dirs \ before : <<k, d>> \notin loose => Vouching(k, d)

\* What a command renders it records, in its memory first.
LEMMA VouchByCommand ==
    ASSUME Typed, VouchInv, CommandStep
    PROVE  VouchInv'
<1>0. /\ Frame /\ Advance /\ TypeOK /\ CommandInv /\ Here' = Here /\ Here \in Checkouts
      /\ UNCHANGED <<cmd, read, exposed, before, loose>>
  BY CommandFrame DEF Typed, Frame, Here, CommandInv
<1> SUFFICES ASSUME ~exposed, NEW k \in Checkouts, NEW d \in Dirs \ before, <<k, d>> \notin loose
             PROVE  Vouching(k, d)'
  BY <1>0 DEF VouchInv
<1>1. Vouching(k, d)
  BY DEF VouchInv
<1>2. CASE k # Here
  <2>1. tree'[k] = tree[k] /\ RecordOf(k)' = RecordOf(k)
    BY <1>0, <1>2 DEF Frame, FileFrame, RecordOf
  <2> QED  BY <1>0, <1>1, <1>2, <2>1 DEF Vouching
<1>3. CASE k = Here /\ pc # "skills"
  <2>1. /\ tree'[k]["skill"] = tree[k]["skill"] /\ tree'[k]["record"] = tree[k]["record"]
        /\ RecordOf(k)' = RecordOf(k)
    BY <1>0, <1>3 DEF Frame, FileFrame, FileNames, StepsOf, Entries, RecordOf
  <2>2. CASE pc = "record" /\ pc' = "skills"
    <3>1. entries' = RecordOf(k) /\ updated' = RecordOf(k) /\ todo' = cmd.dirs
      BY <1>0, <1>3, <2>2 DEF Advance, Loaded, RecordOf, Files
    <3> QED  BY <1>0, <1>1, <1>3, <2>1, <2>2, <3>1 DEF Vouching
  <2>3. CASE pc' # "skills"
    BY <1>0, <1>1, <1>3, <2>1, <2>3 DEF Vouching
  <2>4. pc' = "skills" => pc = "record"
    BY <1>0, <1>3 DEF Advance
  <2> QED  BY <2>2, <2>3, <2>4
<1>4. CASE k = Here /\ pc = "skills"
  <2>1. /\ entries[d] = RecordOf(k)[d]
        /\ d \notin cmd.dirs \ todo => updated[d] = entries[d]
        /\ tree[k]["skill"][d] \in Kits =>
              tree[k]["skill"][d] = IF d \in cmd.dirs \ todo THEN updated[d] ELSE RecordOf(k)[d]
    BY <1>1, <1>4 DEF Vouching
  <2>2. todo \subseteq cmd.dirs /\ updated \in Renders /\ tree[k]["skill"] \in Renders
    BY <1>0, <1>4 DEF CommandInv, TypeOK, Trees
  <2>3. CASE /\ todo = {} /\ pc' = "orient" /\ UNCHANGED <<todo, entries, updated>>
             /\ tree'[Here]["record"] = updated /\ tree'[Here]["skill"] = tree[Here]["skill"]
    <3>1. RecordOf(k)' = updated
      BY <1>4, <2>2, <2>3 DEF RecordOf
    <3> QED  BY <1>0, <1>4, <2>1, <2>3, <3>1 DEF Vouching
  <2>4. ASSUME NEW c \in todo, pc' = "skills", todo' = todo \ {c}, UNCHANGED entries,
               tree'[Here]["skill"] =
                  [Files["skill"] EXCEPT ![c] = Rendered(Files["skill"][c], entries[c], read.kit)],
               tree'[Here]["record"] = tree[Here]["record"],
               updated' = [updated EXCEPT ![c] = Entry(Files["skill"][c], @, read.kit)]
        PROVE  Vouching(k, d)'
    <3>1. RecordOf(k)' = RecordOf(k)
      BY <1>4, <2>4 DEF RecordOf
    <3>2. CASE c # d
      <4>1. tree'[k]["skill"][d] = tree[k]["skill"][d] /\ updated'[d] = updated[d]
        BY <1>4, <2>2, <2>4, <3>2 DEF Files, Renders
      <4>2. (d \in cmd.dirs \ todo') = (d \in cmd.dirs \ todo)
        BY <2>4, <3>2
      <4> QED  BY <1>0, <1>4, <2>1, <2>4, <3>1, <4>1, <4>2 DEF Vouching
    <3>3. CASE c = d
      <4>1. /\ updated[d] = entries[d] /\ d \in cmd.dirs \ todo'
            /\ tree[k]["skill"][d] \in Kits => tree[k]["skill"][d] = entries[d]
        BY <2>1, <2>2, <2>4, <3>3
      <4>2. /\ tree'[k]["skill"][d] = Rendered(tree[k]["skill"][d], entries[d], read.kit)
            /\ updated'[d] = Entry(tree[k]["skill"][d], entries[d], read.kit)
        BY <1>4, <2>2, <2>4, <3>3, <4>1 DEF Files, Renders
      <4>3. tree'[k]["skill"][d] \in Kits => tree'[k]["skill"][d] = updated'[d]
        BY <4>1, <4>2 DEF Rendered, Entry
      <4> QED  BY <1>0, <1>4, <2>1, <2>4, <3>1, <4>1, <4>3 DEF Vouching
    <3> QED  BY <3>2, <3>3
  <2> QED  BY <1>0, <1>4, <2>3, <2>4 DEF Advance
<1> QED  BY <1>2, <1>3, <1>4

\* A command killed between render and record loses the record.
LEMMA VouchByBegin ==
    ASSUME Typed, VouchInv,
           \/ \E i \in Asks : Install(i)
           \/ \E k \in Checkouts, w \in Wikis :
                 CompleteDock([op |-> "complete", at |-> k, wiki |-> w])
           \/ Kill
    PROVE  VouchInv'
<1>1. ASSUME NEW c, NEW place \in {"manifest", "relink", "error"}, NEW saw, Begin(c, place, saw)
      PROVE  VouchInv'
  <2>1. /\ UNCHANGED <<tree, exposed, before, loose>> /\ pc # "skills" /\ pc' # "skills"
    BY <1>1 DEF Begin, files, Ended
  <2>2. \A k : RecordOf(k)' = RecordOf(k)
    BY <2>1 DEF RecordOf
  <2> QED  BY <2>1, <2>2 DEF VouchInv, Vouching
<1>2. ASSUME NEW i \in Asks, Install(i)
      PROVE  VouchInv'
  BY <1>1, <1>2 DEF Install
<1>3. ASSUME NEW k \in Checkouts, NEW w \in Wikis,
             CompleteDock([op |-> "complete", at |-> k, wiki |-> w])
      PROVE  VouchInv'
  BY <1>1, <1>3 DEF CompleteDock
<1>4. CASE Kill
  <2>1. /\ UNCHANGED <<tree, before, cmd, todo, entries, updated>> /\ pc' = "killed" /\ Here' = Here
        /\ exposed => exposed'
        /\ loose' = IF pc = "skills" THEN loose \union {<<Here, d>> : d \in cmd.dirs \ todo} ELSE loose
    BY <1>4 DEF Kill, files, locals, Here
  <2>2. \A k : RecordOf(k)' = RecordOf(k)
    BY <2>1 DEF RecordOf
  <2> SUFFICES ASSUME ~exposed', NEW k \in Checkouts, NEW d \in Dirs \ before', <<k, d>> \notin loose'
               PROVE  Vouching(k, d)'
    BY DEF VouchInv
  <2>3. Vouching(k, d) /\ ~(pc = "skills" /\ k = Here /\ d \in cmd.dirs \ todo)
    BY <2>1 DEF VouchInv
  <2> QED  BY <2>1, <2>2, <2>3 DEF Vouching
<1> QED  BY <1>2, <1>3, <1>4

\* The owner brings in no render, and loses records only.
LEMMA VouchByOwner ==
    ASSUME Typed, HiddenInv, VouchInv, Owner
    PROVE  VouchInv'
<1>0. /\ OwnerEffect /\ Move /\ (exposed => exposed') /\ before \subseteq before'
      /\ committed' = committed => before' = before
      /\ loose \subseteq loose'
      /\ tree \in [Checkouts -> Trees] /\ committed \in Trees /\ Main \in Checkouts
      /\ there \subseteq Checkouts /\ Main \in there /\ Here \in Checkouts
      /\ pc \notin Ended => Here \in there
  BY OwnerSteps DEF Typed, TypeOK, CommandInv, Checkouts, Here
<1>1. UNCHANGED <<pc, cmd, read, todo, entries, updated>> /\ Here' = Here
  BY <1>0 DEF Move, locals, Here
<1> SUFFICES ASSUME ~exposed', NEW k \in Checkouts, NEW d \in Dirs \ before', <<k, d>> \notin loose'
             PROVE  Vouching(k, d)'
  BY DEF VouchInv
<1>2. Vouching(k, d) /\ ~exposed /\ d \in Dirs \ before
  BY <1>0 DEF VouchInv
<1>3. committed["skill"][d] = Absent
  BY <1>2 DEF HiddenInv, LocalsInv
<1>4. ASSUME tree'[k]["record"] = tree[k]["record"],
             \/ tree'[k]["skill"][d] = tree[k]["skill"][d]
             \/ tree'[k]["skill"][d] \notin Kits
      PROVE  Vouching(k, d)'
  <2>1. RecordOf(k)' = RecordOf(k)
    BY <1>4 DEF RecordOf
  <2> QED  BY <1>1, <1>2, <1>4, <2>1 DEF Vouching
<1>5. ASSUME NEW j \in there, NEW e \in Edits,
             tree' = [tree EXCEPT ![j] = [tree[j] EXCEPT ![e.file] = e.to]],
             loose' = IF e.file = "record" THEN loose \union ({j} \X Dirs) ELSE loose
      PROVE  Vouching(k, d)'
  <2>1. e.file \in FileNames \ {"ignore", "skill"} /\ e.to \in Kinds(e.file)
    BY EditKinds
  <2>2. CASE j = k
    <3>1. e.file # "record"
      BY <1>5, <2>2
    <3>2. tree'[k] = [tree[k] EXCEPT ![e.file] = e.to] /\ tree[k] \in Trees
      BY <1>0, <1>5, <2>2
    <3>3. \A f \in FileNames \ {e.file} : tree'[k][f] = tree[k][f]
      BY <2>1, <3>2, TreeWith
    <3> QED  BY <1>4, <2>1, <3>1, <3>3 DEF FileNames
  <2>3. CASE j # k
    BY <1>0, <1>4, <1>5, <2>3
  <2> QED  BY <2>2, <2>3
<1>6. ASSUME NEW j \in there, NEW e \in SkillEdits,
             tree' = [tree EXCEPT ![j] =
                        [tree[j] EXCEPT !["skill"] = [tree[j]["skill"] EXCEPT ![e[1]] = e[2]]]]
      PROVE  Vouching(k, d)'
  <2>1. CASE j = k
    <3> DEFINE s == [tree[k]["skill"] EXCEPT ![e[1]] = e[2]]
    <3>1. tree'[k] = [tree[k] EXCEPT !["skill"] = s] /\ tree[k] \in Trees
      BY <1>0, <1>6, <2>1
    <3>2. e[1] \in Dirs /\ e[2] \in {Absent, Edited, Foreign, Outside} /\ e[2] \notin Kits
          /\ tree[k]["skill"] \in Renders
      BY <3>1, DockAssumption DEF Trees
    <3>3. s \in Kinds("skill")
      BY <3>2 DEF Kinds, Renders, Contents, Entries
    <3>4. tree'[k]["skill"] = s /\ tree'[k]["record"] = tree[k]["record"]
      BY <3>1, <3>3, TreeWith DEF FileNames
    <3>5. s[d] = tree[k]["skill"][d] \/ s[d] \notin Kits
      BY <3>2 DEF Renders
    <3> QED  BY <1>4, <3>4, <3>5
  <2>2. CASE j # k
    BY <1>0, <1>4, <1>6, <2>2
  <2> QED  BY <2>1, <2>2
<1>7. ASSUME Linked \notin there, tree' = [tree EXCEPT ![Linked] = committed]
      PROVE  Vouching(k, d)'
  <2>1. CASE k = Linked
    <3>1. tree'[k]["skill"][d] = Absent /\ ~(pc = "skills" /\ k = Here)
      BY <1>0, <1>3, <1>7, <2>1 DEF Ended
    <3> QED  BY <1>1, <3>1, DockAssumption DEF Vouching
  <2>2. CASE k # Linked
    BY <1>4, <1>7, <2>2
  <2> QED  BY <2>1, <2>2
<1>8. ASSUME pc \in Ended, tree' = [j \in Checkouts |-> committed]
      PROVE  Vouching(k, d)'
  <2>1. tree'[k]["skill"][d] = Absent /\ pc' # "skills"
    BY <1>1, <1>3, <1>8 DEF Ended
  <2> QED  BY <2>1, DockAssumption DEF Vouching
<1>9. tree' = tree => Vouching(k, d)'
  BY <1>4
<1> QED  BY <1>0, <1>5, <1>6, <1>7, <1>8, <1>9 DEF OwnerEffect

\* It holds at every moment.
LEMMA VouchInvariant == Spec => []VouchInv
<1>1. Init => VouchInv
  <2> SUFFICES ASSUME Init, NEW k \in Checkouts, NEW d \in Dirs
               PROVE  Vouching(k, d)
    BY DEF VouchInv
  <2>1. tree[k]["skill"][d] \notin Kits
    BY UndockedAssumption DEF Init
  <2> QED  BY <2>1 DEF Init, Vouching
<1>2. Typed /\ HiddenInv /\ VouchInv /\ [Next]_vars => VouchInv'
  <2>1. VouchInv /\ UNCHANGED vars => VouchInv'
    BY DEF vars, world, files, locals, ghosts, VouchInv, Vouching, RecordOf, Here
  <2> QED  BY <2>1, VouchByCommand, VouchByBegin, VouchByOwner DEF Next
<1> QED  BY <1>1, <1>2, TypedInvariant, HiddenInvariant, PTL DEF Spec

\* After an install every pristine render in its directories is the present kit's,
\* whatever was installed elsewhere in between, unless the record was lost; and the
\* hook and the plugin feed the same outbox (render_skills, render_handoff_plugin,
\* install_hook).
THEOREM Agrees == Spec => []WiringAgrees
<1>1. Typed /\ SettleInv /\ VouchInv => WiringAgrees
  <2> SUFFICES ASSUME Typed, SettleInv, VouchInv, pc = "installed", ~moved
               PROVE  /\ ~exposed => \A d \in cmd.dirs \ before :
                            <<Here, d>> \notin loose /\ Files["skill"][d] \in Kits
                               => Files["skill"][d] = kit
                      /\ Files["plugin"] \in Outboxes /\ read.docs # Absent
                            => hook = [wiki |-> cmd.wiki, docs |-> Files["plugin"]]
    BY DEF WiringAgrees, FreshRenders, OutboxesAgree
  <2> USE DEF Installs, AfterManifest, AfterOverlay, AfterPosture, AfterAgents, AfterClaude,
          AfterHook, AfterPlugin, AfterSkills, AfterOrient
  <2>1. Reading /\ HookPut /\ PluginPut /\ SkillsPut /\ cmd.dirs \subseteq Dirs /\ Here \in Checkouts
    BY CommandKinds DEF SettleInv, Unmoved, InPlace, Typed, CommandInv, Here
  <2>2. ASSUME ~exposed, NEW d \in cmd.dirs \ before, <<Here, d>> \notin loose,
               Files["skill"][d] \in Kits
        PROVE  Files["skill"][d] = kit
    <3>1. Settled(Files["skill"][d], Files["record"][d], kit) /\ Files["record"] \in Renders
      BY <2>1 DEF SkillsPut, Reading
    <3>2. Files["skill"][d] = Files["record"][d]
      BY <2>1, <2>2, <3>1 DEF VouchInv, Vouching, RecordOf, Files
    <3> QED  BY <3>1, <3>2 DEF Settled
  <2>3. Files["plugin"] \in Outboxes /\ read.docs # Absent
           => hook = [wiki |-> cmd.wiki, docs |-> Files["plugin"]]
    BY <2>1, DockAssumption DEF HookPut, PluginPut, Replugged
  <2> QED  BY <2>2, <2>3
<1> QED  BY <1>1, TypedInvariant, SettleInvariant, VouchInvariant, PTL
=============================================================================
