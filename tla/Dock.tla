-------------------------------- MODULE Dock --------------------------------
(* A consumer repository docked to a wiki: scripts/wiki_dock.py (install,     *)
(* complete, status) and the resolver of scripts/wiki_config.py that reads    *)
(* what it writes.                                                            *)
(*                                                                            *)
(* install checks every conflict first and then writes one file after         *)
(* another, without a lock, a journal or a rollback: the manifest and the     *)
(* overlay of .wiki/, the ignore lines of the posture, the marked blocks of   *)
(* AGENTS.md and CLAUDE.md, the post-commit hook and the plugin, the rendered *)
(* skills with the record of what was rendered, and the orientation.  Between *)
(* two writes the operator may kill it, and the owner of the repository may   *)
(* edit, commit everything git would take, add a linked worktree or clone     *)
(* afresh.  The hook and info/exclude are shared by the worktrees; all other  *)
(* files are each checkout's own.                                             *)
EXTENDS Naturals

CONSTANTS
    Main, Linked,   \* the main checkout and a linked worktree of it
    Wikis,          \* wiki roots on this machine
    Names,          \* values of [wiki].name
    Confs,          \* contents the owner may give a wiki.toml
    Companions,     \* companion names
    Outboxes,       \* values of a companion's docs_subpath
    Dirs,           \* skill directories given with --skills-dir
    Kits,           \* revisions of the kit, each with its own templates
    BrokenKits,     \* those with a placeholder nothing renders
    Asks,           \* the install commands that are run
    Edits,          \* what the owner does to one file
    SkillEdits,     \* and to the skill in a directory
    Starts,         \* states of the repository before the first command
    Absent, Gone, Foreign, Edited, Outside, Corrupt, Malformed,
    MaxCommands,    \* commands that are run
    MaxMoves        \* what comes in between: kills and the owner's steps

VARIABLES
    conf,       \* wiki.toml of each root, or Gone
    kit,        \* the revision of the kit
    there,      \* the checkouts that exist
    tree,       \* the files of each checkout
    exclude,    \* lines of info/exclude
    hook,       \* the post-commit hook
    committed,  \* the files of the last commit, Absent where untracked
    pc, cmd,    \* the command that runs or ran last, and its place
    read,       \* what its checks read
    todo,       \* directories it has still to render into
    entries,    \* the render record it loaded, Corrupt ones as empty
    updated,    \* the render record it will save
    commands, moves,
    wrote,      \* ghost: files the command changed
    moved,      \* ghost: something else changed since it began
    again,      \* ghost: it repeats the install before it, nothing moved
    exposed,    \* ghost: killed, or overtaken by a commit or an edit of
                \*   CLAUDE.md, before the ignore lines covered its writes
    open,       \* ghost: some install had the committed posture
    before,     \* ghost: files git tracked while they were the owner's alone
    loose       \* ghost: renders whose record was lost

files == <<tree, exclude, hook>>
locals == <<cmd, read, todo, entries, updated>>
ghosts == <<again, exposed, open, before, loose>>
world == <<conf, kit, there, committed, moves>>
vars == <<world, files, locals, pc, commands, wrote, moved, ghosts>>

Checkouts == {Main, Linked}
Postures == {"committed", "gitignored", "invisible"}
Entries == {"agents", "claude"}
DockFiles == {"manifest", "overlay", "record", "orient"}
Lines == {"dock", "overlay", "record", "orient", "plugin"} \union Entries \union Dirs

(* A wiki.toml that states no name has its directory's, for load_config.      *)
(* What the kit renders for a skill is its revision; a digest is the content. *)
Contents == Kits \union {Absent, Edited, Foreign, Outside}
Renders == [Dirs -> Contents \union {Absent}]
NoRenders == [d \in Dirs |-> Absent]
Manifests == [wiki : Names, companion : Companions]
EntryFiles == [text : {"none", "own", "points", "shim"},
               block : Names \union {Absent, Malformed}]
Orientations == [wiki : Wikis, name : Names, kit : Kits, lists : SUBSET Dirs]
Trees == [manifest : Manifests \union {Absent},
          overlay  : Wikis \union {Absent},
          ignore   : SUBSET Lines,
          agents   : EntryFiles \union {Absent},
          claude   : EntryFiles \union {Absent},
          plugin   : Outboxes \union {Absent, Foreign},
          skill    : Renders,
          record   : Renders \union {Absent, Corrupt},
          orient   : Orientations \union {Absent}]
Companies == [posture : Postures \union {Absent}, docs : Outboxes \union {Absent}]
Configs == [name : Names, stated : BOOLEAN,
            companions : UNION {[cs -> Companies] : cs \in SUBSET Companions}]
Hooks == [wiki : Wikis, docs : Outboxes] \union {Absent, Foreign}

(* What a record vouches for: renders of the kit, never the owner's contents. *)
Vouched == [Dirs -> Kits \union {Absent}]

(* What an entry file holds once it is wired.                                 *)
Wikified(e) == e # Absent /\ (e.block \in Names \/ e.text = "shim")

ASSUME DockAssumption ==
    /\ {Edited, Foreign, Outside} \intersect (Kits \union {Absent}) = {}
    /\ Absent \notin Renders /\ Corrupt \notin Renders
    /\ \A S \in {Kits, Manifests, EntryFiles, Wikis, Orientations} : Absent \notin S
    /\ Outboxes \intersect {Absent, Foreign} = {}
    /\ Dirs \intersect {"overlay", "record", "orient"} = {}
    /\ Confs \subseteq Configs \union {Gone}
    /\ \A i \in Asks :
          /\ i.op = "install" /\ i.wiki \in Wikis /\ i.companion \in Companions
          /\ i.posture \in Postures \union {Absent} /\ i.dirs \subseteq Dirs
    /\ \A e \in Edits :
          \/ e.file \in DockFiles /\ e.to = Absent
          \/ e.file = "record" /\ e.to = Corrupt
          \/ e.file \in Entries /\ e.to \in EntryFiles \union {Absent}
          \/ e.file = "plugin" /\ e.to \in {Absent, Foreign}
    /\ SkillEdits \subseteq Dirs \X {Absent, Edited, Foreign, Outside}
    /\ \A s \in Starts :
          /\ s.conf \in [Wikis -> Configs \union {Gone}] /\ s.hook \in Hooks
          /\ s.kit \in Kits /\ s.tree \in Trees /\ s.committed \in Trees
          /\ {s.tree.record, s.committed.record} \subseteq Vouched \union {Absent, Corrupt}
    /\ MaxMoves \in Nat

(* What the kit writes is in the repository by the commands alone: there is   *)
(* none of it at the start, and the owner writes none.                        *)
ASSUME UndockedAssumption ==
    /\ \A s \in Starts :
          /\ s.committed.ignore \subseteq s.tree.ignore
          /\ \A t \in {s.tree, s.committed} :
                /\ \A f \in DockFiles : t[f] = Absent
                /\ \A f \in Entries : ~Wikified(t[f])
                /\ t.plugin \notin Outboxes
                /\ \A d \in Dirs : t.skill[d] \notin Kits
    /\ \A e \in Edits : e.file \in Entries => ~Wikified(e.to)

Ended == {"ready", "installed", "completed", "error", "killed"}
Steps == {"manifest", "overlay", "posture", "agents", "claude", "hook",
          "plugin", "record", "skills", "save", "orient", "final",
          "relink", "reorient"}

Here == cmd.at
Files == tree[Here]

-----------------------------------------------------------------------------
(* What the files say *)

(* verify_dock_identity: the wiki states the name and has the companion.      *)
Identifies(m, w) ==
    /\ conf[w] # Gone
    /\ conf[w].stated /\ conf[w].name = m.wiki
    /\ m.companion \in DOMAIN conf[w].companions

HasDock(k) == \E f \in DockFiles : tree[k][f] # Absent
Complete(k) == tree[k].manifest # Absent /\ tree[k].overlay # Absent

\* Mutant: an incomplete dock that falls through binds nothing.
UnboundBinds(k, nearest) == {tree[k].manifest}

(* resolve_wiki_root from a checkout's top, the explicit flag, the variables  *)
(* and the legacy channel aside: the dock here, else the main checkout's, and *)
(* every manifest passed on the way binds.                                    *)
Binds(k, nearest) == {tree[k].manifest, nearest}
Verified(w, manifests) == IF \A m \in manifests : Identifies(m, w) THEN w ELSE Absent

FromDock(k, nearest) == Verified(tree[k].overlay, Binds(k, nearest))

Resolve(k) ==
    CASE Complete(k) -> FromDock(k, tree[k].manifest)
      [] HasDock(k) /\ tree[k].manifest = Absent -> Absent
      [] ~Complete(k) /\ k # Main /\ Complete(Main) ->
            FromDock(Main, IF HasDock(k) THEN tree[k].manifest
                                         ELSE tree[Main].manifest)
      [] OTHER -> Absent

(* cmd_status reads one dock and no other: what it says resolves.             *)
Status(k) ==
    IF Complete(k) THEN Verified(tree[k].overlay, {tree[k].manifest}) ELSE Absent

(* Whether git leaves a file of a checkout out of `git add -A`.               *)
Covers(k) == tree[k].ignore \union exclude
Ignored(k, f) ==
    \/ f \in Covers(k)
    \/ f \in DockFiles /\ "dock" \in Covers(k)

-----------------------------------------------------------------------------
(* The checks of an install, all before its first write *)

Points(e) == e # Absent /\ e.text \in {"points", "shim"}
planned_shim_paths(k) ==
    {"agents"} \union IF Points(tree[k].claude) THEN {} ELSE {"claude"}

WellMarked(e) == e = Absent \/ e.block # Malformed

Recorded(i) == conf[i.wiki].companions[i.companion].posture
Posture(i) == IF i.posture # Absent THEN i.posture ELSE Recorded(i)
PostureKnown(i) ==
    /\ Posture(i) # Absent
    /\ Recorded(i) \in {Absent, Posture(i)}
Docs(i) == conf[i.wiki].companions[i.companion].docs

ManifestOf(i, name) == [wiki |-> name, companion |-> i.companion]
SlotFree(k, m) == tree[k].manifest \in {Absent, m}
HookFree == hook # Foreign

SkillsReady(i) ==
    i.dirs # {} => \A d \in i.dirs : tree[i.at].skill[d] # Outside

Checked(i) ==
    /\ conf[i.wiki] # Gone
    /\ i.companion \in DOMAIN conf[i.wiki].companions
    /\ PostureKnown(i)
    /\ SlotFree(i.at, ManifestOf(i, conf[i.wiki].name))
    /\ \A f \in planned_shim_paths(i.at) : WellMarked(tree[i.at][f])
    /\ Docs(i) # Absent => HookFree
    /\ SkillsReady(i)
    /\ kit \notin BrokenKits

\* Mutant: the untracked postures leave the entry shims to git.
ShimsTracked(p, wired, dirs, shims) ==
    (IF p = "committed" THEN {"overlay", "record", "orient"} ELSE {"dock"})
    \union (IF wired /\ p # "committed" THEN {"plugin"} ELSE {})
    \union dirs

(* The ignore lines of a posture, and the generated wiring that joins them.   *)
PostureLines(p, wired, dirs, shims) ==
    (IF p = "committed" THEN {"overlay", "record", "orient"} ELSE {"dock"})
    \union (IF wired /\ p # "committed" THEN {"plugin"} ELSE {})
    \union (IF p # "committed" THEN shims ELSE {})
    \union dirs

(* _load_render_manifest: no record and a corrupt one vouch for nothing.      *)
Loaded(r) == IF r \in Renders THEN r ELSE NoRenders

RecordOf(k) == IF tree[k].record \in Renders THEN tree[k].record ELSE NoRenders
recorded_skill_renders(k) == {d \in Dirs : RecordOf(k)[d] # Absent}

OrientationOf(w, m, at, revision) ==
    [wiki |-> w, name |-> m.wiki, kit |-> revision,
     lists |-> recorded_skill_renders(at)]

-----------------------------------------------------------------------------
(* Steps of a command *)

Bystanders == <<world, commands, moved>>

Put(f, v) ==
    /\ tree' = [tree EXCEPT ![Here][f] = v]
    /\ wrote' = IF Files[f] = v THEN wrote ELSE wrote \union {f}

Fail == /\ pc' = "error"
        /\ UNCHANGED <<files, wrote>>

Begin(c, place, saw) ==
    /\ pc \in Ended /\ commands < MaxCommands /\ c.at \in there
    /\ commands' = commands + 1
    /\ cmd' = c /\ read' = saw /\ pc' = place
    /\ todo' = {} /\ entries' = NoRenders /\ updated' = NoRenders
    /\ wrote' = {} /\ moved' = FALSE
    /\ again' = (pc = "installed" /\ ~moved /\ cmd = c)
    /\ UNCHANGED <<world, files, exposed, before, loose>>

(* cmd_install up to its first write *)
Install(i) ==
    IF Checked(i)
    THEN /\ Begin(i, "manifest",
                  [conf |-> conf[i.wiki], kit |-> kit, posture |-> Posture(i),
                   docs |-> Docs(i), shims |-> planned_shim_paths(i.at)])
         /\ open' = (open \/ Posture(i) = "committed")
    ELSE Begin(i, "error", read) /\ UNCHANGED open

WriteManifest ==
    /\ pc = "manifest"
    /\ LET m == ManifestOf(cmd, read.conf.name) IN
       IF SlotFree(Here, m)
       THEN Put("manifest", m) /\ pc' = "overlay" /\ UNCHANGED <<exclude, hook>>
       ELSE Fail
    /\ UNCHANGED <<Bystanders, locals, ghosts>>

WriteOverlay ==
    /\ pc = "overlay"
    /\ Put("overlay", cmd.wiki) /\ pc' = "posture"
    /\ UNCHANGED <<Bystanders, locals, ghosts, exclude, hook>>

ApplyPosture ==
    /\ pc = "posture"
    /\ LET lines == PostureLines(read.posture, read.docs # Absent, cmd.dirs, read.shims) IN
       IF read.posture = "invisible"
       THEN /\ exclude' = exclude \union lines
            /\ wrote' = IF lines \subseteq exclude THEN wrote ELSE wrote \union {"exclude"}
            /\ UNCHANGED tree
       ELSE Put("ignore", Files.ignore \union lines) /\ UNCHANGED exclude
    /\ pc' = "agents"
    /\ UNCHANGED <<Bystanders, locals, ghosts, hook>>

(* update_marked_block: the region between the markers is the kit's.          *)
Blocked(e, name) ==
    IF e = Absent THEN [text |-> "none", block |-> name] ELSE [e EXCEPT !.block = name]

WriteAgents ==
    /\ pc = "agents"
    /\ IF WellMarked(Files.agents)
       THEN /\ Put("agents", Blocked(Files.agents, read.conf.name))
            /\ pc' = "claude" /\ UNCHANGED <<exclude, hook>>
       ELSE Fail
    /\ UNCHANGED <<Bystanders, locals, ghosts>>

\* Mutant: a CLAUDE.md that points at AGENTS.md gains the block as well.
ShimmedAgain(e, name) ==
    IF e = Absent THEN [text |-> "shim", block |-> Absent] ELSE Blocked(e, name)

(* ensure_claude_shim *)
Shimmed(e, name) ==
    CASE e = Absent -> [text |-> "shim", block |-> Absent]
      [] Points(e) -> e
      [] OTHER -> Blocked(e, name)

WriteClaude ==
    /\ pc = "claude"
    /\ IF Points(Files.claude) \/ WellMarked(Files.claude)
       THEN /\ Put("claude", Shimmed(Files.claude, read.conf.name))
            /\ pc' = IF read.docs # Absent THEN "hook"
                     ELSE IF cmd.dirs # {} THEN "record" ELSE "orient"
            /\ UNCHANGED <<exclude, hook>>
       ELSE Fail
    /\ UNCHANGED <<Bystanders, locals, ghosts>>

WriteHook ==
    /\ pc = "hook"
    /\ LET wrapper == [wiki |-> cmd.wiki, docs |-> read.docs] IN
       IF HookFree
       THEN /\ hook' = wrapper /\ pc' = "plugin"
            /\ wrote' = IF hook = wrapper THEN wrote ELSE wrote \union {"hook"}
            /\ UNCHANGED <<tree, exclude>>
       ELSE Fail
    /\ UNCHANGED <<Bystanders, locals, ghosts>>

(* render_handoff_plugin: only a file without the kit's marker stays.         *)
Replugged(p, docs) == IF p = Foreign THEN p ELSE docs

WritePlugin ==
    /\ pc = "plugin"
    /\ Put("plugin", Replugged(Files.plugin, read.docs))
    /\ pc' = IF cmd.dirs # {} THEN "record" ELSE "orient"
    /\ UNCHANGED <<Bystanders, locals, ghosts, exclude, hook>>

\* Mutant: the saved record knows only the directories of this run.
CarriedNone(loaded) == NoRenders

(* render_skills: the record is read once, each directory is rendered into,   *)
(* and the record is saved at the end.                                        *)
Carried(loaded) == loaded

LoadRecord ==
    /\ pc = "record"
    /\ entries' = Loaded(Files.record) /\ updated' = Carried(Loaded(Files.record))
    /\ todo' = cmd.dirs /\ pc' = "skills"
    /\ UNCHANGED <<Bystanders, files, cmd, read, wrote, ghosts>>

(* A file the record vouches for is replaced; every other one stays.          *)
Rendered(current, recorded, revision) ==
    IF current = Absent \/ recorded = current THEN revision ELSE current

\* Mutant: what is left in place is recorded as if the kit had written it.
SeenEntry(current, recorded, revision) ==
    IF current = Absent \/ recorded = current THEN revision ELSE current

(* The digest saved for a file: of what the kit wrote, or found already so;   *)
(* a file left in place keeps the entry it had.                               *)
Entry(current, recorded, revision) ==
    IF current \in {Absent, recorded, revision} THEN revision ELSE recorded

RenderSkill(d) ==
    /\ pc = "skills" /\ d \in todo
    /\ LET current == Files.skill[d] IN
       /\ Put("skill", [Files.skill EXCEPT ![d] = Rendered(current, entries[d], read.kit)])
       /\ updated' = [updated EXCEPT ![d] = Entry(current, @, read.kit)]
    /\ todo' = todo \ {d}
    /\ UNCHANGED <<Bystanders, pc, cmd, read, entries, ghosts, exclude, hook>>

SaveRecord ==
    /\ pc = "skills" /\ todo = {}
    /\ Put("record", updated) /\ pc' = "orient"
    /\ UNCHANGED <<Bystanders, locals, ghosts, exclude, hook>>

(* The template is read a second time, as the kit has it by now.              *)
WriteOrientation ==
    /\ pc = "orient"
    /\ IF kit \notin BrokenKits
       THEN /\ Put("orient", OrientationOf(cmd.wiki, ManifestOf(cmd, read.conf.name), Here, kit))
            /\ pc' = "final" /\ UNCHANGED <<exclude, hook>>
       ELSE Fail
    /\ UNCHANGED <<Bystanders, locals, ghosts>>

(* load_dock and verify_dock_identity close the install: that the name is     *)
(* stated is asked here for the first time.                                   *)
Finish ==
    /\ pc = "final"
    /\ pc' = IF Files.manifest # Absent /\ Identifies(Files.manifest, cmd.wiki)
             THEN "installed" ELSE "error"
    /\ UNCHANGED <<Bystanders, files, locals, wrote, ghosts>>

(* cmd_complete: an overlay and an orientation for a manifest that is there.  *)
CompleteDock(c) ==
    /\ LET m == tree[c.at].manifest IN
       IF m # Absent /\ Identifies(m, c.wiki) /\ kit \notin BrokenKits
       THEN Begin(c, "relink", [orient |-> OrientationOf(c.wiki, m, c.at, kit)])
       ELSE Begin(c, "error", read)
    /\ UNCHANGED open

Relink ==
    /\ pc = "relink"
    /\ Put("overlay", cmd.wiki) /\ pc' = "reorient"
    /\ UNCHANGED <<Bystanders, locals, ghosts, exclude, hook>>

Reorient ==
    /\ pc = "reorient"
    /\ Put("orient", read.orient) /\ pc' = "completed"
    /\ UNCHANGED <<Bystanders, locals, ghosts, exclude, hook>>

-----------------------------------------------------------------------------
(* The world around it *)

InWindow == pc \in {"overlay", "posture"}

Kill ==
    /\ pc \notin Ended /\ moves < MaxMoves
    /\ moves' = moves + 1 /\ pc' = "killed"
    /\ exposed' = (exposed \/ InWindow)
    /\ loose' = IF pc = "skills" THEN loose \union {<<Here, d>> : d \in cmd.dirs \ todo}
                                 ELSE loose
    /\ UNCHANGED <<conf, kit, there, committed, files, locals, commands, wrote, moved,
                   again, open, before>>

(* At most one move overtakes a running command.                              *)
Move == /\ moves < MaxMoves /\ moves' = moves + 1 /\ moved' = TRUE
        /\ pc \in Ended \/ ~moved
        /\ UNCHANGED <<locals, pc, commands, wrote, again, open>>

KitMoves(v) ==
    /\ v # kit /\ kit' = v /\ Move
    /\ UNCHANGED <<conf, there, committed, files, exposed, before, loose>>

WikiEdited(w, c) ==
    /\ conf[w] # c /\ conf' = [conf EXCEPT ![w] = c] /\ Move
    /\ UNCHANGED <<kit, there, committed, files, exposed, before, loose>>

(* The owner puts a file into a state, or removes it.                         *)
OwnerEdits(k, e) ==
    /\ k \in there /\ tree[k][e.file] # e.to
    /\ e.file \in DockFiles => tree[k][e.file] # Absent
    /\ tree' = [tree EXCEPT ![k][e.file] = e.to] /\ Move
    /\ exposed' = (exposed \/ (e.file = "claude" /\ pc \notin Ended))
    /\ loose' = IF e.file = "record" THEN loose \union ({k} \X Dirs) ELSE loose
    /\ UNCHANGED <<conf, kit, there, committed, exclude, hook, before>>

OwnerEditsSkill(k, d, v) ==
    /\ k \in there /\ tree[k].skill[d] # v
    /\ tree' = [tree EXCEPT ![k].skill[d] = v] /\ Move
    /\ UNCHANGED <<conf, kit, there, committed, exclude, hook, exposed, before, loose>>

OwnerHook(v) ==
    /\ hook # v /\ hook' = v /\ Move
    /\ UNCHANGED <<conf, kit, there, committed, tree, exclude, exposed, before, loose>>

(* `git add -A` and a commit, in the main checkout: a tracked file stays so.  *)
Staged(f) ==
    IF committed[f] # Absent \/ ~Ignored(Main, f) THEN tree[Main][f] ELSE Absent
StagedSkill(d) ==
    IF committed.skill[d] # Absent \/ d \notin Covers(Main)
    THEN tree[Main].skill[d] ELSE Absent
(* The files of a commit that are the owner's alone.                          *)
Plain(c) ==
    {f \in Entries : c[f] # Absent /\ ~Wikified(c[f])}
    \union {f \in {"plugin"} : c[f] = Foreign}
    \union {d \in Dirs : c.skill[d] \in {Edited, Foreign, Outside}}

OwnerCommits ==
    /\ committed' = [f \in DOMAIN tree[Main] |->
                        CASE f = "ignore" -> tree[Main].ignore
                          [] f = "skill" -> [d \in Dirs |-> StagedSkill(d)]
                          [] OTHER -> Staged(f)]
    /\ committed' # committed /\ Move
    /\ exposed' = (exposed \/ InWindow)
    /\ before' = before \union Plain(committed')
    /\ UNCHANGED <<conf, kit, there, files, loose>>

AddWorktree ==
    /\ Linked \notin there /\ there' = Checkouts
    /\ tree' = [tree EXCEPT ![Linked] = committed] /\ Move
    /\ UNCHANGED <<conf, kit, committed, exclude, hook, exposed, before, loose>>

(* A fresh clone in place of the old one: what git does not carry is gone.    *)
Reclone ==
    /\ pc \in Ended
    /\ there' = {Main}
    /\ tree' = [k \in Checkouts |-> committed]
    /\ exclude' = {} /\ hook' = Absent /\ Move
    /\ UNCHANGED <<conf, kit, committed, exposed, before, loose>>

-----------------------------------------------------------------------------

Init ==
    /\ \E s \in Starts :
          /\ conf = s.conf /\ hook = s.hook /\ committed = s.committed
          /\ tree = [k \in Checkouts |-> s.tree]
          /\ before = Plain(s.committed) /\ kit = s.kit
    /\ there = {Main} /\ exclude = {}
    /\ pc = "ready" /\ cmd = [op |-> "none", at |-> Main]
    /\ read = [orient |-> Absent]
    /\ todo = {} /\ entries = NoRenders /\ updated = NoRenders
    /\ commands = 0 /\ moves = 0
    /\ wrote = {} /\ moved = FALSE /\ again = FALSE
    /\ exposed = FALSE /\ open = FALSE /\ loose = {}

CommandStep ==
    \/ WriteManifest \/ WriteOverlay \/ ApplyPosture \/ WriteAgents
    \/ WriteClaude \/ WriteHook \/ WritePlugin \/ LoadRecord
    \/ \E d \in Dirs : RenderSkill(d)
    \/ SaveRecord \/ WriteOrientation \/ Finish \/ Relink \/ Reorient

Owner ==
    \/ \E v \in Kits : KitMoves(v)
    \/ \E w \in Wikis : \E c \in Confs : WikiEdited(w, c)
    \/ \E k \in Checkouts, e \in Edits : OwnerEdits(k, e)
    \/ \E k \in Checkouts, e \in SkillEdits : OwnerEditsSkill(k, e[1], e[2])
    \/ \E v \in {Absent, Foreign} : OwnerHook(v)
    \/ OwnerCommits \/ AddWorktree \/ Reclone

Next ==
    \/ \E i \in Asks : Install(i)
    \/ \E k \in Checkouts, w \in Wikis : CompleteDock([op |-> "complete", at |-> k, wiki |-> w])
    \/ CommandStep \/ Kill \/ Owner

Spec == Init /\ [][Next]_vars

-----------------------------------------------------------------------------
(* Properties *)

(* Every variable holds values the code can give it.                          *)
TypeOK ==
    /\ conf \in [Wikis -> Configs \union {Gone}] /\ kit \in Kits
    /\ Main \in there /\ there \subseteq Checkouts
    /\ tree \in [Checkouts -> Trees] /\ committed \in Trees
    /\ exclude \subseteq Lines /\ hook \in Hooks
    /\ pc \in Ended \union Steps
    /\ entries \in Renders /\ updated \in Renders /\ todo \subseteq Dirs
    /\ wrote \subseteq DOMAIN tree[Main] \union {"exclude", "hook"}

(* "A failed install leaves nothing half-applied" (wiki_dock.py:779), as long *)
(* as nobody changes anything while it runs.  The code does not keep it: see  *)
(* Unnamed.                                                                   *)
NothingHalfApplied == pc = "error" /\ ~moved => wrote = {}

(* The one failure after writes: an install into a wiki whose name is its     *)
(* directory's, which verify_dock_identity refuses once the dock is complete. *)
Unnamed ==
    /\ cmd.op = "install" /\ ~conf[cmd.wiki].stated
    /\ \A f \in {"manifest", "overlay", "orient"} : Files[f] # Absent

(* An install or a complete that reports an error has changed no file, unless *)
(* somebody changed something in the meantime or the wiki states no name.     *)
FailsClean == pc = "error" /\ ~moved => wrote = {} \/ Unnamed

(* What embeds a path of this machine - overlay, record, orientation, skills  *)
(* - never reaches a commit of the owner who adds everything git would take,  *)
(* whatever the postures and however the commands were interleaved or killed; *)
(* except where a command was overtaken between writing the overlay and the   *)
(* ignore lines, and at a path git tracked before the kit rendered there.     *)
LocalsUncommitted ==
    \/ exposed
    \/ /\ \A f \in {"overlay", "record", "orient"} : committed[f] = Absent
       /\ \A d \in Dirs \ before : committed.skill[d] \notin Kits

(* While no install used the committed posture, nothing that names the wiki   *)
(* is in a commit, but for files git tracked before they were wired.          *)
HiddenStaysHidden ==
    \/ exposed \/ open
    \/ /\ committed.manifest = Absent
       /\ committed.plugin \in Outboxes => "plugin" \in before
       /\ \A f \in Entries \ before : ~Wikified(committed[f])

(* No sequence of installs over any revisions of the kit rewrites a skill     *)
(* file the owner edited or supplied: only the owner's own steps change it.   *)
SkillsKept ==
    [][\A k \in there, d \in Dirs :
          tree[k].skill[d] \in {Edited, Foreign, Outside} /\ moves' = moves
             => tree'[k].skill[d] = tree[k].skill[d]]_vars

(* After an install every pristine render in the directories it was given is  *)
(* the present kit's, however many installs into other directories came       *)
(* between; except where the record of an earlier render was lost, to a kill  *)
(* before it was saved or to the owner.                                       *)
FreshRenders ==
    pc = "installed" /\ ~moved /\ ~exposed =>
        \A d \in cmd.dirs \ before :
            <<Here, d>> \notin loose /\ Files.skill[d] \in Kits
                => Files.skill[d] = kit

(* After a wired install the hook and the plugin, if the plugin is a render   *)
(* of the kit, feed the same outbox.                                          *)
OutboxesAgree ==
    pc = "installed" /\ ~moved /\ Files.plugin \in Outboxes /\ read.docs # Absent
        => hook = [wiki |-> cmd.wiki, docs |-> Files.plugin]

(* At every moment, half-done installs included, a checkout that has a        *)
(* manifest resolves to no wiki but one that carries its name and companion,  *)
(* and never past its own complete dock to another; what status calls         *)
(* resolved is what the resolver finds.                                       *)
ResolvesDocked ==
    \A k \in there :
        LET w == Resolve(k) IN
        /\ w # Absent /\ tree[k].manifest # Absent => Identifies(tree[k].manifest, w)
        /\ Complete(k) => w \in {Absent, tree[k].overlay}
        /\ Status(k) \in {Absent, w}

(* The same install again, with nothing moved since, changes nothing.         *)
RerunSettles == again /\ ~moved => wrote = {}

(* A command that fails has changed nothing, a wiki without a stated name     *)
(* aside, and one that is repeated finds nothing left to change.              *)
CommandsSound == TypeOK /\ FailsClean /\ RerunSettles

(* No commit of everything git would take shows what the posture hides.       *)
LocalsHidden == LocalsUncommitted /\ HiddenStaysHidden

(* After an install all that was generated agrees: with the kit, and the two  *)
(* ends of the wiring with each other.                                        *)
WiringAgrees == FreshRenders /\ OutboxesAgree
=============================================================================
