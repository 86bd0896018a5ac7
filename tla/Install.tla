------------------------------ MODULE Install ------------------------------
(* The installer of a wiki repository: scripts/wiki_install.py, with the      *)
(* places of wiki_config.py and wiki_event.py it goes through.                *)
(*                                                                            *)
(* install works through a list of steps, each of which leaves what it finds  *)
(* or writes what is missing, and gives up at the first step that fails; run  *)
(* again it starts from the top.  Which files the run wrote is kept in memory *)
(* only, and is what the first commit of the repository takes.  The operator  *)
(* may kill it anywhere; the owner may edit, commit, and add a worktree, into *)
(* which the installer may be run as well while overlay and hook stay at the  *)
(* main checkout.                                                             *)
EXTENDS Naturals

CONSTANTS
    Main, Linked,  \* the main checkout and a linked worktree of it
    Kits,          \* commits of the kit
    Starts,        \* states of the repository before the first run
    Edits,         \* what the owner does to one file of a checkout
    Repoints,      \* what the owner makes of the overlay
    Absent,
    Own,           \* a file with the owner's content, and an ignore line
    Kit,           \* a file as the kit seeds or renders it
    Link,          \* a symbolic link
    Broken,        \* a file that does not parse
    Odd,           \* a table header or line the installer will not edit
    Stale,         \* the path of another kit checkout, another hook wrapper
    Foreign,       \* a hook that is not the kit's
    MaxRuns, MaxMoves

VARIABLES
    tree,       \* the files of each checkout
    overlay,    \* wiki.local.toml of the main checkout
    able,       \* what the machine has
    hook,       \* the pre-commit hook
    head,       \* the files of the last commit, Absent before the first
    there,      \* the checkouts that exist
    kit,        \* the commit of the kit, Absent if it is not a git checkout
    units,      \* the checkout the scheduler units are for
    pc, at,     \* the run: its place and its checkout
    skip,       \* the run leaves the scheduler out
    written,    \* the files the run has recorded as its own
    runs, moves,
    made,       \* ghost: files the runs before the first commit wrote
    wrote,      \* ghost: what this run changed
    moved,      \* ghost: the owner did something since the run began
    again,      \* ghost: the run repeats a successful one, nothing moved
    cut,        \* ghost: before the first commit a run ended early or the
                \*   owner meddled
    first,      \* ghost: what the installer put into the first commit
    torn,       \* ghost: killed, or committed, between the two pending files
    strayed     \* ghost: the overlay was written from the linked worktree

vars == <<tree, overlay, able, hook, head, there, kit, units, pc, at, skip, written,
          runs, moves, made, wrote, moved, again, cut, first, torn, strayed>>

Checkouts == {Main, Linked}
Ledgers == {"none", "events", "corrupt"}
Projected == Ledgers \ {"corrupt"}
IgnoreLines == {"overlay", "orient", "reports"}
Files == {"toml", "keep", "quarantine", "ignore", "index", "latest", "log",
          "settings", "orient"}

(* A .gitignore without lines is absent; settings are their deny rules.  A    *)
(* wiki.toml may declare a companion.                                         *)
Tomls == [by : {Own, Kit}, stamp : Kits \union {Absent, Odd}, companion : BOOLEAN]
Rules == SUBSET {Own, "deny"}
Lines == SUBSET (IgnoreLines \union {Own, "settings"})
Trees == [toml : Tomls \union {Absent, Broken},
          keep : {Absent, Kit},
          quarantine : {Absent, Own, Kit},
          ignore : Lines,
          index : Projected \union {Absent},
          latest : Projected \union {Absent, Own},
          log : Projected \union {Absent, Own, Link},
          settings : Rules \union {Absent, Broken},
          orient : {Absent, Own, Kit},
          ledger : Ledgers]
(* The owner's part of the overlay is none, plain, bad (a key load_config     *)
(* does not allow), or the path of a companion git can or cannot read.        *)
Pointers == [own : {"none", "plain", "bad", "there", "missing"},
             kit : {Absent, Stale, Odd, Kit}]
Overlays == Pointers \union {Absent}
Hooks == {Absent, Foreign, Stale, Kit}
(* A layout in which git finds the main checkout, a python for the hook, the  *)
(* tools and values the units are rendered with.                              *)
Equipment == {"findable", "python", "tools"}
Steps == {"toml", "keep", "quarantine", "config", "ignore", "stamp", "kitpath",
          "hook", "pending", "latest", "log", "settings", "commit", "orient",
          "scheduler"}
Ended == {"ready", "installed", "error", "killed"}

(* The owner writes whole files of the kinds the steps tell apart.            *)
ASSUME InstallAssumption ==
    /\ Absent \notin {Own, Kit, Link} \union Ledgers /\ Absent \notin Tomls
    /\ (\A r \in Rules : r \notin {Absent, Broken}) /\ Absent \notin Pointers /\ Absent \notin Trees
    /\ Broken \notin Tomls /\ Kit \notin {Own, Odd, Stale, Foreign} /\ Own \notin Files
    /\ Absent \notin Kits /\ Repoints \subseteq Overlays
    /\ \A o \in Repoints : o # Absent => o.kit # Kit
    /\ \A e \in Edits :
          \/ e.file = "toml" /\ e.to \in Tomls \union {Absent, Broken}
          \/ e.file = "keep" /\ e.to \in {Absent, Kit}
          \/ e.file = "quarantine" /\ e.to \in {Absent, Own, Kit}
          \/ e.file = "index" /\ e.to = Absent
          \/ e.file = "latest" /\ e.to \in {Absent, Own}
          \/ e.file = "log" /\ e.to \in Projected \union {Absent, Own, Link}
          \/ e.file = "settings" /\ e.to \in Rules \union {Absent, Broken}
          \/ e.file = "orient" /\ e.to \in {Absent, Own}
          \/ e.file = "ledger" /\ e.to \in Ledgers
          \/ e.file = "ignore" /\ e.to \in Lines /\ IgnoreLines \subseteq e.to
    /\ \A s \in Starts :
          /\ s.tree \in Trees /\ s.overlay \in Overlays /\ s.able \subseteq Equipment
          /\ s.hook \in Hooks /\ s.head \in Trees \union {Absent}
          /\ s.kit \in Kits \union {Absent}

(* Before the first run what the kit keeps out of commits is out of them, and *)
(* no pending index is without its second file.                               *)
ASSUME StartsAssumption ==
    \A s \in Starts :
        /\ s.head # Absent => s.head.orient # Kit
        /\ s.tree.orient = Kit => "orient" \in s.tree.ignore
        /\ s.overlay # Absent /\ s.overlay.kit = Kit => "overlay" \in s.tree.ignore
        /\ \A t \in {s.tree, s.head} \ {Absent} : t.index # Absent => t.latest # Absent

Here == tree[at]
Lacks(t, f) == IF f = "ignore" THEN t.ignore = {} ELSE t[f] = Absent

-----------------------------------------------------------------------------
(* What the steps compute *)

(* load_config: the overlay is the main checkout's where git can find it.     *)
Overlaid == IF "findable" \in able \/ at = Main THEN overlay ELSE Absent
Loads == /\ Here.toml \notin {Absent, Broken}
         /\ Overlaid # Absent =>
               /\ Overlaid.own # "bad"
               /\ Overlaid.own \in {"there", "missing"} => Here.toml.companion

DefaultToml == [by |-> Kit, stamp |-> Absent, companion |-> FALSE]

(* seed_file: whatever exists stays.                                          *)
Seeded(old, new) == IF old = Absent THEN new ELSE old

(* gitignore_lines; the lines the file has are kept.                          *)
Covering(lines) == lines \union IgnoreLines

\* Mutant: a wiki.toml to be stamped is written anew.
StampedFresh(toml) == [by |-> Kit, stamp |-> kit, companion |-> FALSE]

(* stamp_kit: the section is replaced when it differs.                        *)
Stamped(toml) == [toml EXCEPT !.stamp = kit]

\* Mutant: an overlay that exists is left as it is.
PointedOnce(o) == IF o = Absent THEN [own |-> "none", kit |-> Kit] ELSE o

(* ensure_kit_path: the [tools] kit line, with the rest of the overlay kept.  *)
Pointed(o) == IF o = Absent THEN [own |-> "none", kit |-> Kit] ELSE [o EXCEPT !.kit = Kit]

(* merge_claude_settings *)
Denying(s) == (IF s = Absent THEN {} ELSE s) \union {"deny"}

\* Mutant: the first commit takes every file there is.
RelsAll == {f \in Files : ~Lacks(tree[Main], f)}

\* Mutant: wiki.toml is committed only when this run wrote it.
RelsWritten == {f \in written : ~Lacks(tree[Main], f)}

(* What the first commit takes: what this run wrote and still exists, and     *)
(* wiki.toml with it, whoever wrote it.                                       *)
Rels == {f \in written : ~Lacks(tree[Main], f)} \union
        {f \in {"toml"} : ~Lacks(tree[Main], f)}

(* git refuses to add a path its ignore lines cover.                          *)
Refused(rels) == rels \intersect tree[Main].ignore # {}

Snapshot(c, rels) ==
    [f \in DOMAIN c |-> IF f = "ignore" THEN IF f \in rels THEN c[f] ELSE {}
                        ELSE IF f = "ledger" THEN IF f \in rels THEN c[f] ELSE "none"
                        ELSE IF f \in rels THEN c[f] ELSE Absent]

(* The pre-commit hook over a tree: it reads the configuration and the        *)
(* ledger of what is staged and compares the projections it finds with them.  *)
HookPasses(c) ==
    /\ c.toml \notin {Absent, Broken}
    /\ c.ledger # "corrupt"
    /\ c.log \in {Absent, c.ledger}
    /\ c.index # Absent => c.index = c.ledger /\ c.latest = c.ledger

(* The wrapper takes the kit path from the overlay and looks for a python.    *)
Blocks(c) == hook = Kit /\ ~(/\ overlay # Absent /\ overlay.kit # Absent
                              /\ "python" \in able /\ HookPasses(c))
(* What another hook, or the wrapper with an odd line, makes of a commit.     *)
Unforeseen == hook \in {Foreign, Stale} \/ (overlay # Absent /\ overlay.kit = Odd)

-----------------------------------------------------------------------------
(* Steps of a run *)

Put(f, v) ==
    /\ tree' = [tree EXCEPT ![at][f] = v]
    /\ wrote' = IF Here[f] = v THEN wrote ELSE wrote \union {f}
    /\ made' = IF Here[f] # v /\ head = Absent THEN made \union {f} ELSE made

(* The pending index carries the time it was built: never what was there.     *)
PutNew(f, v) ==
    /\ tree' = [tree EXCEPT ![at][f] = v]
    /\ wrote' = wrote \union {f}
    /\ made' = IF head = Absent THEN made \union {f} ELSE made

Owns(f) == written' = IF Lacks(Here, f) THEN written \union {f} ELSE written
OwnsIfChanged(f, v) == written' = IF Here[f] # v THEN written \union {f} ELSE written

Stay == UNCHANGED <<tree, made, wrote, written>>
World == <<able, there, kit, at, skip, runs, moves, moved, again, torn>>
Quiet == UNCHANGED <<World, overlay, hook, head, units, first, strayed, cut>>

Early == cut' = (cut \/ head = Absent)
Fail == /\ pc' = "error" /\ Early /\ Stay
        /\ UNCHANGED <<World, overlay, hook, head, units, first, strayed>>

(* s: --no-scheduler, or a platform without one.                              *)
Run(k, s) ==
    /\ pc \in Ended /\ runs < MaxRuns /\ k \in there
    /\ runs' = runs + 1
    /\ at' = k /\ skip' = s /\ pc' = "toml"
    /\ written' = {} /\ wrote' = {} /\ moved' = FALSE
    /\ again' = (pc = "installed" /\ ~moved /\ at = k /\ skip = s)
    /\ UNCHANGED <<tree, overlay, able, hook, head, there, kit, units, moves, made,
                   cut, first, torn, strayed>>

SeedToml ==
    /\ pc = "toml" /\ pc' = "keep"
    /\ Put("toml", Seeded(Here.toml, DefaultToml)) /\ Owns("toml")
    /\ Quiet

EnsureSkeleton ==
    /\ pc = "keep" /\ pc' = "quarantine"
    /\ Put("keep", Seeded(Here.keep, Kit)) /\ Owns("keep")
    /\ Quiet

SeedQuarantine ==
    /\ pc = "quarantine" /\ pc' = "config"
    /\ Put("quarantine", Seeded(Here.quarantine, Kit)) /\ Owns("quarantine")
    /\ Quiet

LoadConfig ==
    /\ pc = "config"
    /\ IF ~Loads THEN Fail ELSE pc' = "ignore" /\ Stay /\ Quiet

EnsureGitignore ==
    /\ pc = "ignore" /\ pc' = "stamp"
    /\ Put("ignore", Covering(Here.ignore))
    /\ OwnsIfChanged("ignore", Covering(Here.ignore))
    /\ Quiet

StampKit ==
    /\ pc = "stamp"
    /\ IF Here.toml \in {Absent, Broken} \/ Here.toml.stamp = Odd \/ kit = Absent THEN Fail
       ELSE /\ pc' = "kitpath"
            /\ IF Here.toml.stamp = kit THEN Stay
               ELSE Put("toml", Stamped(Here.toml)) /\ written' = written \union {"toml"}
            /\ Quiet

EnsureKitPath ==
    /\ pc = "kitpath"
    /\ IF "findable" \notin able \/ (overlay # Absent /\ overlay.kit = Odd) THEN Fail
       ELSE /\ overlay' = Pointed(overlay) /\ pc' = "hook"
            /\ strayed' = (strayed \/ (overlay' # overlay /\ at = Linked))
            /\ wrote' = IF overlay' = overlay THEN wrote ELSE wrote \union {"overlay"}
            /\ UNCHANGED <<World, tree, made, written, hook, head, units, first, cut>>

(* A hook without the kit's marker stops the run; another wrapper is replaced.*)
InstallHook ==
    /\ pc = "hook"
    /\ IF hook = Foreign THEN Fail
       ELSE /\ hook' = Kit /\ pc' = "pending"
            /\ wrote' = IF hook = Kit THEN wrote ELSE wrote \union {"hook"}
            /\ UNCHANGED <<World, tree, made, written, overlay, head, units, first,
                           strayed, cut>>

(* build-pending, only where there is no index: the pair is written one file  *)
(* after the other, the second whatever was there.                            *)
PairPresent(k) == tree[k].index # Absent

BuildIndex ==
    /\ pc = "pending"
    /\ IF PairPresent(at) THEN pc' = "log" /\ Stay /\ Quiet
       ELSE IF Here.ledger = "corrupt" THEN Fail
       ELSE /\ PutNew("index", Here.ledger) /\ pc' = "latest"
            /\ UNCHANGED written /\ Quiet

BuildLatest ==
    /\ pc = "latest" /\ pc' = "log"
    /\ PutNew("latest", Here.index) /\ written' = written \union {"index", "latest"}
    /\ Quiet

(* A log that is there is only compared; neither that nor a render goes       *)
(* without a configuration and a ledger that load.                            *)
RenderLog ==
    /\ pc = "log"
    /\ IF Here.log = Link THEN pc' = "settings" /\ Stay /\ Quiet
       ELSE IF ~Loads \/ Here.ledger = "corrupt" THEN Fail
       ELSE /\ Put("log", Seeded(Here.log, Here.ledger)) /\ Owns("log")
            /\ pc' = "settings" /\ Quiet

MergeSettings ==
    /\ pc = "settings"
    /\ IF Here.settings = Broken THEN Fail
       ELSE /\ Put("settings", Denying(Here.settings))
            /\ OwnsIfChanged("settings", Denying(Here.settings))
            /\ pc' = "commit" /\ Quiet

(* initial_commit, where there is none: add, then commit past the hook.       *)
InitialCommit ==
    /\ pc = "commit"
    /\ \/ head # Absent /\ pc' = "orient" /\ Stay /\ Quiet
       \/ /\ head = Absent
          /\ \/ Rels = {} \/ Refused(Rels) \/ Unforeseen
             \/ Blocks(Snapshot(tree[Main], Rels))
          /\ Fail
       \/ /\ head = Absent /\ Rels # {} /\ ~Refused(Rels)
          /\ ~Blocks(Snapshot(tree[Main], Rels))
          /\ head' = Snapshot(tree[Main], Rels) /\ first' = Rels
          /\ wrote' = wrote \union {"head"} /\ pc' = "orient"
          /\ UNCHANGED <<World, tree, made, written, overlay, hook, units, strayed, cut>>

(* render_orientation, where there is none: claude-local loads configuration  *)
(* and ledger and asks git about each companion.                              *)
RenderOrientation ==
    /\ pc = "orient"
    /\ IF /\ Here.orient = Absent
          /\ ~Loads \/ Here.ledger = "corrupt" \/ (Overlaid # Absent /\ Overlaid.own = "missing")
       THEN Fail
       ELSE /\ pc' = "scheduler" /\ Put("orient", Seeded(Here.orient, Kit))
            /\ UNCHANGED written /\ Quiet

(* install_scheduler: the units name the checkout; files as they should be    *)
(* are left.                                                                  *)
InstallScheduler ==
    /\ pc = "scheduler"
    /\ IF ~skip /\ (~Loads \/ "tools" \notin able) THEN Fail
       ELSE /\ pc' = "installed"
            /\ units' = IF skip THEN units ELSE at
            /\ wrote' = IF units' = units THEN wrote ELSE wrote \union {"units"}
            /\ UNCHANGED <<World, tree, made, written, overlay, hook, head, first,
                           strayed, cut>>

-----------------------------------------------------------------------------
(* The world around it *)

Running == pc \notin Ended

(* The operator kills it, or what it calls fails for the machine's own reasons *)
(* (a full disk, a lock held, git): either way it ends where it is, and the   *)
(* next run finds the same.                                                   *)
Kill ==
    /\ Running /\ moves < MaxMoves
    /\ moves' = moves + 1 /\ pc' = "killed" /\ Early
    /\ torn' = (torn \/ pc = "latest")
    /\ UNCHANGED <<tree, overlay, able, hook, head, there, kit, units, at, skip,
                   written, runs, made, wrote, moved, again, first, strayed>>

Move == /\ moves < MaxMoves /\ moves' = moves + 1 /\ moved' = TRUE
        /\ cut' = (cut \/ (head = Absent /\ (Running \/ runs > 0)))
        /\ UNCHANGED <<able, units, pc, at, skip, written, runs, wrote, again, first,
                       strayed>>

KitMoves(c) ==
    /\ kit # c /\ kit' = c /\ Move
    /\ UNCHANGED <<tree, overlay, hook, head, there, made, torn>>

(* A file of one checkout becomes the owner's, breaks, is mended or removed.  *)
OwnerEdits(k, e) ==
    /\ k \in there /\ tree[k][e.file] # e.to
    /\ tree' = [tree EXCEPT ![k][e.file] = e.to] /\ Move
    /\ made' = IF head = Absent /\ ~(Running /\ e.file \in written)
               THEN made \ {e.file} ELSE made
    /\ torn' = (torn \/ e.file \in {"index", "latest"})
    /\ UNCHANGED <<overlay, hook, head, there, kit>>

OwnerHook(v) ==
    /\ hook # v /\ hook' = v /\ Move
    /\ UNCHANGED <<tree, overlay, head, there, kit, made, torn>>

OwnerOverlay(v) ==
    /\ overlay # v /\ overlay' = v /\ Move
    /\ UNCHANGED <<tree, hook, head, there, kit, made, torn>>

(* `git add -A` and a commit in the main checkout, past the kit's hook, if    *)
(* that is the one there.                                                     *)
Everything == {f \in Files : f \notin tree[Main].ignore} \union {"ledger"}
OwnerCommits ==
    /\ head' = Snapshot(tree[Main], Everything) /\ head' # head
    /\ ~Blocks(head')
    /\ Move
    /\ torn' = (torn \/ pc = "latest")
    /\ UNCHANGED <<tree, overlay, hook, there, kit, made>>

AddWorktree ==
    /\ head # Absent /\ Linked \notin there /\ there' = Checkouts
    /\ tree' = [tree EXCEPT ![Linked] = head] /\ Move
    /\ UNCHANGED <<overlay, hook, head, kit, made, torn>>

-----------------------------------------------------------------------------

Init ==
    /\ \E s \in Starts :
          /\ tree = [k \in Checkouts |-> s.tree] /\ overlay = s.overlay
          /\ able = s.able /\ hook = s.hook /\ head = s.head /\ kit = s.kit
    /\ there = {Main} /\ units = Absent /\ pc = "ready" /\ at = Main /\ skip = FALSE
    /\ written = {} /\ runs = 0 /\ moves = 0
    /\ made = {} /\ wrote = {} /\ moved = FALSE /\ again = FALSE /\ cut = FALSE
    /\ first = Absent /\ torn = FALSE /\ strayed = FALSE

RunStep ==
    \/ SeedToml \/ EnsureSkeleton \/ SeedQuarantine \/ LoadConfig
    \/ EnsureGitignore \/ StampKit \/ EnsureKitPath \/ InstallHook
    \/ BuildIndex \/ BuildLatest \/ RenderLog \/ MergeSettings
    \/ InitialCommit \/ RenderOrientation \/ InstallScheduler

Owner ==
    \/ \E c \in Kits \union {Absent} : KitMoves(c)
    \/ \E k \in Checkouts, e \in Edits : OwnerEdits(k, e)
    \/ \E v \in {Absent, Foreign, Stale} : OwnerHook(v)
    \/ \E o \in Repoints : OwnerOverlay(o)
    \/ OwnerCommits \/ AddWorktree

Next == (\E k \in Checkouts, s \in BOOLEAN : Run(k, s)) \/ RunStep \/ Kill \/ Owner

Spec == Init /\ [][Next]_vars

-----------------------------------------------------------------------------
(* Properties *)

(* Every variable holds values the code can give it.                          *)
TypeOK ==
    /\ tree \in [Checkouts -> Trees] /\ head \in Trees \union {Absent}
    /\ overlay \in Overlays /\ hook \in Hooks /\ able \subseteq Equipment
    /\ Main \in there /\ there \subseteq Checkouts /\ kit \in Kits \union {Absent}
    /\ units \in Checkouts \union {Absent}
    /\ pc \in Steps \union Ended /\ at \in Checkouts /\ skip \in BOOLEAN
    /\ written \subseteq Files /\ made \subseteq Files
    /\ wrote \subseteq Files \union {"overlay", "hook", "head", "units"}

(* The commit that the installer makes the first of a repository holds only   *)
(* files some run wrote, and wiki.toml; and all of them, unless an earlier    *)
(* run ended before its commit: that run's list of files died with it, and    *)
(* what it wrote the next run calls pre-existing.                             *)
FirstCommitExact ==
    first # Absent =>
        /\ first \subseteq made \union {"toml"}
        /\ ~cut => made \subseteq first

(* The machine-local files never reach a commit, for the lines that keep them *)
(* out are written before them: neither the installer's commit nor one the    *)
(* owner makes of everything, at any moment and after any kill.               *)
LocalsUncommitted ==
    /\ head # Absent => head.orient # Kit
    /\ overlay # Absent /\ overlay.kit = Kit /\ ~strayed
          => "overlay" \in tree[Main].ignore

(* No step of the installer takes away what the owner put into a file,        *)
(* recorded as the file of a line, a rule, a table or the whole.              *)
KeepsOwner ==
    /\ \A k \in there :
          LET old == tree[k] new == tree'[k] IN
          /\ old.toml \notin {Absent, Broken} => /\ new.toml.by = old.toml.by
                                                 /\ new.toml.companion = old.toml.companion
          /\ \A f \in {"quarantine", "log", "orient"} : old[f] \in {Own, Link} => new[f] = old[f]
          /\ old.ignore \subseteq new.ignore
          /\ old.settings \notin {Absent, Broken} => old.settings \subseteq new.settings
    /\ overlay # Absent => overlay' # Absent /\ overlay'.own = overlay.own
    /\ hook = Foreign => hook' = Foreign
KeepsLatest == \A k \in there : tree[k].latest = Own => tree'[k].latest = Own

(* The installer says of itself that it installs around what is there and     *)
(* overwrites nothing.  Not so: build-pending, run because the index is       *)
(* missing, writes latest.md whatever it holds.  What it does keep, between   *)
(* the owner's own moves and over any number of runs, is everything else, and *)
(* latest.md wherever it finds an index: only the step that completes a       *)
(* missing pair takes an owner's latest.md.                                   *)
OwnerKeptButPair == [][moves' = moves => /\ KeepsOwner
                                         /\ KeepsLatest \/ pc = "latest"]_vars

(* A run fails only for something the owner or the machine can mend, never    *)
(* for what an earlier run left behind.  The last cause is of the first       *)
(* commit: it needs a python for the hook, and is refused where it would      *)
(* carry projections of events it does not and where an ignore line covers a  *)
(* file it takes.                                                             *)
FailsForCause ==
    pc = "error" /\ ~moved =>
        \/ Here.toml # Absent /\ ~Loads
        \/ Here.toml \notin {Absent, Broken} /\ Here.toml.stamp = Odd
        \/ kit = Absent \/ hook = Foreign \/ "findable" \notin able
        \/ overlay # Absent /\ overlay.kit = Odd
        \/ Here.settings = Broken
        \/ Here.ledger = "corrupt"
        \/ overlay # Absent /\ overlay.own = "missing" /\ Here.orient = Absent
        \/ ~skip /\ "tools" \notin able
        \/ /\ head = Absent
           /\ "python" \notin able \/ Here.ledger = "events" \/ "settings" \in Here.ignore

(* After a run that ended well the floor of a deployment stands, whatever     *)
(* earlier runs left half done: hook and overlay lead to this kit, the stamp  *)
(* is its commit, there is a commit, and every file exists; except the second *)
(* pending file after a kill or a commit between the two.                     *)
FloorStands ==
    pc = "installed" /\ ~moved =>
        /\ hook = Kit /\ overlay.kit = Kit /\ Here.toml.stamp = kit /\ head # Absent
        /\ \A f \in Files \ {"latest"} : ~Lacks(Here, f)
        /\ "deny" \in Here.settings
        /\ torn \/ Here.latest # Absent

(* A run again, with nothing moved since, changes nothing.                    *)
RerunSettles == again /\ ~moved => wrote = {}

(* A run that ended well has brought the deployment where it should be: the   *)
(* floor stands and there is nothing left for another run.                    *)
RunsSound == TypeOK /\ FloorStands /\ RerunSettles

(* What is committed is what should be, by the installer or by the owner.     *)
CommitsClean == FirstCommitExact /\ LocalsUncommitted
=============================================================================
