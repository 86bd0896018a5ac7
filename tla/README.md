# A TLA+ verification of wiki-kit

wiki-kit keeps a git repository of workstream pages (the *wiki*) that several
agents and people write to. Sessions emit immutable *events*; a *garden* run,
interactive or nightly, applies them to the pages; projections (the pending
index, the log, the orientation file) are regenerated from the events; hooks
and a doctor refuse what does not fit. All of it is files: there is no daemon
and no database, only short-lived processes that take lock files, write files
by rename, and may be killed between two writes. What makes it hard is in that
sentence, and it is what this project is about.

Paths below are relative to the repository, line numbers to the commit the
project was written against.

## 1. Inventory

| component | code | state it keeps | operations |
|---|---|---|---|
| event write lock | `scripts/wiki_lock.py` | `.wiki-event.lock`: pid and time of its holder | `EventWriteLock.__enter__`, `__exit__`, `_clear_stale_lock` |
| garden lock | `scripts/garden-lock.py` | `workstreams/.garden.lock`: a random token | `acquire`, `release`, `check` |
| event store | `scripts/wiki_event.py` | `wiki/events/**` (append-only), `wiki/pending/index.json`, `latest.md`, `wiki/sources/**` | `new-handoff`, `new-garden-apply`, `build-pending`, `capture-sources`, `count-pending`, `status`, `validate` |
| garden apply | `scripts/wiki_garden.py` | `workstreams/<name>.md` | `apply_event` |
| night runner | `scripts/wiki_night.py` | the run report, fingerprints of owned files, one commit | `run`, `run --dry-run`, `run --report-only` |
| checkpoint | `scripts/wiki_checkpoint.py` | a state file and the git index | `preflight`, `approve`, `adopt-handoffs`, `prepare`, `verify`, `unstage` |
| renderer | `scripts/wiki_render.py` | `wiki/log.md`, `CLAUDE.local.md` | `log`, `claude-local` |
| commit hooks | `scripts/pre-commit`, `post-commit` | none; `git-state.md` of a companion | the staged-tree checks |
| dock, installer | `scripts/wiki_dock.py`, `wiki_install.py`, `install.sh` | `.wiki/` of a consumer, hooks, marked blocks | `install`, `complete`, `status` |
| configuration | `scripts/wiki_config.py` | none | `resolve_wiki_root`, `load_config` |
| doctor | `scripts/wiki_doctor.py` | none (read-only) | the checks |
| gh sweep, memory triage | `scripts/wiki_gh_sweep.py`, `wiki_memory_triage.py` | none (read-only) | the scans |
| reminders, notification, probe | `scripts/morning-reminder.sh`, `garden-reminder.sh`, `wiki-notify.sh`, `wiki-probe.py` | a notification, a transcript | one decision each |
| scheduler templates | `scripts/render_scheduler.py` | unit files | one rendering |
| views, validation | `scripts/build-index.py`, `generate-topology.*`, `validate-workstreams.py`, `wiki_frontmatter.py` | none | pure functions of the tree |
| schemas, templates, skills | `schemas/`, `.agents/skills/`, docs | none | quoted where code and text differ |

**How they interact.** Every writer of the event store is a separate process
and takes the event lock for one command. A garden run is many commands: it
holds the garden lock from its first to its last, and takes the event lock anew
inside each command that writes events. The night runner is such a run; its
children get the wiki root explicitly. `count-pending`, the renderer, the
doctor and the hooks read without a lock. Git is shared by all of them: the
night runner and the checkpoint commit, the hooks judge what is staged.

**What is hard here, and what would make it right.**

* *Event lock.* Two waiters, a dead holder and a reused pid: who unlinks whose
  file? Right: at most one writer inside; a dead holder frees the lock at once;
  `__enter__` ends.
* *Garden lock.* No pid tells whether the owner lives, only the age of the
  file; commands run in fresh shells. Right: one garden at a time; nobody
  releases a lock it does not own; `acquire` and `release` end.
* *Event store and garden apply.* One command writes up to four files one after
  the other, each write may fail, the process may be killed in between, and
  other commands stamp their events before they queue for the lock. Right: a
  session block on a page and its garden-apply event come together; no block
  twice or in two places; the disposition gate holds under concurrency; the
  projection is current or it is known why not; a command reports what it did.
* *Night runner.* A pipeline of eleven steps over a tree that sessions keep
  changing. Right: what it commits is what it verified; a failed commit leaves
  the branch where it was; it never commits a file it does not own.
* *capture-sources.* A list of files is copied one by one with a digest beside
  each, and the manifest that vouches for them comes last; the sources change
  meanwhile. Right: a manifest vouches for what is there, a success for what
  the sources were.
* *Checkpoint.* A transaction over the git index in several commands with a
  user's decision in between, while others stage and commit. Right: what is
  committed is what was approved, and what prepare staged can be taken back.
* *Renderer and hooks.* Projections that equal a rendering, immutable events, a
  hook that reads the index three times. Right: whatever sequence of commits the
  hook accepts, history holds sound events and their projections.
* *Dock, installer.* One file after another, without journal or lock, around
  files of others. Right: nothing of the owner's is lost, nothing machine-local
  reaches a commit, a command that was killed is mended by running it again.
* *Root resolution.* An order of sources; a wrong root writes another wiki.

`PROJECT.json` lists the hazards at their lines, with the properties that would
catch each; section 3 has those that bite.

## 2. Modules

```
WriterMutex  <----- implements ----- EventLock  <-- LockProofs
     ^                                MCEventLock
     | INSTANCE (the lock)
EventStore  ------- implements ----> PendingLedger
     | EXTENDS Routing               MCEventStore, EventStoreProofs
GardenLock  <-- LockProofs            MCGardenLock
NightRunner <-- NightRunnerProofs     MCNightRunner
Checkpoint  <-- CheckpointProofs      MCCheckpoint
Capture     <-- CaptureProofs         MCCapture
Projections <-- EXTENDS -- CommitHook <-- CommitHookProofs, MCCommitHook
Dock        <-- DockProofs            MCDock
Install     <-- InstallProofs         MCInstall
```

| module | models | state and actions in the code |
|---|---|---|
| `WriterMutex` | what a writer is promised | `holder`; `Acquire`, `Release` |
| `EventLock` | `wiki_lock.py` | `file` is `.wiki-event.lock`; `pc` is the place in `__enter__` (`open`, `created`), in `_clear_stale_lock` (`read`, `kill0`, `stat`, `unlink`), at the deadline test (`wait`), inside `with` (`held`). One action per system call |
| `GardenLock` | `garden-lock.py` | `lock` is `.garden.lock`; a run is `Begin`, `acquire` (`open` to `created`), `working`, `release` (`compare` to `unlinkOwn`/`unlinkOld`) |
| `Routing` | `_target_workstream` | pure: which page a handoff goes to |
| `PendingLedger` | what the store promises its readers | `emitted`, `disposed`, two published lists |
| `EventStore` | `wiki_event.py`, `wiki_garden.py` | `handoffs`, `applies`, `manifests` are `wiki/events/**` and `wiki/sources/**`; `index`, `latest` the projection; `pages` the workstream pages; `pc[p]` the next write of process `p`. One action per write of a file, plus one per early return |
| `NightRunner` | `wiki_night.py run --scheduled`, `morning-reminder.sh` | `work`, `index`, `head` are the tree, git's index and the branch; `pc`, `part` the place in the pipeline; `night` the fields of the `NightRunner` object (`touched` and `expected` are `_touched_paths` and `_expected_fingerprints`, `baseline`, `foreign`, `staged` likewise) and the locals of `_apply_pending` and `_commit`. One action per guard, write, fingerprint and git command; the other actions are what sessions, faults and clocks do in between |
| `Checkpoint` | `wiki_checkpoint.py` and the user's commit | `head`, `index`, `work` are the branch, git's index and the working tree; `saved` is `checkpoint.json`, `manifestFile` the path manifest; `pc`, `local` the command under way and what it has read. One action per read of git or of the event directory and per write, because others act between any two |
| `Capture` | `capture-sources` of `wiki_event.py` | `captured`, `sidecar`, `manifest` are the files under `wiki/sources/<event>`; `digests` is what the run computed before it began to write |
| `Projections` | `load_events`, `render_log`, `build_pending_index` | pure: what the log and the pending index of a store are, and when rendering fails |
| `CommitHook` | `pre-commit` | `index` is what is staged, `seen` what the hook read of it, `head` the last commit. `CommitBegins`, `HookDecides`, `CommitWrites` are the three moments at which git or the hook reads the index |
| `Dock` | `wiki_dock.py`, `resolve_wiki_root` | `tree[k]` holds the files of each checkout, `exclude` and `hook` what they share, `committed` what the owner committed; `pc` is the next write of `install` or `complete`. `Resolve` and `Status` are evaluated in every state |
| `Install` | `wiki_install.py` | `tree[k]`, `overlay`, `hook`, `head`, `units` are the deployment; `able` is what the machine has (a layout git can read, a python, the scheduler's tools), `kit` the kit's commit; `written` is the list the run keeps in memory; `pc` is the next step of `install` |
| `*Proofs` | | the theorems of a module, and their proofs |
| `MC*` | | the instances TLC checks |

The composition: `EventStore` takes its lock as an instance of `WriterMutex`
and `EventLock` implements `WriterMutex`, so each is checked at its own grain;
what `EventLock` implements only with a reservation (see the findings) is
inherited by everything said about `EventStore`.

`CommitHook` and `EventStore` meet in what a pending index is: `Projections`
derives it from the events of a tree, `EventStore` writes it after each event.
`Capture` opens up what `EventStore` takes for one step. `Checkpoint` and
`NightRunner` are the two ways to a commit, and each runs beside others who
commit too; the hook's verdict is left out of both, as `git commit` may fail in
either for any reason. `Dock` and `Install` share no state: one works in a
consumer, the other in the wiki.

`NightRunner` is at a coarser grain. A file is a set of marks (what was rendered
into it, the session block, each edit of a session), `apply_event` is one step,
whose outcomes are those `EventStore` has at that point: applied, manual,
already disposed of, applied but in need of repair, failed. The garden lock is
its value: free, the runner's, another's. That it changes hands under a live
run is the step `LockTaken`, which is what `GardenLock` allows beyond the TTL
or in the raced clear.

### What the models leave out, on purpose

* **Contents.** A handoff is a name with its proposed workstreams; a page is
  the list of the session blocks on it; a projection is the pending handoffs
  and the captured ones among them. The text of a block, frontmatter such as
  `last_updated`, schema validation, quarantine and `load_events` failures are
  not modelled.
* **Stamps.** A timestamp and the uuid7 made with it are one number from a
  clock that only goes up. The real clock has a granularity and may be set
  back, and `--timestamp` overrides it; what is said about the order of stamps
  (`AppliesInOrder`) holds for clocks that behave.
* **Time** in the locks is the two facts the code asks of it: the deadline has
  passed, the file is older than the TTL. Either may become true at any moment.
* **The lock of a dead process** is free at once in `EventStore`; that a waiter
  frees it is what `EventLock` shows (`DeadHolderFreed`).
* **capture-sources** is one step of `EventStore` that leaves a manifest or
  nothing; `Capture` has its writes.
* The first projection is taken to be there, as the installer writes it.
* `check` of the garden lock reads and prints.
* **Checkpoint.** A path is a name, a file's content a value, a commit its number
  and its tree. Events are canonical or not; renames, type changes and odd path
  bytes, which the code refuses while parsing git's output, do not occur.
  `status` prints and is left out; so is the guard that all of this is run in one
  repository.
* **Commit hook.** A file's content is valid or not; a log is its epoch, its
  legacy text and its entries; the index is the pending handoffs with their
  captures. The checks of other staged artifacts and of workstreams give one
  verdict each; a quarantine ledger may be fit for its schema and still not load
  (`Crossed`), which the hook sees only through a projection. `wiki/events` exists, as the installer puts a file there, so the
  return for a tree without it is never taken. `post-commit`, which rewrites a
  view of a companion, is not modelled.
* **Dock.** A rendered skill is the revision of the kit it was rendered from; an
  ignore line is what it covers. A `wiki.toml` has a name and whether it states
  it: one that does not has its directory's, for `load_config` but not for
  `verify_dock_identity`. Between two steps of a running command the owner
  moves at most once. The environment variables of the resolver and the legacy
  channel give one root each that no file decides, and are left out.
* **Installer.** A seeded file is the kit's or the owner's; the stamp is the
  commit of the kit. A subprocess is the step that calls it, with the causes its
  code has for failing: a configuration or an overlay that does not load, a
  ledger that does not, a companion git cannot read, tools that are missing. That
  it fails for the machine's own reasons, a full disk or a lock of git, ends the
  run where it is, as a kill does (`Kill`). The name of the directory is one that
  `wiki.toml` and the units can hold.
* **The night run** is the scheduled one. `--dry-run`, `--report-only` and manual
  runs change the name of the report or stop before the commit; the gh sweep and
  the memory triage cannot fail a run and write nothing it commits. The doctor
  is the two checks a run can upset, projections and log, and may fail for any
  other reason. That a report does not fit its ceiling is such a failure too.
  `git reset` in the recovery of the abort report is taken to work. The release
  of the garden lock may fail, which nobody looks at.

## 3. Runs

TLC reports the counts; the longest takes under three minutes on two cores. The
properties of a run are the INVARIANTs and PROPERTYs of its cfg; those whose
parts speak of one matter are conjunctions of named parts (`CommandsSound`,
`LocalsHidden`, `WiringAgrees` of `Dock`, `RunsSound` and `CommitsClean` of
`Install`, `CapturesAreEvidence`, `ProjectionsFit`), and the type invariant of
`Dock` and `Install` is among these parts. For the other modules type
correctness is proved (section 4) where it is not checked.

| run | instance | distinct states | shows |
|---|---|---|---|
| `EventLock_run` | 3 pids, 1 `__enter__` each, fair | 22,572 | exclusion and ownership but for the two ghosts; every `__enter__` ends; a dead holder's lock is freed; until a window is hit the lock file implements `WriterMutex` |
| `GardenLock_run` | 3 runs, fair | 15,231 | one garden at a time but for the ghosts; a live run keeps its lock; both commands end |
| `EventStore_all` | 2 processes, 1 handoff proposed as a new page, every command, 3 runs, 2 failing writes, a failing restore, 1 kill | 2,384,595 | blocks are recorded, the projection is fresh or accounted for, the refinement of `PendingLedger` |
| `EventStore_apply` | 2 processes, 2 handoffs that may share a page and one without state, 4 runs, 1 failing write | 1,488,160 | applies are gated, ordered, keep their block, report the truth |
| `NightRunner_run` | 4 mornings, 2 scheduled runs, 2 moves of the environment | 208,011 | what is committed is the runner's output; no edit outside a write's window is lost or committed; a roll back spares the commits of others; an abort shows in the report and the reminder; the lock is given back unless its release fails |
| `NightRunner_foreign` | 1 morning, 1 run | violation | a path that is foreign before the run is overwritten and committed |
| `Checkpoint_run` | 2 handoffs, an apply, a page, a projection, a foreign path; 7 commands, 2 moves of others | 878,485 | approvals stay in scope; what prepare staged is known to unstage; what verify passed and what is then committed is what was approved |
| `Capture_run` | 2 sources, 3 runs, 2 changes or damages | 2,294,233 | manifests and successes are evidence; an error has a cause |
| `CommitHook_run` | 2 handoffs and an apply, 3 first commits, 4 stages, 2 commits; one legacy text | 3,642,423 | committed events are sound, both projections fit, the log loses no session |
| `Dock_run` | 2 starts, 2 checkouts, 2 roots, 2 skill directories, 3 kits, 3 commands, 2 moves of the owner or kills | 1,886,651 | a failed command has changed nothing, but in a wiki that states no name, and re-runs settle; what is hidden stays out of commits; the wiring agrees; skills of the owner stay; roots resolve to the docked wiki |
| `Dock_unnamed` | the same, 2 commands, 1 move | violation | an install into a wiki that states no name fails after its last write |
| `Install_run` | 7 starts, 2 checkouts, 2 kits, 3 runs with or without the scheduler, 2 moves | 2,338,379 | the first commit is what was written; failures have a cause; the floor stands and re-runs settle; the owner's files stay, but for a `latest.md` beside which the index is missing |

**Why the bounds are enough.** The race on a stale lock needs a waiter that
judges, one that clears and re-creates, and the one whose file goes: three
processes. A pid's second life needs `Recycle`, which costs no call; the proofs
cover a pid that calls again. In the store, everything under the lock is sequential and what competes
is what a command read or stamped before it queued, so two processes show every
interleaving of two commands, and three or four runs let one command's leavings
(an unpublished index, a cut block, a created page) meet the next two. Two
handoffs are needed where pages are shared or gates could be confused; one with
more faults is enough where failures pile up: `RecordFails` and then
`RestoreFails` take two faults, and a kill on top shows a block cut three ways.
In the night run
a single move anywhere shows each check of the pipeline at work; two are what
it takes to get past one, as when a session stages a file after the manifest was
verified and commits before the roll back. The second run meets what the first
left: a committed report, an ignored one, a staged one, a lock of the dead. The
four mornings are those that differ: the handoff committed or not, mechanical or
not, its page foreign or not, the orientation file tracked or not.
In the checkpoint seven commands are the longest way that matters: preflight,
approve, adopt, prepare, unstage or a prepare that failed, prepare again,
verify; two moves let somebody stage what another edit prepared. A handoff that is
there at the start and one that appears are the two ways into the baseline. In
`Capture` the third run meets the leavings of the second, which met those of the
first. In `CommitHook` the second commit is judged against a first that was
itself accepted, and four stages are what a commit needs that is accepted and
changes a projection (an event, its regeneration) twice. In `Dock` a third
command shows whether the second mended the first; a kit update and an edit
between are the two moves it takes to make a record stale. Worktree and clone
cost a move each. In `Install` the same holds for runs.
The proofs do away with the bounds for what they cover.

**Fairness.** A process that runs keeps running, and its clock keeps ticking:
`WF` on the steps of each process and, in `EventLock`, on the passing of its
deadline. Nothing is fair about beginning a command, failing writes, deaths,
interrupts, pid reuse or the TTL. `EnterReturns` holds although a `continue` after each
stale clear skips the deadline test, because a stale lock must first be created
by someone, and the number of calls is bounded here; with endless traffic of
writers that die, the code gives no bound.

`NightRunner` states no fairness, as it states no liveness: the pipeline has no
loop, and deadlock is checked, so a run stops only at `done` unless a child never
returns; no child is called with a timeout.

`EventStore`, `Checkpoint`, `Capture`, `CommitHook`, `Dock` and `Install` state
no fairness either: but for the wait for the event lock, which `EnterReturns`
shows to end, their commands are straight lines without a loop or a wait, and what
they promise is about states.

`CHECK_DEADLOCK FALSE` stands in every other cfg: all commands may have been run,
and nothing more happens.

**Mutants.** Every property of a passing run has a mutant, a definition beside
the one it replaces (for instance `RestoreSkipped` beside `Restore`), that makes
TLC find the property violated under the same cfg.

### Findings

*A foreign report is overwritten and committed* (`NightRunner_foreign`).
`_preflight` sets aside what was dirty before the run, and a test and a
comment say such a path is never touched or staged. `_apply_pending` honours
that for pages; `_write_report` does not. If a session edits the day's
committed report and a second scheduled run finds an owned path dirty beside
it, the baseline holds the edit, the guard passes, the edit is overwritten and
the result committed.

*A failed install leaves a complete dock* (`Dock_unnamed`). `wiki_dock.py:779`:
"Every conflict check runs before any write: a failed install leaves nothing
half-applied." `load_config` gives a `wiki.toml` without a name that of its
directory (`wiki_config.py:974`, as `docs/wiki-toml-schema.md:57` says), and the
install writes manifest, overlay, ignore lines, blocks, hook, skills and
orientation with it; `verify_dock_identity`, called last (`:847`), demands a
stated name (`wiki_config.py:582`) and fails. `status` and the resolver refuse the
dock from then on. `FailsClean`, a part of `CommandsSound`, says that this is the
only failure that leaves anything.

### Where code and text differ

Each of these is in the models, and the property it limits says so by a ghost or
by its wording; none has a run of its own.

* `wiki_lock.py:4` says one lock serializes every writer. `_clear_stale_lock`
  (`:103`) unlinks whichever file has the name by then: `raced` in
  `ExclusionUnlessRaced`.
* `garden-lock.py:92` says `O_EXCL` decides the winner if two clear at once; the
  second clear unlinks the winner's file: `swept` in `OneGardenUnlessRaced`.
* `wiki_garden.py:242` says the event is built before anything is mutated, and
  `:209` that a failed apply restores the page. A candidate page is written
  before (`:222`) and outside the `try`; a fault in between leaves it.
* `.agents/skills/garden/SKILL.md:111` tells the curator that blocks are in
  chronological order; they are in the order of the applies
  (`wiki_garden.py:467`).
* `wiki_lock.py:8` calls a view that lags behind an event acceptable for every
  reader; `count-pending` (`wiki_event.py:1481`) fails on it, and the night
  runner starts with that read.
* `SKILL.md:82` says the adoption commands include the complete concurrent set.
  `preflight` reads the changes before the events (`wiki_checkpoint.py:264`,
  `:273`): a handoff emitted between is in the baseline and not in the ingress.
  `status` then does not list it for adoption and offers an `approve` that
  always refuses; the batch cannot be prepared while the handoff is there.
* `docs/enforcement-contract.md:22` has the hook keep the pending index equal to
  its builder. A commit of the quarantine ledger alone changes what is pending
  and is not one of the triggers (`pre-commit:300`): `unbuilt` in
  `PendingIsProjection`, a part of `ProjectionsFit`.
* `docs/DOCTOR-TRIAGE.md:126` advises to re-capture where a captured file is
  gone; the manifest stands and every repeated capture fails
  (`wiki_event.py:984`): a cause in `ErrorsHaveCause`.
* `docs/docking-spec.md:148` has nothing wiki-related surface in `git status` of an
  invisible consumer. A file git tracked before it was wired stays tracked
  (`wiki_dock.py:239`): `before` in `HiddenStaysHidden`.
* `wiki_install.py:10` has an initial commit of exactly the files the installer
  wrote. The list of them dies with a run that was killed (`:513`), and what it
  wrote is left out of the next run's commit: `cut` in `FirstCommitExact`.
* `wiki_install.py:31-34` says that a repo with content "is installed around, never
  overwritten; every existing path is left in place and reported", and `:436` calls
  files at projection paths the owner's content; for `log.md` a test has it so
  (`tests/install/test_wiki_install.py:213`). Whether the pending pair is there is
  decided by `index.json` alone (`:537`), and `build-pending` writes both files, a
  `latest.md` of the owner's among them. `OwnerKeptButPair` excepts that step, and
  says that this is all of the owner's the installer takes.

Worth knowing besides: an owned handoff that no step can apply makes the commit
of the very night run fail as an unexpected change; after an aborted run the
day's report is ignored and in no baseline, so a second scheduled run ends in an
exception at its abort report; a kill between commit and verification leaves a
morning the reminder calls routine; what is staged while a commit runs goes past
the hook and is committed unchecked (`slipped`); a `dock` killed between the overlay
and the ignore lines leaves a path of this machine to whoever commits next
(`exposed`); a `dock` killed between a rendered skill and
the record of renders (`wiki_dock.py:526`) leaves a skill the kit takes for the
owner's ever after (`loose`); a `prepare` killed after its `git add` leaves paths
staged that `unstage` does not know.

## 4. Theorems

All are proved from the named assumptions of the modules (`NoPid` is no pid,
bounds are naturals, `Proposed` has its type and so on), for any number of
processes, handoffs, pages, runs, faults and kills.

**`LockProofs`.** It extends both lock modules, which is why `GardenLock` names
its state and steps apart from those of `EventLock`.

* `LockInvariant`, `Exclusion`, `OwnersKeepFiles`: `LockInv` is inductive with
  `TypeOK`. `ExclusionUnlessRaced` alone is not: it says nothing of a waiter about
  to unlink. The invariant adds that a file names nobody but its creator, that a
  judgement still in force is about the file that is there, that a waiter about to
  unlink the file it judged unlinks no live owner's, and that an aged file has no
  live owner without an overrun.
* `MutexRefinement`: with it the refinement of `WriterMutex` is one step per action.
* `GardenInvariant`, `OneGardenAtWork`, `RunsKeepLocks`: the same shape for the
  garden lock. The decision to unlink is about one's own file or one without a
  live owner.

**`EventStoreProofs`.**

* `Typing`: `TypeOK` and `Control`, together, because who is in the lock decides
  what a command may read. `Control` says that exactly the process `holder` is
  between the lock and its release, and that what it works on was given.
* `Gate`, `ApplyOrder`: from `GatePassed` (an apply at work passed the gate and
  nobody else can dispose of its handoff meanwhile, as `OneInLock` shows) and
  `Stamped` (the stamp at work is above all recorded ones).
* `Freshness`: from `Projecting`.
* `StoreInvariant`, `Pairing`: `PageInv` says of each block that it is recorded,
  or cut, or the last block of the page in work, and that the page in work is
  what the apply read plus that block, which is why a restore takes away that
  block and no other.
* `Blocks`: `BlockInv` says that no two blocks have one stamp, that each recorded
  apply has its block, and that the apply between page and event has a stamp that
  is none of the recorded ones. So the block a restore takes away is the block of
  no recorded apply.
* `Reports`: `StampInv` says that no two processes have one stamp and that an
  apply has none before it appends its block; `Told` follows its event from the
  write to the report. What another process does meanwhile adds no event and no
  block with that stamp (`ToldOthers`), and a restore leaves none.
* `LedgerRefinement`: initial states map to initial states, and each step maps
  to a step of `PendingLedger` or to a stutter.

**`NightRunnerProofs`.**

* `BranchInvariant`, `OthersCommits`: that a roll back spares the commits of
  others is not seen from one state. `BranchInv` adds that, from the reading of
  HEAD on, a commit of the runner lies above what HEAD was, and that update-ref
  runs only for a commit one above it. The commit that goes is then the only one
  above, hence the runner's; the comparison in update-ref covers a session that
  commits after `CheckRollback`.
* `EditsInvariant`, `EditsSurvive`: `EditsInv` adds to `EditsKept` that an edit
  to be kept is never in what the runner compares a file with, its baseline or
  its fingerprint. A file that passes its guard therefore holds none, and stays
  without any until the write and the fingerprint, since an edit in between is in
  the window. Edits are told apart by their number, which grows. On the abort
  path the invariant lets go of the fingerprints once the report was put aside.
* `LockGivenBack`: while the lock is the runner's, `locked` is set and the place
  where it is released is ahead.
* `AbortReported`: `ReportInv` says that from its rewriting on the report tells of
  the abort and, where the output was staged, of nothing else, and that what the
  abort stages is that report. Sessions add edits to it and stage it, never a
  success.
* `OutputCommitted`: `CommitIsOutput` compares the tree of a commit with the
  fingerprints of the run, and the runner compares files with them one at a time
  while sessions write and stage. `CommitInv` rests on a file that left its
  fingerprint never returning to it (`LeftForGood`): edits only accumulate, and
  a fingerprint holds none that a session may still make. So what the staged
  manifest was verified to hold is what the commit holds wherever the two still
  agree, and the verification of the commit rules out the rest.
* `MorningHonest`, that a morning called routine is that of a run which exited 0
  or was cut short; that a good run leaves a report at all it does not say. What
  the reminder shows of a day is in a committed report or in the file.
  `CommittedReports` says that a commit of the runner holds a report without a
  mark of an abort; `TodaysReport` that a success no such mark disowns is of a run
  that exited 0, was cut short, or is on.

**`CheckpointProofs`.** The properties speak of one moment, the commands of
several reads at different moments, so each invariant says what a command may
still rely on at each of its places.

* `Typing`, and `PhaseInv`: what a command found in the state file stays true
  while it is at work, as nobody else saves it.
* `Scope`: `ScopeInv` adds that the ingress of a preflight has no foreign path
  and that the paths of an adoption are handoffs.
* `Recorded`, `Owned`: `StageInv` follows what is off HEAD in the index from the
  `git add` of prepare to its save or its clean-up. `Settled(paths)` says that it
  is `paths` and what others staged; `paths` is nothing before the add, the paths
  of this prepare after it, and the manifest once no prepare is at work. Where a
  prepare was cut after its add, nothing of the kind holds (`cut`).
* `Reviewed`, `Approved`: `ReviewInv` gathers what each look of verify
  established (the baseline, the staged paths, the records, the rest), of the
  files nobody else touched since. The last look completes the batch, and what
  the user commits then is the manifest at its recorded contents.

**`CaptureProofs`.** `Evidence` needs `RunInv`: of each place of the list the run
has passed, either the source changed or the copy was touched since the run
began, or copy and sidecar are the source (`Copied`). The manifest is written
when that holds of the whole list. `Once`: a run that finds a whole manifest
verifies it and writes nothing. `Causes`: a check of the run fails only on what
differs from a list or a manifest, and with `Evidence` that was blurred or damaged.

**`CommitHookProofs`.** `HookInv` says that, unless a stage slipped in, what the
hook lists is what it checks and what it accepts is what git writes. `Store` is
then the event check. For `Projected` the hook checks a projection only when it
sees a reason to; `LogInputs` and `PendingInputs` show that a projection depends
on its inputs alone and `Irrelevant` that where there is no reason the inputs
are those of HEAD, which was sound. `Legacy` says that a legacy record is never
rewritten or dropped; no run checks it, as it takes a second legacy text.
`SessionsStay`: the events of the store only grow, and a committed log that is a
rendering tells exactly the handoffs entered (`SessionsOfLog`); `CommitHookAssumption`
says that the marks of a log that is absent, edited or failed are no rendering.

**`DockProofs`.** `SkillsStay`: `RecordInv` says that no record of renders, on
disk in any checkout, in a commit a worktree or a clone takes over, or in the
memory of an install at work, vouches for a content of the owner's. What a render
replaces is absent or vouched for. It rests on `DockAssumption`: the owner's
contents are none of the kit's, the owner removes or breaks a record and forges
none, and a repository starts without such a record.

`Resolved` needs no invariant: commands write manifest and overlay apart, and
`ResolvedNow` shows that of whatever pair it meets the resolver binds the two or
answers with no wiki. So it holds of half-done installs too.

The other three theorems share `CommandInv` (what a command at work has read and
where it runs) and a normal form of its steps: which file a step writes and
which places it goes on to.

* `Hidden`: `CoverInv` says that past its ignore lines a command has covered what
  it is about to write, and that these lines only grow while it runs. `HiddenInv`
  says of each file what must hold of it or of the lines, and of the branch, in
  every state in which no command was overtaken (`exposed`).
* `Settles`, that a failure leaves nothing unless the wiki states no name, and
  that a repeated install changes nothing: the checks of an install run on what it
  read, its writes on what is there. `SettleInv` says that unless somebody moved
  the two agree, that the checks made before the first write hold of what is still
  to be written, and that in an install that repeats one that ended well
  everything is in place.
* `Agrees`, that after an install the pristine renders are the present kit's and
  hook and plugin feed one outbox: `VouchInv` says that every pristine render is
  vouched for, by the record or, in the middle of a save, by the memory of the
  run. A render of another revision is then one the next install brings up to
  date.

They add to `DockAssumption` the types of what the owner asks and does, and rest
on `UndockedAssumption`: a repository starts with nothing of the kit's, and the
owner writes neither the kit's block nor its files by hand. `Dock_run` starts in
such states.

**`InstallProofs`.**

* `OwnersStay`, which is `OwnerKeptButPair`: each step writes one file, and only where
  it is absent, the kit's, or kept within the new value (the rules, the ignore
  lines, the overlay's entries); the one exception is the step that writes
  `latest.md`, and it runs only where the run found no index.
* `Clean`: two invariants. For the first commit, `MadeInv` relates the list the run
  keeps in memory to what was written since the repository had no commit:
  everything on the list the kit wrote, but for an index its owner removed in
  between, and unless an earlier run was cut the list is complete. For the
  machine-local files, `LocalInv` says that the ignore lines are there before
  anything they cover.
* `Sound`: `FloorInv` says of each step that what it brought about is there until
  something moves, from the step on in a first run and from the start in one that
  repeats a run that ended well; `SettleInv`, that such a run then writes nothing.
  `PairInv` is about the second pending file, which the code writes only if the
  first is missing: it is there with the first unless a kill or a commit fell
  between the two (`torn`).
* `Causes`: the first commit runs the hook just installed over projections that
  were just seeded. `WrittenInv` says that what the run recorded of them is the
  rendering of the ledger, and `CommitFits` that the hook then accepts them; what
  is left are the causes `FailsForCause` lists, with a python for the hook among
  them. Of the steps after the commit the orientation asks for a configuration, a
  ledger and companions that load, the units for their tools.

The assumptions: `InstallAssumption` (the values are distinct; the owner's moves
have their types, take the index away but do not write one, keep the kit's
ignore lines, and never write the kit's orientation file or its path into the overlay) and `StartsAssumption`
(before the first run nothing of the kit's lies uncovered, and the pending files
are both there or the first is not).

**Only model-checked** are the liveness properties (`EnterReturns`,
`DeadHolderFreed`, `CommandsReturn`), which rest on fairness and
`ENABLED`, neither of which this prover treats. Every other property of a passing
run is stated by a theorem.

No module has a RECURSIVE operator, and no theorem is by induction over data.

## 5. Not modelled, and what is left

Not modelled:

* **Doctor, views and validation**: pure functions of one state of the tree. They
  keep nothing and change nothing; to the night run the doctor is a step that may
  fail.
* **gh sweep**: it asks GitHub about the references of the pages and prints what it
  found; a step of the night run that cannot fail it.
* **Memory triage**: a classification of notes outside the repository, printed for a
  person; such a step as well.
* **Scheduler templates**: units for launchd and systemd with places filled in, the
  same for the same configuration; to the installer a step that may fail.
* **Schemas, templates and skills**: data, and instructions to an agent; what they
  ask of the code is quoted where it differs (section 3).
* Of modelled parts: the other commands of `wiki_event.py` that only read or
  validate, the parsing of frontmatter and of `wiki.toml`, `post-commit`, the
  hook's checks of artifacts other than events and projections, the text of
  notifications and the probe of the scheduler.

Left to do: the composition of the hook with the checkpoint's commit, now two
modules that each take the other for a free choice.
