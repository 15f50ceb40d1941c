# Verification of pacpin

pacpin is a command-line front end for pacman, AUR helpers, packages from
upstream releases ("Sources") and other package managers. This directory holds
TLA+ models of its parts, TLC configurations that check them on small
instances, and theorems with proofs for TLAPS. Paths are relative to the
repository; `file.rs` means `src/file.rs` of the crate.

`PROJECT.json` maps every definition to the lines it models, lists the runs,
the faults each property is known to catch, the hazards of the code and the
theorems.

## 1. The system

| Part | State it keeps | Operations | Interacts with | What is hard |
| --- | --- | --- | --- | --- |
| Process execution and shutdown (`execution/`) | lists of children and process groups, registry of temporary paths, the flag TERMINATING | spawn tracked / captured / foreground children, wait, drop, interrupt, clean up | every part that starts a command; Sources' workspaces | a signal arrives between any two steps of any thread; sudo children cannot be signalled |
| Download preparation (`integrations/preparation.rs`, `progress/transfers.rs`) | jobs with start flag and join handle, `closed` | windows, before a stage, finish | the upgrade run, provider adapters | worker threads against the main thread; late windows; failed stages |
| Upgrade run (`commands/upgrade.rs`, `integrations.rs`, `pm/continuation.rs`) | success of each stage, applied updates, continuation permit | native, AUR, Sources, other providers, history, hooks, orphan and cache cleanup | everything below | partial failures; another pacman in between; what the exit code may claim |
| Orphans (`orphans.rs`, `commands/orphans.rs`, `pm/orphans.rs`) | `known_orphans.json`, `pending_orphan_cleanup.json` | detect, review, select, remove, record | upgrade run, pacman | dependency cycles; kills between writes; lists that are stale after the transaction |
| History (`journal.rs`, `commands/history.rs`) | `history.jsonl` | append, list, look up, roll back | upgrade run, installation | concurrent appenders, torn lines, power failure |
| Configuration (`config.rs`, `config/setup.rs`, `manager_config.rs`) | `config.toml` and three supplements, `config.lock` | load, mutate, setup, reset | pins, delays, Sources' ownership, capture, wizard | concurrent commands, long questionnaires, editors, crashes |
| Resolution (`resolver.rs`, `alias.rs`, `aur.rs`, `db.rs`, `pm/validation.rs`) | none between runs | classify targets, apply pins, delays, vendors | planning, installation | many rules interact |
| Planning and preflight (`commands/upgrade/`, `discovery.rs`) | discovery reports | collect, decide eligibility, project the plan | upgrade run | partial discovery under `--keep-going` |
| Installation (`pm/install.rs`, `pm/pinning.rs`, `preview.rs`) | none between runs | preview, approve, install, pin | pacman, helper, Sources, config, history | order of persistence and failures |
| Native lock, caches, rebuild (`pm/lock.rs`, `pm/cache.rs`, `pm/rebuild.rs`, `commands/rebuild.rs`) | pacman's lock and caches | wait, clean, rebuild, verify | pacman | another pacman; stale locks |
| Sources (`sources/`) | prefetch cache, workspaces, ownership in the configuration | discover, download, verify, build, install | execution, config, upgrade run | exact approved artefacts; cleanup on every path |
| Integrations (`integrations/`) | none | refresh, check, execute, verify | external programs | lossless partial results |
| Downloads, archives, scratch (`download.rs`, `archive.rs`, `scratch.rs`) | temporary files | bounded download, unpacking, choice of medium | Sources, sandbox | limits and atomic replacement |
| Ephemeral applications (`sandbox/`, `commands/ephemeral.rs`) | private directories, running-process markers | prepare, run, clean up stale ones | execution, downloads | two processes cleaning at once |
| Hooks (`hooks.rs`), restart advice (`restart.rs`) | snapshots before and after | plan, run, inspect | upgrade run | stale snapshots across hooks |
| Display (`progress/`, `ui.rs`, `tui_select.rs`, `repo_menu.rs`), command line (`cli/`, `runtime.rs`, ...) | rows, footer | render, select, dispatch | all | little that outlives a command |

Correctness, part by part: no child outlives the shutdown and no workspace the
process; no download races with the stage it serves; every stage builds only on
completed stages and exit code, history and cache cleanup tell the truth; an
orphan cleanup that was confirmed is neither forgotten nor widened and never
breaks a dependency; history numbers are unique and acknowledged records stay;
a configuration command changes its own rule and nothing else; a plan holds back
whatever stands on a held package, keeps the user's rules and hides no failed
check; of a Sources package exactly what was approved is installed and owned; an
installation reports, records and cleans up only what it did; an ephemeral
application runs what was downloaded for it and leaves the host as it was.

## 2. Modules

| Module | Models | Extends / instantiates |
| --- | --- | --- |
| `PreparationContract` | what users of a preparation session rely on | |
| `Preparation` | the session as written | refines `PreparationContract` |
| `Execution` | children, registry, shutdown | |
| `Resolver` | which update every package gets and which updates wait | extends `Subsequences` |
| `UpgradePlanning` | discovery, requests, preflight and the plan of an upgrade | extends `Resolver` |
| `UpgradeRun` | the approved upgrade | instantiates `Preparation` and calls its operations |
| `SourceCatalog` | what a release catalog offers and which release is selected | |
| `Subsequences` | `Kept` and `Filtered`, the program's filter, partition and retain | |
| `SourceInstall` | discovery, download, build and installation of Sources packages | extends `SourceCatalog`, `Subsequences` |
| `PackageLock` | pacman's lock, and the managers that take it | |
| `CacheCleanup` | cache cleanup and its download directories | extends `PackageLock` |
| `Installation` | `pacpin -S` | extends `CacheCleanup` |
| `ManifestRebuild` | `pin rebuild`, `pin capture`, `pin clean` | extends `Installation`, `Subsequences`; calls the installation |
| `Archive` | unpacking a package and what it may place | |
| `Ephemeral` | `pin run` and `pin try` | extends `Archive` |
| `OrphanLoops` | the three fixpoint loops | |
| `OrphanCleanup` | the orphan files across invocations | uses the loops' results, by their definitions |
| `HistoryLog` | the log the history promises | |
| `TransactionJournal` | the history file | extends `Subsequences`, refines `HistoryLog` |
| `ConfigStore` | the configuration files | |
| `ThreadProofs` | theorems about `Execution`, `Preparation` and `Ephemeral` | extends them and `SubsequenceProofs`, instantiates `PreparationContract` |
| `PlanningProofs` | theorems about `Resolver` and `UpgradePlanning` | extends them and `SubsequenceProofs` |
| `UpgradeRunProofs` | theorems about `UpgradeRun` | extends it |
| `SubsequenceProofs` | lemmas on least and greatest numbers, induction over a set of numbers, and `Kept` | extends `Subsequences` |
| `SourceInstallProofs` | theorems about `SourceInstall` | extends it and `SubsequenceProofs` |
| `InstallationProofs` | theorems about `PackageLock`, `CacheCleanup`, `Installation` and `ManifestRebuild` | extends `ManifestRebuild` and `SubsequenceProofs` |
| `OrphanProofs` | theorems about `OrphanLoops` and `OrphanCleanup` | extends both |
| `StoreProofs` | theorems about `ConfigStore` and `TransactionJournal` | extends both and `SubsequenceProofs` |
| `MC*` | instances for TLC | extend the module |

Operators whose comment begins with *Fault* are deliberate mistakes. No
specification uses them; each is a variant of a definition, and with it one of
the properties fails (`mutants` in `PROJECT.json`). A property of a run is
often a conjunction of named parts, each with a comment of its own.

### Preparation

One session. `policy` is what each provider declares, `started`, `handle` and
`worker` are `State` of every job, `closed` the session's flag; `waiting` and
`finishing` tell where the main thread is inside `before` and `finish`.
`OnWindow` is `on_window`, `Before` + `JoinDone` is `Session::before`, `Finish` +
`FinishJoin` is `Session::finish` and `Drop`, `WorkerEnd` the end of a worker
thread. Windows are emitted by the main thread only (`progress/transfers.rs`), so
they need `MainFree`; a finished session may still be subscribed and gets late
ones. `ImplementsContract` maps the session to three sets (running, ran, open).

### Execution

Threads own a workspace (`MakeDir` ... `Unlist`, after `Workdir` and
`resources::Registry`) and run commands of four kinds: `tracked`
(`run_tracked_command`), `captured` and `grouped` (`execution/capture.rs`), and
`foreground` (`progress.rs`). `pc`, `kind`, `proc` and `result` are per thread,
`children`, `groups`, `registry` and `terminating` are the statics. `root` are
children that run under sudo as root and cannot be signalled. `Signalled` is the
handler, `Interrupt` the same shutdown begun by a thread whose child was
interrupted (`ensure_not_terminating`); the owner then goes through `phase`:
take children, take groups, SIGINT, grace, SIGKILL, drain the registry, exit.
The other threads go on all the while until they park.

### Resolver and UpgradePlanning

`Resolver` is `resolve_with_options`: `Choice` picks where a candidate comes from
(pin, origin, order), `Ask` is one attempt of the AUR worker for one chunk
(`aur.rs`), `ResolveNative` the loop over the local database, `JoinFailed` and
`JoinAnswered` the join, `Delays` and `Cascade` the holds. `host` are the
databases and `cfg` the configuration, read once. A version is a number of which
two spellings compare equal. `UpgradePlanning` runs it beside the threads of
the providers (`Refreshed`, `Checked`), then goes through `cmd_upgrade` as `phase`
tells: scope, external updates, requested targets (`planning.rs`), `Preflight`,
the native targets (`TargetOf`, `Adds` for what the solver adds), `Approve`,
`Plan`. pacpin looks packages up in its own order of the repositories (`Order`, with `repo_order`), pacman
in that of `pacman.conf` (`host.order`), so `Taken` says what pacman makes of a target. It ends with an approved plan, where `UpgradeRun` begins, or an exit code.

### UpgradeRun

One run from the approval on. The `pc` values are the sections of `cmd_upgrade`
and of the provider loops in `integrations.rs`; `db` abstracts pacman's database
and log to the units completely installed, touched by a failed transaction, a
broken dependency and the commits of other processes; `checkpoint` and `seen` are
the evidence of `pm/continuation.rs`; `artifacts` is the prefetch cache of
`sources/install.rs`. `Foreign` is another process using pacman whenever nobody
holds its lock. The Sources worker's `Fetch` runs beside the main thread. A
command that exits with success is taken to have done what it was asked.

### SourceCatalog and SourceInstall

`SourceCatalog` holds pure definitions: the semantic order that picks a release
and pacman's order on the version written from it (semver compares `rc10` and `rc9` as text, pacman their numbers), `Listed` and `Published` for the pages of
a catalog, `Select` with the asset and its digest, `ValidSource` and
`ParseDirect`. `SourceInstall` is one command: `upgrade`, `continue` (after a failed AUR
build), `install` or `direct`. Discovery hands indices to worker threads
(`Claim`, `Check`, `InOrder`); `approved` are the plans fixed before the
confirmation; `Prefetch`, `Fetch`, `Build`, `Pacman`, `Verify`, `Persist` are the
sections of `install.rs`. `work` is the current workspace with the base it lies
on and the bytes it has reserved; `room` and `memory` are what is free. `disk` is the
configuration file, `mem` what the process read. Around it upstream republishes,
the file is edited, another pacman runs, and space disappears, a bounded number of times.

### PackageLock, CacheCleanup, Installation, ManifestRebuild

Each module extends the one before. `PackageLock` has the lock file and the other
managers; `CacheCleanup` runs `CleanCheck`, `Scan`, the two removals with their
checks of the lock, and the command with its answers. `Installation` is
`pm::install` step by step (`pc`): `Admit`, `SourceStage`, the lock, the question
about a partial upgrade, `Refresh`, `Route` (one target at a time),
`Preflight` (companions, delays, conflicts), `NativeStage`, `AurStage`, `SavePins`,
`RecordInstall`, `StartCleanup`. `SyncPackage` is `find_sync_package`: a package of the name
in any repository goes before every provider, and among each kind the configured order decides. `mem` are the pins as read, `pins` those in the
file, which other processes edit. `ManifestRebuild` is the process around it: it
makes a plan from the manifest and calls the installation for each part,
captures a manifest or cleans a cache.

### Archive and Ephemeral

`Archive` decides what unpacking places: names, links and their
targets as paths over a few components, the sizes counted beforehand and those
written. `Ephemeral` is one `pin run` or `pin try`: dispatch to the installed
program, a provider of the host, Flatpak (`FlatpakQuery`, whose `answer` may be a failure, `FlatpakInstall`, `FlatpakPurge`) or a private
workspace; the package a name stands for (`Target`: of that name, or provided under it); the resolution of
dependencies, one at a time (`visit` is the stack of `resolve_deps` with its two sets,
`LookAtDependency` one turn of its loop, `ListPackage` its end); two download
threads with cache look-up, mirrors and digest; joining, measuring, unpacking,
choice of the executable, mounts, run; guard, registry and removal of the
workspace. `Raise`, `Cleanup` and `ExitInterrupted` are the signal path, `Killed` is
SIGKILL, `SweepCheck` and `SweepRemove` another pacpin that sweeps stale workspaces.

### OrphanLoops and OrphanCleanup

`OrphanLoops` has the worklist of `detect` (`Visit`), the propagation of
`prune_orphan_cycles` (`Propagate`) and the rounds of `safe_selection` (`Round`),
over an arbitrary dependency graph with alternatives; its invariants compare the
results with fixpoint definitions. `OrphanCleanup` uses the definitions and is about
time: `run` is the invocation with its local variables, `pending` and `known`
are the two files, `world` and `installed` the packages, which change in a
transaction (`Transact`, `TransactFails`) and between runs (`External`).
`owed`, `settled` and `shown` are history variables for the properties.

### TransactionJournal

The file as a sequence of lines with number, what readers make of the text, and
whether the newline is there; `synced` is the prefix that a power failure
cannot take. `LockJournal`, `Number`, `Repair`, `Body`, `End`, `SyncJournal` are
`record_transaction_at`, `CloseJournal` a kill or an error at any of them, a write that
stopped half-way included. `Records` is what a reader gets (`recent_records`); it is the `log` of
`HistoryLog` in `ImplementsLog`.

### ConfigStore

`main` is `config.toml` as a set of rules (a key with a value), `aux` the three
supplements. A process runs `mutate_config` (`Lock`, `Read`, `ReadAux`, `Apply`,
`Write`, `Sync`, `Rename`, `Done`), setup (`ReadFirst` ... `Review`, then
`Compare` and `Backup` under the lock) or reset (`Copy`, then the writer). `Op`
lists the ways the callers change the configuration: `put` and `drop` (pins,
delays, repository order), `approved` (smart unpin), `claim` (ownership of a
Sources package), `fill` (capture). Editors (`Edit`) take no lock.

## 3. Runs

| Run | Bounds | Shows |
| --- | --- | --- |
| `preparation` | a plan of six entries, three jobs, every assignment of policies | workers are run once, before their stage and with the main thread waiting for them; the contract; finish returns |
| `execution` | two threads (symmetric), one command and workspace at a time each | `ShutdownIsClean`: listed children die first, no unwatched wait, no command that was cut short passes for a success, only a workspace that races with the shutdown is left; `ShutdownIsOrderly`: one shutdown by one thread, never begun again, with SIGINT before SIGKILL for foreground children and all that were listed when it began |
| `planning` | six packages, two repositories and the AUR, two providers, seven configurations, three states of the databases (one with `pacman.conf` in the other order), eleven invocations; chunks of one name, one worker, two attempts | holds are closed under dependents; what pacman takes for the plan's targets obeys the user's rules, and the plan hides no failure |
| `upgrade_run` | native, AUR (one package), two Sources updates, one other manager, one foreign transaction | truthful exit code and cache cleanup, one owner of the artifact cache, stages on success or under a permit on an untouched database, the end |
| `sources` | two packages of two sources, two bases, bounded events around | discovery loses and reorders nothing, and offers the release of the highest semantic precedence or none; where pacman's order agrees with the precedence, no update is missed and nothing newer passed over; what is written has its room, what is installed is an approved plan with its content, and a pin is saved only for what was installed from the source it names |
| `installation` | one command of each kind; two managers, one poll of the lock, one edit of a file | history and result agree with what was done, and every conflict, young target and young dependency was shown before the transaction; a failed rebuild can be repeated; a cleanup removes no running download and no cache beyond its scope; pins and manifest of other processes stay |
| `ephemeral` | nine worlds, fifteen invocations, up to three packages, two mirrors, two threads, one signal or kill, one sweep | what runs is what was downloaded and chosen, with the mounts that were asked for; the room asked for is enough; nothing outside the workspace is written, nothing is left, no live workspace is swept, and of the Flatpaks that were there none is removed whose query was answered |
| `orphan_loops` | every graph over three packages from seven dependency shapes and three optional ones | the loops against their definitions, and that they end |
| `orphan_cleanup` | three packages, three worlds, any number of invocations | cleanups asked for exactly when owed, nothing broken, removals authorized |
| `orphan_unseen` | the same | orphans that are never offered (section 7) |
| `journal` | two processes, five lines | numbers increase, acknowledged records survive; the log |
| `config` | two processes, two commands of any kind, two keys of which a supplement may own one, two values, one edit | no torn file; a command changes only its own rule; the backup |

Every passing run also has its type invariant, whose parts bound counters the code
bounds (attempts, polls, mirrors, reserved bytes).

Why these bounds are enough. Preparation: a job before, at and after the stage of a
window, with every policy, and a manager with two entries. Execution: every race of the code
is between the owner and one thread or between two threads over one list; three
threads add no new pair. Planning: the packages are a library, its dependent, a dependent of the
dependent, one owned by a source, one from version control and a dependency that is not
installed, so that a hold goes through a package without an update and through a provided
name; each configuration and invocation turns on a rule the others leave off. The upgrade run has every kind of stage, and two
Sources updates since the second install under a permit is the first that depends on
another. Sources: two packages make results arrive in the wrong order, and the second base makes a
workspace move; on `rc9` and `rc10`, and on the versions the manifest writes over, the two orders disagree. Installation: one manager that is gone and may have left its
directory, and one that still has a life before it; other processes step only
where their changes are about to be read (`LockMatters`), since a step at any other point
commutes. Ephemeral: a library that depends on its user, which makes the order of archives matter, and one
mirror beyond the first. Three packages make cycles, chains and a package with an outside
dependency; the theorems cover every graph. Two processes make every race over a
lock; five lines hold a torn line, its repair and both processes' records after
a lost one. In the configuration two commands suffice to have one commit inside the
other, one edit to change a file under a command. `MCInit` starts `config` without
sources in the main file, which claims and edits add; it only saves states. Symmetry is
used in `execution` and `config`, which check no liveness.

Deadlock is checked except where the program really stops: after process exit
(`execution`, `upgrade_run`) and after the loops
(`orphan_loops`). Modules with a step `Ended` stutter at their end and nowhere
else, so there any other stop is a deadlock. A session that is over still takes late
windows and a second finish, so `preparation` does not stop.

### Fairness

* `Preparation`: the main thread goes on inside joins, and a worker ends, since
  every download and preparation command has a timeout of its own. Nothing
  makes a window or a call happen.
* `UpgradeRun`: the main thread, the background download and the workers go on. That
  pacman and the helpers end is assumed. Other processes, windows and successes are not.
* `OrphanLoops`: the loops run on the calling thread.

`Execution` states no fairness: its shutdown has a fixed number of steps, each guarded
by the phase alone, so nothing that threads and children do can hold it up;
`ShutdownIsOrderly` says that it only advances. The same goes for the long sequential modules, where the deadlock
check shows that no command stops half-way.

## 4. Theorems

All proofs hold for every value of the constants, under the named assumptions
of the modules only (a bound is a natural number, `None` is no process, the plan is a
sequence of managers, dependency data is a function). `PlanAssumption` of `UpgradeRun` says that the managers of a plan differ.
`NamesAssumption` of `Installation` says that a repository is one of pacman's, the AUR or a source and never two of them: `validate_config` refuses
a source alias that is `aur` or shadows a native repository (`sources/mod.rs:161`).
`WorldsAssumption` of `Ephemeral` says that the databases list what every package needs, and that a current directory is a path and not
below the Wayland socket.

* **`ThreadProofs`, preparation.** `IInv` adds `Bookkeeping` to the type and the first two
  invariants: only started jobs have workers, handles belong to background jobs, and
  a closed session keeps no handle that finish will not join. The last part is what
  makes `QuietAfterFinish` follow. The refinement (`SessionImplementsContract`) is
  proved step by step from `IInv` and `IInv'`. `ClosedStartsNothing` states the comment
  "never start a waiting job while finalizing an aborted plan" as an action property.
* **`ThreadProofs`, execution.** `ExecutionInv` has one part for each of the actors: `ThreadInv` says in which lists
  a command is and what it returned at each place of its thread, `WorkspaceInv` where a
  directory is on disk but not listed, `OwnerInv` what the owner of the shutdown has in hand: whatever
  was listed when the flag was set is still in a list or in its hands until it is dead, and what it kills it has interrupted.
  From them `ShutdownCleans` and `ShutdownOrder`, for any number of threads.
* **`ThreadProofs`, ephemeral runs.** `EphemeralInv` has one part for each thing the run builds. `VisitInv`: a specification that was
  looked at is satisfied or its package entered, what is before the next dependency of a package was looked at, and what was
  entered is listed or on the stack; so when the stack is empty the plan is complete, and the requested package is its last. `DiskInv`:
  every target of the shutdown is the guard's or of the batch that is fetched, so the guard's removal leaves none. `HostInv`: a Flatpak that was there is
  never one this run removes, unless it is the requested one and its query failed. `FetchInv`: an archive that is listed is the plan's at that place, and has its digest or a waiver.
  `RunInv`: no link leaves the workspace after any step of unpacking, and what is selected is the requested archive's.
  They give `RunsLeaveTheHost`, and with it `ApplicationsRunAsPromised` but for its last part: the isolation holds of the mounts alone: the
  last mount over a place decides what is seen there (`SeenLastOver`, `SeenOverBoth`), for every current directory and place of the workspace.
* **`PlanningProofs`.** `HoldingInv`: outside the queue of the cascade what was visited has
  its dependents visited, every visited update is held, and holding makes none young. At the end the
  visited packages are the set `HeldClosure` asks for (`UpdatesStandOnUpdates`).
  `CountingInv` follows a failed check to the exit code (`FailuresReachTheExit`).
  `PlanningInv` has one part for each thing that is handed on from one phase to the next: every entry holds the
  candidate of its package's choice and what that changes (`ResolutionInv`), what is offered are updates in these
  entries (`OfferedInv`), the requested targets are requests that were accepted (`RequestedInv`), nothing of the AUR is known
  once its check has failed (`AurInv`), and what a provider found stays until a failure sets it aside (`DiscoveryInv`, `FailuresInv`,
  `KeepingInv`). At the approval a target is a routine one, a requested one or a dependency, and each obeys the rules
  for its own reason (`RoutineObeys`, `RequestObeys`, `DependencyObeys`), for any dependencies the solver adds. They give `TypeCorrect` and `PlanHonest`.
* **`UpgradeRunProofs`.** The run makes the session's calls as `Preparation` allows
  (`RunUsesSession`), so the session's invariant is available here. `PlaceInv` says where the loops
  are, and that without a permit no stage has failed. `CacheInv` adds at which places the session is untouched,
  closed or free, and that the Sources stage is entered with its job started and joined; with
  `NoDetachedWorker` it gives `ArtifactsHaveOneOwner`. `DoneInv` says which units are installed at each place and for each
  flag (`OutcomeAgrees`, and the first half of `StagesGuarded`). `PermitInv` follows the evidence: a checkpoint
  of the AUR stage shows none of its packages, the permit is given only on that state, later installs are of
  packages outside the failed stage (`ensure_independent`), and only an attempted install is unverified.
* **`SubsequenceProofs`.** A set of numbers that contains 0 and every successor contains all numbers (`Induction`, from the
  well-foundedness of the order), and a set that is not empty has a least element (`Least`). With them the function in `Kept` exists, and
  `KeptSelects` gives what `Kept` returns: the elements at the given indices, all of them, in their order.
* **`SourceInstallProofs`.** `DiscoverInv`: workers hold different indices, and what was claimed is held or has been
  found, so that at the end every target has one outcome, which sorting puts in its place
  (`DiscoveryIsLossless`). `QueueInv` says where the approved plans are, `SpaceInv` that a workspace's reserved bytes are still
  accounted for on its base, `ContentInv` that what is in the workspace, prefetched or not, is the content of the plan, and
  `RecordInv` that pacman's log has every version that is installed, the one about to be recorded as owned among them (`UpgradeIsFaithful`).
* **`InstallationProofs`.** `IInv` speaks of every state of any of the four commands. `CommandInv` ties the command's step to the installation's.
  `HolderInv` and `PathInv`: only the holder of the lock works in its directory, and the paths about to be removed
  are those of managers that were gone when the lock was last looked at. `ScopeInv`: after a transaction only caches of stages that succeeded are in the queue.
  `WaitInv`: only a request with a time to wait waits. `SourceInv`, `RouteInv` and `OriginInv` follow each target to the list it is
  routed to and each listed one back to the request, `WarnInv` what `Preflight` noted up to the start of the transaction, `StageInv` which list each stage has installed. `WarningsAreComplete` and
  `RecordIsTruthful` are inductive beside them (`ReportsTrue`). `CleanupSafe` and `PinsFollow` are action properties that follow from `IInv` and one step.
  `RebuildsResume` needs three more parts. `PlanInv`: the manifest stays plannable with the pins saved so far, and everything it declares
  is installed or planned. Pins to another repository could break that; they do not, since a rebuild asks for no repository but the
  declared or pinned ones (`CallInv`, and `BareLaw`: a bare target is asked for only where no pin is) and selects no companion without a terminal. `LeftInv`: what is
  planned is installed or in a call that is still to come. `WrittenIsReadable` is `PinsFollow` and `CaptureInv`, the list about to be
  written is of the state it is written in, with what a plan makes of a captured list (`CaptureLaw`).
* **`OrphanProofs`, loops.** Three loop invariants: everything reached lies in every
  supported set and what has been visited has its satisfiers reached (`SearchInv`); active
  orphans lie in every lively set (`PruneInv`); what safe selection has kept back must be kept
  back by any answer (`SafeInv`). With the loops' exit conditions they give
  exactness for every graph. `SelectionIsLargest` says what is left can go and is the largest such set where
  dependencies have single providers.
* **`OrphanProofs`, cleanup.** `OwedIsRecorded` (a record that exists holds all that
  is owed) makes `OwedIsOffered` inductive; `SettledInv` says the same of what was declined:
  it is saved as known before the review is closed, so it is not asked about again
  (`DeclineIsFinal`). `SelectionIsFresh` carries the authorization from
  the recheck to the removal; `SafeRemains` carries the dependency check to pacman's call.
  `SafePartIsSafe` shows that a union of removable sets is removable.
* **`StoreProofs`, history.** All lines but the last end, a writer is alone and its
  number is above all readable ones, acknowledged records are durable (`JournalIInv`); from it the numbers
  are unique and acknowledged records stay, for any number of processes, kills
  and power failures. `HistoryImplementsLog` maps each step: a whole record written is a `Record` of the log, a
  synchronization an `Acknowledge`, a power failure, which leaves a part of the file (`LossLeaves`), a `Lose`
  of the log's end (`PartRecords`), anything else a stutter. How the log follows from the file is `Kept`'s
  lemmas `KeptOneMore`, `KeptBegins` and `KeptAgrees`.
* **`StoreProofs`, configuration.** `Good(p)` says for each place of a process what it knows: the bytes it read
  are those of the file unless an editor came, the loaded configuration is the file merged with
  the supplements, the temporary file is synchronized before the rename. Other
  processes keep it (`OthersStayGood`, since only the holder of the lock replaces the file),
  the process's own steps establish it (`OwnStaysGood`). `NothingElseChanges` follows at the rename.

Only model-checked:

* `NewestIsOffered`: that there is one greatest candidate needs `Outranks` to be a linear order up to equal precedence, for sequences of
  identifiers of any length, and that is a property of the semver crate rather than of this code.
* `FootprintCovers`: it compares two sums, over the entries of every archive and over the inodes of the tree, each a fold over a
  set or sequence with an operator of its own; every fold would need its induction done by hand, as for `Kept`, and this was not done.
* The liveness properties `FinishReturns` and both `Ends`, and that a step is enabled.

The provers cannot instantiate the library's induction over data. Where a recursive function of the models is proved about
(`Kept`), the induction is over the set of the numbers for which the claim holds.

## 5. What the models assume

* A command that exits with success did what it was asked; pacman commits or leaves a
  partial state when it fails, and refuses a transaction that would break a dependency.
* Several processes are modelled for history and configuration, other package managers and
  editors for the rest; for orphans one invocation at a time.
* Rename is atomic; without a directory sync a power failure may bring the old file back; unsynchronized
  bytes are lost. A torn line of the history is one of the shapes its readers tell apart.
* Process numbers are not reused while the shutdown works with them.
* A package manager makes its download directory only while it holds the lock.
* ALPM's databases do not change during one resolution (the handle caches them), and a
  digest identifies a content.
* A failure of the AUR, of a provider and of a source's package are never taken for one another: `discovery::Manager` has a
  variant for each.
* The orders of versions: pacman's is a total order on numbers, except in
  `SourceCatalog`, where its difference from the semantic one is the point. The words of pre-release identifiers there are
  four, none the beginning of another.
* No other process installs or removes the requested Flatpak while `pin try` runs; a query of it is answered correctly or fails.

## 6. Not modelled

* Rendering, wording and key handling (`ui.rs`, `progress/`, `tui_select.rs`, `repo_menu.rs`, `wizard/`), parsing of
  the command line, read-only queries, restart advice: nothing is kept or changed by
  them; what a menu or an argument decides is an input of the module that asks.
* Parsers of external text: JSON catalogs, checksum files, `pacman.conf`, `.SRCINFO`, the output of configured managers.
  Their failures are steps of the models, their grammar is not.
* In the sandbox: the X11, DRI and sound sockets and the single directories of `/usr` and `/etc` (`sandbox/native.rs`).
* In the Sources module an installation has one target, where `install_targets` plans all of them before it
  asks and then installs one after another (`sources/mod.rs:317`), as the upgrades of the model do. In `Installation` the stage of
  Sources either installs a target and saves its owner or fails before; that saving fails after pacman
  succeeded (`sources/install.rs:650`) is a step of `SourceInstall` only (`Persist`).
* The dialogue of sudo (`privilege.rs`), bubblewrap's enforcement of the mounts, ALPM, libarchive, git and HTTP themselves, which
  the map marks external where a model needs them.
* `pm/rebuild.rs` beyond the step a hook takes in `UpgradeRun`; rollback (`commands/history.rs`), which
  hands old archives of the caches to `pacman -U`; the conditions of single hooks (`hooks.rs`); build profiles.

## 7. Where the code and its words differ

`orphan_unseen` is a run of its own: orphans that first exist after the transaction are saved as known without having been
listed, and never ask for a review (`commands/upgrade.rs:905`).

Two more limit what a property can say.

* An update that is neither pinned nor diverted is handed to pacman by its bare name
  (`commands/upgrade.rs:334`). pacman looks it up in the order of `pacman.conf`, not in `repo_order`, so it may come from another
  repository than the one that was resolved and shown, even from an excluded one, although `README.md:19` says that targets are qualified to
  prevent just that. `Obeys` therefore speaks of the version and the exclusion of an unpinned update only where pacman finds it in
  the repository pacpin found (`Foreseen`); without that condition TLC finds the plan, in the state of the databases where the orders differ.
* Any failure of `flatpak info`, a timeout included, counts as "not installed" (`sandbox/providers.rs:19`); the
  installation then has nothing to do and succeeds, and the cleanup uninstalls the user's own application. `HostIsUnchanged` has that as its
  only exception, and TLC finds that run when the exception is taken out.

The models, or reading the code for them, show the following too; no run is spent on them.

* History: applied AUR packages are recorded all or none; a helper that installs one package and fails on the
  next leaves no record of the first (`commands/upgrade.rs:762`), nor does `pacpin -S`. One line that is not
  UTF-8 hides all later records from look-up and rollback, which still list (`journal.rs:289`).
* Locks: after a failed wait for the background download the run goes on to `pacman -S`, although the
  comment says it never does (`commands/upgrade.rs:657`). Two pacpin processes that wait for a stale lock
  without a PID each take the other for its holder (`pm/lock.rs:171`), and an unreadable `pacman.conf`
  makes `--wait` run to its timeout. `finish_review` rewrites the record of pending cleanups without a lock
  (`orphans.rs:132`), so two processes can undo one another.
* Shutdown: `docs/sources.md:208-209` says private
  temporary directories are cleaned on SIGINT and SIGTERM; a directory is created before it is registered
  (`sources/install.rs:104`), so a signal in between leaves it, which is why `OnlyRacingWorkspacesLeak` has that exception.
  The comment at `execution/mod.rs:78-79` asks for an interruption before a kill; a child that is in the list of groups and not yet in that of
  children when the two are taken (`execution/mod.rs:39-41`, `72-74`) is killed without one. For the background `pacman -Sw` that matters only
  where pacpin may signal it, that is, as root, which the upgrade does not refuse; `GracefulFirst` speaks of the other children.
  The comment at `execution/mod.rs:133-135` rules out starting another operation during the shutdown; a foreground command that
  passed the check at `progress.rs:728` is spawned at `progress.rs:771` all the same.
* Planning: a sticky package is handed to pacman by its bare name as well (`commands/upgrade.rs:333`), so pacman may take it
  from another repository than the one it was kept on. A pin to the same version is dropped by `--needed`. A held package comes along as
  a new dependency of another update, and a new dependency that a source owns is taken from the repository, so `Obeys` speaks of
  holds and owners for explicit targets only. A pin to the AUR through a pattern, and a sticky AUR package that a
  repository carries as well, are not looked up in the AUR.
* Sources: of `rc9` and `rc10` the older is offered, or none if `rc9` is installed, since semver compares such identifiers as text and pacman
  their numbers; a `package_version` in a manifest can turn the orders around too (`sources/catalog.rs:469`, `527`). The documentation promises
  semantic precedence, which is what `NewestIsOffered` says.
* Orphans: an unattended `pin orphans --noconfirm` replaces the record of a confirmed cleanup by its own selection
  (`commands/orphans.rs:49-58`), which ends what was owed before.
* Installation: a bare target goes to pacman by its name (`pm/install.rs:397`, `513`) and is looked up in the order of `pacman.conf`, while the
  preflight warns about the candidate of `repo_order` (`pm/install.rs:292`); `WarningsAreComplete` speaks of that candidate. `aur/foo` beside a bare `foo` confirms the pin even when the AUR stage failed; a selected companion overrides an
  explicit repository; `-Syu` with AUR targets only refreshes the databases and upgrades nothing of the repositories; a run
  refused after `pacman -Sy` leaves them refreshed. Companions and dependencies only the AUR has are not checked for
  delays, and a delay rule is matched with the requested name rather than that of the provider. `capture` may write a bare
  entry, or one of a source, which `rebuild` refuses when a pin names a repository without the package or a source without a recipe for it
  (`PinIsServed` leaves that out of `CaptureRoundTrips`). A rebuild that installs the command `flatpak`
  could not list the applications before; if one of them is from another remote than the manifest's, the next rebuild of
  the same manifest is refused (`commands/rebuild.rs:300`), which is the exception `Hidden` of `RebuildResumes`.
* Ephemeral: an interrupted `pin try` of a Flatpak leaves the application installed (`sandbox/providers.rs:72`). A workspace is left
  by a kill between its creation and its registration until the next sweep. Archives with absolute links or with links
  that exist already are refused.
