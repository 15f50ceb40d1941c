---------------------------- MODULE SourceInstall ----------------------------
(***************************************************************************)
(* Packages from upstream releases (src/sources/): discovery, approval,     *)
(* download, packaging, installation and the pin that records ownership.   *)
(*                                                                         *)
(* One pacpin process runs one command: an upgrade of the owned packages   *)
(* ("upgrade", or "continue" after a failed AUR build), an installation of *)
(* configured targets ("install") or of a direct target ("direct"). Around *)
(* it upstream republishes, the user edits the configuration file, another *)
(* process runs pacman, and scratch space comes and goes.                  *)
(*                                                                         *)
(* A source definition is an element of Source; mem is the configuration   *)
(* the process read at its start, disk what the file holds now. Files are  *)
(* represented by their content, as the digest or commit identifies it.    *)
(***************************************************************************)
EXTENDS SourceCatalog, Subsequences

CONSTANTS
    Package, Alias,
    Source,          \* definitions: [kind, token, recipes: package -> recipe]
    Upstream,        \* package -> the states its releases and files may be in
    Absent,          \* the version of a package that is not installed
    Repositories,    \* names of the native repositories
    PageSize,
    Worker,          \* min(targets, CONCURRENT_CHECKS) of them
    Direct,          \* direct targets: [value, alias, source, package]
    Inside,          \* content -> version inside a published native package
    Bases, Ram,      \* scratch directories in order, those in memory
    Policy,          \* "auto", "ram" or "storage"
    Size, BuildReserve, OsReserve, Room,
    DependsOn,       \* package -> its installed dependencies
    Failed,          \* packages whose AUR build failed (for "continue")
    Scripted,        \* contents with a scriptlet, a conflict or a replacement
    Modes, Configs, Databases,   \* the commands and states to start from
    MaxEvents        \* bound on the events around the process

Base == { Bases[i] : i \in DOMAIN Bases }

ASSUME CatalogAssumption ==
    /\ IsFiniteSet(Package)
    /\ DOMAIN Bases = 1 .. Len(Bases) /\ Len(Bases) \in Nat /\ Ram \subseteq Base
    /\ Size \in Nat \ {0} /\ BuildReserve \in Nat /\ OsReserve \in Nat /\ Room \in Nat
    /\ MaxEvents \in Nat
ASSUME StartAssumption ==
    /\ Modes \subseteq {"upgrade", "continue", "install", "direct"}
    /\ \A d \in Direct : d.package \in Package
    /\ \A config \in Configs : config = [sources |-> [a \in Alias |-> config.sources[a]],
                                      pins |-> [p \in Package |-> config.pins[p]]]
    /\ \A db \in Databases : db = [p \in Package |-> db[p]]

VARIABLES
    mode,            \* the command
    disk, mem,       \* [sources: Alias -> Source or None, pins: Package -> Alias or None]
    upstream,        \* package -> an element of Upstream[package]
    installed,       \* package -> [version, content]
    pacmanLog,       \* <<package, version>> that were ever installed
    ignored,         \* packages of IgnorePkg
    room, memory,    \* free bytes of each base, MemAvailable
    targets,         \* discovery: sequence of [package, version]
    next, checking,  \* discovery: shared counter, worker -> index or 0
    results,         \* discovery: [index, plan] in the order they were found
    approved,        \* the plans fixed before the confirmation
    queue,           \* the plans to install, in order
    cache,           \* package -> prefetched workspace or None
    work,            \* the current workspace: [base, bytes, content] or None
    archive,         \* the package file: [version, content] or None
    pc, status, events

vars == << mode, disk, mem, upstream, installed, pacmanLog, ignored, room, memory, targets,
           next, checking, results, approved, queue, cache, work, archive, pc, status, events >>

world == << disk, mem, upstream, installed, pacmanLog, ignored, events >>
finding == << targets, next, checking, results >>

(***************************************************************************)
(* Planning                                                                *)
(***************************************************************************)

(* owner: a pin counts only while its source is configured.                  *)
Owner(config, p) ==
    IF config.pins[p] # None /\ config.sources[config.pins[p]] # None THEN config.pins[p] ELSE None

(* validate_config: every source, and every pin to one has its recipe.       *)
ValidConfig(config) ==
    /\ \A a \in Alias : config.sources[a] # None => ValidSource(a, config.sources[a], Repositories)
    /\ \A p \in Package : Owner(config, p) # None =>
           p \in DOMAIN config.sources[config.pins[p]].recipes

(* plan, as the catalog is now; exclusions and delays refuse a package and    *)
(* are left to the recipe being absent.                                    *)
PlanOf(alias, source, p) ==
    LET recipe == source.recipes[p]
        chosen == IF p \notin DOMAIN source.recipes THEN None
                  ELSE Select(recipe, Listed(source.kind, recipe, upstream[p].releases, PageSize))
    IN IF chosen = None THEN None
       ELSE [package |-> p, alias |-> alias, source |-> source, recipe |-> recipe,
             tag |-> chosen.tag, version |-> chosen.version, content |-> chosen.content,
             persist |-> FALSE]

(***************************************************************************)
(* Scratch space                                                           *)
(***************************************************************************)

(* accepts and fits *)
AcceptsBase(b) ==
    CASE Policy = "auto" -> TRUE [] Policy = "ram" -> b \in Ram [] OTHER -> b \notin Ram
Fits(b, bytes) == room[b] >= bytes /\ (b \in Ram => memory >= bytes + OsReserve)

(* choose and select_scratch_base: the first base that will do.              *)
Choose(bytes) ==
    LET good == { i \in DOMAIN Bases : AcceptsBase(Bases[i]) /\ Fits(Bases[i], bytes) }
    IN IF good = {} THEN None ELSE Bases[CHOOSE i \in good : \A j \in good : i <= j]

(* Fault: the room for the artifact that moves along is forgotten. *)
EnsuredForBuildOnly(w, bytes) ==
    IF AcceptsBase(w.base) /\ Fits(w.base, bytes) THEN w
    ELSE IF Choose(bytes) = None THEN None ELSE [w EXCEPT !.base = Choose(bytes)]

(* ensure_capacity: the workspace stays, or moves with its artifact to a base *)
(* that holds both; None when there is no such base.                       *)
Ensured(w, bytes) ==
    LET base == Choose(bytes + w.bytes)
    IN IF AcceptsBase(w.base) /\ Fits(w.base, bytes) THEN w
       ELSE IF base = None THEN None ELSE [w EXCEPT !.base = base]

(* Fault: a moved workspace is counted as freed twice. *)
FreedTwice(old, b) == IF old # None /\ old.base = b THEN 2 * old.bytes ELSE 0

(* What is free after a workspace changed from old to new.                   *)
Freed(old, b) == IF old # None /\ old.base = b THEN old.bytes ELSE 0
Settled(old, new) ==
    /\ room' = [b \in DOMAIN room |-> room[b] + Freed(old, b) - Freed(new, b)]
    /\ memory' = LET inRam(w) == IF w # None /\ w.base \in Ram THEN w.bytes ELSE 0
                 IN memory + inRam(old) - inRam(new)

(* Workdir::new_for_plan: room for the first bytes, or for the whole build.   *)
InitialNeed(recipe) == IF recipe.build THEN BuildReserve + 1 ELSE 1

(* The bytes behind an approved asset's URL, if it is still there.             *)
Served(pl) ==
    LET files == upstream[pl.package].served
    IN IF pl.tag \in DOMAIN files THEN files[pl.tag] ELSE None

(* check_capacity: the headroom a recipe declares, where the workspace is.     *)
Headroom(b) == AcceptsBase(b) /\ Fits(b, BuildReserve)

(* git::fetch: the approved commit, if the repository still has it. Git fails   *)
(* when the file system is full; nobody asked how large the checkout is.   *)
Holds(b, bytes) == room[b] >= bytes /\ (b \in Ram => memory >= bytes)
Fetched(pl, base) ==
    IF Headroom(base) /\ Holds(base, Size) /\ pl.content \in upstream[pl.package].commits
    THEN [base |-> base, bytes |-> Size, content |-> pl.content] ELSE None

(* Fault: the digest of the transferred artifact is not compared. *)
TransferredUnchecked(pl, base) ==
    LET w == Ensured([base |-> base, bytes |-> 0, content |-> None], Size)
    IN IF w = None \/ Served(pl) = None THEN None
       ELSE [w EXCEPT !.bytes = Size, !.content = Served(pl)]

(* download_inner: the artifact, if there is room for it and its digest is the  *)
(* approved one.                                                           *)
Transferred(pl, base) ==
    LET w == Ensured([base |-> base, bytes |-> 0, content |-> None], Size)
    IN IF w = None \/ Served(pl) # pl.content THEN None
       ELSE [w EXCEPT !.bytes = Size, !.content = Served(pl)]

(* A new workspace with what the plan approved, or None: no room, or not what   *)
(* was approved (or a failed transfer, which the callers add).             *)
Downloaded(pl) ==
    LET base == Choose(InitialNeed(pl.recipe))
    IN IF base = None THEN None
       ELSE IF pl.recipe.git THEN Fetched(pl, base) ELSE Transferred(pl, base)

(* prepare_build: twice the payload and the reserve; a Git checkout needs the *)
(* declared headroom where it is.                                          *)
BuildNeed(pl) ==
    IF pl.recipe.git THEN BuildReserve
    ELSE 2 * Size + BuildReserve + (IF pl.recipe.build THEN BuildReserve ELSE 0)
Prepared(pl, w) ==
    IF ~pl.recipe.git THEN Ensured(w, BuildNeed(pl))
    ELSE IF Headroom(w.base) THEN w ELSE None

-----------------------------------------------------------------------------
(***************************************************************************)
(* Discovery                                                               *)
(***************************************************************************)

(* check_targets: a free worker takes the next index.                        *)
Claim(k) ==
    /\ pc = "discover" /\ checking[k] = 0
    /\ next <= Len(targets)
    /\ checking' = [checking EXCEPT ![k] = next]
    /\ next' = next + 1
    /\ UNCHANGED << targets, results, approved, queue, cache, work, archive, pc, status, mode,
                    room, memory >>
    /\ UNCHANGED world

(* One check ends: a plan if its version is newer, None if the package is     *)
(* current, an error (no selection, a failed request or a panic).          *)
Finding(t) ==
    LET alias == Owner(mem, t.package)
        plan == PlanOf(alias, mem.sources[alias], t.package)
    IN IF plan = None THEN Error
       ELSE IF Newer(plan.version, t.version) THEN plan ELSE None

Check(k) ==
    /\ pc = "discover" /\ checking[k] # 0
    /\ \E found \in { Finding(targets[checking[k]]), Error } :
           results' = Append(results, [index |-> checking[k], found |-> found])
    /\ checking' = [checking EXCEPT ![k] = 0]
    /\ UNCHANGED << targets, next, approved, queue, cache, work, archive, pc, status, mode,
                    room, memory >>
    /\ UNCHANGED world

(* Fault: results are taken in the order the workers end in. *)
InCompletionOrder == [i \in 1 .. Len(targets) |-> results[i].found]

(* The scope ends when every worker has: results in target order, the plans   *)
(* become the approved ones (discover_updates).                            *)
InOrder ==
    [i \in 1 .. Len(targets) |->
        results[CHOOSE j \in DOMAIN results : results[j].index = i].found]
IsPlan(found) == found # None /\ found # Error

Report ==
    /\ pc = "discover" /\ next > Len(targets)
    /\ \A k \in Worker : checking[k] = 0
    /\ approved' = Kept(InOrder, { i \in DOMAIN targets : IsPlan(InOrder[i]) })
    /\ pc' = "review"
    /\ UNCHANGED << targets, next, checking, results, queue, cache, work, archive, status, mode,
                    room, memory >>
    /\ UNCHANGED world

-----------------------------------------------------------------------------
(***************************************************************************)
(* Approval and prefetch                                                   *)
(***************************************************************************)

(* install_targets and install_direct plan in the foreground, one target or    *)
(* the direct one; a direct target takes the alias of an equal source, and *)
(* is refused when its alias or its package belongs to another.            *)
DirectAlias(d) ==
    IF \E a \in Alias : mem.sources[a] = d.source
    THEN CHOOSE a \in Alias : mem.sources[a] = d.source ELSE d.alias
DirectPlan(d) ==
    LET a == DirectAlias(d)
        plan == PlanOf(a, d.source, d.package)
    IN IF \/ ParseDirect(d.value) \in {Error, None}
          \/ mem.sources[a] \notin {None, d.source}
          \/ Owner(mem, d.package) \notin {None, a}
          \/ plan = None
       THEN None ELSE [plan EXCEPT !.persist = mem.sources[a] = None]

Plan ==
    /\ pc = "plan"
    /\ \E plan \in
           IF mode = "direct" THEN { DirectPlan(d) : d \in Direct }
           ELSE IF ~ValidConfig(mem) THEN {None}
           ELSE {None} \cup { PlanOf(a, mem.sources[a], p) : a \in { b \in Alias : mem.sources[b] # None },
                                                 p \in Package } :
        IF plan = None THEN pc' = "failed" /\ UNCHANGED approved
                       ELSE pc' = "review" /\ approved' = << plan >>
    /\ UNCHANGED << mode, queue, cache, work, archive, status, room, memory >>
    /\ UNCHANGED << world, finding >>

(* The user declines, or approves all or some of what was shown. Updates are  *)
(* prefetched, an installation starts at once.                             *)
Approve ==
    /\ pc = "review"
    /\ \E taken \in SUBSET DOMAIN approved :
        /\ queue' = Kept(approved, taken)
        /\ pc' = IF taken = {} THEN "done"
                 ELSE IF mode \in {"upgrade", "continue"} THEN "prefetch" ELSE "start"
    /\ UNCHANGED << mode, approved, cache, work, archive, status, room, memory >>
    /\ UNCHANGED << world, finding >>

(* prefetch: every queued plan that is not Git, in order; the first failure     *)
(* fails the preparation.                                                  *)
Unfetched ==
    { i \in DOMAIN queue : ~queue[i].recipe.git /\ cache[queue[i].package] = None }

Prefetch ==
    /\ pc = "prefetch"
    /\ IF Unfetched = {} THEN pc' = "start" /\ UNCHANGED << cache, room, memory >>
       ELSE LET plan == queue[CHOOSE i \in Unfetched : \A j \in Unfetched : i <= j]
            IN \E w \in { Downloaded(plan), None } :
                /\ cache' = [cache EXCEPT ![plan.package] = w]
                /\ Settled(None, w)
                /\ pc' = IF w = None THEN "failed" ELSE "prefetch"
    /\ UNCHANGED << mode, approved, queue, work, archive, status >>
    /\ UNCHANGED << world, finding >>

-----------------------------------------------------------------------------
(***************************************************************************)
(* Installation of the first plan of the queue (execute_inner)             *)
(***************************************************************************)

plan == Head(queue)
Goto(next_pc) == pc' \in next_pc

(* ensure_independent: neither the package nor what it depends on, through the   *)
(* installed packages, is part of the failed stage or missing.             *)
Independent(pl) ==
    LET below[n \in Nat] ==
            IF n = 0 THEN pl.recipe.depends
            ELSE below[n - 1] \cup UNION { DependsOn[p] : p \in below[n - 1] }
        needed == below[Cardinality(Package)]
    IN /\ ({pl.package} \cup needed) \cap Failed = {}
       /\ \A p \in needed : installed[p].version # Absent

(* check_prerequisites: a continuation builds nothing from source code; tools   *)
(* and build dependencies may be missing (Start).                          *)
Prerequisites(pl) == pl.recipe.build => mode # "continue"

(* Validation, the lock and the prerequisites, before anything is fetched.     *)
Admitted ==
    /\ ValidConfig(mem)
    /\ plan.persist \/ mem.sources[plan.alias] = plan.source
    /\ Prerequisites(plan)
    /\ mode = "continue" => Independent(plan)

Start ==
    /\ pc = "start"
    /\ Goto(IF Admitted THEN {"fetch", "failed"} ELSE {"failed"})
    /\ UNCHANGED << mode, approved, queue, cache, work, archive, status, room, memory >>
    /\ UNCHANGED << world, finding >>

(* The prefetched workspace if there is one, else a download now.              *)
Fetch ==
    /\ pc = "fetch"
    /\ IF cache[plan.package] # None
       THEN /\ work' = cache[plan.package]
            /\ cache' = [cache EXCEPT ![plan.package] = None]
            /\ pc' = "prepare"
            /\ UNCHANGED << room, memory >>
       ELSE \E w \in { Downloaded(plan), None } :
            /\ work' = w /\ Settled(None, w)
            /\ pc' = IF w = None THEN "failed" ELSE "prepare"
            /\ UNCHANGED cache
    /\ UNCHANGED << mode, approved, queue, archive, status >>
    /\ UNCHANGED << world, finding >>

(* A native artifact is the package; for the others prepare_build makes room.   *)
Prepare ==
    /\ pc = "prepare"
    /\ IF plan.recipe.format = "native"
       THEN /\ archive' = [version |-> Inside[work.content], content |-> work.content]
            /\ pc' = "load"
            /\ UNCHANGED << work, room, memory >>
       ELSE LET w == Prepared(plan, work)
            IN /\ work' = IF w = None THEN work ELSE w
               /\ Settled(work, work')
               /\ pc' = IF w = None THEN "failed" ELSE "build"
               /\ UNCHANGED archive
    /\ UNCHANGED << mode, approved, queue, cache, status >>
    /\ UNCHANGED << world, finding >>

(* build: unpack, validate the declared binaries, package and release the       *)
(* tree; one package with the plan's version comes out, or an error.       *)
Build ==
    /\ pc = "build" /\ ~plan.recipe.build
    /\ \/ archive' = [version |-> plan.version, content |-> work.content] /\ pc' = "load"
       \/ UNCHANGED archive /\ pc' = "failed"
    /\ UNCHANGED << mode, approved, queue, cache, work, status, room, memory >>
    /\ UNCHANGED << world, finding >>

(* build::execute: the commands of the recipe run under makepkg, what they made  *)
(* is inspected and packaged. There must be headroom before, and room for  *)
(* the package once the output is known (check_archive_capacity).          *)
CompiledFits(b) == Headroom(b) /\ Fits(b, Size + BuildReserve)

Compile ==
    /\ pc = "build" /\ plan.recipe.build
    /\ \/ /\ CompiledFits(work.base)
          /\ archive' = [version |-> plan.version, content |-> work.content] /\ pc' = "load"
       \/ UNCHANGED archive /\ pc' = "failed"
    /\ UNCHANGED << mode, approved, queue, cache, work, status, room, memory >>
    /\ UNCHANGED << world, finding >>

(* pkg_load and what is compared with the plan; a continuation refuses what    *)
(* its permit does not cover; the root file system may be full.            *)
Acceptable ==
    /\ archive.version = plan.version
    /\ mode = "continue" => Independent(plan) /\ archive.content \notin Scripted

Load ==
    /\ pc = "load"
    /\ Goto(IF Acceptable THEN {"pacman", "failed"} ELSE {"failed"})
    /\ UNCHANGED << mode, approved, queue, cache, work, archive, status, room, memory >>
    /\ UNCHANGED << world, finding >>

(* pacman -U: fails, or leaves out a package of IgnorePkg or (with --needed,   *)
(* for a package the source owns) one that is at this version, or installs.*)
(* An upgrade always asks for --needed, an installation if the user does.  *)
Needed(asked) == asked /\ Owner(mem, plan.package) = plan.alias

Pacman ==
    /\ pc = "pacman"
    /\ \/ pc' = "failed" /\ UNCHANGED << installed, pacmanLog >>
       \/ \E asked \in (IF mode \in {"upgrade", "continue"} THEN {TRUE} ELSE BOOLEAN) :
          /\ pc' = "verify"
          /\ IF \/ plan.package \in ignored
                \/ Needed(asked) /\ installed[plan.package].version = archive.version
             THEN UNCHANGED << installed, pacmanLog >>
             ELSE /\ installed' = [installed EXCEPT ![plan.package] = archive]
                  /\ pacmanLog' = pacmanLog \cup {<< plan.package, archive.version >>}
    /\ UNCHANGED << mode, approved, queue, cache, work, archive, status, room, memory,
                    disk, mem, upstream, ignored, events >>
    /\ UNCHANGED finding

(* A fresh look at the database.                                              *)
Verify ==
    /\ pc = "verify"
    /\ Goto(IF installed[plan.package].version = plan.version THEN {"persist"} ELSE {"failed"})
    /\ UNCHANGED << mode, approved, queue, cache, work, archive, status, room, memory >>
    /\ UNCHANGED << world, finding >>

(* mutate_config: under its lock, against the file as it is now. The copy in  *)
(* memory has the pin before the file does.                                *)
Saved(config) ==
    LET added == IF plan.persist /\ config.sources[plan.alias] = None
                 THEN [config EXCEPT !.sources[plan.alias] = plan.source] ELSE config
    IN IF added.sources[plan.alias] # plan.source THEN None
       ELSE [added EXCEPT !.pins[plan.package] = plan.alias]

Persist ==
    /\ pc = "persist"
    /\ mem' = [mem EXCEPT !.pins[plan.package] = plan.alias]
    /\ IF Saved(disk) = None THEN pc' = "failed" /\ UNCHANGED disk
       ELSE disk' = Saved(disk) /\ pc' = "next"
    /\ UNCHANGED << mode, approved, queue, cache, work, archive, status, room, memory,
                    upstream, installed, pacmanLog, ignored, events >>
    /\ UNCHANGED finding

(* The workspace is dropped; a continuation may be stopped by what its permit  *)
(* finds changed (source_completed); the next plan, or the end.            *)
Advance ==
    /\ pc = "next"
    /\ work' = None /\ archive' = None /\ Settled(work, None)
    /\ queue' = Tail(queue)
    /\ \/ pc' = IF Len(queue) = 1 THEN "done" ELSE "start"
       \/ mode = "continue" /\ pc' = "failed"
    /\ UNCHANGED << mode, approved, cache, status >>
    /\ UNCHANGED << world, finding >>

(* An error ends the command; clear_prefetched and Drop release what is held.  *)
Held == { p \in Package : cache[p] # None }

Finish ==
    /\ pc \in {"failed", "done"} /\ status = "running"
    /\ status' = IF pc = "done" THEN "ok" ELSE "failed"
    /\ pc' = "done"
    /\ work' = None /\ archive' = None /\ cache' = [p \in Package |-> None]
    /\ LET bytes(b) == Size * (Cardinality({ p \in Held : cache[p].base = b })
                               + IF work # None /\ work.base = b THEN 1 ELSE 0)
       IN /\ room' = [b \in DOMAIN room |-> room[b] + bytes(b)]
          /\ memory' = memory + Size * (Cardinality({ p \in Held : cache[p].base \in Ram })
                                        + IF work # None /\ work.base \in Ram THEN 1 ELSE 0)
    /\ UNCHANGED << mode, approved, queue >>
    /\ UNCHANGED << world, finding >>

-----------------------------------------------------------------------------
(***************************************************************************)
(* Around the process                                                      *)
(***************************************************************************)

Event == events < MaxEvents /\ status = "running" /\ events' = events + 1
Ours == << mode, mem, ignored, approved, queue, cache, work, archive, pc, status >>

Republish(p) ==
    /\ Event
    /\ \E u \in Upstream[p] \ {upstream[p]} : upstream' = [upstream EXCEPT ![p] = u]
    /\ UNCHANGED << disk, installed, pacmanLog, room, memory >>
    /\ UNCHANGED << Ours, finding >>

EditConfig ==
    /\ Event
    /\ \/ \E a \in Alias, s \in Source \cup {None} : disk' = [disk EXCEPT !.sources[a] = s]
       \/ \E p \in Package : disk' = [disk EXCEPT !.pins[p] = None]
    /\ UNCHANGED << upstream, installed, pacmanLog, room, memory >>
    /\ UNCHANGED << Ours, finding >>

OtherPacman(p) ==
    /\ Event
    /\ \E c \in DOMAIN Inside \cup {Absent} :
        LET new == [version |-> IF c = Absent THEN Absent ELSE Inside[c], content |-> c]
        IN /\ installed' = [installed EXCEPT ![p] = new]
           /\ pacmanLog' = pacmanLog \cup {<< p, new.version >>}
    /\ UNCHANGED << disk, upstream, room, memory >>
    /\ UNCHANGED << Ours, finding >>

OthersUseSpace(b) ==
    /\ Event
    /\ \E n \in 1 .. room[b] :
        /\ room' = [room EXCEPT ![b] = @ - n]
        /\ memory' = IF b \in Ram THEN IF memory > n THEN memory - n ELSE 0 ELSE memory
    /\ UNCHANGED << disk, upstream, installed, pacmanLog >>
    /\ UNCHANGED << Ours, finding >>

-----------------------------------------------------------------------------
(* The installed packages a run of discovery asks about.                       *)
Asked(config, db, ignore) ==
    { p \in Package : db[p].version # Absent /\ p \notin ignore /\ Owner(config, p) # None }

TypeOK ==
    /\ pc \in { "discover", "plan", "review", "prefetch", "start", "fetch", "prepare", "build",
                "load", "pacman", "verify", "persist", "next", "failed", "done" }
    /\ next \in 1 .. Len(targets) + 1
    /\ checking \in [Worker -> 0 .. Len(targets)]
    /\ memory \in Nat /\ room \in [DOMAIN room -> 0 .. Room] /\ events \in 0 .. MaxEvents
    /\ pc \in { "prepare", "build", "load", "pacman", "verify", "persist", "next" } => work # None
    /\ pc \in { "load", "pacman", "verify", "persist", "next" } => archive.content = work.content

(* The steps of the process; the rest is done to it.                            *)
Step ==
    \/ \E k \in Worker : Claim(k) \/ Check(k)
    \/ Report \/ Plan \/ Approve \/ Prefetch
    \/ Start \/ Fetch \/ Prepare \/ Build \/ Compile \/ Load \/ Pacman \/ Verify \/ Persist
    \/ Advance \/ Finish

Around ==
    \/ \E p \in Package : Republish(p) \/ OtherPacman(p)
    \/ EditConfig
    \/ \E b \in DOMAIN room : OthersUseSpace(b)

Ended == status # "running" /\ UNCHANGED vars

Next == Step \/ Around \/ Ended

Init ==
    /\ mode \in Modes /\ disk \in Configs /\ mem = disk
    /\ upstream \in { u \in [Package -> UNION { Upstream[p] : p \in Package }] :
                        \A p \in Package : u[p] \in Upstream[p] }
    /\ installed \in Databases
    /\ pacmanLog = { << p, installed[p].version >> : p \in Package }
    /\ ignored \in { {}, Failed }
    /\ room \in [Base -> {Room \div 2, Room}]
    /\ memory = Room + OsReserve
    /\ LET listed == Asked(mem, installed, ignored)
       IN targets \in { t \in [1 .. Cardinality(listed) -> [package : listed, version : { installed[p].version : p \in listed }]] :
                          /\ { t[i].package : i \in DOMAIN t } = listed
                          /\ \A i \in DOMAIN t : t[i].version = installed[t[i].package].version }
    /\ next = 1 /\ checking = [k \in Worker |-> 0] /\ results = << >>
    /\ approved = << >> /\ queue = << >>
    /\ cache = [p \in Package |-> None] /\ work = None /\ archive = None
    /\ pc = (IF mode \in {"upgrade", "continue"} THEN "discover" ELSE "plan")
    /\ status = "running" /\ events = 0

Spec == Init /\ [][Next]_vars

-----------------------------------------------------------------------------
(***************************************************************************)
(* Properties                                                              *)
(***************************************************************************)

(* Whatever upstream publishes meanwhile, and wherever the artifact waited or  *)
(* was moved to, what the process installs is a plan that was approved, with  *)
(* the approved content and version ("Execute the exact catalog selection    *)
(* shown before confirmation", provider.rs).                               *)
ApprovedIsInstalled ==
    [][pc = "pacman" /\ installed' # installed /\ events' = events =>
          /\ \E i \in DOMAIN approved : approved[i] = plan
          /\ installed'[plan.package] = [version |-> plan.version, content |-> plan.content]
          /\ \A p \in Package \ {plan.package} : installed'[p] = installed[p]]_vars

(* The file never gains a pin for a version that was not installed, for a       *)
(* source that is not the one the plan was made from, or at the price of a  *)
(* definition the user has written meanwhile.                              *)
OwnershipIsEarned ==
    [][disk' # disk /\ events' = events =>
          /\ << plan.package, plan.version >> \in pacmanLog
          /\ disk'.sources[plan.alias] = plan.source
          /\ \A a \in Alias : disk.sources[a] # None => disk'.sources[a] = disk.sources[a]]_vars

(* Every target of a check has one outcome, every plan found is offered, and    *)
(* the plans keep the order of the targets, whichever worker finished first, *)
(* failed or panicked.                                                     *)
DiscoveryLossless ==
    (mode \in {"upgrade", "continue"} /\ pc # "discover") =>
        /\ \A i \in DOMAIN targets :
               Cardinality({ j \in DOMAIN results : results[j].index = i }) = 1
        /\ \A j \in DOMAIN results :
               IsPlan(results[j].found) => \E i \in DOMAIN approved : approved[i] = results[j].found
        /\ \A i, j \in DOMAIN approved : i < j =>
               \E k, l \in DOMAIN targets :
                   /\ k < l
                   /\ approved[i].package = targets[k].package
                   /\ approved[j].package = targets[l].package

(* A check that does not fail offers only a release of the channel that no      *)
(* other in the window outranks ("choosing the greatest matching semantic  *)
(* version within that window", docs/sources.md), and only if pacman takes *)
(* what it would write for newer than what is installed. An update may be  *)
(* missed, and a release pacman calls newer passed over, only where pacman's*)
(* order of the written versions and the precedence of the releases differ. *)
NewestIsOffered ==
    [][\A k \in Worker :
        (checking[k] # 0 /\ checking'[k] = 0) =>
            LET t == targets[checking[k]]
                found == results'[Len(results')].found
                source == mem.sources[Owner(mem, t.package)]
                recipe == source.recipes[t.package]
                listed == Listed(source.kind, recipe, upstream[t.package].releases, PageSize)
                among == Candidates(recipe, listed)
                written(i) == IF listed[i].override = None THEN ArchVersion(listed[i].version)
                              ELSE listed[i].override
                outranks(i, j) == Outranks(listed[i].version, listed[j].version)
                ordersAgree == \A i, j \in among : Newer(written(i), written(j)) => outranks(i, j)
            IN found # Error =>
                /\ IsPlan(found) =>
                       /\ Newer(found.version, t.version)
                       /\ \E i \in among : /\ found.tag = listed[i].tag /\ found.version = written(i)
                                          /\ \A j \in among : ~outranks(j, i)
                /\ ordersAgree =>
                       /\ IsPlan(found) <=> \E i \in among : Newer(written(i), t.version)
                       /\ IsPlan(found) => \A i \in among : ~Newer(written(i), found.version)]_vars

(* Packaging starts in a workspace, moved or not, that has the bytes it will   *)
(* need besides the artifact it holds, and leaves the system its memory.   *)
BuildHasRoom ==
    [][pc = "prepare" /\ pc' = "build" =>
          /\ room'[work'.base] >= BuildNeed(plan)
          /\ work'.base \in Ram => memory' >= BuildNeed(plan) + OsReserve
          /\ work'.content = work.content]_vars

(* From the approval to the record: what was approved is what is built, in a  *)
(* place that has room for it, what is installed, and what becomes owned.   *)
UpgradesAreFaithful == BuildHasRoom /\ ApprovedIsInstalled /\ OwnershipIsEarned

-----------------------------------------------------------------------------
(***************************************************************************)
(* The inductive invariant                                                 *)
(***************************************************************************)

(* Discovery: the indices below the counter are each with one worker or have   *)
(* one result, and a plan found is for the package of its target.          *)
TargetInv ==
    /\ DOMAIN targets = 1 .. Len(targets) /\ Len(targets) \in Nat
    /\ \A i, j \in DOMAIN targets : targets[i].package = targets[j].package => i = j
    /\ \A i \in DOMAIN targets : targets[i].package \in Package
ClaimInv ==
    /\ next \in 1 .. Len(targets) + 1
    /\ checking \in [Worker -> 0 .. next - 1]
    /\ \A k, l \in Worker : checking[k] = checking[l] /\ checking[k] # 0 => k = l
ResultOf(j, i) ==
    /\ results[j].index = i
    /\ \A k \in Worker : checking[k] # i
    /\ IsPlan(results[j].found) => results[j].found.package = targets[i].package
ResultInv ==
    /\ DOMAIN results = 1 .. Len(results) /\ Len(results) \in Nat
    /\ \A j \in DOMAIN results : \E i \in 1 .. next - 1 : ResultOf(j, i)
    /\ \A i, j \in DOMAIN results : results[i].index = results[j].index => i = j
CoverInv ==
    \A i \in 1 .. next - 1 : \/ \E k \in Worker : checking[k] = i
                            \/ \E j \in DOMAIN results : results[j].index = i
DiscoverInv == TargetInv /\ ClaimInv /\ ResultInv /\ CoverInv

(* The plans: what is queued was approved, at most one for a package.         *)
Checks == mode \in {"upgrade", "continue"}
ApprovedInv ==
    /\ approved \in Seq({ approved[i] : i \in DOMAIN approved })
    /\ \A i \in DOMAIN approved : approved[i].package \in Package
    /\ \A i, j \in DOMAIN approved : approved[i].package = approved[j].package => i = j
QueuedInv ==
    /\ queue \in Seq({ approved[i] : i \in DOMAIN approved })
    /\ \A i, j \in DOMAIN queue : queue[i].package = queue[j].package => i = j
Installing == {"prefetch", "start", "fetch", "prepare", "build", "load", "pacman", "verify",
               "persist", "next"}
PhaseInv ==
    /\ mode \in {"upgrade", "continue", "install", "direct"}
    /\ pc = "discover" => Checks
    /\ pc = "plan" => ~Checks
    /\ pc \in {"discover", "plan"} => approved = << >>
    /\ pc \in Installing => queue # << >>
QueueInv == ApprovedInv /\ QueuedInv /\ PhaseInv

(* Space: a workspace holds one artifact, and what is free and what is held do  *)
(* not exceed the file system.                                             *)
IsWorkspace(w) == w = [base |-> w.base, bytes |-> Size, content |-> w.content] /\ w.base \in Base
HeldOn(held, b) == { p \in Package : held[p] # None /\ held[p].base = b }
SpaceInv ==
    /\ cache = [p \in Package |-> cache[p]]
    /\ \A p \in Package : cache[p] # None => IsWorkspace(cache[p])
    /\ work # None => IsWorkspace(work)
    /\ memory \in Nat /\ room \in [Base -> Nat]
    /\ \A b \in Base : room[b] + Size * (Cardinality(HeldOn(cache, b))
                                         + IF work # None /\ work.base = b THEN 1 ELSE 0) <= Room

(* Contents: what waits, is worked on or is packaged is what was approved.    *)
CacheInv ==
    /\ pc \in {"discover", "plan", "review"} => \A p \in Package : cache[p] = None
    /\ \A i \in DOMAIN queue : cache[queue[i].package] # None =>
                                  cache[queue[i].package].content = queue[i].content
WorkInv ==
    /\ pc \in {"prepare", "build", "load", "pacman", "verify", "persist"} =>
           work # None /\ work.content = plan.content
    /\ pc = "next" => work # None
    /\ pc \in {"load", "pacman", "verify", "persist", "next"} =>
           archive = [version |-> archive.version, content |-> work.content]
    /\ pc \in {"pacman", "verify", "persist"} => archive.version = plan.version
ContentInv == CacheInv /\ WorkInv

(* Records: pacman's log has every version that is installed.                *)
RecordInv ==
    /\ installed = [p \in Package |-> installed[p]]
    /\ disk = [sources |-> [a \in Alias |-> disk.sources[a]], pins |-> [p \in Package |-> disk.pins[p]]]
    /\ \A p \in Package : << p, installed[p].version >> \in pacmanLog
    /\ pc = "persist" => << plan.package, plan.version >> \in pacmanLog

IInv == TypeOK /\ DiscoverInv /\ DiscoveryLossless /\ QueueInv /\ SpaceInv /\ ContentInv /\ RecordInv
=============================================================================
