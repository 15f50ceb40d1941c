----------------------------- MODULE Ephemeral -----------------------------
(* One `pacpin run` or `pacpin try`: src/commands/ephemeral.rs, sandbox.rs, *)
(* src/sandbox/, the download of archives in src/download.rs and the order  *)
(* of dependencies in src/db.rs. Beside the run there are its two download  *)
(* threads, the signal handler, another process that cleans the cache, and  *)
(* another pacpin that sweeps stale workspaces when it starts.              *)
EXTENDS Archive

CONSTANTS Invocations,  \* what the user may ask: [mode, args, policy, provider, target, pkg],
                        \* pkg is the target without its prefix
          Worlds,       \* databases, cache and capabilities a run may meet
          Mirrors,      \* number of mirrors of every repository
          Batch,        \* download threads at a time
          Nothing

ASSUME EphemeralAssumption == Mirrors \in Nat \ {0} /\ Batch \in Nat \ {0}

\* The databases answer every target and every dependency with a package, which
\* may have another name and provide it, or with Nothing, and list what every
\* package depends on. A current directory is a path.
ASSUME WorldsAssumption == \A w \in Worlds :
  /\ w.depends \in [DOMAIN w.depends -> Seq(DOMAIN w.provider)]
  /\ w.provider \in [DOMAIN w.provider -> DOMAIN w.depends \cup {Nothing}]
  /\ \A c \in Invocations : c.target \in DOMAIN w.provider
  /\ w.cached \in [DOMAIN w.depends -> {"good", "bad", Nothing}] /\ w.cwd \in Seq(STRING)

VARIABLES
  call, world,   \* the invocation and what it meets; neither changes
  main, code,      \* the main thread and the exit status
  local,         \* the executables of the installed package, or Nothing
  visit,         \* the resolution: its stack, specifications and packages seen
  plan, fetch,   \* packages in order, and the download of each
  archives,      \* <<package, content, place>> in the order they were joined
  owned,         \* inventory of the requested package's archive
  binary,        \* what is about to run
  dir, files,    \* the workspace on disk, and the downloads in it
  tree,          \* what is unpacked in the workspace
  registered, guarded,  \* targets of the shutdown, and of the guard
  cache,         \* archives in pacman's cache: "good", "bad" or Nothing
  apps, answer,  \* the user's Flatpaks, and what the query of the requested one said
  signal,        \* "none", "raised", "cleaned"
  sweep          \* the other pacpin: "idle", "condemned", "swept"
ephemeralVars == <<call, world, main, code, local, visit, plan, fetch, archives, owned, binary,
                   dir, files, tree, registered, guarded, cache, apps, answer, signal, sweep>>
disk == <<dir, files, tree, registered, guarded>>
asked == <<call, world>>
around == <<cache, apps, answer, signal, sweep>>

-----------------------------------------------------------------------------
(* The command line and the options it selects. *)
Defaults(mode) ==
  [sandbox |-> mode = "try", net |-> mode = "run", rw |-> mode = "run", gui |-> FALSE, bin |-> Nothing,
   allow |-> FALSE, installed |-> FALSE, nocache |-> FALSE, dry |-> FALSE, passed |-> <<>>, after |-> FALSE]

\* One argument. After "--", and for what the mode does not know, it is the app's.
Argument(mode, o, a) ==
  IF o.after THEN [o EXCEPT !.passed = Append(@, a)]
  ELSE CASE a = "--" -> [o EXCEPT !.after = TRUE]
         [] mode = "run" /\ a = "--sandbox" -> [o EXCEPT !.sandbox = TRUE, !.net = FALSE, !.rw = FALSE]
         [] mode = "try" /\ a = "--bare" -> [o EXCEPT !.sandbox = FALSE]
         [] mode = "try" /\ a = "--net"  -> [o EXCEPT !.net = TRUE]
         [] mode = "try" /\ a = "--rw"   -> [o EXCEPT !.rw = TRUE]
         [] mode = "try" /\ a = "--gui"  -> [o EXCEPT !.gui = TRUE]
         [] a = "--allow-unverified" -> [o EXCEPT !.allow = TRUE]
         [] a = "--installed" -> [o EXCEPT !.installed = TRUE]
         [] a = "--no-cache"  -> [o EXCEPT !.nocache = TRUE]
         [] a = "--dry-run"   -> [o EXCEPT !.dry = TRUE]
         [] a = "--bin=tool"  -> [o EXCEPT !.bin = "tool"]
         [] OTHER -> [o EXCEPT !.passed = Append(@, a)]
OptionsOf(c) == FoldLeft(LAMBDA o, a : Argument(c.mode, o, a), Defaults(c.mode), c.args)
Options == OptionsOf(call)

HostOnly(provider) == provider \in {"nix", "pipx"}
Foreign(provider)  == provider \in {"flatpak", "nix", "pipx"}

\* The combinations that are refused, or only previewed, before any effect.
Refused(o) ==
  \/ o.nocache /\ call.provider \in {"flatpak", "nix"}
  \/ call.policy # "auto" /\ Foreign(call.provider)
  \/ o.installed /\ call.provider # Nothing
  \/ o.dry /\ HostOnly(call.provider) /\ o.sandbox
Unsupported(o) == HostOnly(call.provider) /\ o.sandbox

-----------------------------------------------------------------------------
(* The choice of what runs among the executables of the requested package. *)
BaseName(p) == p[Len(p)]
Named(paths, name) == {p \in paths : BaseName(p) = name}
Selected(paths, pkg, bin) ==
  IF bin # Nothing THEN IF Cardinality(Named(paths, bin)) = 1 THEN Named(paths, bin) ELSE {}
  ELSE IF Named(paths, pkg) # {} THEN Named(paths, pkg)
  ELSE IF Cardinality(paths) = 1 THEN paths
  ELSE Named(paths, world.stripped[pkg])

-----------------------------------------------------------------------------
(* The container: what bwrap is told to mount, in order; the last mount     *)
(* over a place decides what is seen there. The sockets and devices of X11,  *)
(* graphics and sound, which none of the places below is under, are left out.*)
Mount(at, from, rw) == [at |-> at, from |-> from, rw |-> rw]
WorkPlace == <<world.base, "work">>      \* the workspace lies in tmp, var or home
Protected == {"usr", "etc", "tmp", "var"}
BindsCwd == world.cwd # <<>> /\ <<"home">> \notin Prefixes1(world.cwd) /\ world.cwd[1] \notin Protected
Mounts(o) ==
  <<Mount(<<"usr">>, "host", FALSE), Mount(<<"etc">>, "host", FALSE)>>
  \o (IF <<"usr", "share">> \in DirsOf(tree)
      THEN <<Mount(<<"usr", "share">>, IF world.overlay THEN "both" ELSE "work", FALSE)>> ELSE <<>>)
  \o <<Mount(<<"tmp">>, "empty", TRUE), Mount(<<"home">>, "empty", TRUE)>>
  \o (IF BindsCwd THEN <<Mount(world.cwd, "host", o.rw)>> ELSE <<>>)
  \o <<Mount(WorkPlace, "work", FALSE)>>
  \o (IF o.gui /\ world.socket THEN <<Mount(<<"tmp", "wayland">>, "host", FALSE)>> ELSE <<>>)

\* What is seen at a place, Nothing when nothing was mounted over it.
Seen(mounts, place) ==
  LET over == {n \in DOMAIN mounts : mounts[n].at \in Prefixes1(place)}
  IN IF over = {} THEN Nothing ELSE mounts[Max(over)]

-----------------------------------------------------------------------------
(* The run itself. *)
\* A package whose dependencies are looked at, and the next of them.
Frame(pkg) == [pkg |-> pkg, next |-> 1]
NoVisit    == [stack |-> <<>>, specs |-> {}, pkgs |-> {}]

EphemeralInit ==
  /\ call \in Invocations /\ world \in Worlds
  /\ main = "start" /\ code = Nothing /\ local = Nothing
  /\ visit = NoVisit /\ plan = <<>> /\ fetch = <<>> /\ archives = <<>>
  /\ owned = {} /\ binary = Nothing /\ dir = "absent" /\ files = {} /\ tree = <<>>
  /\ registered = {} /\ guarded = {} /\ cache = world.cached /\ apps = world.apps /\ answer = "unasked"
  /\ signal = "none" /\ sweep = "idle"

Over == main \in {"done", "dead"}
Quit(n) == main' = "done" /\ code' = n
Fail    == main' = "dropping" /\ code' = 1       \* once the guard exists
To(next) == main' = next /\ UNCHANGED code

\* Refusals and previews come first; then the backend is chosen.
Dispatch ==
  /\ main = "start"
  /\ IF Refused(Options) THEN Quit(2)
     ELSE IF Options.dry /\ Foreign(call.provider) THEN Quit(0)
     ELSE IF Unsupported(Options) \/ (Foreign(call.provider) /\ call.provider \notin world.tools) THEN Quit(1)
     ELSE IF call.provider = "flatpak" THEN To("flatpak")
     ELSE IF HostOnly(call.provider) THEN To("host")
     ELSE To("probing")
  /\ UNCHANGED <<asked, local, visit, plan, fetch, archives, owned, binary, disk, around>>

\* Whether the Flatpak is there is asked of flatpak. A query that ends in any
\* other way, or cannot be made, counts as absent.
FlatpakQuery ==
  /\ main = "flatpak"
  /\ answer' \in {IF call.pkg \in apps THEN "present" ELSE "absent", "failed"}
  /\ To(IF answer' = "present" THEN "app" ELSE "obtaining")
  /\ UNCHANGED <<asked, local, visit, plan, fetch, archives, owned, binary, disk, cache, apps, signal, sweep>>

\* The installation of what is already there succeeds and changes nothing.
FlatpakInstall ==
  /\ main = "obtaining"
  /\ \/ signal = "none" /\ To("app") /\ apps' = apps \cup {call.pkg}
     \/ Quit(1) /\ UNCHANGED apps              \* it fails or is refused
  /\ UNCHANGED <<asked, local, visit, plan, fetch, archives, owned, binary, disk, cache, answer, signal, sweep>>
FlatpakRun ==
  /\ main = "app" /\ main' = "purging"
  /\ code' \in IF signal = "none" THEN {0, 1} ELSE {1}
  /\ UNCHANGED <<asked, local, visit, plan, fetch, archives, owned, binary, disk, around>>

\* What this run installed, or believes to have installed, is removed again.
FlatpakPurge ==
  /\ main = "purging" /\ To("done")
  /\ apps' \in IF answer \in {"absent", "failed"} /\ signal = "none" THEN {apps, apps \ {call.pkg}} ELSE {apps}
  /\ UNCHANGED <<asked, local, visit, plan, fetch, archives, owned, binary, disk, cache, answer, signal, sweep>>

\* Nix and Pipx run on the host; Pipx without cache has a workspace of its own.
Work == <<0, 0>>      \* the workspace among the targets of the shutdown
HostRun ==
  /\ main = "host" /\ To("hosted")
  /\ IF call.provider = "pipx" /\ Options.nocache
     THEN /\ dir' = (IF signal = "none" THEN "present" ELSE "gone")
          /\ registered' = (IF signal = "none" THEN {Work} ELSE {})
     ELSE UNCHANGED <<dir, registered>>
  /\ UNCHANGED <<asked, local, visit, plan, fetch, archives, owned, binary, files, tree, guarded, around>>
HostEnds ==
  /\ main = "hosted" /\ main' = "done"
  /\ code' \in IF signal = "none" THEN {0, 1} ELSE {1}
  /\ dir' = (IF dir = "present" THEN "gone" ELSE dir) /\ registered' = {}
  /\ UNCHANGED <<asked, local, visit, plan, fetch, archives, owned, binary, files, tree, guarded, around>>

\* bwrap must work before anything else; a missing one may be installed.
Probe ==
  /\ main = "probing"
  /\ \/ /\ \/ ~Options.sandbox \/ Options.dry \/ world.bwrap = "works"
           \/ world.bwrap = "missing" /\ world.agrees
        /\ To("choosing")
     \/ Options.sandbox /\ ~Options.dry /\ world.bwrap # "works" /\ Quit(1)
  /\ UNCHANGED <<asked, local, visit, plan, fetch, archives, owned, binary, disk, around>>

\* The package the databases find for the target: the one of that name, or one
\* that provides it.
Target == world.provider[call.target]
UsesInstalled == Options.installed \/ (call.provider = Nothing /\ Target = Nothing)
Installed == IF UsesInstalled /\ call.pkg \in DOMAIN world.installed THEN world.installed[call.pkg] ELSE Nothing

\* Installed or repository: only the latter has anything to resolve.
Choose ==
  /\ main = "choosing" /\ local' = Installed
  /\ IF \/ Installed = Nothing /\ (Options.installed \/ Target = Nothing)
        \/ Installed # Nothing /\ call.policy # "auto"
     THEN Quit(1) /\ UNCHANGED visit
     ELSE IF Installed # Nothing THEN To("placing") /\ UNCHANGED visit
     ELSE To("resolving") /\ visit' = [visit EXCEPT !.stack = <<Frame(Target)>>, !.pkgs = {Target}]
  /\ UNCHANGED <<asked, plan, fetch, archives, owned, binary, disk, around>>

\* The next dependency of the package on top of the stack. A specification is
\* looked at once, what is satisfied locally is left out, a package is entered
\* once.
Top == Last(visit.stack)
Wanted == world.depends[Top.pkg]
Onward(stack) == [stack EXCEPT ![Len(stack)].next = @ + 1]
LookAtDependency ==
  /\ main = "resolving" /\ Top.next <= Len(Wanted)
  /\ LET spec == Wanted[Top.next]
         p    == world.provider[spec]
         on   == [visit EXCEPT !.specs = @ \cup {spec}, !.stack = Onward(@)]
     IN \/ /\ spec \in visit.specs \cup world.satisfied \/ p \in visit.pkgs
           /\ main' = main /\ visit' = on /\ UNCHANGED code
        \/ /\ spec \notin visit.specs \cup world.satisfied /\ p \notin visit.pkgs
           /\ IF p = Nothing THEN Quit(1) /\ UNCHANGED visit
              ELSE /\ main' = main /\ UNCHANGED code
                   /\ visit' = [on EXCEPT !.stack = Append(@, Frame(p)), !.pkgs = @ \cup {p}]
  /\ UNCHANGED <<asked, local, plan, fetch, archives, owned, binary, disk, around>>

\* A package is listed after its dependencies, the requested one last.
ListPackage ==
  /\ main = "resolving" /\ Top.next > Len(Wanted)
  /\ plan' = Append(plan, Top.pkg) /\ visit' = [visit EXCEPT !.stack = Front(@)]
  /\ To(IF Len(visit.stack) = 1 THEN "placing" ELSE "resolving")
  /\ UNCHANGED <<asked, local, fetch, archives, owned, binary, disk, around>>

\* A place with room for the downloads; a preview ends here.
ChoosePlace ==
  /\ main = "placing"
  /\ IF world.room = "none" THEN Quit(1)
     ELSE IF ~Options.dry THEN To("making")
     ELSE IF local # Nothing /\ Selected(local, call.pkg, Options.bin) = {} THEN Quit(1)
     ELSE Quit(0)
  /\ UNCHANGED <<asked, local, visit, plan, fetch, archives, owned, binary, disk, around>>

\* The directory is made, then the guard registers it. After the shutdown
\* began, what is registered is removed at once.
MakeWorkspace ==
  /\ main = "making" /\ dir' = "present" /\ To("made")
  /\ UNCHANGED <<asked, local, visit, plan, fetch, archives, owned, binary, files, tree, registered, guarded, around>>
Guard ==
  /\ main = "made" /\ To(IF local = Nothing THEN "fetching" ELSE "selecting")
  /\ IF signal = "none" THEN registered' = {Work} /\ UNCHANGED dir
                        ELSE dir' = "gone" /\ UNCHANGED registered
  /\ fetch' = [n \in DOMAIN plan |-> [st |-> "idle", mirror |-> 0, content |-> Nothing]]
  /\ UNCHANGED <<asked, local, visit, plan, archives, owned, binary, files, tree, guarded, around>>

Digest(n) == plan[n] \in world.digests
InBatch == {n \in DOMAIN plan : n > Len(archives) /\ n <= Batch * (Len(archives) \div Batch + 1)}
Fetching(n, st) == main = "fetching" /\ n \in InBatch /\ fetch[n].st = st
Fetch(n, st, mirror, content) == fetch' = [fetch EXCEPT ![n] = [st |-> st, mirror |-> mirror, content |-> content]]

\* Fault: the attempts end one mirror too late.
MirrorTooMany(n, m) == IF m > Mirrors + 1 THEN Fetch(n, "err", m, Nothing) ELSE Fetch(n, "mirror", m, Nothing)

Mirror(n, m) == IF m > Mirrors THEN Fetch(n, "err", m, Nothing) ELSE Fetch(n, "mirror", m, Nothing)

\* The newest archive in the cache serves if its digest is the expected one.
LookInCache(n) ==
  /\ Fetching(n, "idle")
  /\ LET c == cache[plan[n]]
     IN IF ~Options.nocache /\ c # Nothing /\ (IF Digest(n) THEN c = "good" ELSE Options.allow)
        THEN Fetch(n, "ok", 0, c)
        ELSE IF ~Digest(n) /\ ~Options.allow THEN Fetch(n, "err", 0, Nothing)
        ELSE Mirror(n, 1)
  /\ UNCHANGED <<asked, main, code, local, visit, plan, archives, owned, binary, disk, around>>

\* A temporary file of the workspace is made and registered for every attempt.
MakeTemporary(n) ==
  /\ Fetching(n, "mirror")
  /\ IF signal # "none" \/ dir # "present"
     THEN Fetch(n, "err", fetch[n].mirror, Nothing) /\ UNCHANGED <<files, registered>>
     ELSE /\ Fetch(n, "curl", fetch[n].mirror, Nothing)
          /\ files' = files \cup {<<n, fetch[n].mirror>>}
          /\ registered' = registered \cup {<<n, fetch[n].mirror>>}
  /\ UNCHANGED <<asked, main, code, local, visit, plan, archives, owned, binary, dir, tree, guarded, around>>

\* A mirror delivers the archive, something else, or nothing.
Download(n) ==
  /\ Fetching(n, "curl")
  /\ \/ signal # "none" /\ Fetch(n, "err", fetch[n].mirror, Nothing) /\ UNCHANGED files
     \/ /\ signal = "none"
        /\ \E got \in {"good", "bad", Nothing} :
             IF got = "good" \/ (got = "bad" /\ ~Digest(n))
             THEN Fetch(n, "ok", fetch[n].mirror, got) /\ UNCHANGED files
             ELSE Mirror(n, fetch[n].mirror + 1) /\ files' = files \ {<<n, fetch[n].mirror>>}
  /\ UNCHANGED <<asked, main, code, local, visit, plan, archives, owned, binary, dir, tree, registered, guarded, around>>

\* The threads of a batch are joined in the order of the plan, however they end.
Place(n) == <<n, fetch[n].mirror>>      \* mirror 0 is the cache

\* Fault: archives are listed as their downloads finish, in any order.
JoinBatchAsFinished ==
  /\ main = "fetching" /\ \A n \in InBatch : fetch[n].st \in {"ok", "err"}
  /\ guarded' = guarded \cup {t \in registered : t # Work /\ t[1] \in InBatch}
  /\ IF \E n \in InBatch : fetch[n].st = "err"
     THEN Fail /\ UNCHANGED archives
     ELSE \E order \in SetToSeqs(InBatch) :
          /\ archives' = archives \o [i \in DOMAIN order |->
                           <<plan[order[i]], fetch[order[i]].content, Place(order[i])>>]
          /\ To(IF Len(archives') = Len(plan) THEN "measuring" ELSE "fetching")
  /\ UNCHANGED <<asked, local, visit, plan, fetch, owned, binary, dir, files, tree, registered, around>>

JoinBatch ==
  /\ main = "fetching" /\ \A n \in InBatch : fetch[n].st \in {"ok", "err"}
  /\ guarded' = guarded \cup {t \in registered : t # Work /\ t[1] \in InBatch}
  /\ IF \E n \in InBatch : fetch[n].st = "err"
     THEN Fail /\ UNCHANGED archives
     ELSE LET joined == archives \o [i \in 1..Cardinality(InBatch) |->
                          LET n == Len(archives) + i IN <<plan[n], fetch[n].content, Place(n)>>]
          IN /\ archives' = joined
             /\ To(IF Len(joined) = Len(plan) THEN "measuring" ELSE "fetching")
  /\ UNCHANGED <<asked, local, visit, plan, fetch, owned, binary, dir, files, tree, registered, around>>

Payload(a) == IF a[2] = "good" THEN world.payload[a[1]] ELSE world.damaged
Present(a) == IF a[3][2] = 0 THEN cache[a[1]] # Nothing ELSE a[3] \in files

\* Every archive is inspected and the sum compared with the room left.
Measure ==
  /\ main = "measuring"
  /\ IF /\ signal = "none" /\ \A n \in DOMAIN archives : Present(archives[n]) /\ Inspected(Payload(archives[n])).ok
        /\ world.room = "enough"
     THEN To("extracting") /\ owned' = Inspected(Payload(Last(archives))).owned
     ELSE Fail /\ UNCHANGED owned
  /\ UNCHANGED <<asked, local, visit, plan, fetch, archives, binary, disk, around>>

Unpacking == {n \in DOMAIN archives : fetch[n].st # "unpacked"}
Extract ==
  /\ main = "extracting"
  /\ IF Unpacking = {} THEN To("selecting") /\ UNCHANGED <<fetch, tree>>
     ELSE LET n == Min(Unpacking)
              r == Extracted(tree, Payload(archives[n]), n)
          IN IF signal = "none" /\ Present(archives[n]) /\ dir = "present"
             THEN /\ tree' = r.tree /\ fetch' = [fetch EXCEPT ![n].st = "unpacked"]
                  /\ IF r.ok THEN To("extracting") ELSE Fail
             ELSE Fail /\ UNCHANGED <<fetch, tree>>
  /\ UNCHANGED <<asked, local, visit, plan, archives, owned, binary, dir, files, registered, guarded, around>>

Candidates == IF local # Nothing THEN local ELSE {p \in owned : Runnable(tree, p)}
Select ==
  /\ main = "selecting"
  /\ \/ Selected(Candidates, call.pkg, Options.bin) = {} /\ Fail /\ UNCHANGED binary
     \/ binary' \in Selected(Candidates, call.pkg, Options.bin) /\ To("running")
  /\ UNCHANGED <<asked, local, visit, plan, fetch, archives, owned, disk, around>>

\* The application ends with its own status, or is killed by the shutdown.
AppEnds ==
  /\ main = "running" /\ main' = "dropping"
  /\ code' \in IF signal = "none" THEN {0, 1} ELSE {1}
  /\ UNCHANGED <<asked, local, visit, plan, fetch, archives, owned, binary, disk, around>>

\* The guard: first the registration goes, then the workspace.
Unregister ==
  /\ main = "dropping" /\ To("removing") /\ registered' = registered \ {Work}
  /\ UNCHANGED <<asked, local, visit, plan, fetch, archives, owned, binary, dir, files, tree, guarded, around>>
WorkspaceGone == dir' = "gone" /\ files' = {} /\ tree' = <<>>
RemoveWorkspace ==
  /\ main = "removing" /\ To("done") /\ WorkspaceGone
  /\ registered' = registered \ guarded /\ guarded' = {}
  /\ UNCHANGED <<asked, local, visit, plan, fetch, archives, owned, binary, around>>

-----------------------------------------------------------------------------
(* The signal handler, a kill, and other processes. *)
Raise ==
  /\ ~Over /\ signal = "none" /\ signal' = "raised"
  /\ UNCHANGED <<asked, main, code, local, visit, plan, fetch, archives, owned, binary, disk, cache, apps, answer, sweep>>
Cleanup ==
  /\ ~Over /\ signal = "raised" /\ signal' = "cleaned" /\ registered' = {}
  /\ IF Work \in registered THEN WorkspaceGone
     ELSE files' = files \ registered /\ UNCHANGED <<dir, tree>>
  /\ UNCHANGED <<asked, main, code, local, visit, plan, fetch, archives, owned, binary, guarded, cache, apps, answer, sweep>>
ExitInterrupted ==
  /\ ~Over /\ signal = "cleaned" /\ main' = "dead" /\ code' = 130
  /\ UNCHANGED <<asked, local, visit, plan, fetch, archives, owned, binary, disk, around>>
Killed ==
  /\ ~Over /\ main' = "dead" /\ code' = 137
  /\ UNCHANGED <<asked, local, visit, plan, fetch, archives, owned, binary, disk, around>>
CleanCache ==
  /\ ~Over /\ world.cleaner /\ cache' = [p \in DOMAIN cache |-> Nothing] /\ cache' # cache
  /\ UNCHANGED <<asked, main, code, local, visit, plan, fetch, archives, owned, binary, disk, apps, answer, signal, sweep>>

\* A workspace is stale when no process has the identifier in its name.
Stale == dir = "present" /\ Over /\ ~world.reused
SweepCheck ==
  /\ sweep = "idle" /\ sweep' = (IF Stale THEN "condemned" ELSE "swept")
  /\ UNCHANGED <<asked, main, code, local, visit, plan, fetch, archives, owned, binary, disk, cache, apps, answer, signal>>
SweepRemove ==
  /\ sweep = "condemned" /\ sweep' = "swept" /\ WorkspaceGone
  /\ UNCHANGED <<asked, main, code, local, visit, plan, fetch, archives, owned, binary, registered, guarded, cache, apps, answer, signal>>

Ended == Over /\ sweep = "swept" /\ UNCHANGED ephemeralVars

EphemeralNext ==
  \/ Dispatch \/ FlatpakQuery \/ FlatpakInstall \/ FlatpakRun \/ FlatpakPurge \/ HostRun \/ HostEnds
  \/ Probe \/ Choose \/ LookAtDependency \/ ListPackage \/ ChoosePlace \/ MakeWorkspace \/ Guard
  \/ \E n \in DOMAIN plan : LookInCache(n) \/ MakeTemporary(n) \/ Download(n)
  \/ JoinBatch \/ Measure \/ Extract \/ Select \/ AppEnds \/ Unregister \/ RemoveWorkspace
  \/ Raise \/ Cleanup \/ ExitInterrupted \/ Killed \/ CleanCache \/ SweepCheck \/ SweepRemove
  \/ Ended

EphemeralSpec == EphemeralInit /\ [][EphemeralNext]_ephemeralVars

-----------------------------------------------------------------------------
(* Properties *)
\* Every variable keeps to its type; files and guarded files belong to the plan.
EphemeralTypeOK ==
  /\ main \in {"start", "flatpak", "obtaining", "app", "purging", "host", "hosted", "probing", "choosing", "resolving",
              "placing", "making", "made", "fetching", "measuring", "extracting", "selecting",
              "running", "dropping", "removing", "done", "dead"}
  /\ code \in {Nothing, 0, 1, 2, 130, 137} /\ dir \in {"absent", "present", "gone"}
  /\ signal \in {"none", "raised", "cleaned"} /\ sweep \in {"idle", "condemned", "swept"}
  /\ answer \in {"unasked", "present", "absent", "failed"}
  /\ files \subseteq (DOMAIN plan) \X (1..Mirrors)
  /\ guarded \subseteq (DOMAIN plan) \X (1..Mirrors)
  /\ Len(archives) <= Len(plan) /\ DOMAIN fetch \subseteq DOMAIN plan
  /\ \A n \in DOMAIN fetch : fetch[n].st \in {"idle", "mirror", "curl", "ok", "err", "unpacked"}

\* What a sandboxed application sees: nothing of the home, its package
\* read-only, the current directory only when it is neither home nor system.
Isolated ==
  LET mounts == Mounts(Options)
      key  == Seen(mounts, <<"home", "key">>)
      work == Seen(mounts, Append(WorkPlace, "usr"))
      here == Seen(mounts, Append(world.cwd, "data"))
  IN /\ key.from = "empty" /\ work.from = "work" /\ ~work.rw
     /\ here # Nothing /\ here.from = "host" /\ here.rw => Options.rw /\ world.cwd[1] \notin Protected \cup {"home"}

\* What runs is an executable of the archive of the package that the target
\* stands for, which may have another name and provide it; every
\* archive in the workspace matched its digest, or had none and the user
\* allowed that; the dependencies are complete; no link leaves the workspace.
RunsWhatWasAsked ==
  main = "running" /\ local = Nothing /\ dir = "present" =>
    /\ archives # <<>> /\ Last(archives)[1] = Target
    /\ binary \in Inspected(world.payload[Target]).owned \cup Inspected(world.damaged).owned
    /\ Runnable(tree, binary) /\ LinksStayInside(tree)
    /\ \A n \in DOMAIN archives :
         /\ archives[n][2] = "good" \/ (Options.allow /\ archives[n][1] \notin world.digests)
         /\ \A spec \in ToSet(world.depends[archives[n][1]]) :
              spec \in world.satisfied \/ \E m \in DOMAIN archives : archives[m][1] = world.provider[spec]

\* The room that was asked for before unpacking covers what unpacking uses.
FootprintCovers ==
  main \in {"extracting", "selecting", "running"} /\ archives # <<>> =>
    LET need == [n \in DOMAIN archives |-> Inspected(Payload(archives[n]))]
    IN /\ OccupiedBytes(tree)  <= FoldSeq(LAMBDA i, sum : i.bytes + sum, 0, need)
       /\ OccupiedInodes(tree) <= FoldSeq(LAMBDA i, sum : i.inodes + sum, 0, need)

\* No sweep takes the workspace of a live run; a run that ends by itself
\* leaves none; the cached archives are never removed; of the Flatpaks that
\* were there only the requested one can go, and only when flatpak did not say
\* whether it was there (providers.rs:19, 57).
HostIsUnchanged ==
  /\ ~Over /\ signal = "none" /\ registered # {} => dir = "present"
  /\ main = "done" => dir # "present" /\ files = {} /\ registered = {}
  /\ world.apps \ apps \subseteq (IF answer = "failed" THEN {call.pkg} ELSE {})
  /\ ~world.cleaner => cache = world.cached

\* An application starts only as the invocation promised, and a run changes the
\* host no more than that.
RunsAsPromised ==
  RunsWhatWasAsked /\ (main = "running" /\ Options.sandbox => Isolated) /\ HostIsUnchanged

-----------------------------------------------------------------------------
(* The inductive invariant. *)
Early     == {"start", "flatpak", "obtaining", "app", "purging", "host", "probing", "choosing", "resolving", "placing", "making"}
Filled == {"extracting", "selecting", "running"}
Joined    == {"measuring"} \cup Filled
Guarded   == {"fetching", "dropping", "removing"} \cup Joined
Settled   == {"placing", "making", "made", "fetching"} \cup Joined

\* The resolution: a specification that was looked at has its package entered
\* or is satisfied; what is before the next dependency of a package was looked
\* at; what was entered is listed or on the stack.
Explored(w, stack, specs, pkgs, listed) ==
  /\ stack \in Seq([pkg : DOMAIN w.depends, next : Nat \ {0}]) /\ listed \in Seq(DOMAIN w.depends)
  /\ specs \subseteq DOMAIN w.provider /\ pkgs \subseteq DOMAIN w.depends
  /\ \A p \in pkgs : \/ \E i \in DOMAIN listed : listed[i] = p
                     \/ \E i \in DOMAIN stack : stack[i].pkg = p
  /\ \A i \in DOMAIN stack : \A k \in DOMAIN w.depends[stack[i].pkg] :
       k < stack[i].next => w.depends[stack[i].pkg][k] \in specs
  /\ \A i \in DOMAIN listed : \A k \in DOMAIN w.depends[listed[i]] : w.depends[listed[i]][k] \in specs
Answered(w, specs, pkgs) == \A spec \in specs : spec \in w.satisfied \/ w.provider[spec] \in pkgs
VisitInv ==
  /\ visit = [stack |-> visit.stack, specs |-> visit.specs, pkgs |-> visit.pkgs]
  /\ Explored(world, visit.stack, visit.specs, visit.pkgs, plan) /\ Answered(world, visit.specs, visit.pkgs)
  /\ main = "resolving" => visit.stack # <<>> /\ visit.stack[1].pkg = Target
  /\ main \in Settled /\ local = Nothing => visit.stack = <<>> /\ plan # <<>> /\ plan[Len(plan)] = Target
  /\ main \in Early \ {"resolving", "placing", "making"} => visit = NoVisit /\ plan = <<>>

\* The workspace: what is registered, and what is left of it.
DiskInv ==
  /\ main \in Early => dir = "absent" /\ files = {} /\ registered = {} /\ guarded = {} /\ tree = <<>>
  /\ main = "made" => dir = "present" /\ files = {} /\ registered = {} /\ guarded = {} /\ tree = <<>>
  /\ main = "hosted" => /\ files = {} /\ guarded = {} /\ tree = <<>>
                        /\ signal = "none" /\ registered # {} => dir = "present"
  /\ main \in Guarded =>
       /\ signal = "none" => dir = "present"
       /\ registered \subseteq {Work} \cup (DOMAIN plan) \X (1..Mirrors)
       /\ \A t \in registered : t = Work \/ t \in guarded \/ (main = "fetching" /\ t[1] \in InBatch)
       /\ main = "removing" => Work \notin registered
  /\ main = "done" => dir # "present" /\ files = {} /\ registered = {}
  /\ sweep = "condemned" => Over

\* The host: a Flatpak of before is one this run may remove only when the query
\* of it failed.
HostInv ==
  /\ main \in {"start", "flatpak"} => answer = "unasked"
  /\ answer # "failed" => world.apps \subseteq apps
  /\ world.apps \subseteq apps \cup {call.pkg} /\ (answer = "absent" => call.pkg \notin world.apps)
  /\ cache \in [DOMAIN world.depends -> {"good", "bad", Nothing}] /\ (~world.cleaner => cache = world.cached)

\* The downloads: what was fetched is what was asked for.
Trusted(n, content) == content = "good" \/ (Options.allow /\ ~Digest(n))
FetchInv ==
  /\ main \in Early \cup {"made"} => fetch = <<>> /\ archives = <<>>
  /\ \A n \in DOMAIN fetch :
       /\ fetch[n] \in [st : {"idle", "mirror", "curl", "ok", "err", "unpacked"}, mirror : Nat,
                        content : {Nothing, "good", "bad"}]
       /\ fetch[n].st \in {"mirror", "curl"} => fetch[n].mirror \in 1..Mirrors /\ (Digest(n) \/ Options.allow)
       /\ fetch[n].st = "ok" => Trusted(n, fetch[n].content)
  /\ main \in Guarded => DOMAIN fetch = DOMAIN plan
  /\ archives \in Seq((DOMAIN world.depends) \X {"good", "bad", Nothing} \X (Nat \X Nat))
  /\ \A n \in DOMAIN archives : archives[n][1] = plan[n] /\ Trusted(n, archives[n][2])
  /\ main \in Joined /\ local = Nothing => Len(archives) = Len(plan)

\* What is unpacked and chosen.
RunInv ==
  /\ main \in {"fetching", "measuring"} => tree = <<>>
  /\ main \in Filled => LinksStayInside(tree)
  /\ main \in Filled /\ local = Nothing => owned = Inspected(Payload(archives[Len(archives)])).owned
  /\ main = "running" /\ local = Nothing /\ dir = "present" => binary \in owned /\ Runnable(tree, binary)

EphemeralInv == /\ call \in Invocations /\ world \in Worlds
                /\ EphemeralTypeOK /\ VisitInv /\ DiskInv /\ HostInv /\ FetchInv /\ RunInv
=============================================================================
