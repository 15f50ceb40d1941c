---------------------------- MODULE ManifestRebuild ----------------------------
(***************************************************************************)
(* The commands around an installation (commands/rebuild.rs): "pin rebuild" *)
(* makes a plan from the manifest and runs pm::install for its parts, then  *)
(* Flatpak; "pin capture" writes the manifest from what is installed; and   *)
(* "pin clean" cleans a cache. The module is one process that runs one of   *)
(* them, or an installation.                                               *)
(***************************************************************************)
EXTENDS Installation, Subsequences

CONSTANTS
    Error,
    Flatpak,         \* the package that brings the command flatpak
    Implied,         \* packages whose reason is not "explicit"
    App, Remote,
    Manifests,       \* [sources, pacman, aur, user, system]: sequences of targets
    Options,         \* rebuild: [dry, noconfirm, enforce, noCache, tty]
    Cleans,          \* clean: [args, full]
    Installed, Pins, Apps,   \* the states to start from
    PinEdits         \* changes other processes may make: <<package, repository>>

Scope == {"user", "system"}
AppTarget == [repo : {None} \cup Remote, pkg : App]
Manifest == [sources : Seq(Target), pacman : Seq(Target), aur : Seq(Target),
             user : Seq(AppTarget), system : Seq(AppTarget)]
Plan == [install : Seq(Target), enforce : Seq(Target), flatpaks : [Scope -> Seq(AppTarget)]]
OptionsOf(c) ==
    CASE c = "install" -> Request
      [] c = "rebuild" -> [{"dry", "noconfirm", "enforce", "noCache", "tty"} -> BOOLEAN]
      [] c = "capture" -> [{"dry", "force"} -> BOOLEAN]
      [] c = "clean" -> [args : SUBSET {"repo", "aur"}, full : BOOLEAN]

ASSUME RebuildAssumption ==
    /\ Flatpak \in Package /\ IsFiniteSet(Package) /\ IsFiniteSet(App)
    /\ Manifests \subseteq Manifest
    /\ Options \subseteq OptionsOf("rebuild") /\ Cleans \subseteq OptionsOf("clean")
    /\ Installed \subseteq SUBSET Package /\ Pins \subseteq [Package -> TargetRepo]
    /\ Apps \subseteq [Scope -> [App -> {None} \cup Remote]]
    /\ PinEdits \subseteq Package \X TargetRepo /\ Error \notin Plan /\ None \notin Remote

VARIABLES
    step,            \* the step of the command
    command,         \* "install", "rebuild", "capture" or "clean"
    options,         \* its options
    manifest, read,  \* [packages] in the file, and as the process read it
    plan,            \* RebuildPlan, Error or None
    calls,           \* the installations still to run
    apps             \* scope -> app -> remote or None

rebuildVars == << step, command, options, manifest, read, plan, calls, apps >>
vars == << installVars, cacheVars, rebuildVars >>

EmptyManifest == [sources |-> << >>, pacman |-> << >>, aur |-> << >>, user |-> << >>, system |-> << >>]

-----------------------------------------------------------------------------
(***************************************************************************)
(* The plan                                                                *)
(***************************************************************************)
Repeats(s) == \E i, j \in DOMAIN s : i # j /\ s[i].pkg = s[j].pkg

(* collect_snapshot: without the command no Flatpak is known.                 *)
AppsSeen == [s \in Scope |-> IF Flatpak \in installed THEN apps[s] ELSE [a \in App |-> None]]

(* plan_flatpaks                                                             *)
FlatpaksRefused(s, desired) ==
    \/ Repeats(desired)
    \/ \E i \in DOMAIN desired :
           LET from == AppsSeen[s][desired[i].pkg]
           IN from # None /\ desired[i].repo # None /\ desired[i].repo # from
MissingFlatpaks(s, desired) == Kept(desired, { i \in DOMAIN desired : AppsSeen[s][desired[i].pkg] = None })

(* The repository of a manifest entry: its own, or the pinned one.             *)
PinnedTarget(config, t) == IF t.repo # None THEN t ELSE [t EXCEPT !.repo = config[t.pkg]]
PacmanRefused(config, t) ==
    LET r == PinnedTarget(config, t).repo IN
    IF r = None THEN \A s \in Repo : t.pkg \notin Offers[s]
                ELSE r \notin Repo \/ t.pkg \notin Offers[r]

(* make_plan: everything declared is checked before anything is planned.       *)
PlanOf(config, m, enforce) ==
    LET aurs == [i \in DOMAIN m.aur |-> [m.aur[i] EXCEPT !.repo = "aur"]]
        natives == [i \in DOMAIN m.pacman |-> PinnedTarget(config, m.pacman[i])]
        missing(s) == Kept(s, { i \in DOMAIN s : s[i].pkg \notin installed })
        present(s) == { i \in DOMAIN s : enforce /\ s[i].pkg \in installed }
    IN IF \/ m = EmptyManifest
          \/ Repeats(m.sources \o m.pacman \o m.aur)
          \/ \E i \in DOMAIN m.sources : \/ m.sources[i].repo \notin DOMAIN Recipes
                                         \/ m.sources[i].pkg \notin Recipes[m.sources[i].repo]
          \/ \E i \in DOMAIN m.pacman : PacmanRefused(config, m.pacman[i])
          \/ FlatpaksRefused("user", m.user) \/ FlatpaksRefused("system", m.system)
          \/ (m.user \o m.system # << >> /\ Flatpak \notin installed
                 /\ ~\E i \in DOMAIN m.pacman : m.pacman[i].pkg = Flatpak)
       THEN Error
       ELSE [install |-> missing(m.sources \o natives \o aurs),
             enforce |-> Kept(m.sources, { i \in present(m.sources) :
                                  SourceOwner(config, m.sources[i].pkg) # m.sources[i].repo })
                             \o Kept(natives, { i \in present(natives) : natives[i].repo # None }),
             flatpaks |-> [user |-> MissingFlatpaks("user", m.user),
                           system |-> MissingFlatpaks("system", m.system)]]

NothingToDo(p) ==
    p.install = << >> /\ p.enforce = << >> /\ \A s \in Scope : p.flatpaks[s] = << >>

(* Fault: the sources are for a list without other targets. *)
PartsOrSources(targets) ==
    LET sources == { i \in DOMAIN targets : SourceTarget(mem, targets[i]) # None }
        others == Kept(targets, DOMAIN targets \ sources)
    IN IF others # << >> THEN << others >> ELSE IF targets = << >> THEN << >> ELSE << targets >>

(* install_rebuild_targets: the native and AUR targets, then the sources.      *)
Parts(targets) ==
    LET sources == { i \in DOMAIN targets : SourceTarget(mem, targets[i]) # None }
        parts == << Kept(targets, DOMAIN targets \ sources), Kept(targets, sources) >>
    IN Kept(parts, { i \in DOMAIN parts : parts[i] # << >> })

-----------------------------------------------------------------------------
(***************************************************************************)
(* The commands                                                            *)
(***************************************************************************)
Ends == step' = "end"

InstallCommand ==
    /\ step = "start" /\ command = "install"
    /\ Call(options)
    /\ step' = "call"
    /\ UNCHANGED << cacheVars, command, options, manifest, read, plan, calls, apps >>

CleanCommand ==
    /\ step = "start" /\ command = "clean"
    /\ IF CacheScope(options.args) = None THEN Ends /\ UNCHANGED cleaning
       ELSE /\ cleaning' = [NoCleaning EXCEPT !.queue = << CacheScope(options.args) >>,
                                !.step = "check", !.full = options.full, !.helper = TRUE]
            /\ step' = "clean"
    /\ UNCHANGED << installVars, lockVars, dirs, caches, command, options, manifest, read,
                    plan, calls, apps >>

CleanEnds ==
    /\ step = "clean" /\ cleaning.step = "off"
    /\ Ends
    /\ UNCHANGED << installVars, cacheVars, command, options, manifest, read, plan, calls, apps >>

(* cmd_rebuild up to the question; the databases may be unusable.               *)
MakePlan ==
    /\ step = "start" /\ command = "rebuild"
    /\ plan' \in {Error, PlanOf(mem, read, options.enforce)}
    /\ LET flatpaks == IF plan' = Error THEN << >>
                       ELSE plan'.flatpaks["user"] \o plan'.flatpaks["system"] IN
       IF plan' = Error \/ (flatpaks # << >> /\ options.noCache)
       THEN step' = "failed" /\ UNCHANGED calls
       ELSE IF options.dry \/ NothingToDo(plan') THEN Ends /\ UNCHANGED calls
       ELSE \/ ~options.noconfirm /\ step' = "failed" /\ UNCHANGED calls
            \/ /\ options.noconfirm \/ options.tty
               /\ step' = "next"
               /\ calls' = Parts(plan'.install) \o Parts(plan'.enforce)
    /\ UNCHANGED << installVars, cacheVars, command, options, manifest, read, apps >>

NextCall ==
    /\ step = "next" /\ calls # << >>
    /\ Call([targets |-> Head(calls), noconfirm |-> TRUE, refresh |-> FALSE, sysupgrade |-> FALSE,
             dry |-> FALSE, wait |-> None, noCache |-> options.noCache, tty |-> options.tty])
    /\ calls' = Tail(calls) /\ step' = "call"
    /\ UNCHANGED << cacheVars, command, options, manifest, read, plan, apps >>

(* pm::install returned; its first error ends the rebuild.                     *)
CallReturns ==
    /\ step = "call" /\ pc = "end"
    /\ step' = (IF result # "ok" THEN "failed" ELSE IF command = "rebuild" THEN "next" ELSE "end")
    /\ UNCHANGED << installVars, cacheVars, command, options, manifest, read, plan, calls, apps >>

(* install_flatpaks, one application after the other, user scope first. A       *)
(* target without a remote comes from any.                                 *)
InstallFlatpak ==
    /\ step = "next" /\ calls = << >>
    /\ LET left(s) == LET listed == plan.flatpaks[s]
                      IN Kept(listed, { i \in DOMAIN listed : apps[s][listed[i].pkg] = None })
           s == IF left("user") # << >> THEN "user" ELSE "system"
           t == Head(left(s))
       IN IF left(s) = << >> THEN Ends /\ UNCHANGED apps
          ELSE \/ Flatpak \in installed
                  /\ \E from \in (IF t.repo = None THEN Remote ELSE {t.repo}) :
                        apps' = [apps EXCEPT ![s][t.pkg] = from]
                  /\ UNCHANGED step
               \/ step' = "failed" /\ UNCHANGED apps
    /\ UNCHANGED << installVars, cacheVars, command, options, manifest, read, plan, calls >>

(* What cmd_capture writes for the explicitly installed packages.              *)
CapturedTarget(p) ==
    LET matches == { r \in Repo : p \in Offers[r] } IN
    [pkg |-> p,
     repo |-> IF SourceOwner(mem, p) # None THEN SourceOwner(mem, p)
              ELSE IF mem[p] = "aur" \/ matches = {} THEN "aur"
              ELSE IF mem[p] \in matches THEN mem[p]
              ELSE IF Cardinality(matches) = 1 THEN CHOOSE r \in matches : TRUE ELSE None]
Captured ==
    LET targets == SetToSeq({ CapturedTarget(p) : p \in installed \ Implied })
        of(repos) == Kept(targets, { i \in DOMAIN targets : targets[i].repo \in repos })
        found(s) == SetToSeq({ [repo |-> AppsSeen[s][a], pkg |-> a] :
                                   a \in { a \in App : AppsSeen[s][a] # None } })
    IN [sources |-> of(DOMAIN Recipes), aur |-> of({"aur"}), pacman |-> of(Repo \cup {None}),
        user |-> found("user"), system |-> found("system")]

(* The list is classified; the file is looked at again when it is written.      *)
Capture ==
    /\ step = "start" /\ command = "capture"
    /\ IF read # EmptyManifest /\ ~options.force /\ ~options.dry
       THEN Ends /\ UNCHANGED plan
       ELSE \/ plan' = Captured /\ step' = (IF options.dry THEN "end" ELSE "commit")
            \/ Ends /\ UNCHANGED plan
    /\ UNCHANGED << installVars, cacheVars, command, options, manifest, read, calls, apps >>

(* Fault: only the check at the start. *)
CommitBlindly ==
    /\ step = "commit"
    /\ manifest' \in {plan, manifest}
    /\ Ends
    /\ UNCHANGED << installVars, cacheVars, command, options, read, plan, calls, apps >>

CommitCapture ==
    /\ step = "commit"
    /\ IF manifest # EmptyManifest /\ ~options.force THEN UNCHANGED manifest ELSE manifest' \in {plan, manifest}
    /\ Ends
    /\ UNCHANGED << installVars, cacheVars, command, options, read, plan, calls, apps >>

EditManifest(m) ==
    /\ edits < MaxEdits /\ edits' = edits + 1
    /\ manifest' = m
    /\ UNCHANGED << pc, asking, planning, stages, result, records, installed, cacheVars, step,
                    command, options, read, plan, calls, apps >>

Ended == step \in {"end", "failed"} /\ UNCHANGED vars

(* The other processes step where this one is about to look at what they change; *)
(* elsewhere their steps commute with its own.                             *)
LockMatters ==
    \/ step = "call" /\ pc \in {"lock", "locked", "refresh", "native", "aur"}
    \/ step \in {"call", "clean"} /\ cleaning.step # "off"

Next ==
    \/ InstallCommand \/ CleanCommand \/ CleanEnds \/ MakePlan \/ NextCall \/ CallReturns
    \/ InstallFlatpak \/ Capture \/ CommitCapture
    \/ step = "call" /\ InstallStep /\ UNCHANGED rebuildVars
    \/ step = "clean" /\ CacheStep /\ UNCHANGED << installVars, rebuildVars >>
    \/ LockMatters /\ AroundCache /\ UNCHANGED << installVars, rebuildVars >>
    \/ step = "call" /\ pc = "save" /\ \E e \in PinEdits : EditPins(e[1], e[2]) /\ UNCHANGED rebuildVars
    \/ step = "commit" /\ \E m \in Manifests : EditManifest(m)
    \/ Ended

Init ==
    /\ CacheInit
    /\ pc = "end" /\ request = None /\ polls = 0 /\ upgrade = FALSE
    /\ routed = 0 /\ native = << >> /\ aur = << >> /\ chosen = {} /\ told = {}
    /\ wanted = [p \in Package |-> None]
    /\ outcome = [m \in {"native", "aur"} |-> None] /\ done = {} /\ result = None
    /\ partial = FALSE
    /\ installed \in Installed /\ pins \in Pins /\ mem = pins
    /\ history = << >> /\ edits = 0
    /\ step = "start" /\ plan = None /\ calls = << >>
    /\ \/ command = "install" /\ options \in Requests
       \/ command = "rebuild" /\ options \in Options
       \/ command = "capture" /\ options \in OptionsOf("capture")
       \/ command = "clean" /\ options \in Cleans
    /\ manifest \in IF command \in {"rebuild", "capture"} THEN Manifests ELSE {EmptyManifest}
    /\ (IF command = "install" THEN ~options.noCache ELSE command # "clean") => \A m \in Gone : dirs[m] = None
    /\ apps \in Apps /\ read = manifest

Spec == Init /\ [][Next]_vars

-----------------------------------------------------------------------------
(***************************************************************************)
(* Properties                                                              *)
(***************************************************************************)
TypeOK ==
    /\ InstallTypeOK
    /\ step \in {"start", "next", "call", "clean", "commit", "failed", "end"}
    /\ command \in {"install", "rebuild", "capture", "clean"}
    /\ options \in OptionsOf(command)
    /\ manifest \in Manifest /\ read \in Manifest
    /\ plan \in {None, Error} \cup Plan \cup Manifest /\ calls \in Seq(Seq(Target))
    /\ apps \in [Scope -> [App -> {None} \cup Remote]]

(* Wherever a rebuild stops, running it again can be planned and plans what is  *)
(* left, and after a success nothing is left ("Re-run 'pin rebuild' after     *)
(* fixing it"): the pins it saved on the way never get in its way. What can is  *)
(* an application of another remote that nobody saw before the rebuild brought *)
(* the command flatpak.                                                    *)
Hidden ==
    \E s \in Scope : \E i \in DOMAIN read[s] :
        LET t == read[s][i] IN t.repo # None /\ apps[s][t.pkg] \notin {None, t.repo}
RebuildResumes ==
    (/\ command = "rebuild" /\ step \in {"end", "failed"}
     /\ plan # Error /\ ~options.dry /\ ~Hidden) =>
        LET again == PlanOf(mem, read, FALSE) IN
        /\ again # Error
        /\ Range(again.install) = { t \in Range(plan.install) : t.pkg \notin installed }
        /\ step = "end" => NothingToDo(again)

(* The repository a package is pinned to has it.                              *)
PinIsServed(p) ==
    \/ mem[p] \in {None, "aur"}
    \/ mem[p] \in DOMAIN Recipes /\ p \in Recipes[mem[p]]
    \/ mem[p] \in Repo /\ p \in Offers[mem[p]]

(* A manifest that capture writes describes the system it was made from, so that *)
(* a rebuild has nothing to do, as long as every pin is to a repository that   *)
(* has the package; and it never takes the place of entries it was not told    *)
(* to replace, whoever wrote them since it started.                        *)
CaptureRoundTrips ==
    [][step = "commit" /\ step' # step /\ manifest' # manifest =>
          /\ manifest = EmptyManifest \/ options.force
          /\ (\A p \in installed : PinIsServed(p)) =>
                 LET again == PlanOf(mem, manifest', FALSE) IN
                 manifest' # EmptyManifest => again # Error /\ NothingToDo(again)]_vars

(* Whatever a command removes from a cache belongs to nobody else.         *)
CleanupIsSafe == ActiveDownloadsSurvive /\ CleanupIsScoped

(* What is written for later runs - pins and manifests - is what was asked *)
(* for and can be read back.                                               *)
WrittenForLater == PinsFollowRequests /\ CaptureRoundTrips
=============================================================================
