----------------------------- MODULE Installation -----------------------------
(***************************************************************************)
(* pacpin -S (pm/install.rs, pinning.rs, validation.rs): routing of the      *)
(* targets to pacman, the AUR helper or the sources, the questions before   *)
(* the transaction, its stages, and what is written down afterwards.        *)
(*                                                                         *)
(* A target is [repo, pkg]: repo is None for a bare name, a repository, the *)
(* AUR in one of its spellings, a source alias, "direct" for the syntax of  *)
(* a direct source, "unsafe" for a name that is refused or "other" for a    *)
(* repository that nobody knows.                                           *)
(***************************************************************************)
EXTENDS CacheCleanup, FiniteSets, SequencesExt

CONSTANTS
    Package,
    Order,           \* the sync repositories in order
    Offers,          \* repository -> packages; "aur" -> packages
    Recipes,         \* source alias -> packages
    DependsOn,       \* package -> packages
    Kin,             \* package -> packages of the same base, or with it as prefix
    Provides,        \* package -> names
    ConflictsWith,   \* package -> names
    Young,           \* <<repository, package>>: released within the delay
    Requests, MaxPolls, MaxEdits

Repo == { Order[i] : i \in DOMAIN Order }
Spelling == {"aur", "AUR"}
TargetRepo == {None, "direct", "unsafe", "other"} \cup Spelling \cup Repo \cup DOMAIN Recipes
Target == [repo : TargetRepo, pkg : Package]
Request == [targets : Seq(Target), noconfirm : BOOLEAN, refresh : BOOLEAN, sysupgrade : BOOLEAN,
            dry : BOOLEAN, wait : {None} \cup 0 .. MaxPolls, noCache : BOOLEAN, tty : BOOLEAN]

ASSUME InstallationAssumption ==
    /\ MaxPolls \in Nat /\ MaxEdits \in Nat
    /\ Order \in Seq(DOMAIN Offers) /\ DOMAIN Offers = {"aur"} \cup Repo
    /\ \A r \in DOMAIN Offers : Offers[r] \subseteq Package
    /\ \A a \in DOMAIN Recipes : Recipes[a] \subseteq Package
    /\ DependsOn \in [Package -> SUBSET Package] /\ Kin \in [Package -> SUBSET Package]
    /\ DOMAIN Recipes # {} /\ Young \subseteq (DOMAIN Offers) \X Package
    /\ None \notin BOOLEAN \cup Nat \cup {"direct", "unsafe", "other", "ok", "cleanup", "failed"}
                  \cup Spelling \cup DOMAIN Offers \cup DOMAIN Recipes \cup Request
    /\ Requests \subseteq Request

(* A repository is one of pacman's, the AUR or a source, never two of them.     *)
ASSUME NamesAssumption ==
    /\ Repo \cap (Spelling \cup DOMAIN Recipes) = {} /\ "aur" \notin DOMAIN Recipes
    /\ {"direct", "unsafe", "other"} \cap (Repo \cup DOMAIN Recipes) = {}

VARIABLES
    pc,              \* the next step of install
    request,         \* InstallOptions, the targets, and whether there is a terminal
    polls,           \* rounds of wait_for_lock
    upgrade,         \* sysupgrade, after the question
    routed,          \* the number of targets routed
    native, aur,     \* pacman_targets, aur_targets
    wanted,          \* RepositoryPinPlan: package -> repository or None
    chosen,          \* <<repository, package>> selected as companions
    told,            \* warnings shown: young packages, conflicting pairs
    outcome,         \* "native", "aur" -> None, TRUE or FALSE
    done,            \* installed_targets
    partial,         \* databases refreshed, system not upgraded since
    result,          \* None, "ok", "cleanup" or "failed"
    mem, pins,       \* pins of this process, pins in the file
    installed,       \* the local database
    history,         \* sequence of sets of packages
    edits            \* changes other processes made to the file

asking == << request, polls, upgrade >>
planning == << routed, native, aur, wanted, chosen, told >>
stages == << outcome, done, partial >>
records == << mem, pins, history >>
installVars == << pc, asking, planning, stages, result, records, installed, edits >>

Fold(r) == IF r \in Spelling THEN "aur" ELSE r

-----------------------------------------------------------------------------
(***************************************************************************)
(* Lookups                                                                 *)
(***************************************************************************)

(* find_sync_package: of one repository, or the first that has the name itself, *)
(* or else the first that has a provider.                                  *)
Satisfied(names, p) == p \in names \/ \E q \in names : p \in Provides[q]
Earliest(indices) == CHOOSE i \in indices : \A j \in indices : i <= j
SyncPackage(r, p) ==
    LET named == { i \in DOMAIN Order : p \in Offers[Order[i]] }
        provided == { i \in DOMAIN Order : Satisfied(Offers[Order[i]], p) }
    IN IF r # None THEN (IF r \in Repo /\ Satisfied(Offers[r], p) THEN r ELSE None)
       ELSE IF provided = {} THEN None
       ELSE Order[Earliest(IF named = {} THEN provided ELSE named)]

(* The package behind a target: for a name that is only provided, a provider.  *)
Real(t) ==
    LET r == SyncPackage(t.repo, t.pkg) IN
    IF r = None \/ t.pkg \in Offers[r] THEN t.pkg ELSE CHOOSE q \in Offers[r] : t.pkg \in Provides[q]

(* sources::owner: a pin to a configured source.                              *)
SourceOwner(config, p) == IF config[p] \in DOMAIN Recipes THEN config[p] ELSE None

SourceTarget(config, t) ==
    CASE t.repo \in DOMAIN Recipes -> t
      [] t.repo = None /\ SourceOwner(config, t.pkg) # None ->
             [repo |-> SourceOwner(config, t.pkg), pkg |-> t.pkg]
      [] OTHER -> None

Interactive == request.tty /\ ~request.noconfirm

(* check_single_pkg_delay: what is installed or provided is never asked about.  *)
(* A package the AUR is asked for has no provider.                         *)
TooYoung(r, p) ==
    /\ ~Satisfied(installed, p)
    /\ IF Fold(r) = "aur" THEN << "aur", p >> \in Young
       ELSE << SyncPackage(r, p), Real([repo |-> r, pkg |-> p]) >> \in Young

(* verify_target_and_dependencies_delay: the target in its repository, each     *)
(* direct dependency wherever a sync repository has it.                    *)
Described(t, r) == IF Fold(r) = "aur" THEN t.pkg ELSE Real([t EXCEPT !.repo = r])
DelayWarnings(t, r) ==
    { Described(t, r) : p \in { p \in {t.pkg} : TooYoung(r, p) } }
    \cup { Real([repo |-> None, pkg |-> d]) : d \in { d \in DependsOn[Described(t, r)] : TooYoung(None, d) } }

(* find_companions: the family of the target that is installed, or about to be *)
(* as a dependency, and has no pin to the repository yet.                  *)
Companions(r, p) ==
    IF ~Interactive \/ p \notin Offers[r] THEN {}
    ELSE LET free == { q \in Package \ {p} : mem[q] # r } IN
         IF r = "aur" THEN free \cap installed \cap (DependsOn[p] \cup Kin[p])
         ELSE free \cap Offers[r] \cap Kin[p] \cap (installed \cup DependsOn[p])

(* check_candidate_conflicts: the indexes narrow the pairs by name, ALPM        *)
(* decides; every pair is named once.                                      *)
Conflicting(p, q) ==
    \/ \E c \in ConflictsWith[p] : Satisfied({q}, c)
    \/ \E c \in ConflictsWith[q] : Satisfied({p}, c)

(* Fault: the reverse index is asked for the candidate's name alone. *)
PairsByName(p, packages) ==
    { q \in packages : \E c \in ConflictsWith[p] : c = q \/ c \in Provides[q] }
    \cup { q \in packages : p \in ConflictsWith[q] }

PairsByIndex(p, packages) ==
    { q \in packages : \E c \in ConflictsWith[p] : c = q \/ c \in Provides[q] }
    \cup { q \in packages : \E n \in {p} \cup Provides[p] : n \in ConflictsWith[q] }
ConflictNotes(candidates) ==
    UNION { { {p, q} : q \in { q \in PairsByIndex(p, candidates \cup installed) \ {p} : Conflicting(p, q) } } :
                p \in candidates }

(* RepositoryPinPlan::from_requests: the last qualified target of a name wins.  *)
PinRequests(targets) ==
    [p \in Package |->
        LET asked == { i \in DOMAIN targets : targets[i].pkg = p /\ targets[i].repo # None }
        IN IF asked = {} THEN None
           ELSE Fold(targets[CHOOSE i \in asked : \A j \in asked : j <= i].repo)]

(* RepositoryPinPlan::confirmed                                              *)
Confirmed == { p \in Package : wanted[p] # None /\
    \/ [repo |-> None, pkg |-> p] \in done
    \/ [repo |-> wanted[p], pkg |-> p] \in done }

(* What a stage that succeeds leaves installed: its targets and what they need. *)
WithDependencies(packages) == packages \cup UNION { DependsOn[p] : p \in packages }
Names(targets) == { t.pkg : t \in targets }

-----------------------------------------------------------------------------
(***************************************************************************)
(* Before the transaction                                                  *)
(***************************************************************************)
Fails == pc' = "end" /\ result' = "failed"

Call(r) ==
    /\ pc' = "admit" /\ request' = r /\ polls' = 0 /\ upgrade' = r.sysupgrade
    /\ routed' = 0 /\ native' = << >> /\ aur' = << >> /\ chosen' = {} /\ told' = {}
    /\ wanted' = PinRequests(r.targets)
    /\ outcome' = [m \in {"native", "aur"} |-> None] /\ done' = {} /\ result' = None
    /\ partial' = FALSE
    /\ UNCHANGED << records, installed, edits >>

(* The first checks of install, in their order.                               *)
Admit ==
    /\ pc = "admit"
    /\ LET targets == request.targets
           some(P(_)) == \E i \in DOMAIN targets : P(targets[i])
           all(P(_)) == \A i \in DOMAIN targets : P(targets[i])
           direct(t) == t.repo = "direct"
           source(t) == SourceTarget(mem, t) # None
       IN IF \/ targets = << >>
             \/ some(direct) /\ Len(targets) > 1
             \/ some(LAMBDA t : t.repo = "unsafe")
             \/ some(source) /\ ~all(source)
          THEN Fails
          ELSE /\ pc' = (IF some(direct) \/ some(source) THEN "source" ELSE "lock")
               /\ UNCHANGED result
    /\ UNCHANGED << asking, planning, stages, records, installed, edits, cacheVars >>

(* The sources' own transactions (SourceInstall), one per target in order; the  *)
(* first failure ends them. They take no native flags. The caches stay.    *)
SourceStage ==
    /\ pc = "source"
    /\ \E n \in 0 .. Len(request.targets) :
        LET owned == [i \in DOMAIN request.targets |->
                IF request.targets[i].repo = "direct"
                THEN [repo |-> CHOOSE a \in DOMAIN Recipes : TRUE, pkg |-> request.targets[i].pkg]
                ELSE SourceTarget(mem, request.targets[i])]
            got == { owned[i] : i \in 1 .. n }
            alias(p) == (CHOOSE t \in got : t.pkg = p).repo
            after(config) == [p \in Package |-> IF p \in Names(got) THEN alias(p) ELSE config[p]]
            flags == request.refresh \/ request.sysupgrade \/ request.wait # None
        IN /\ flags \/ request.dry => n = 0
           /\ \A i \in 1 .. n : owned[i].pkg \in Recipes[owned[i].repo]
           /\ installed' = installed \cup Names(got)
           /\ mem' = after(mem) /\ pins' = after(pins)
           /\ history' = history \o [i \in 1 .. n |-> {owned[i].pkg}]
           /\ done' = got
           /\ result' \in IF n = Len(owned) THEN {"ok"}
                         ELSE IF request.dry /\ ~flags THEN {"ok", "failed"} ELSE {"failed"}
    /\ pc' = "end"
    /\ UNCHANGED << asking, planning, outcome, partial, edits, cacheVars >>

(* check_lock, once or in the loop of wait_for_lock.                           *)
LookAtLock ==
    /\ pc = "lock"
    /\ CASE Unlocked -> pc' = "question" /\ UNCHANGED result
         [] ~Unlocked /\ request.wait = None -> Fails
         [] OTHER -> pc' = "locked" /\ UNCHANGED result
    /\ UNCHANGED << asking, planning, stages, records, installed, edits, cacheVars >>

(* Fault: one round more than the time allows. *)
KeepWaitingLonger ==
    /\ pc = "locked"
    /\ IF StaleLock \/ polls > request.wait
       THEN Fails /\ UNCHANGED polls
       ELSE pc' = "lock" /\ polls' = polls + 1 /\ UNCHANGED result
    /\ UNCHANGED << request, upgrade, planning, stages, records, installed, edits, cacheVars >>

(* The loop looks a second time, for a dead holder, before it looks at the clock. *)
KeepWaiting ==
    /\ pc = "locked"
    /\ IF StaleLock \/ polls >= request.wait
       THEN Fails /\ UNCHANGED polls
       ELSE pc' = "lock" /\ polls' = polls + 1 /\ UNCHANGED result
    /\ UNCHANGED << request, upgrade, planning, stages, records, installed, edits, cacheVars >>

(* -y without -u: an upgrade instead, a partial one on request, or nothing.    *)
PartialUpgradeQuestion ==
    /\ pc = "question"
    /\ LET risky == request.refresh /\ ~upgrade /\ ~request.dry IN
       CASE risky /\ Interactive ->
                \/ upgrade' = TRUE /\ pc' = "refresh" /\ UNCHANGED result
                \/ pc' = "refresh" /\ UNCHANGED << upgrade, result >>
                \/ Fails /\ UNCHANGED upgrade
         [] risky /\ ~request.tty /\ ~request.noconfirm -> Fails /\ UNCHANGED upgrade
         [] OTHER -> pc' = "refresh" /\ UNCHANGED << upgrade, result >>
    /\ UNCHANGED << request, polls, planning, stages, records, installed, edits, cacheVars >>

(* pacman -Sy fails under a lock, and may fail anyway.                         *)
Refresh ==
    /\ pc = "refresh"
    /\ IF ~request.refresh \/ request.dry THEN pc' = "route" /\ UNCHANGED << result, partial >>
       ELSE \/ Unlocked /\ pc' = "route" /\ partial' = TRUE /\ UNCHANGED result
            \/ Fails /\ UNCHANGED partial
    /\ UNCHANGED << asking, planning, outcome, done, records, installed, edits, cacheVars >>

(* One target: a known repository, the delays, the companions. The user refuses *)
(* a young package, or goes on; without a terminal it is only a warning.   *)
Route ==
    /\ pc = "route" /\ routed < Len(request.targets)
    /\ LET t == request.targets[routed + 1]
           bare == t.repo = None
           r == IF bare /\ SyncPackage(None, t.pkg) = None /\ t.pkg \in Offers["aur"]
                THEN "aur" ELSE t.repo
           warned == IF bare /\ r = None /\ SyncPackage(None, t.pkg) = None THEN {}
                     ELSE DelayWarnings(t, r)
           offered == IF bare THEN {} ELSE Companions(Fold(r), t.pkg)
       IN IF ~bare /\ Fold(r) \notin DOMAIN Offers
          THEN Fails /\ UNCHANGED planning
          ELSE \/ /\ warned # {} /\ Interactive
                  /\ Fails /\ UNCHANGED planning
               \/ \E more \in SUBSET offered :
                    /\ wanted' = [p \in Package |-> IF p \in more THEN Fold(r) ELSE wanted[p]]
                    /\ chosen' = chosen \cup { << Fold(r), p >> : p \in more }
                    /\ LET names == << t.pkg >> \o SetToSeq(more) IN
                       IF r # None /\ Fold(r) = "aur"
                       THEN /\ aur' = aur \o [i \in DOMAIN names |-> [repo |-> None, pkg |-> names[i]]]
                            /\ UNCHANGED native
                       ELSE /\ native' = native \o [i \in DOMAIN names |-> [repo |-> r, pkg |-> names[i]]]
                            /\ UNCHANGED aur
                    /\ told' = told \cup { {p} : p \in warned }
                    /\ routed' = routed + 1
                    /\ UNCHANGED << pc, result >>
    /\ UNCHANGED << asking, stages, records, installed, edits, cacheVars >>

(* Conflicts are only noted. The helper, the scratch space and the room may be  *)
(* insufficient; the preview refuses a target that no repository has. A dry run *)
(* ends here.                                                              *)
Preflight ==
    /\ pc = "route" /\ routed = Len(request.targets)
    /\ LET candidates == { Real(t) : t \in { t \in Range(native) : SyncPackage(t.repo, t.pkg) # None } }
       IN told' = told \cup ConflictNotes(candidates)
    /\ \/ Fails
       \/ /\ native # << >> /\ ~upgrade =>
                 \A i \in DOMAIN native : SyncPackage(native[i].repo, native[i].pkg) # None
          /\ IF request.dry THEN pc' = "end" /\ result' = "ok"
                            ELSE pc' = "native" /\ UNCHANGED result
    /\ UNCHANGED << asking, routed, native, aur, wanted, chosen, stages, records, installed, edits, cacheVars >>

-----------------------------------------------------------------------------
(***************************************************************************)
(* The transaction                                                         *)
(***************************************************************************)

(* build_install_commands: the operation that pacman, or the helper, is given. A *)
(* helper that upgrades does so for AUR packages only (--aur).             *)
Operation(first) == IF upgrade /\ first THEN (IF request.refresh THEN "-Syu" ELSE "-Su") ELSE "-S"
PacmanOp == Operation(TRUE)
AurOp == Operation(native = << >>)

(* pacman installs all of its targets or none, and nothing under a lock.        *)
NativeStage ==
    /\ pc = "native"
    /\ IF native = << >>
       THEN UNCHANGED << installed, stages >>
       ELSE \/ /\ Unlocked
               /\ \A i \in DOMAIN native : SyncPackage(native[i].repo, native[i].pkg) # None
               /\ installed' = installed \cup WithDependencies({ Real(t) : t \in Range(native) })
               /\ outcome' = [outcome EXCEPT !["native"] = TRUE]
               /\ done' = done \cup Range(native)
               /\ partial' = (partial /\ PacmanOp = "-S")
            \/ /\ outcome' = [outcome EXCEPT !["native"] = FALSE]
               /\ UNCHANGED << installed, done, partial >>
    /\ pc' = "aur"
    /\ UNCHANGED << asking, planning, result, records, edits, cacheVars >>

(* A helper that fails may have installed some of its targets.                 *)
AurStage ==
    /\ pc = "aur"
    /\ IF aur = << >> \/ outcome["native"] = FALSE
       THEN UNCHANGED << installed, stages >>
       ELSE \/ /\ Unlocked
               /\ Names(Range(aur)) \subseteq Offers["aur"]
               /\ installed' = installed \cup WithDependencies(Names(Range(aur)))
               /\ outcome' = [outcome EXCEPT !["aur"] = TRUE]
               /\ done' = done \cup Range(aur)
               /\ partial' = (partial \/ AurOp = "-Syu")
            \/ \E some \in SUBSET Names(Range(aur)) :
               /\ installed' = installed \cup WithDependencies(some)
               /\ outcome' = [outcome EXCEPT !["aur"] = FALSE]
               /\ UNCHANGED << done, partial >>
    /\ pc' = "save"
    /\ UNCHANGED << asking, planning, result, records, edits, cacheVars >>

(* The confirmed pins are added to what the file holds by now (mutate_config);  *)
(* a failure is only a warning.                                            *)
SavePins ==
    /\ pc = "save"
    /\ LET add(config) == [p \in Package |-> IF p \in Confirmed THEN wanted[p] ELSE config[p]]
       IN /\ mem' = add(mem)
          /\ pins' \in {pins, add(pins)}
    /\ pc' = "record"
    /\ UNCHANGED << asking, planning, stages, result, history, installed, edits, cacheVars >>

RecordInstall ==
    /\ pc = "record"
    /\ \/ done # {} /\ history' = Append(history, Names(done))
       \/ UNCHANGED history
    /\ pc' = "clean"
    /\ UNCHANGED << asking, planning, stages, result, mem, pins, installed, edits, cacheVars >>

(* transaction_cache_cleanup                                                 *)
StartCleanup ==
    /\ pc = "clean"
    /\ LET queue == IF request.noCache THEN AfterTransaction(outcome["native"], outcome["aur"])
                                       ELSE << >>
       IN cleaning' = [NoCleaning EXCEPT !.queue = queue, !.full = TRUE,
                                         !.step = IF queue = << >> THEN "off" ELSE "check"]
    /\ pc' = "return"
    /\ UNCHANGED << asking, planning, stages, result, records, installed, edits,
                    lockVars, dirs, caches >>

Return ==
    /\ pc = "return" /\ cleaning.step = "off"
    /\ pc' = "end"
    /\ result' = (IF FALSE \in Range(outcome) THEN "failed"
                  ELSE IF cleaning.ok THEN "ok" ELSE "cleanup")
    /\ UNCHANGED << asking, planning, stages, records, installed, edits, cacheVars >>

InstallStep ==
    \/ Admit \/ SourceStage \/ LookAtLock \/ KeepWaiting \/ PartialUpgradeQuestion \/ Refresh
    \/ Route \/ Preflight \/ NativeStage \/ AurStage \/ SavePins \/ RecordInstall
    \/ StartCleanup \/ Return
    \/ CacheStep /\ UNCHANGED installVars

(* Another pacpin process pins or unpins a package.                            *)
EditPins(p, r) ==
    /\ edits < MaxEdits /\ edits' = edits + 1
    /\ pins' = [pins EXCEPT ![p] = r]
    /\ UNCHANGED << pc, asking, planning, stages, result, mem, history, installed, cacheVars >>

-----------------------------------------------------------------------------
(***************************************************************************)
(* Properties                                                              *)
(***************************************************************************)
InstallTypeOK ==
    /\ CacheTypeOK
    /\ pc \in {"admit", "source", "lock", "locked", "question", "refresh", "route", "native", "aur",
               "save", "record", "clean", "return", "end"}
    /\ request \in {None} \cup Request /\ (request = None => pc = "end")
    /\ polls \in 0 .. MaxPolls /\ edits \in 0 .. MaxEdits /\ upgrade \in BOOLEAN
    /\ routed \in Nat /\ (routed = 0 \/ routed \in DOMAIN request.targets)
    /\ native \in Seq(Target) /\ aur \in Seq([repo : {None}, pkg : Package])
    /\ wanted \in [Package -> TargetRepo] /\ chosen \subseteq TargetRepo \X Package
    /\ told \subseteq SUBSET Package
    /\ outcome \in [{"native", "aur"} -> {None, TRUE, FALSE}]
    /\ done \subseteq [repo : Repo \cup DOMAIN Recipes \cup {None}, pkg : Package]
    /\ installed \subseteq Package /\ history \in Seq(SUBSET Package)
    /\ mem \in [Package -> TargetRepo] /\ pins \in [Package -> TargetRepo]
    /\ partial \in BOOLEAN
    /\ result \in {None, "ok", "cleanup", "failed"}

(* p is named once, as a target or as a companion.                            *)
NamedOnce(p) ==
    LET named == { i \in DOMAIN request.targets : request.targets[i].pkg = p }
        picked == { c \in chosen : c[2] = p }
    IN \/ picked = {} /\ \E i \in named : named = {i}
       \/ named = {} /\ \E c \in picked : picked = {c}

(* A run pins what the user named with its repository, or selected as a         *)
(* companion, once the stage of that repository succeeded; pins that other  *)
(* processes write or remove meanwhile stay as they left them ("Pin intent  *)
(* comes from repository selection", pinning.rs). A name the request holds   *)
(* twice is excepted: its bare form confirms the pin of the other one.      *)
PinsFollowRequests ==
    [][pc = "save" /\ pc' # pc => \A p \in Package : pins'[p] # pins[p] /\ NamedOnce(p) =>
          LET r == pins'[p] IN
          /\ outcome[IF r = "aur" THEN "aur" ELSE "native"] = TRUE
          /\ \/ << r, p >> \in chosen
             \/ \E i \in DOMAIN request.targets :
                    request.targets[i].pkg = p /\ Fold(request.targets[i].repo) = r]_installVars

(* What install reports is what happened: Ok, and the error of the cleanup, mean *)
(* that every target is there, whichever stages that took; a failed native     *)
(* stage keeps the helper from starting; an upgrade that was asked for, or       *)
(* accepted in place of a partial one, was made; the history never names a   *)
(* package that was not installed.                                         *)
RecordIsTruthful ==
    /\ \A i \in DOMAIN history : \A p \in history[i] : Satisfied(installed, p)
    /\ pc = "end" /\ result \in {"ok", "cleanup"} /\ ~request.dry =>
           \A i \in DOMAIN request.targets : Satisfied(installed, request.targets[i].pkg)
    /\ outcome["native"] = FALSE => outcome["aur"] = None
    /\ result \in {"ok", "cleanup"} /\ upgrade /\ native # << >> /\ ~request.dry => ~partial

(* When the transaction starts, every conflict between the candidates and what  *)
(* will be installed has been noted, by whatever name they conflict. Every      *)
(* target from a sync repository, and everything it directly depends on, that   *)
(* nothing installed satisfies and that is younger than its delay has been      *)
(* shown; the companions were picked by the user.                          *)
Needs(t) == {t} \cup [repo : {None}, pkg : DependsOn[Real(t)]]
WarningsAreComplete ==
    (pc = "native" /\ native # << >> /\ ~upgrade) =>
        LET new == { Real(t) : t \in Range(native) }
        IN /\ \A p \in new, q \in new \cup installed :
                  p # q /\ Conflicting(p, q) => {p, q} \in told
           /\ \A t \in Range(native) : (\A c \in chosen : c[2] # t.pkg) =>
                  \A n \in Needs(t) :
                      /\ ~Satisfied(installed, n.pkg)
                      /\ << SyncPackage(n.repo, n.pkg), Real(n) >> \in Young
                      => {Real(n)} \in told

(* What an installation tells, before it and after it, is true.            *)
ReportsAreTrue == RecordIsTruthful /\ WarningsAreComplete

(* After a transaction only the cache of a manager whose stage succeeded is     *)
(* purged, and only on request; no answer of the prepared list ever removes a  *)
(* sync database, also not for the user's own full cleanup.                *)
CleanupIsScoped ==
    [][/\ \A c \in {"native", "aur"} :
              pc = "return" /\ caches'[c] # caches[c] => request.noCache /\ outcome[c] = TRUE
       /\ caches'["sync"] # caches["sync"] => pc # "return" /\ caches'["sync"] = "trimmed"]_<< pc, caches >>
=============================================================================
