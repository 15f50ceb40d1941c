----------------------------- MODULE UpgradeRun -----------------------------
(***************************************************************************)
(* One approved upgrade, from the approval to the exit code (cmd_upgrade   *)
(* in src/src/commands/upgrade.rs): repository packages, AUR packages,     *)
(* Sources and the other external managers in this order, then history,    *)
(* hooks, orphan cleanup and cache cleanup.  After a failed AUR build      *)
(* --keep-going lets Sources go on, under a permit that pm/continuation.rs *)
(* grants and checks against the state of pacman's database.               *)
(*                                                                         *)
(* The preparation of downloads is module Preparation, called here where   *)
(* the command calls it.  Its Sources worker fills the cache of prefetched *)
(* artifacts that the Sources stage empties.  Other processes use pacman   *)
(* whenever its lock is free.  Resolution, preflight and the orphan list   *)
(* come before the approval and are inputs.                                *)
(***************************************************************************)
EXTENDS Naturals, Sequences

CONSTANTS
    Native, Aur, Sources,   \* the managers with a stage of their own
    Others,     \* sequence of the further external managers with updates
    AurPkg,     \* packages of the AUR stage
    SourceSeq,  \* sequence of packages: the approved Sources updates
    MaxForeign, \* bound on the transactions of other processes
    None

Range(s) == {s[i] : i \in 1..Len(s)}

ASSUME PlanAssumption ==
    /\ None \notin {Native, Aur, Sources} \cup Range(Others)
    /\ Native # Aur /\ Native # Sources /\ Aur # Sources
    /\ Others \in Seq(Range(Others)) /\ {Native, Aur, Sources} \cap Range(Others) = {}
    /\ SourceSeq \in Seq(Range(SourceSeq)) /\ Len(SourceSeq) > 0
    /\ Native \notin AurPkg
    /\ MaxForeign \in Nat /\ None # 0

(* ext_providers: Sources comes first.  planned_managers: one entry for    *)
(* each update.                                                            *)
Providers == <<Sources>> \o Others
Planned == <<Native, Aur>> \o [i \in 1..Len(SourceSeq) |-> Sources] \o Others

(* What a manager installs; Native stands for the repository packages.     *)
Units(m) == CASE m = Aur -> AurPkg
              [] m = Sources -> Range(SourceSeq)
              [] OTHER -> {m}
AllUnits == UNION {Units(m) : m \in Range(Planned)}

VARIABLES
    policy, started, handle, worker, closed, waiting, finishing, \* Preparation
    flags,      \* --keep-going and --no-cache
    pc,         \* where the main thread is
    at, src,    \* the current provider, the current Sources update
    success, nativeOk, aurOk,   \* all_success, native_ok, aur_ok
    outcomes,   \* external_outcomes: the providers that completed
    hookAur,    \* hook_outcome.aur
    download,   \* the background `pacman -Sw'
    db,         \* pacman's database and log
    upgraded,   \* other managers' stages that really took effect
    seen,       \* FailureEvidence::native_seen
    permitted,  \* a continuation permit exists
    checkpoint, \* its NativeCheckpoint, or None
    attempted,  \* its installation_attempted
    artifacts,  \* PREFETCH_CACHE
    fetched,    \* how far the Sources worker is in its updates
    journal,    \* units with a record in the history
    cleaned,    \* managers whose cache was cleaned
    code,       \* the exit code, or None
    unverified  \* Sources installs begun under the permit, not completed

prep == <<policy, started, handle, worker, closed, waiting, finishing>>
result == <<success, nativeOk, aurOk, outcomes, hookAur>>
system == <<db, upgraded>>
permit == <<seen, permitted, checkpoint, attempted, unverified>>
cache == <<artifacts, fetched>>
ending == <<journal, cleaned, code>>
place == <<at, src>>
vars == <<prep, flags, pc, place, result, download, system, permit, cache, ending>>

Prep == INSTANCE Preparation WITH
    Manager <- Range(Planned), Stages <- Planned, Jobs <- Range(Providers)

(* done: fully installed; partial: touched by a failed transaction;        *)
(* broken: a dependency is missing; foreign: commits of other processes.   *)
Database == [done: SUBSET AllUnits, partial: SUBSET AllUnits, broken: BOOLEAN,
             foreign: 0..MaxForeign]

RunTypeOK ==
    /\ flags \in [keepGoing: BOOLEAN, noCache: BOOLEAN]
    /\ pc \in {"review", "record", "abandon", "wait", "recheck", "native", "nativeRun",
               "aur", "aurRun", "ext", "cont", "join", "other", "source", "install",
               "installing", "verify", "finish", "joining", "clear", "journal", "hooks",
               "orphans", "cache", "exit"}
    /\ at \in 1..(Len(Providers) + 1) /\ src \in 1..(Len(SourceSeq) + 1)
    /\ {success, nativeOk, aurOk, seen, permitted, attempted} \subseteq BOOLEAN
    /\ outcomes \subseteq Range(Providers) /\ hookAur \in {None, TRUE, FALSE}
    /\ download \in {"none", "running", "stray", "over"}
    /\ db \in Database /\ upgraded \subseteq AllUnits
    /\ checkpoint = None \/ checkpoint \in Database
    /\ artifacts \subseteq Range(SourceSeq) /\ fetched \in 0..Len(SourceSeq)
    /\ journal \subseteq AllUnits /\ unverified \subseteq Range(SourceSeq)
    /\ cleaned \subseteq Range(Planned) /\ code \in {None, 0, 1}

TypeOK == Prep!TypeOK /\ RunTypeOK

Init ==
    /\ Prep!Init
    /\ flags \in [keepGoing: BOOLEAN, noCache: BOOLEAN]
    /\ pc = "review" /\ at = 1 /\ src = 1
    /\ success = TRUE /\ nativeOk = FALSE /\ aurOk = FALSE
    /\ outcomes = {} /\ hookAur = None
    /\ download = "none"
    /\ db = [done |-> {}, partial |-> {}, broken |-> FALSE, foreign |-> 0]
    /\ upgraded = {}
    /\ seen = FALSE /\ permitted = FALSE /\ checkpoint = None
    /\ attempted = FALSE /\ unverified = {}
    /\ artifacts = {} /\ fetched = 0
    /\ journal = {} /\ cleaned = {} /\ code = None

-----------------------------------------------------------------------------
(* db.lck exists: a download, a transaction of the run.                    *)
Locked == download \in {"running", "stray"} \/ pc \in {"nativeRun", "installing"}

(* What a transaction for unit u leaves when it fails.                     *)
FailedTransaction(u) ==
    \/ UNCHANGED db
    \/ \E b \in {db.broken, TRUE} :
        db' = [db EXCEPT !.partial = @ \cup {u}, !.broken = b]

(* Another process commits a transaction.                                  *)
Foreign ==
    /\ ~Locked /\ pc # "exit"
    /\ db.foreign < MaxForeign
    /\ db' = [db EXCEPT !.foreign = @ + 1]
    /\ UNCHANGED <<prep, flags, pc, place, result, download, upgraded, permit, cache, ending>>

-----------------------------------------------------------------------------
(* Approved.  While the orphans are reviewed, `pacman -Sw' may run in the  *)
(* background.                                                             *)
Review ==
    /\ pc = "review"
    /\ download' \in {"none", "running"}
    /\ pc' = "record"
    /\ UNCHANGED <<prep, flags, place, result, system, permit, cache, ending>>

(* The child ends, which releases the lock.                                *)
DownloadEnds ==
    /\ download \in {"running", "stray"}
    /\ download' = "over"
    /\ UNCHANGED <<prep, flags, pc, place, result, system, permit, cache, ending>>

(* record_selection; if it fails, the run waits for the child and exits.   *)
Record ==
    /\ pc = "record"
    /\ pc' \in {"wait", "abandon"}
    /\ UNCHANGED <<prep, flags, place, result, download, system, permit, cache, ending>>

(* BackgroundCommand::wait.  If it fails it kills the child it started,    *)
(* which is sudo; pacman may survive it.                                   *)
Wait ==
    /\ pc \in {"wait", "abandon"}
    /\ \/ download # "running" /\ UNCHANGED download
       \/ download = "running" /\ download' \in {"stray", "over"}
    /\ pc' = IF pc = "wait" THEN "recheck" ELSE "exit"
    /\ code' = IF pc = "wait" THEN None ELSE 1
    /\ UNCHANGED <<prep, flags, place, result, system, permit, cache, journal, cleaned>>

(* Space and the signature of the approved transaction are checked again.  *)
Recheck ==
    /\ pc = "recheck"
    /\ \/ pc' = "native" /\ code' = None
       \/ pc' = "exit" /\ code' = 1
    /\ UNCHANGED <<prep, flags, place, result, download, system, permit, cache, journal, cleaned>>

-----------------------------------------------------------------------------
(* Windows of the command in front; the session starts jobs in them.       *)
Windows ==
    \E m \in Range(Planned), w \in Prep!Window :
        /\ \/ pc = "nativeRun" /\ m = Native
           \/ pc = "aurRun" /\ m = Aur
           \/ pc = "installing" /\ m = Sources
           \/ pc = "other" /\ m = Providers[at]
           \/ pc = "hooks" /\ m = Aur
        /\ Prep!OnWindow(m, w)
        /\ UNCHANGED <<flags, pc, place, result, download, system, permit, cache, ending>>

NativeStart ==
    /\ pc = "native"
    /\ pc' = "nativeRun"
    /\ UNCHANGED <<prep, flags, place, result, download, system, permit, cache, ending>>

NativeDone ==
    /\ pc = "nativeRun" /\ download # "stray"
    /\ db' = [db EXCEPT !.done = @ \cup {Native}]
    /\ nativeOk' = TRUE
    /\ pc' = "aur"
    /\ UNCHANGED <<prep, flags, place, success, aurOk, outcomes, hookAur, download,
                   upgraded, permit, cache, ending>>

(* pacman fails; if it finds the lock taken, it changes nothing.           *)
NativeFails ==
    /\ pc = "nativeRun"
    /\ IF download = "stray" THEN UNCHANGED db ELSE FailedTransaction(Native)
    /\ success' = FALSE
    /\ pc' = "finish"
    /\ UNCHANGED <<prep, flags, place, nativeOk, aurOk, outcomes, hookAur, download,
                   upgraded, permit, cache, ending>>

-----------------------------------------------------------------------------
(* Fault: a permit is valid as long as the database looks the same.        *)
ValidDigestOnly(d) == ~Locked /\ checkpoint = d /\ ~d.broken

(* AurBuildFailurePermit::validate, for the state d of the database.       *)
Valid(d) == ~attempted /\ ~Locked /\ checkpoint = d /\ ~d.broken

(* execute_aur up to the helper: with --keep-going the state of the        *)
(* database is captured, if it can be.                                     *)
AurStart ==
    /\ pc = "aur"
    /\ checkpoint' \in IF flags.keepGoing /\ ~Locked THEN {db, None} ELSE {None}
    /\ pc' = "aurRun"
    /\ UNCHANGED <<prep, flags, place, result, download, system, seen, permitted, attempted,
                   unverified, cache, ending>>

(* No space, no private workspace, the helper cannot be started.           *)
AurRefused ==
    /\ pc = "aur"
    /\ success' = FALSE
    /\ pc' = "finish"
    /\ UNCHANGED <<prep, flags, place, nativeOk, aurOk, outcomes, hookAur, download, system,
                   permit, cache, ending>>

(* The helper installs one of its packages, or fails to.  Its output       *)
(* shows it, unless pacman prints something unexpected.                    *)
AurInstalls(u) ==
    /\ pc = "aurRun" /\ u \notin db.done
    /\ \/ db' = [db EXCEPT !.done = @ \cup {u}]
       \/ FailedTransaction(u)
    /\ seen' \in {seen, TRUE}
    /\ UNCHANGED <<prep, flags, pc, place, result, download, upgraded, permitted, checkpoint,
                   attempted, unverified, cache, ending>>

AurDone ==
    /\ pc = "aurRun" /\ AurPkg \subseteq db.done
    /\ aurOk' = TRUE
    /\ pc' = "ext"
    /\ UNCHANGED <<prep, flags, place, success, nativeOk, outcomes, hookAur, download, system,
                   permit, cache, ending>>

(* Fault: with a permit the run counts as successful again.                *)
AurFailsForgiven(built) ==
    /\ pc = "aurRun"
    /\ \E granted \in {built /\ ~seen /\ checkpoint # None /\ Valid(db), FALSE} :
        /\ permitted' = granted
        /\ success' = granted
        /\ pc' = IF granted THEN "cont" ELSE "finish"
    /\ UNCHANGED <<prep, flags, place, nativeOk, aurOk, outcomes, hookAur, download, system,
                   seen, checkpoint, attempted, unverified, cache, ending>>

(* The helper fails.  `built' is a recognized build failure with an exit   *)
(* code; only that, without native activity in the output or in the        *)
(* database, earns a permit.                                               *)
AurFails(built) ==
    /\ pc = "aurRun"
    /\ \E granted \in {built /\ ~seen /\ checkpoint # None /\ Valid(db), FALSE} :
        /\ permitted' = granted
        /\ success' = FALSE
        /\ pc' = IF granted THEN "cont" ELSE "finish"
    /\ UNCHANGED <<prep, flags, place, nativeOk, aurOk, outcomes, hookAur, download, system,
                   seen, checkpoint, attempted, unverified, cache, ending>>

-----------------------------------------------------------------------------
(* Fault: a stage begins while its preparation is still running.           *)
EnterUnjoined(p) ==
    /\ pc' = IF p = Sources THEN "source" ELSE "other"
    /\ UNCHANGED prep

(* preparation.before(p), then the stage.                                  *)
Enter(p) ==
    \/ policy[p] # "Unsupported" /\ Prep!Before(p) /\ pc' = "join"
    \/ /\ policy[p] = "Unsupported"
       /\ pc' = IF p = Sources THEN "source" ELSE "other"
       /\ UNCHANGED prep

(* execute_upgrades: the next provider, or the end of the loop.            *)
NextProvider ==
    /\ pc = "ext"
    /\ IF at > Len(Providers) THEN pc' = "finish" /\ UNCHANGED prep
       ELSE Enter(Providers[at])
    /\ UNCHANGED <<flags, place, result, download, system, permit, cache, ending>>

(* execute_after_aur_failure: the next of the Sources updates.  The other  *)
(* managers do not support it and are skipped.                             *)
NextIndependent ==
    /\ pc = "cont"
    /\ IF src > Len(SourceSeq) \/ ~Valid(db) THEN pc' = "finish" /\ UNCHANGED prep
       ELSE Enter(Sources)
    /\ UNCHANGED <<flags, place, result, download, system, permit, cache, ending>>

(* A provider's plan is invalid: everything after it is skipped.           *)
PlanInvalid ==
    /\ \/ pc = "ext" /\ at <= Len(Providers)
       \/ pc = "cont" /\ src <= Len(SourceSeq)
    /\ success' = FALSE
    /\ pc' = "finish"
    /\ UNCHANGED <<prep, flags, place, nativeOk, aurOk, outcomes, hookAur, download, system,
                   permit, cache, ending>>

(* Job::join returns, at once if a call before it has taken the handle.    *)
JoinStage ==
    /\ pc = "join"
    /\ \/ Prep!JoinDone
       \/ waiting = None /\ UNCHANGED prep
    /\ pc' = IF permitted \/ Providers[at] = Sources THEN "source" ELSE "other"
    /\ UNCHANGED <<flags, place, result, download, system, permit, cache, ending>>

OtherDone ==
    /\ pc = "other"
    /\ upgraded' = upgraded \cup {Providers[at]}
    /\ outcomes' = outcomes \cup {Providers[at]}
    /\ at' = at + 1
    /\ pc' = "ext"
    /\ UNCHANGED <<prep, flags, src, success, nativeOk, aurOk, hookAur, download, db, permit,
                   cache, ending>>

OtherFails ==
    /\ pc = "other"
    /\ upgraded' \in {upgraded, upgraded \cup {Providers[at]}}
    /\ success' = FALSE
    /\ pc' = "finish"
    /\ UNCHANGED <<prep, flags, place, nativeOk, aurOk, outcomes, hookAur, download, db,
                   permit, cache, ending>>

-----------------------------------------------------------------------------
(* execute_inner for one package, up to pacman -U: the prefetched artifact *)
(* is taken, or the package downloaded; it is built and checked.  Under a  *)
(* permit a package of the failed AUR stage is refused.                    *)
SourcePrepared ==
    /\ pc = "source" /\ ~Locked
    /\ permitted => SourceSeq[src] \notin AurPkg
    /\ artifacts' = artifacts \ {SourceSeq[src]}
    /\ pc' = "install"
    /\ UNCHANGED <<prep, flags, place, result, download, system, permit, fetched, ending>>

(* begin_source_install and the start of pacman -U.                        *)
InstallStart ==
    /\ pc = "install"
    /\ permitted => Valid(db)
    /\ attempted' = permitted
    /\ unverified' = IF permitted THEN unverified \cup {SourceSeq[src]} ELSE unverified
    /\ pc' = "installing"
    /\ UNCHANGED <<prep, flags, place, result, download, system, seen, permitted, checkpoint,
                   cache, ending>>

(* pacman succeeds, or succeeds without doing it (the package is held).    *)
InstallDone ==
    /\ pc = "installing" /\ download # "stray"
    /\ db' \in {db, [db EXCEPT !.done = @ \cup {SourceSeq[src]}]}
    /\ pc' = "verify"
    /\ UNCHANGED <<prep, flags, place, result, download, upgraded, permit, cache, ending>>

(* The end of this package: the next one, or the next provider.            *)
SourceEnd ==
    IF permitted THEN src' = src + 1 /\ pc' = "cont" /\ UNCHANGED <<at, outcomes>>
    ELSE IF src < Len(SourceSeq)
    THEN src' = src + 1 /\ pc' = "source" /\ UNCHANGED <<at, outcomes>>
    ELSE at' = at + 1 /\ pc' = "ext" /\ outcomes' = outcomes \cup {Sources} /\ UNCHANGED src

(* Installed as approved, ownership saved, history written or not, and     *)
(* under a permit source_completed captures the database again.            *)
SourceDone ==
    /\ pc = "verify" /\ SourceSeq[src] \in db.done
    /\ permitted => ~db.broken /\ ~Locked
    /\ journal' \in {journal, journal \cup {SourceSeq[src]}}
    /\ checkpoint' = IF permitted THEN db ELSE checkpoint
    /\ attempted' = FALSE
    /\ unverified' = unverified \ {SourceSeq[src]}
    /\ SourceEnd
    /\ UNCHANGED <<prep, flags, success, nativeOk, aurOk, hookAur, download, system, seen,
                   permitted, cache, cleaned, code>>

(* A package that fails ends the Sources stage.  Under a permit the next   *)
(* one is tried if the permit is still valid.                              *)
SourceFailed(d) ==
    IF permitted /\ Valid(d)
    THEN src' = src + 1 /\ pc' = "cont" /\ UNCHANGED <<at, success>>
    ELSE success' = FALSE /\ pc' = "finish" /\ UNCHANGED place

(* Anything before pacman -U; the artifact may be in use by then.          *)
SourceUnprepared ==
    /\ pc \in {"source", "install"}
    /\ artifacts' \in {artifacts, artifacts \ {SourceSeq[src]}}
    /\ SourceFailed(db)
    /\ UNCHANGED <<prep, flags, nativeOk, aurOk, outcomes, hookAur, download, system, permit,
                   fetched, ending>>

InstallFails ==
    /\ pc = "installing"
    /\ IF download = "stray" THEN UNCHANGED db ELSE FailedTransaction(SourceSeq[src])
    /\ SourceFailed(db')
    /\ UNCHANGED <<prep, flags, nativeOk, aurOk, outcomes, hookAur, download, upgraded,
                   permit, cache, ending>>

(* Not installed as approved, or ownership or, under a permit, a healthy   *)
(* database cannot be established.                                         *)
SourceUnverified ==
    /\ pc = "verify"
    /\ journal' \in {journal} \cup IF permitted /\ SourceSeq[src] \in db.done
                                   THEN {journal \cup {SourceSeq[src]}} ELSE {}
    /\ SourceFailed(db)
    /\ UNCHANGED <<prep, flags, nativeOk, aurOk, outcomes, hookAur, download, system, permit,
                   cache, cleaned, code>>

(* The Sources worker: install::prefetch of one update after another.      *)
Fetch ==
    /\ worker[Sources] = "running" /\ fetched < Len(SourceSeq)
    /\ artifacts' = artifacts \cup {SourceSeq[fetched + 1]}
    /\ fetched' = fetched + 1
    /\ UNCHANGED <<prep, flags, pc, place, result, download, system, permit, ending>>

(* A worker returns; one of the downloads may have failed.                 *)
WorkerEnd(p) ==
    /\ Prep!WorkerEnd(p)
    /\ UNCHANGED <<flags, pc, place, result, download, system, permit, cache, ending>>

-----------------------------------------------------------------------------
Finish ==
    /\ pc = "finish"
    /\ Prep!Finish
    /\ pc' = "joining"
    /\ UNCHANGED <<flags, place, result, download, system, permit, cache, ending>>

FinishStep ==
    /\ pc = "joining"
    /\ Prep!JoinDone \/ \E p \in Range(Providers) : Prep!FinishJoin(p)
    /\ UNCHANGED <<flags, pc, place, result, download, system, permit, cache, ending>>

(* Fault: finish waits until every job has been run.                       *)
FinishedAll ==
    /\ pc = "joining" /\ Prep!MainFree
    /\ \A p \in Range(Providers) : policy[p] = "Background" => worker[p] = "done"
    /\ pc' = "clear"
    /\ UNCHANGED <<prep, flags, place, result, download, system, permit, cache, ending>>

(* finish has returned.                                                    *)
Finished ==
    /\ pc = "joining" /\ Prep!MainFree
    /\ pc' = "clear"
    /\ UNCHANGED <<prep, flags, place, result, download, system, permit, cache, ending>>

(* clear_prefetched.                                                       *)
Clear ==
    /\ pc = "clear"
    /\ artifacts' = {}
    /\ pc' = "journal"
    /\ UNCHANGED <<prep, flags, place, result, download, system, permit, fetched, ending>>

(* Fault: the AUR stage is recorded under the manager, not its packages.   *)
JournalManager ==
    LET applied == (IF nativeOk THEN {Native} ELSE {}) \cup (IF aurOk THEN {Aur} ELSE {}) IN
    /\ pc = "journal"
    /\ journal' \in {journal, journal \cup applied}
    /\ pc' = "hooks"
    /\ UNCHANGED <<prep, flags, place, result, download, system, permit, cache, cleaned, code>>

(* The record of the native and AUR stages; a failed write is ignored.     *)
Journal ==
    LET applied == (IF nativeOk THEN {Native} ELSE {}) \cup (IF aurOk THEN AurPkg ELSE {}) IN
    /\ pc = "journal"
    /\ journal' \in {journal, journal \cup applied}
    /\ pc' = "hooks"
    /\ UNCHANGED <<prep, flags, place, result, download, system, permit, cache, cleaned, code>>

(* Hooks run only after a success; a rebuild reports on the AUR cache.     *)
Hooks ==
    /\ pc = "hooks"
    /\ IF success THEN success' \in BOOLEAN /\ hookAur' \in {None, TRUE, FALSE}
       ELSE UNCHANGED <<success, hookAur>>
    /\ pc' = "orphans"
    /\ UNCHANGED <<prep, flags, place, nativeOk, aurOk, outcomes, download, system, permit,
                   cache, ending>>

(* The removal of confirmed orphans (module OrphanCleanup), after success. *)
Orphans ==
    /\ pc = "orphans"
    /\ success' \in IF success THEN BOOLEAN ELSE {FALSE}
    /\ pc' = "cache"
    /\ UNCHANGED <<prep, flags, place, nativeOk, aurOk, outcomes, hookAur, download, system,
                   permit, cache, ending>>

(* aur_cleanup: both the stage and a hook's rebuild must have succeeded.   *)
AurCleanup == (nativeOk => aurOk) /\ (nativeOk \/ hookAur # None) /\ hookAur # FALSE

(* --no-cache cleans up after the managers that completed; then the exit.  *)
Cache ==
    /\ pc = "cache"
    /\ IF flags.noCache
       THEN /\ cleaned' = (IF nativeOk THEN {Native} ELSE {})
                          \cup (IF AurCleanup THEN {Aur} ELSE {}) \cup outcomes
            /\ success' \in {success, FALSE}
       ELSE UNCHANGED <<cleaned, success>>
    /\ code' = IF success' THEN 0 ELSE 1
    /\ pc' = "exit"
    /\ UNCHANGED <<prep, flags, place, nativeOk, aurOk, outcomes, hookAur, download, system,
                   permit, cache, journal>>

-----------------------------------------------------------------------------
(* A step of the main thread that is not waiting for anything.             *)
Main ==
    \/ Review \/ Record \/ Wait \/ Recheck
    \/ NativeStart \/ NativeDone \/ NativeFails
    \/ AurStart \/ AurRefused \/ AurDone
    \/ \E built \in BOOLEAN : AurFails(built)
    \/ NextProvider \/ NextIndependent \/ PlanInvalid \/ JoinStage
    \/ OtherDone \/ OtherFails
    \/ SourcePrepared \/ InstallStart \/ InstallDone \/ SourceDone
    \/ SourceUnprepared \/ InstallFails \/ SourceUnverified
    \/ Finish \/ FinishStep \/ Finished \/ Clear
    \/ Journal \/ Hooks \/ Orphans \/ Cache

Next ==
    \/ Main
    \/ Foreign \/ DownloadEnds \/ Windows
    \/ \E u \in AurPkg : AurInstalls(u)
    \/ Fetch
    \/ \E p \in Range(Providers) : WorkerEnd(p)

Spec == Init /\ [][Next]_vars

(* The main thread goes on, and the commands and downloads it waits for    *)
(* end: pacman, the helpers and the workers' commands end by themselves or *)
(* by a timeout.  Nobody has to use pacman, to emit a window or to install *)
(* anything.                                                               *)
Fairness ==
    /\ WF_vars(Main)
    /\ WF_vars(DownloadEnds)
    /\ \A p \in Range(Providers) : WF_vars(WorkerEnd(p))

FairSpec == Spec /\ Fairness

-----------------------------------------------------------------------------
(* The units of the stages before the one the run is in.                   *)
Earlier ==
    IF pc' = "nativeRun" THEN {}
    ELSE IF pc' = "aurRun" THEN {Native}
    ELSE IF pc' = "other" THEN UNION {Units(m) : m \in {Native, Aur} \cup
                                                       {Providers[i] : i \in 1..(at - 1)}}
    ELSE {Native} \cup AurPkg \cup {SourceSeq[i] : i \in 1..(src - 1)}

(* A command of the plan begins.                                           *)
Starts == pc' # pc /\ pc' \in {"nativeRun", "aurRun", "other", "installing"}

(* "Remaining managers will be skipped", "Stop later external providers on *)
(* installation/unknown failure": a command begins only when everything    *)
(* the plan put before it is installed, or under the permit.               *)
StagesBuildOnSuccess ==
    [][Starts => \/ Earlier \subseteq db.done \cup upgraded
                 \/ pc' = "installing" /\ permitted]_vars

(* "Unknown failures and any native activity remain a stop condition": an  *)
(* install under the permit begins only when the failed AUR stage left     *)
(* nothing behind in the database, the repository stage is complete, and   *)
(* every install begun before it under the permit was verified.            *)
ContinuationIsIsolated ==
    [][Starts /\ permitted =>
        /\ pc' = "installing"
        /\ AurPkg \cap (db.done \cup db.partial) = {}
        /\ Native \in db.done
        /\ unverified = {} /\ ~db.broken]_vars

(* No package is installed on top of a failure, except under a permit and  *)
(* then only on the database the permit was given for.                     *)
StagesAreGuarded == StagesBuildOnSuccess /\ ContinuationIsIsolated

(* "This run remains unsuccessful": the exit code is 0 only if everything  *)
(* that was approved is installed.                                         *)
ExitIsTruthful == code = 0 => AllUnits \subseteq db.done \cup upgraded

(* "Never ... purge its cache because an independent package succeeded":   *)
(* a cache is cleaned only after all of its manager's stage.               *)
CachesOfCompleted ==
    \A m \in cleaned : Units(m) \subseteq db.done \cup upgraded

(* What the run reports and cleans up agrees with what was installed.      *)
OutcomeIsTruthful == ExitIsTruthful /\ CachesOfCompleted

(* The artifact cache has one owner at a time: while a package of Sources  *)
(* is taken from it, built or installed, its worker does not run.          *)
NoFetchUnderInstall ==
    pc \in {"source", "install", "installing", "verify"} => worker[Sources] # "running"

(* "Release workdirs explicitly even when another manager fails": when     *)
(* the run is over no prefetched workspace is left, and none can appear.   *)
WorkspacesReleased ==
    pc = "exit" => artifacts = {} /\ \A p \in Range(Providers) : worker[p] # "running"

(* The artifact cache is never shared and never left behind.               *)
ArtifactsAreOwned == NoFetchUnderInstall /\ WorkspacesReleased

(* Every approved run ends.                                                *)
Ends == <>(pc = "exit")
=============================================================================
