----------------------------- MODULE CacheCleanup -----------------------------
(***************************************************************************)
(* Cache cleanup (pm/cache.rs): of one scope after the user's "pin clean",  *)
(* or of the managers whose transaction succeeded, with --no-cache.        *)
(*                                                                         *)
(* A full cleanup also removes the download directories that interrupted   *)
(* transactions left in pacman's cache: in between it asks for the lock    *)
(* again, because a manager may have started meanwhile. A manager makes its *)
(* directory while it holds the lock; the directory of manager m is m.     *)
(***************************************************************************)
EXTENDS PackageLock, Sequences

CONSTANTS
    Gone,            \* managers that ran before
    NativeDirs,      \* the number of pacman's cache directories
    HelperFound      \* is_command_available(helper)

Directory == [old : BOOLEAN, files : BOOLEAN]

ASSUME CacheAssumption ==
    NativeDirs \in Nat /\ HelperFound \in BOOLEAN /\ None \notin Directory

VARIABLES
    dirs,            \* manager -> its download directory: None or [old, files]
    caches,          \* "native", "aur", "sync" -> "kept", "trimmed" or "purged"
    cleaning         \* [step, queue, full, helper, empty, stale, ok]

cacheVars == << lockVars, dirs, caches, cleaning >>

NoCleaning == [step |-> "off", queue |-> << >>, full |-> FALSE, helper |-> FALSE,
               empty |-> {}, stale |-> {}, ok |-> TRUE]

(* The scopes transaction_cache_cleanup cleans: None is a manager that had     *)
(* nothing to do, FALSE one that failed and whose packages stay for a retry. *)
AfterTransaction(native, aur) ==
    (IF native = TRUE THEN << "native" >> ELSE << >>)
    \o (IF aur = TRUE THEN << "aur" >> ELSE << >>)

(* cache_answers, and what pacman -Scc asks: one question per cache directory  *)
(* and then whether to remove the unused sync databases.                   *)
Repeat(answer, n) == [i \in 1 .. n |-> answer]
CacheAnswers(scope) ==
    IF scope = "aur" THEN Repeat("y", 64)
    ELSE Repeat("y", NativeDirs) \o << "n" >> \o Repeat("y", 64)
Questions(scope) ==
    IF scope = "aur" THEN << "aur" >>
    ELSE Repeat("native", NativeDirs) \o << "sync" >>
             \o (IF scope = "all" THEN << "aur" >> ELSE << >>)

(* cache_scope: --repo and --aur exclude each other.                          *)
CacheScope(args) ==
    CASE {"repo", "aur"} \subseteq args -> None
      [] args = {"repo"} -> "native"
      [] args = {"aur"} -> "aur"
      [] args = {} -> "all"

(* One scope ends; a failed one is remembered and the next one still runs.     *)
ScopeEnds(ok) ==
    cleaning' = [cleaning EXCEPT
        !.queue = Tail(@), !.ok = @ /\ ok, !.empty = {}, !.stale = {},
        !.step = IF Len(cleaning.queue) = 1 THEN "off" ELSE "check"]

(* clean_scoped and build_clean_command refuse.                               *)
CleanCheck ==
    /\ cleaning.step = "check"
    /\ LET scope == Head(cleaning.queue) IN
       IF ~Unlocked \/ (scope = "aur" /\ ~HelperFound)
       THEN ScopeEnds(FALSE)
       ELSE cleaning' = [cleaning EXCEPT !.step = IF scope = "aur" THEN "run" ELSE "scan"]
    /\ UNCHANGED << lockVars, dirs, caches >>

(* prune_download_directories: only a full cleanup takes the old ones whole.   *)
Scan ==
    /\ cleaning.step = "scan"
    /\ LET found == { m \in Manager : dirs[m] # None }
           stale == { m \in found : cleaning.full /\ dirs[m].old }
       IN cleaning' = [cleaning EXCEPT !.empty = found \ stale, !.stale = stale,
                                       !.step = "rmdirCheck"]
    /\ UNCHANGED << lockVars, dirs, caches >>

(* Fault: the first look at the lock is thought to be enough. *)
NoRecheck(step, paths, next, after) ==
    /\ cleaning.step = step
    /\ cleaning' = [cleaning EXCEPT !.step = IF paths = {} THEN after ELSE next]
    /\ UNCHANGED << lockVars, dirs, caches >>

(* Each kind of removal is preceded by a look at the lock of its own.          *)
Recheck(step, paths, next, after) ==
    /\ cleaning.step = step
    /\ CASE paths = {} -> cleaning' = [cleaning EXCEPT !.step = after]
         [] paths # {} /\ ~Unlocked -> ScopeEnds(FALSE)
         [] OTHER -> cleaning' = [cleaning EXCEPT !.step = next]
    /\ UNCHANGED << lockVars, dirs, caches >>

RmdirCheck == Recheck("rmdirCheck", cleaning.empty, "rmdir", "rmCheck")
RmCheck == Recheck("rmCheck", cleaning.stale, "rm", "run")

(* rmdir removes the empty ones and fails for the others.                      *)
Rmdir ==
    /\ cleaning.step = "rmdir"
    /\ LET full == { m \in cleaning.empty : dirs[m] # None /\ dirs[m].files } IN
       \/ /\ dirs' = [m \in Manager |-> IF m \in cleaning.empty \ full THEN None ELSE dirs[m]]
          /\ IF full = {} THEN cleaning' = [cleaning EXCEPT !.step = "rmCheck"]
                          ELSE ScopeEnds(FALSE)
       \/ ScopeEnds(FALSE) /\ UNCHANGED dirs
    /\ UNCHANGED << lockVars, caches >>

RemoveStale ==
    /\ cleaning.step = "rm"
    /\ \/ /\ dirs' = [m \in Manager |-> IF m \in cleaning.stale THEN None ELSE dirs[m]]
          /\ cleaning' = [cleaning EXCEPT !.step = "run"]
       \/ ScopeEnds(FALSE) /\ UNCHANGED dirs
    /\ UNCHANGED << lockVars, caches >>

(* The command: a full one is answered from the prepared list, the other one   *)
(* runs with --noconfirm. Without the helper "all" means pacman's cache.   *)
RunScope ==
    LET scope == Head(cleaning.queue) IN
    IF scope = "all" /\ ~(cleaning.helper /\ HelperFound) THEN "native" ELSE scope
Answered(scope) == { Questions(scope)[i] : i \in { i \in DOMAIN Questions(scope) : CacheAnswers(scope)[i] = "y" } }
CleanRun ==
    /\ cleaning.step = "run"
    /\ \/ /\ LET asked == { Questions(RunScope)[i] : i \in DOMAIN Questions(RunScope) }
                 cleaned == IF cleaning.full THEN Answered(RunScope) ELSE asked
                 now == IF cleaning.full THEN "purged" ELSE "trimmed"
             IN caches' = [c \in DOMAIN caches |-> IF c \in cleaned THEN now ELSE caches[c]]
          /\ ScopeEnds(TRUE)
       \/ ScopeEnds(FALSE) /\ UNCHANGED caches
    /\ UNCHANGED << lockVars, dirs >>

CacheStep == CleanCheck \/ Scan \/ RmdirCheck \/ Rmdir \/ RmCheck \/ RemoveStale \/ CleanRun

-----------------------------------------------------------------------------
(***************************************************************************)
(* What the other managers do to the cache.                                 *)
(***************************************************************************)
ManagerDownloads(m) ==
    /\ status[m] = "holding"
    /\ dirs' = [dirs EXCEPT ![m] = IF @ = None THEN [old |-> FALSE, files |-> FALSE]
                                   ELSE [@ EXCEPT !.files = TRUE]]
    /\ UNCHANGED << lockVars, caches, cleaning >>

(* 120 seconds pass: is_stale_download_directory looks at nothing else.        *)
DirectoryAges(m) ==
    /\ dirs[m] # None /\ ~dirs[m].old
    /\ dirs' = [dirs EXCEPT ![m].old = TRUE]
    /\ UNCHANGED << lockVars, caches, cleaning >>

(* Lock and directory go together, unless the manager is killed.               *)
ManagerStep(m) ==
    /\ \/ (ManagerStarts(m) \/ ManagerLocks(m) \/ ManagerDies(m)) /\ UNCHANGED dirs
       \/ ManagerEnds(m) /\ dirs' = [dirs EXCEPT ![m] = None]
    /\ UNCHANGED << caches, cleaning >>

CleanLock == StaleLockRemoved /\ UNCHANGED << dirs, caches, cleaning >>

AroundCache == CleanLock \/ \E m \in Manager : ManagerStep(m) \/ ManagerDownloads(m) \/ DirectoryAges(m)

Cleaning == [step : {"off", "check", "scan", "rmdirCheck", "rmdir", "rmCheck", "rm", "run"},
             queue : Seq({"native", "aur", "all"}), full : BOOLEAN, helper : BOOLEAN,
             empty : SUBSET Manager, stale : SUBSET Manager, ok : BOOLEAN]

CacheTypeOK ==
    /\ LockTypeOK
    /\ dirs \in [Manager -> {None} \cup Directory]
    /\ caches \in [{"native", "aur", "sync"} -> {"kept", "trimmed", "purged"}]
    /\ cleaning \in Cleaning
    /\ (cleaning.step = "off") = (cleaning.queue = << >>)

(* Managers of the past may have left a directory behind.                      *)
CacheInit ==
    /\ lock = None
    /\ status = [m \in Manager |-> IF m \in Gone THEN "gone" ELSE "absent"]
    /\ dirs \in [Manager -> {None} \cup Directory]
    /\ \A m \in Manager \ Gone : dirs[m] = None
    /\ caches = [c \in {"native", "aur", "sync"} |-> "kept"]
    /\ cleaning = NoCleaning

-----------------------------------------------------------------------------
(* No cleanup removes the directory of a manager that holds the lock, whenever  *)
(* that manager started, and however long its download has been running.    *)
ActiveDownloadsSurvive ==
    [][\A m \in Manager : status[m] = "holding" /\ dirs[m] # None => dirs'[m] # None
                               \/ status'[m] # "holding"]_cacheVars
=============================================================================
