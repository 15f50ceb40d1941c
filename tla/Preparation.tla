---------------------------- MODULE Preparation ----------------------------
(***************************************************************************)
(* One preparation session of an upgrade (src/src/integrations/            *)
(* preparation.rs): download-only work that runs on worker threads while   *)
(* the main thread walks through the stages of the approved plan.          *)
(*                                                                         *)
(* The main thread owns the session.  It reports the windows of the stage  *)
(* it is running (`on_window', through progress::transfers), asks for the  *)
(* preparation of the manager it is about to upgrade (`before') and ends   *)
(* the session (`finish', called explicitly and again by Drop).  A job is  *)
(* a provider that has approved updates and a stage; its worker thread     *)
(* runs provider.prefetch and its result is only reported, never used.     *)
(*                                                                         *)
(* This module lets the main thread make those calls in any order.  The    *)
(* module UpgradeRun instantiates it and makes them in the order in which  *)
(* the upgrade command does.                                               *)
(***************************************************************************)
EXTENDS Naturals, Sequences

CONSTANTS
    Manager,    \* progress::Manager: native, AUR and the external managers
    Stages,     \* planned_managers: the managers of the plan, in stage order
    Jobs,       \* providers with approved updates and a stage of their own
    None        \* "the main thread is not blocked in a join"

(* An external manager is listed once for each of its approved updates.    *)
ASSUME StagesAssumption == Stages \in Seq(Manager)
ASSUME JobsAssumption ==
    /\ \A p \in Jobs : \E i \in 1..Len(Stages) : Stages[i] = p
    /\ None \notin Jobs

(* preparation_policy(): what a provider allows.                           *)
Policy == {"Background", "BeforeStage", "Unsupported"}

(* transfers::Window: what a running stage was last seen doing.            *)
Window == {"Started", "Downloading", "Computing"}

VARIABLES
    policy,     \* job -> its provider's policy, read once by Session::new
    started,    \* Job::state.started, the set of jobs whose flag is set
    handle,     \* jobs whose JoinHandle has not been taken yet
    worker,     \* job -> "none", "running" or "done": its worker thread
    closed,     \* Session::closed
    waiting,    \* the job whose handle the main thread is joining, or None
    finishing   \* jobs `finish' has still to join

prepVars == <<policy, started, handle, worker, closed, waiting, finishing>>

TypeOK ==
    /\ policy \in [Jobs -> Policy]
    /\ started \subseteq Jobs
    /\ handle \subseteq Jobs
    /\ worker \in [Jobs -> {"none", "running", "done"}]
    /\ closed \in BOOLEAN
    /\ waiting \in Jobs \cup {None}
    /\ finishing \subseteq Jobs

Init ==
    /\ policy \in [Jobs -> Policy]
    /\ started = {}
    /\ handle = {}
    /\ worker = [p \in Jobs |-> "none"]
    /\ closed = FALSE
    /\ waiting = None
    /\ finishing = {}

-----------------------------------------------------------------------------
(* Job::start for every job of S: a job that has started is left alone.    *)
StartJobs(S) ==
    LET fresh == S \ started IN
    /\ started' = started \cup fresh
    /\ worker' = [p \in Jobs |-> IF p \in fresh THEN "running" ELSE worker[p]]

(* The main thread is in no call of the session.                           *)
MainFree == waiting = None /\ finishing = {}

(* stages.iter().position(): the first entry of manager m in the plan.     *)
Position(m) ==
    CHOOSE i \in 1..Len(Stages) :
        Stages[i] = m /\ \A j \in 1..(i - 1) : Stages[j] # m

(* The stage of job p comes after the stage of manager m (Job::order).     *)
Later(p, m) == Position(m) < Position(p)

(* The jobs that a window of manager m may start in the background.        *)
Eligible(m) == {p \in Jobs : policy[p] = "Background" /\ Later(p, m)}

(* on_window: only a Computing window of a planned manager, in an open     *)
(* session, starts jobs, and only background jobs of later stages.         *)
OnWindow(m, w) ==
    /\ MainFree
    /\ ~closed
    /\ w = "Computing"
    /\ StartJobs(Eligible(m))
    /\ handle' = handle \cup (Eligible(m) \ started)
    /\ UNCHANGED <<policy, closed, waiting, finishing>>

(* Fault: the handle is taken before the job is started.                   *)
BeforeTakesFirst(p) ==
    /\ MainFree
    /\ ~closed
    /\ policy[p] # "Unsupported"
    /\ StartJobs({p})
    /\ handle' = handle \ {p}
    /\ waiting' = IF p \in handle THEN p ELSE None
    /\ UNCHANGED <<policy, closed, finishing>>

(* Fault: `before' does not look at `closed'.                              *)
BeforeLate(p) ==
    /\ MainFree
    /\ policy[p] # "Unsupported"
    /\ StartJobs({p})
    /\ handle' = handle \ {p}
    /\ waiting' = IF p \in handle \/ p \notin started THEN p ELSE None
    /\ UNCHANGED <<policy, closed, finishing>>

(* Session::before, up to the point where it blocks: start the job, let go *)
(* of `closed', take the handle.  A second call finds no handle to join.   *)
Before(p) ==
    /\ MainFree
    /\ ~closed
    /\ policy[p] # "Unsupported"
    /\ StartJobs({p})
    /\ handle' = handle \ {p}
    /\ waiting' = IF p \in handle \/ p \notin started THEN p ELSE None
    /\ UNCHANGED <<policy, closed, finishing>>

(* The rest of Job::join: the worker has ended, its result is reported.    *)
JoinDone ==
    /\ waiting # None
    /\ worker[waiting] = "done"
    /\ waiting' = None
    /\ UNCHANGED <<policy, started, handle, worker, closed, finishing>>

(* Fault: `finish' walks over the planned stages instead of the jobs.      *)
FinishStages ==
    /\ MainFree
    /\ closed' = TRUE
    /\ finishing' = {Stages[i] : i \in 1..Len(Stages)}
    /\ UNCHANGED <<policy, started, handle, worker, waiting>>

(* Session::finish closes the session first and then joins every job.      *)
Finish ==
    /\ MainFree
    /\ closed' = TRUE
    /\ finishing' = Jobs
    /\ UNCHANGED <<policy, started, handle, worker, waiting>>

(* Fault: `finish' waits for jobs that were never started as well.         *)
FinishAwaitsAll(p) ==
    /\ waiting = None
    /\ p \in finishing
    /\ finishing' = finishing \ {p}
    /\ handle' = handle \ {p}
    /\ waiting' = p
    /\ UNCHANGED <<policy, started, worker, closed>>

(* One round of finish: take the job's handle, if it has one, and join it. *)
FinishJoin(p) ==
    /\ waiting = None
    /\ p \in finishing
    /\ finishing' = finishing \ {p}
    /\ handle' = handle \ {p}
    /\ waiting' = IF p \in handle THEN p ELSE None
    /\ UNCHANGED <<policy, started, worker, closed>>

(* A worker's prefetch returns, fails or panics.                           *)
WorkerEnd(p) ==
    /\ worker[p] = "running"
    /\ worker' = [worker EXCEPT ![p] = "done"]
    /\ UNCHANGED <<policy, started, handle, closed, waiting, finishing>>

Next ==
    \/ \E i \in 1..Len(Stages), w \in Window : OnWindow(Stages[i], w)
    \/ \E p \in Jobs : Before(p)
    \/ JoinDone
    \/ Finish
    \/ \E p \in Jobs : FinishJoin(p)
    \/ \E p \in Jobs : WorkerEnd(p)

Spec == Init /\ [][Next]_prepVars

(* The main thread keeps running inside join and finish; a worker's        *)
(* prefetch ends because every download and every preparation command has  *)
(* a timeout of its own.                                                   *)
Fairness ==
    /\ WF_prepVars(JoinDone)
    /\ WF_prepVars(\E p \in Jobs : FinishJoin(p))
    /\ \A p \in Jobs : WF_prepVars(WorkerEnd(p))

FairSpec == Spec /\ Fairness

-----------------------------------------------------------------------------
(* A worker that runs is reachable: its handle is kept, or the main thread *)
(* is joining it.  A handle that is taken or overwritten without a join    *)
(* would leave a detached thread writing under a later stage.              *)
NoDetachedWorker ==
    \A p \in Jobs : worker[p] = "running" => p \in handle \/ waiting = p

(* "Prepare immediately before its own stage, after earlier writers have   *)
(* completed": a BeforeStage worker runs only while the main thread is     *)
(* blocked in the join in front of that stage.                             *)
BeforeStageIsAlone ==
    \A p \in Jobs :
        policy[p] = "BeforeStage" /\ worker[p] = "running" => waiting = p

(* Once finish has returned no worker runs: what clears the prefetched     *)
(* artifacts next races nobody.                                            *)
QuietAfterFinish ==
    closed /\ MainFree => \A p \in Jobs : worker[p] # "running"

(* The owner of a session has it in hand: every worker is reachable by a   *)
(* join, works beside nothing it must not, and is over when finish is.     *)
WorkersStayInHand == NoDetachedWorker /\ BeforeStageIsAlone /\ QuietAfterFinish

(* "Never start a waiting job while finalizing an aborted plan": no step   *)
(* of a closed session starts a job, late windows of hooks included.       *)
NoStartAfterClose ==
    [][closed => started' = started /\ \A p \in Jobs :
                    worker'[p] = "running" => worker[p] = "running"]_prepVars

(* What makes the three invariants inductive: a worker thread exists only  *)
(* for a started job, handles are kept only for background jobs, and a     *)
(* closed session keeps no handle that finish is not going to join.        *)
Bookkeeping ==
    /\ \A p \in Jobs : worker[p] # "none" => p \in started
    /\ \A p \in handle : p \in started /\ policy[p] = "Background"
    /\ closed => handle \subseteq finishing

IInv == TypeOK /\ NoDetachedWorker /\ BeforeStageIsAlone /\ Bookkeeping

(* The session implements what its users rely on.                          *)
Contract == INSTANCE PreparationContract WITH
    open <- ~closed,
    running <- {p \in Jobs : worker[p] = "running"},
    ran <- {p \in Jobs : worker[p] = "done"},
    over <- closed /\ MainFree

ImplementsContract == Contract!Spec

(* finish returns: no worker, started or not, keeps it waiting forever.    *)
FinishReturns == finishing # {} ~> MainFree
=============================================================================
