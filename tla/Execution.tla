----------------------------- MODULE Execution -----------------------------
(***************************************************************************)
(* Cancellation of a running pacpin (src/src/execution): threads spawn     *)
(* child processes and create private workspaces while a signal handler,   *)
(* or a thread that learns of an interruption, shuts the process down.     *)
(*                                                                         *)
(* Shared state is what the code keeps in statics: the flag TERMINATING,   *)
(* the lists ACTIVE_CHILDREN and ACTIVE_GROUPS, each behind a mutex of its *)
(* own, and the registry CLEANUP_TARGETS.  A critical section of one of    *)
(* these locks is one step; everything between two of them interleaves.    *)
(*                                                                         *)
(* A thread runs one child at a time, so a child, its pid and its process  *)
(* group are named by the thread.  There are four ways to run one:         *)
(*   foreground  progress::run_observed: output relayed until it exits     *)
(*   background  progress::start_background .. BackgroundCommand::wait     *)
(*   tracked     execution::run_tracked_command                            *)
(*   captured    execution::capture_output_observed                        *)
(***************************************************************************)
EXTENDS FiniteSets

CONSTANTS
    Thread,     \* threads that run commands and own workspaces
    Handler,    \* the thread of the signal handler
    Nobody      \* "nobody owns the shutdown"

ASSUME ThreadAssumption ==
    Handler \notin Thread /\ Nobody \notin Thread \cup {Handler}

Kind == {"foreground", "background", "tracked", "captured"}
InGroup(k) == k \in {"background", "captured"}

VARIABLES
    terminating,    \* TERMINATING
    children,       \* ACTIVE_CHILDREN
    groups,         \* ACTIVE_GROUPS
    registry,       \* CLEANUP_TARGETS: threads whose workspace is listed
    dirs,           \* threads whose workspace exists on disk
    pc,             \* thread -> its control point
    kind,           \* thread -> the kind of its current or last command
    proc,           \* thread -> its child: "none", "alive", "zombie", "reaped"
    root,           \* threads whose child runs as root: signals are refused
    result,         \* thread -> outcome its caller saw: "none", "ok", "err"
    owner,          \* the thread inside interrupt(), past the swap
    phase,          \* how far the owner got
    taken,          \* the children the owner took from ACTIVE_CHILDREN
    takenGroups,    \* the groups it took from ACTIVE_GROUPS
    interrupted,    \* threads whose child got pacpin's SIGINT
    killed,         \* threads whose child got pacpin's SIGKILL
    unremoved,      \* history: listed workspaces the owner failed to remove
    known           \* history: children listed when TERMINATING was set

sharedVars == <<terminating, children, groups, registry, dirs>>
threadVars == <<pc, kind, proc, root, result>>
ownerVars == <<owner, phase, taken, takenGroups, unremoved, known>>
signalVars == <<interrupted, killed>>
vars == <<sharedVars, threadVars, ownerVars, signalVars>>

Control == {"idle", "made", "registering", "writing", "removed",
            "checked", "spawned", "grouped", "listed", "waiting",
            "failing", "reaped", "ended", "dropping", "parked"}
Phase == {"running", "children", "groups", "signal", "grace", "kill",
          "drain", "exit", "exited"}

ExecutionTypeOK ==
    /\ terminating \in BOOLEAN
    /\ children \subseteq Thread /\ groups \subseteq Thread
    /\ registry \subseteq Thread /\ dirs \subseteq Thread
    /\ pc \in [Thread -> Control]
    /\ kind \in [Thread -> Kind]
    /\ proc \in [Thread -> {"none", "alive", "zombie", "reaped"}]
    /\ root \subseteq Thread
    /\ result \in [Thread -> {"none", "ok", "err"}]
    /\ owner \in Thread \cup {Handler, Nobody}
    /\ phase \in Phase
    /\ taken \subseteq Thread /\ takenGroups \subseteq Thread
    /\ interrupted \subseteq Thread /\ killed \subseteq Thread
    /\ unremoved \subseteq Thread /\ known \subseteq Thread

ExecutionInit ==
    /\ terminating = FALSE
    /\ children = {} /\ groups = {} /\ registry = {} /\ dirs = {}
    /\ pc = [t \in Thread |-> "idle"]
    /\ kind = [t \in Thread |-> "tracked"]
    /\ proc = [t \in Thread |-> "none"]
    /\ root = {}
    /\ result = [t \in Thread |-> "none"]
    /\ owner = Nobody /\ phase = "running"
    /\ taken = {} /\ takenGroups = {} /\ unremoved = {} /\ known = {}
    /\ interrupted = {} /\ killed = {}

-----------------------------------------------------------------------------
(* Steps.  process::exit stops every thread wherever it is.                *)
At(t, c) == phase # "exited" /\ pc[t] = c
Goto(t, c) == pc' = [pc EXCEPT ![t] = c]

(* A signal that ends the child of every thread of S, root's excepted.     *)
Slain(S) == [t \in Thread |->
    IF t \in S \ root /\ proc[t] = "alive" THEN "zombie" ELSE proc[t]]

(* interrupt(): the first caller owns the shutdown, later ones park.       *)
Interrupt(t) ==
    /\ phase # "exited"
    /\ terminating' = TRUE
    /\ IF terminating
       THEN UNCHANGED ownerVars
       ELSE /\ owner' = t
            /\ phase' = "children"
            /\ known' = children
            /\ UNCHANGED <<taken, takenGroups, unremoved>>
    /\ UNCHANGED <<children, groups, registry, dirs>>

Park(t) == Goto(t, "parked") /\ Interrupt(t)

(* SIGINT or SIGTERM reaches pacpin.                                       *)
Signalled ==
    /\ Interrupt(Handler)
    /\ UNCHANGED <<threadVars, signalVars>>

-----------------------------------------------------------------------------
(* Workspaces: mkdtemp, register, write into it, remove, unregister.       *)
MakeDir(t) ==
    /\ At(t, "idle") /\ t \notin dirs
    /\ dirs' = dirs \cup {t}
    /\ Goto(t, "made")
    /\ UNCHANGED <<terminating, children, groups, registry, kind, proc, root,
                   result, ownerVars, signalVars>>

(* Registry::register, first look at the flag.                             *)
Register(t) ==
    /\ At(t, "made")
    /\ IF terminating
       THEN dirs' = dirs \ {t} /\ Goto(t, "idle")
       ELSE dirs' = dirs /\ Goto(t, "registering")
    /\ UNCHANGED <<terminating, children, groups, registry, kind, proc, root,
                   result, ownerVars, signalVars>>

(* Its critical section: look again, then list the path.                   *)
RegisterLocked(t) ==
    /\ At(t, "registering")
    /\ IF terminating
       THEN dirs' = dirs \ {t} /\ registry' = registry
       ELSE dirs' = dirs /\ registry' = registry \cup {t}
    /\ Goto(t, "idle")
    /\ UNCHANGED <<terminating, children, groups, kind, proc, root, result,
                   ownerVars, signalVars>>

(* The thread itself writes into its workspace (a release download).       *)
Write(t) ==
    /\ \/ At(t, "idle") /\ t \in dirs /\ Goto(t, "writing")
       \/ At(t, "writing") /\ Goto(t, "idle")
    /\ UNCHANGED <<sharedVars, kind, proc, root, result, ownerVars, signalVars>>

(* Drop removes the tree first and takes it off the registry afterwards.   *)
RemoveDir(t) ==
    /\ At(t, "idle") /\ t \in dirs
    /\ dirs' = dirs \ {t}
    /\ Goto(t, "removed")
    /\ UNCHANGED <<terminating, children, groups, registry, kind, proc, root,
                   result, ownerVars, signalVars>>

Unlist(t) ==
    /\ At(t, "removed")
    /\ registry' = registry \ {t}
    /\ Goto(t, "idle")
    /\ UNCHANGED <<terminating, children, groups, dirs, kind, proc, root,
                   result, ownerVars, signalVars>>

-----------------------------------------------------------------------------
(* Commands.  Every kind looks at the flag before it spawns: a tracked     *)
(* command fails, the others call interrupt() and so park.                 *)
Check(t, k) ==
    /\ At(t, "idle")
    /\ IF ~terminating
       THEN /\ Goto(t, "checked")
            /\ kind' = [kind EXCEPT ![t] = k]
            /\ proc' = [proc EXCEPT ![t] = "none"]
            /\ result' = [result EXCEPT ![t] = "none"]
            /\ root' = root \ {t}
            /\ interrupted' = interrupted \ {t}
            /\ killed' = killed \ {t}
            /\ UNCHANGED <<sharedVars, ownerVars>>
       ELSE /\ IF k = "tracked"
               THEN /\ result' = [result EXCEPT ![t] = "err"]
                    /\ UNCHANGED <<pc, sharedVars, ownerVars>>
               ELSE Park(t) /\ UNCHANGED result
            /\ UNCHANGED <<kind, proc, root, signalVars>>

(* command.spawn() fails, or there is a new child; sudo's runs as root,    *)
(* a captured metadata command never does.                                 *)
Spawn(t) ==
    /\ At(t, "checked")
    /\ \/ /\ Goto(t, "idle")
          /\ result' = [result EXCEPT ![t] = "err"]
          /\ UNCHANGED <<proc, root>>
       \/ /\ Goto(t, "spawned")
          /\ proc' = [proc EXCEPT ![t] = "alive"]
          /\ \/ root' = root
             \/ kind[t] # "captured" /\ root' = root \cup {t}
          /\ result' = result
    /\ UNCHANGED <<kind, sharedVars, ownerVars, signalVars>>

(* register_child, or the first half of register_child_group.              *)
List(t) ==
    /\ \/ /\ At(t, "spawned") /\ InGroup(kind[t])
          /\ groups' = groups \cup {t}
          /\ children' = children
          /\ Goto(t, "grouped")
       \/ /\ \/ At(t, "spawned") /\ ~InGroup(kind[t])
             \/ At(t, "grouped")
          /\ children' = children \cup {t}
          /\ groups' = groups
          /\ Goto(t, "listed")
    /\ UNCHANGED <<terminating, registry, dirs, kind, proc, root, result,
                   ownerVars, signalVars>>

(* Only run_tracked_command looks at the flag again once the pid is        *)
(* listed; the wait that follows therefore ends in every case.             *)
Recheck(t) ==
    /\ At(t, "listed")
    /\ Goto(t, "waiting")
    /\ IF kind[t] = "tracked" /\ terminating
       THEN proc' = Slain({t}) /\ killed' = killed \cup ({t} \ root)
       ELSE UNCHANGED <<proc, killed>>
    /\ UNCHANGED <<sharedVars, kind, root, result, ownerVars, interrupted>>

(* A captured command is killed when it overflows its limit, runs into its *)
(* timeout or pacpin is terminating: its loop sees any of them.            *)
Abort(t) ==
    /\ At(t, "waiting") /\ kind[t] = "captured" /\ proc[t] = "alive"
    /\ proc' = Slain({t})
    /\ killed' = killed \cup {t}
    /\ UNCHANGED <<sharedVars, pc, kind, root, result, ownerVars, interrupted>>

(* Relaying a foreground child's output fails: ChildGuard's drop kills the *)
(* child and waits for it before it takes the pid off the lists.           *)
RelayError(t) ==
    /\ At(t, "waiting") /\ kind[t] = "foreground"
    /\ proc' = Slain({t})
    /\ killed' = killed \cup {u \in {t} \ root : proc[u] = "alive"}
    /\ Goto(t, "failing")
    /\ UNCHANGED <<sharedVars, kind, root, result, ownerVars, interrupted>>

ReapFailed(t) ==
    /\ At(t, "failing") /\ proc[t] = "zombie"
    /\ proc' = [proc EXCEPT ![t] = "reaped"]
    /\ result' = [result EXCEPT ![t] = "err"]
    /\ Goto(t, "dropping")
    /\ UNCHANGED <<sharedVars, kind, root, ownerVars, signalVars>>

(* wait() or try_wait() reaps the child: its pid is free from here on.     *)
Reap(t) ==
    /\ At(t, "waiting") /\ proc[t] = "zombie"
    /\ proc' = [proc EXCEPT ![t] = "reaped"]
    /\ Goto(t, "reaped")
    /\ UNCHANGED <<sharedVars, kind, root, result, ownerVars, signalVars>>

(* run_tracked_command unlists the pid before it looks at the flag, and    *)
(* reports Interrupted when it is set.                                     *)
UnlistTracked(t) ==
    /\ At(t, "reaped") /\ kind[t] = "tracked"
    /\ children' = children \ {t}
    /\ Goto(t, "ended")
    /\ UNCHANGED <<terminating, groups, registry, dirs, kind, proc, root,
                   result, ownerVars, signalVars>>

(* The end of run_tracked_command.                                         *)
ReturnTracked(t) ==
    /\ At(t, "ended")
    /\ Goto(t, "idle")
    /\ result' = [result EXCEPT ![t] = IF terminating THEN "err" ELSE "ok"]
    /\ UNCHANGED <<sharedVars, kind, proc, root, ownerVars, signalVars>>

(* The other kinds accept the status only when nobody is terminating and   *)
(* park otherwise; a captured command that was aborted is an error.        *)
Accept(t) ==
    /\ At(t, "reaped") /\ kind[t] # "tracked"
    /\ IF terminating
       THEN Park(t) /\ UNCHANGED result
       ELSE /\ Goto(t, "dropping")
            /\ result' = [result EXCEPT ![t] =
                              IF t \in killed THEN "err" ELSE "ok"]
            /\ UNCHANGED <<sharedVars, ownerVars>>
    /\ UNCHANGED <<kind, proc, root, signalVars>>

(* Sudo can own the terminal: pacman's interruption diagnostic makes the   *)
(* thread that relayed it call interrupt() itself, whatever the status.    *)
InterruptedChild(t) ==
    /\ At(t, "reaped") /\ kind[t] = "foreground"
    /\ Park(t)
    /\ UNCHANGED <<kind, proc, root, result, signalVars>>

(* ChildGuard's drop: unregister_child after the status was accepted.      *)
DropGuard(t) ==
    /\ At(t, "dropping")
    /\ children' = children \ {t}
    /\ groups' = groups \ {t}
    /\ Goto(t, "idle")
    /\ UNCHANGED <<terminating, registry, dirs, kind, proc, root, result,
                   ownerVars, signalVars>>

(* A child ends by itself, also some time after pacpin is gone.            *)
ChildExit(t) ==
    /\ proc[t] = "alive"
    /\ proc' = [proc EXCEPT ![t] = "zombie"]
    /\ UNCHANGED <<sharedVars, pc, kind, root, result, ownerVars, signalVars>>

-----------------------------------------------------------------------------
(* The owner of the shutdown: kill_active_children takes both lists, one   *)
(* after the other, and terminate_children works on what it took.          *)
TakeChildren ==
    /\ phase = "children"
    /\ taken' = children /\ children' = {}
    /\ phase' = "groups"
    /\ UNCHANGED <<terminating, groups, registry, dirs, threadVars, owner,
                   takenGroups, unremoved, known, signalVars>>

TakeGroups ==
    /\ phase = "groups"
    /\ takenGroups' = groups /\ groups' = {}
    /\ phase' = "signal"
    /\ UNCHANGED <<terminating, children, registry, dirs, threadVars, owner,
                   taken, unremoved, known, signalVars>>

(* Fault: pid 0 in the list, which signals pacpin's own process group.     *)
SignalSelf ==
    /\ phase = "signal"
    /\ interrupted' = interrupted \cup taken \cup {owner}
    /\ phase' = "grace"
    /\ UNCHANGED <<sharedVars, threadVars, owner, taken, takenGroups,
                   unremoved, known, killed>>

(* SIGINT to every taken child, or to its whole group.  A pid that was     *)
(* reaped after it was taken gets the signal for nothing.                  *)
SignalAll ==
    /\ phase = "signal"
    /\ interrupted' = interrupted \cup {t \in taken \ root : proc[t] = "alive"}
    /\ phase' = "grace"
    /\ UNCHANGED <<sharedVars, threadVars, owner, taken, takenGroups,
                   unremoved, known, killed>>

(* Two seconds pass, or every taken child is seen to be gone; those are    *)
(* not signalled again.                                                    *)
GraceOver ==
    /\ phase = "grace"
    /\ taken' = {t \in taken : proc[t] = "alive"}
    /\ phase' = "kill"
    /\ UNCHANGED <<sharedVars, threadVars, owner, takenGroups, unremoved,
                   known, signalVars>>

(* Fault: only process groups are killed.                                  *)
KillGroups ==
    /\ phase = "kill"
    /\ proc' = Slain(takenGroups)
    /\ killed' = killed \cup {t \in takenGroups \ root : proc[t] = "alive"}
    /\ phase' = "drain"
    /\ UNCHANGED <<sharedVars, pc, kind, root, result, owner, taken,
                   takenGroups, unremoved, known, interrupted>>

(* Fault: children listed in the meantime are killed with the others.      *)
KillListed ==
    /\ phase = "kill"
    /\ proc' = Slain(taken \cup takenGroups \cup children)
    /\ killed' = killed \cup {t \in (taken \cup takenGroups \cup children) \ root :
                                proc[t] = "alive"}
    /\ phase' = "drain"
    /\ UNCHANGED <<sharedVars, pc, kind, root, result, owner, taken,
                   takenGroups, unremoved, known, interrupted>>

(* SIGKILL to the survivors and to every group.                            *)
KillAll ==
    /\ phase = "kill"
    /\ proc' = Slain(taken \cup takenGroups)
    /\ killed' = killed \cup
          {t \in (taken \cup takenGroups) \ root : proc[t] = "alive"}
    /\ phase' = "drain"
    /\ UNCHANGED <<sharedVars, pc, kind, root, result, owner, taken,
                   takenGroups, unremoved, known, interrupted>>

(* Registry::cleanup removes every listed workspace; removing one that its *)
(* thread is writing into may fail, which is only reported.                *)
Drain ==
    /\ phase = "drain"
    /\ \E left \in SUBSET {t \in registry : pc[t] = "writing"} :
          /\ dirs' = dirs \ (registry \ left)
          /\ unremoved' = left
    /\ registry' = {}
    /\ phase' = "exit"
    /\ UNCHANGED <<terminating, children, groups, threadVars, owner, taken,
                   takenGroups, known, signalVars>>

(* The terminal is restored and process::exit(130) ends every thread.      *)
Exit ==
    /\ phase = "exit"
    /\ phase' = "exited"
    /\ UNCHANGED <<sharedVars, threadVars, owner, taken, takenGroups,
                   unremoved, known, signalVars>>

OwnerStep == TakeChildren \/ TakeGroups \/ SignalAll \/ GraceOver \/ KillAll
             \/ Drain \/ Exit

WorkspaceStep(t) == MakeDir(t) \/ Register(t) \/ RegisterLocked(t) \/ Write(t)
                    \/ RemoveDir(t) \/ Unlist(t)

CommandStep(t) == \/ \E k \in Kind : Check(t, k)
                  \/ Spawn(t) \/ List(t) \/ Recheck(t) \/ Abort(t)
                  \/ RelayError(t) \/ ReapFailed(t) \/ Reap(t)
                  \/ UnlistTracked(t) \/ ReturnTracked(t) \/ Accept(t)
                  \/ InterruptedChild(t) \/ DropGuard(t)

ExecutionNext ==
    \/ Signalled
    \/ OwnerStep
    \/ \E t \in Thread : WorkspaceStep(t) \/ CommandStep(t) \/ ChildExit(t)

ExecutionSpec == ExecutionInit /\ [][ExecutionNext]_vars


-----------------------------------------------------------------------------
(* Children are dead before workspaces are removed and before pacpin goes: *)
(* every child that was listed when the shutdown began is, unless it runs  *)
(* as root, whatever its thread does in the meantime.                      *)
ListedChildrenDieFirst ==
    phase \in {"drain", "exit", "exited"} =>
        \A t \in known \ root : proc[t] # "alive"

(* A tracked command whose spawn raced with the shutdown is never waited   *)
(* for unwatched: it is in the owner's list, or dead, or out of reach.     *)
NoUnwatchedWait ==
    \A t \in Thread :
        /\ kind[t] = "tracked" /\ pc[t] = "waiting" /\ proc[t] = "alive"
        /\ phase \in {"groups", "signal", "grace", "kill", "drain"}
        => t \in taken \cup root

(* A caller never sees the status of a child that pacpin itself signalled, *)
(* so a cut-short command cannot pass for a finished one.                  *)
NoDisturbedSuccess ==
    \A t \in Thread : result[t] = "ok" => t \notin interrupted \cup killed

(* A workspace that outlives the process belongs to a thread that was      *)
(* between its creation and its listing, or wrote into it while the owner  *)
(* removed it.                                                             *)
OnlyRacingWorkspacesLeak ==
    phase = "exited" =>
        \A t \in dirs : pc[t] \in {"made", "registering"} \/ t \in unremoved

(* However signals, spawns and ends of children interleave with it, a      *)
(* shutdown leaves no child and takes no cut-short command for a finished  *)
(* one.                                                                    *)
ShutdownIsClean == ListedChildrenDieFirst /\ NoUnwatchedWait /\ NoDisturbedSuccess
                   /\ OnlyRacingWorkspacesLeak

(* "Let sudo relay interruption and let pacman release its database lock"   *)
(* (mod.rs:78): the shutdown kills no foreground child, and no child of    *)
(* any kind that was listed when the shutdown began, a download in the     *)
(* background among them, that it has not interrupted before.              *)
GracefulFirst ==
    phase = "kill" /\ phase' = "drain" =>
        \A t \in killed' \ killed : kind[t] = "foreground" \/ t \in known => t \in interrupted

(* Whoever calls interrupt() again, a second signal or a thread whose      *)
(* child was interrupted, neither takes the shutdown over nor restarts it. *)
OneShutdown ==
    terminating =>
        /\ terminating' /\ owner' = owner /\ known' = known
        /\ phase' # phase => phase' \notin {"running", "children"}

(* A shutdown happens once, by one thread, with SIGINT before SIGKILL.     *)
ShutdownIsOrderly == [][GracefulFirst /\ OneShutdown]_vars

-----------------------------------------------------------------------------
(* The inductive invariant.  What the lists, the child and the outcome of  *)
(* a thread are at each of its control points:                             *)
ThreadInv ==
    \A t \in Thread :
        /\ pc[t] \in {"reaped", "ended", "dropping"} => proc[t] = "reaped"
        /\ pc[t] \in {"checked", "spawned", "grouped", "listed", "waiting",
                      "failing", "reaped", "ended"} => result[t] # "ok"
        /\ pc[t] = "failing" => kind[t] = "foreground"
        /\ pc[t] = "ended" => kind[t] = "tracked"
        /\ t \in children => pc[t] \in {"listed", "waiting", "failing", "reaped",
                                       "dropping", "parked"}
        /\ pc[t] \in {"listed", "waiting", "failing", "reaped"}
           /\ phase \in {"running", "children"} => t \in children
        /\ t \in groups => pc[t] \in {"grouped", "listed", "waiting", "reaped",
                                     "dropping", "parked"}
        /\ t \in groups \cup takenGroups => InGroup(kind[t])
        /\ result[t] = "ok" => proc[t] = "reaped"

(* a workspace on disk is in the registry once its thread has listed it;   *)
WorkspaceInv ==
    /\ \A t \in dirs : \/ pc[t] \in {"made", "registering"}
                       \/ t \in registry \cup unremoved
    /\ \A t \in Thread : pc[t] = "removed" => t \notin dirs
    /\ phase \in {"exit", "exited"} => registry = {}
    /\ phase \notin {"exit", "exited"} => unremoved = {}

(* nobody is signalled before the flag is set, but by its own thread; and  *)
(* a listed child stays in the owner's hands until it is dead.             *)
OwnerInv ==
    /\ terminating <=> phase # "running"
    /\ ~terminating =>
          /\ known = {} /\ interrupted = {} /\ takenGroups = {}
          /\ \A t \in Thread : pc[t] # "parked"
          /\ \A t \in killed : kind[t] \in {"foreground", "captured"}
    /\ phase \in {"running", "children"} => taken = {}
    /\ \A t \in known \cup taken : pc[t] # "checked"
    /\ \A t \in known : proc[t] = "alive" =>
          \/ phase = "children" /\ t \in children
          \/ phase \in {"groups", "signal", "grace", "kill"} /\ t \in taken
          \/ t \in root
    /\ phase \in {"grace", "kill"} =>
          \A t \in taken \ root : proc[t] = "alive" => t \in interrupted

ExecutionInv == ExecutionTypeOK /\ ThreadInv /\ WorkspaceInv /\ OwnerInv /\ NoUnwatchedWait
        /\ NoDisturbedSuccess
=============================================================================
