----------------------------- MODULE PackageLock -----------------------------
(***************************************************************************)
(* pacman's database lock as pm/lock.rs reads it, and the package managers  *)
(* of other processes that take it.                                        *)
(*                                                                         *)
(* pacpin never makes db.lck: the commands it runs do. It looks whether the *)
(* file is there and whether the process behind it still runs, which for a  *)
(* file without a PID means any process with a known name.                 *)
(***************************************************************************)
EXTENDS Naturals

CONSTANTS
    None,
    Manager          \* other processes with the name of a package manager

Lock == [by : Manager, pid : BOOLEAN]

ASSUME LockAssumption == None \notin Lock

VARIABLES
    lock,            \* db.lck: None or [by, pid]; pid tells whether it names its maker
    status           \* manager -> "absent", "running", "holding" or "gone"

lockVars == << lock, status >>

Running == { m \in Manager : status[m] \in {"running", "holding"} }

(* get_lock_info: a PID is probed, without one the processes are searched.    *)
HolderLives == IF lock.pid THEN lock.by \in Running ELSE Running # {}

(* check_lock fails for any lock, wait_for_lock gives up at once on a dead one. *)
Unlocked == lock = None
StaleLock == lock # None /\ ~HolderLives

-----------------------------------------------------------------------------
(***************************************************************************)
(* The other managers. Each runs once and works under the lock.             *)
(***************************************************************************)

ManagerStarts(m) ==
    /\ status[m] = "absent"
    /\ status' = [status EXCEPT ![m] = "running"]
    /\ UNCHANGED lock

ManagerLocks(m) ==
    /\ status[m] = "running" /\ lock = None
    /\ status' = [status EXCEPT ![m] = "holding"]
    /\ \E pid \in BOOLEAN : lock' = [by |-> m, pid |-> pid]

ManagerEnds(m) ==
    /\ status[m] \in {"running", "holding"}
    /\ status' = [status EXCEPT ![m] = "gone"]
    /\ lock' = (IF status[m] = "holding" THEN None ELSE lock)

(* A killed manager leaves its lock behind, until the administrator does what  *)
(* the message of check_lock says.                                         *)
ManagerDies(m) ==
    /\ status[m] = "holding"
    /\ status' = [status EXCEPT ![m] = "gone"]
    /\ UNCHANGED lock

StaleLockRemoved ==
    /\ StaleLock
    /\ lock' = None
    /\ UNCHANGED status

LockTypeOK ==
    /\ status \in [Manager -> {"absent", "running", "holding", "gone"}]
    /\ lock \in {None} \cup Lock
=============================================================================
