------------------------------- MODULE ThreadProofs -------------------------
(***************************************************************************)
(* Proofs about what runs beside the main thread: the commands and the     *)
(* shutdown of a process (Execution), for every set of threads, the        *)
(* downloads of a session (Preparation), for every plan, every set of jobs *)
(* and every assignment of policies, and an ephemeral run with its         *)
(* download threads, its signals and the sweep of another pacpin           *)
(* (Ephemeral), for every invocation and every world it meets.             *)
(***************************************************************************)
EXTENDS Execution, Preparation, Ephemeral, SubsequenceProofs

-----------------------------------------------------------------------------
(***************************************************************************)
(* Execution. The inductive invariant ExecutionInv is proved part by part, *)
(* every part with one step per action.  OwnerInv is what the others rest  *)
(* on: before the flag is set nothing is signalled but by its own thread,  *)
(* and afterwards no thread begins a command, so that a child the owner has*)
(* in hand stays the child it was.                                         *)
(***************************************************************************)

LEMMA ExecutionInitInv == ExecutionInit => ExecutionInv
  BY DEF ExecutionInit, ExecutionInv, ExecutionTypeOK, ThreadInv, WorkspaceInv, OwnerInv,
         NoUnwatchedWait, NoDisturbedSuccess, Kind, Control, Phase

(* Every action keeps the types.                                           *)
LEMMA NextExecutionTypeOK ==
    ASSUME ExecutionTypeOK, [ExecutionNext]_vars
    PROVE  ExecutionTypeOK'
<1> USE DEF ExecutionTypeOK, Kind, Control, Phase, At, Goto, sharedVars, threadVars,
           ownerVars, signalVars
<1>1. CASE UNCHANGED vars
  BY <1>1 DEF vars
<1>2. CASE Signalled
  BY <1>2 DEF Signalled, Interrupt
<1>3. CASE TakeChildren
  BY <1>3 DEF TakeChildren
<1>4. CASE TakeGroups
  BY <1>4 DEF TakeGroups
<1>5. CASE SignalAll
  BY <1>5 DEF SignalAll
<1>6. CASE GraceOver
  BY <1>6 DEF GraceOver
<1>7. CASE KillAll
  BY <1>7 DEF KillAll, Slain
<1>8. CASE Drain
  BY <1>8 DEF Drain
<1>9. CASE Exit
  BY <1>9 DEF Exit
<1>10. ASSUME NEW t \in Thread, MakeDir(t)
       PROVE  ExecutionTypeOK'
  BY <1>10 DEF MakeDir
<1>11. ASSUME NEW t \in Thread, Register(t)
       PROVE  ExecutionTypeOK'
  BY <1>11 DEF Register
<1>12. ASSUME NEW t \in Thread, RegisterLocked(t)
       PROVE  ExecutionTypeOK'
  BY <1>12 DEF RegisterLocked
<1>13. ASSUME NEW t \in Thread, Write(t)
       PROVE  ExecutionTypeOK'
  BY <1>13 DEF Write
<1>14. ASSUME NEW t \in Thread, RemoveDir(t)
       PROVE  ExecutionTypeOK'
  BY <1>14 DEF RemoveDir
<1>15. ASSUME NEW t \in Thread, Unlist(t)
       PROVE  ExecutionTypeOK'
  BY <1>15 DEF Unlist
<1>16. ASSUME NEW t \in Thread, NEW k \in Kind, Check(t, k)
       PROVE  ExecutionTypeOK'
  <2>1. CASE terminating
    BY <1>16, <2>1 DEF Check, Park, Interrupt
  <2>2. CASE ~terminating
    BY <1>16, <2>2 DEF Check
  <2> QED
    BY <2>1, <2>2
<1>17. ASSUME NEW t \in Thread, Spawn(t)
       PROVE  ExecutionTypeOK'
  BY <1>17 DEF Spawn
<1>18. ASSUME NEW t \in Thread, List(t)
       PROVE  ExecutionTypeOK'
  BY <1>18 DEF List
<1>19. ASSUME NEW t \in Thread, Recheck(t)
       PROVE  ExecutionTypeOK'
  BY <1>19 DEF Recheck, Slain
<1>20. ASSUME NEW t \in Thread, Abort(t)
       PROVE  ExecutionTypeOK'
  BY <1>20 DEF Abort, Slain
<1>21. ASSUME NEW t \in Thread, RelayError(t)
       PROVE  ExecutionTypeOK'
  BY <1>21 DEF RelayError, Slain
<1>22. ASSUME NEW t \in Thread, ReapFailed(t)
       PROVE  ExecutionTypeOK'
  BY <1>22 DEF ReapFailed
<1>23. ASSUME NEW t \in Thread, Reap(t)
       PROVE  ExecutionTypeOK'
  BY <1>23 DEF Reap
<1>24. ASSUME NEW t \in Thread, UnlistTracked(t)
       PROVE  ExecutionTypeOK'
  BY <1>24 DEF UnlistTracked
<1>25. ASSUME NEW t \in Thread, ReturnTracked(t)
       PROVE  ExecutionTypeOK'
  BY <1>25 DEF ReturnTracked
<1>26. ASSUME NEW t \in Thread, Accept(t)
       PROVE  ExecutionTypeOK'
  BY <1>26 DEF Accept, Park, Interrupt
<1>27. ASSUME NEW t \in Thread, InterruptedChild(t)
       PROVE  ExecutionTypeOK'
  BY <1>27 DEF InterruptedChild, Park, Interrupt
<1>28. ASSUME NEW t \in Thread, DropGuard(t)
       PROVE  ExecutionTypeOK'
  BY <1>28 DEF DropGuard
<1>29. ASSUME NEW t \in Thread, ChildExit(t)
       PROVE  ExecutionTypeOK'
  BY <1>29 DEF ChildExit
<1> QED
  BY <1>1, <1>2, <1>3, <1>4, <1>5, <1>6, <1>7, <1>8, <1>9, <1>10, <1>11,
     <1>12, <1>13, <1>14, <1>15, <1>16, <1>17, <1>18, <1>19, <1>20, <1>21,
           <1>22, <1>23, <1>24, <1>25, <1>26, <1>27, <1>28, <1>29
     DEF ExecutionNext, OwnerStep, WorkspaceStep, CommandStep

(* A thread's lists, child and outcome fit its control point.  That its    *)
(* groups are those of the kinds that have one needs OwnerInv: the kind    *)
(* changes in Check only, before the flag is set.                          *)
LEMMA NextThreadInv ==
    ASSUME ExecutionTypeOK, ThreadInv, OwnerInv, [ExecutionNext]_vars
    PROVE  ThreadInv'
<1> USE DEF ExecutionTypeOK, ThreadInv, OwnerInv, InGroup, Kind, Phase,
           At, Goto, sharedVars, threadVars, ownerVars, signalVars
<1>1. CASE UNCHANGED vars
  BY <1>1 DEF vars
<1>2. CASE Signalled
  BY <1>2 DEF Signalled, Interrupt
<1>3. CASE TakeChildren
  BY <1>3 DEF TakeChildren
<1>4. CASE TakeGroups
  BY <1>4 DEF TakeGroups
<1>5. CASE SignalAll
  BY <1>5 DEF SignalAll
<1>6. CASE GraceOver
  BY <1>6 DEF GraceOver
<1>7. CASE KillAll
  BY <1>7 DEF KillAll, Slain
<1>8. CASE Drain
  BY <1>8 DEF Drain
<1>9. CASE Exit
  BY <1>9 DEF Exit
<1>10. ASSUME NEW t \in Thread, MakeDir(t)
       PROVE  ThreadInv'
  BY <1>10 DEF MakeDir
<1>11. ASSUME NEW t \in Thread, Register(t)
       PROVE  ThreadInv'
  BY <1>11 DEF Register
<1>12. ASSUME NEW t \in Thread, RegisterLocked(t)
       PROVE  ThreadInv'
  BY <1>12 DEF RegisterLocked
<1>13. ASSUME NEW t \in Thread, Write(t)
       PROVE  ThreadInv'
  BY <1>13 DEF Write
<1>14. ASSUME NEW t \in Thread, RemoveDir(t)
       PROVE  ThreadInv'
  BY <1>14 DEF RemoveDir
<1>15. ASSUME NEW t \in Thread, Unlist(t)
       PROVE  ThreadInv'
  BY <1>15 DEF Unlist
<1>16. ASSUME NEW t \in Thread, NEW k \in Kind, Check(t, k)
       PROVE  ThreadInv'
  BY <1>16 DEF Check, Park, Interrupt
<1>17. ASSUME NEW t \in Thread, Spawn(t)
       PROVE  ThreadInv'
  BY <1>17 DEF Spawn
<1>18. ASSUME NEW t \in Thread, List(t)
       PROVE  ThreadInv'
  BY <1>18 DEF List
<1>19. ASSUME NEW t \in Thread, Recheck(t)
       PROVE  ThreadInv'
  BY <1>19 DEF Recheck, Slain
<1>20. ASSUME NEW t \in Thread, Abort(t)
       PROVE  ThreadInv'
  BY <1>20 DEF Abort, Slain
<1>21. ASSUME NEW t \in Thread, RelayError(t)
       PROVE  ThreadInv'
  BY <1>21 DEF RelayError, Slain
<1>22. ASSUME NEW t \in Thread, ReapFailed(t)
       PROVE  ThreadInv'
  BY <1>22 DEF ReapFailed
<1>23. ASSUME NEW t \in Thread, Reap(t)
       PROVE  ThreadInv'
  BY <1>23 DEF Reap
<1>24. ASSUME NEW t \in Thread, UnlistTracked(t)
       PROVE  ThreadInv'
  BY <1>24 DEF UnlistTracked
<1>25. ASSUME NEW t \in Thread, ReturnTracked(t)
       PROVE  ThreadInv'
  BY <1>25 DEF ReturnTracked
<1>26. ASSUME NEW t \in Thread, Accept(t)
       PROVE  ThreadInv'
  BY <1>26 DEF Accept, Park, Interrupt
<1>27. ASSUME NEW t \in Thread, InterruptedChild(t)
       PROVE  ThreadInv'
  BY <1>27 DEF InterruptedChild, Park, Interrupt
<1>28. ASSUME NEW t \in Thread, DropGuard(t)
       PROVE  ThreadInv'
  BY <1>28 DEF DropGuard
<1>29. ASSUME NEW t \in Thread, ChildExit(t)
       PROVE  ThreadInv'
  BY <1>29 DEF ChildExit
<1> QED
  BY <1>1, <1>2, <1>3, <1>4, <1>5, <1>6, <1>7, <1>8, <1>9, <1>10, <1>11,
     <1>12, <1>13, <1>14, <1>15, <1>16, <1>17, <1>18, <1>19, <1>20, <1>21,
           <1>22, <1>23, <1>24, <1>25, <1>26, <1>27, <1>28, <1>29
     DEF ExecutionNext, OwnerStep, WorkspaceStep, CommandStep

(* No step of a thread or of the owner leaves a workspace on disk that is  *)
(* neither listed nor about to be, but those Drain failed to remove.       *)
LEMMA NextWorkspaceInv ==
    ASSUME ExecutionTypeOK, WorkspaceInv, OwnerInv, [ExecutionNext]_vars
    PROVE  WorkspaceInv'
<1> USE DEF ExecutionTypeOK, WorkspaceInv, At, Goto, sharedVars, threadVars, ownerVars,
           signalVars
<1>0. terminating <=> phase # "running"
  BY DEF OwnerInv
<1>1. CASE UNCHANGED vars
  BY <1>1 DEF vars
<1>2. CASE Signalled
  BY <1>0, <1>2 DEF Signalled, Interrupt
<1>3. CASE TakeChildren
  BY <1>3 DEF TakeChildren
<1>4. CASE TakeGroups
  BY <1>4 DEF TakeGroups
<1>5. CASE SignalAll
  BY <1>5 DEF SignalAll
<1>6. CASE GraceOver
  BY <1>6 DEF GraceOver
<1>7. CASE KillAll
  BY <1>7 DEF KillAll, Slain
<1>8. CASE Drain
  BY <1>8 DEF Drain
<1>9. CASE Exit
  BY <1>9 DEF Exit
<1>10. ASSUME NEW t \in Thread, MakeDir(t)
       PROVE  WorkspaceInv'
  BY <1>0, <1>10 DEF MakeDir
<1>11. ASSUME NEW t \in Thread, Register(t)
       PROVE  WorkspaceInv'
  BY <1>0, <1>11 DEF Register
<1>12. ASSUME NEW t \in Thread, RegisterLocked(t)
       PROVE  WorkspaceInv'
  BY <1>0, <1>12 DEF RegisterLocked
<1>13. ASSUME NEW t \in Thread, Write(t)
       PROVE  WorkspaceInv'
  BY <1>13 DEF Write
<1>14. ASSUME NEW t \in Thread, RemoveDir(t)
       PROVE  WorkspaceInv'
  BY <1>14 DEF RemoveDir
<1>15. ASSUME NEW t \in Thread, Unlist(t)
       PROVE  WorkspaceInv'
  BY <1>15 DEF Unlist
<1>16. ASSUME NEW t \in Thread, NEW k \in Kind, Check(t, k)
       PROVE  WorkspaceInv'
  BY <1>0, <1>16 DEF Check, Park, Interrupt
<1>17. ASSUME NEW t \in Thread, Spawn(t)
       PROVE  WorkspaceInv'
  BY <1>17 DEF Spawn
<1>18. ASSUME NEW t \in Thread, List(t)
       PROVE  WorkspaceInv'
  BY <1>18 DEF List
<1>19. ASSUME NEW t \in Thread, Recheck(t)
       PROVE  WorkspaceInv'
  BY <1>19 DEF Recheck, Slain
<1>20. ASSUME NEW t \in Thread, Abort(t)
       PROVE  WorkspaceInv'
  BY <1>20 DEF Abort, Slain
<1>21. ASSUME NEW t \in Thread, RelayError(t)
       PROVE  WorkspaceInv'
  BY <1>21 DEF RelayError, Slain
<1>22. ASSUME NEW t \in Thread, ReapFailed(t)
       PROVE  WorkspaceInv'
  BY <1>22 DEF ReapFailed
<1>23. ASSUME NEW t \in Thread, Reap(t)
       PROVE  WorkspaceInv'
  BY <1>23 DEF Reap
<1>24. ASSUME NEW t \in Thread, UnlistTracked(t)
       PROVE  WorkspaceInv'
  BY <1>24 DEF UnlistTracked
<1>25. ASSUME NEW t \in Thread, ReturnTracked(t)
       PROVE  WorkspaceInv'
  BY <1>25 DEF ReturnTracked
<1>26. ASSUME NEW t \in Thread, Accept(t)
       PROVE  WorkspaceInv'
  BY <1>0, <1>26 DEF Accept, Park, Interrupt
<1>27. ASSUME NEW t \in Thread, InterruptedChild(t)
       PROVE  WorkspaceInv'
  BY <1>0, <1>27 DEF InterruptedChild, Park, Interrupt
<1>28. ASSUME NEW t \in Thread, DropGuard(t)
       PROVE  WorkspaceInv'
  BY <1>28 DEF DropGuard
<1>29. ASSUME NEW t \in Thread, ChildExit(t)
       PROVE  WorkspaceInv'
  BY <1>29 DEF ChildExit
<1> QED
  BY <1>1, <1>2, <1>3, <1>4, <1>5, <1>6, <1>7, <1>8, <1>9, <1>10, <1>11,
     <1>12, <1>13, <1>14, <1>15, <1>16, <1>17, <1>18, <1>19, <1>20, <1>21,
           <1>22, <1>23, <1>24, <1>25, <1>26, <1>27, <1>28, <1>29
     DEF ExecutionNext, OwnerStep, WorkspaceStep, CommandStep

(* What was listed when the flag was set stays in the list, then in the    *)
(* owner's hands, until it is dead; and the owner interrupts what it kills. *)
LEMMA NextOwnerInv ==
    ASSUME ExecutionTypeOK, ThreadInv, OwnerInv, [ExecutionNext]_vars
    PROVE  OwnerInv'
<1> USE DEF ExecutionTypeOK, ThreadInv, OwnerInv, Phase,
           At, Goto, sharedVars, threadVars, ownerVars, signalVars
<1>1. CASE UNCHANGED vars
  BY <1>1 DEF vars
<1>2. CASE Signalled
  BY <1>2 DEF Signalled, Interrupt
<1>3. CASE TakeChildren
  BY <1>3 DEF TakeChildren
<1>4. CASE TakeGroups
  BY <1>4 DEF TakeGroups
<1>5. CASE SignalAll
  BY <1>5 DEF SignalAll
<1>6. CASE GraceOver
  BY <1>6 DEF GraceOver
<1>7. CASE KillAll
  BY <1>7 DEF KillAll, Slain
<1>8. CASE Drain
  BY <1>8 DEF Drain
<1>9. CASE Exit
  BY <1>9 DEF Exit
<1>10. ASSUME NEW t \in Thread, MakeDir(t)
       PROVE  OwnerInv'
  BY <1>10 DEF MakeDir
<1>11. ASSUME NEW t \in Thread, Register(t)
       PROVE  OwnerInv'
  BY <1>11 DEF Register
<1>12. ASSUME NEW t \in Thread, RegisterLocked(t)
       PROVE  OwnerInv'
  BY <1>12 DEF RegisterLocked
<1>13. ASSUME NEW t \in Thread, Write(t)
       PROVE  OwnerInv'
  BY <1>13 DEF Write
<1>14. ASSUME NEW t \in Thread, RemoveDir(t)
       PROVE  OwnerInv'
  BY <1>14 DEF RemoveDir
<1>15. ASSUME NEW t \in Thread, Unlist(t)
       PROVE  OwnerInv'
  BY <1>15 DEF Unlist
<1>16. ASSUME NEW t \in Thread, NEW k \in Kind, Check(t, k)
       PROVE  OwnerInv'
  BY <1>16 DEF Check, Park, Interrupt
<1>17. ASSUME NEW t \in Thread, Spawn(t)
       PROVE  OwnerInv'
  BY <1>17 DEF Spawn
<1>18. ASSUME NEW t \in Thread, List(t)
       PROVE  OwnerInv'
  BY <1>18 DEF List
<1>19. ASSUME NEW t \in Thread, Recheck(t)
       PROVE  OwnerInv'
  BY <1>19 DEF Recheck, Slain
<1>20. ASSUME NEW t \in Thread, Abort(t)
       PROVE  OwnerInv'
  BY <1>20 DEF Abort, Slain
<1>21. ASSUME NEW t \in Thread, RelayError(t)
       PROVE  OwnerInv'
  BY <1>21 DEF RelayError, Slain
<1>22. ASSUME NEW t \in Thread, ReapFailed(t)
       PROVE  OwnerInv'
  BY <1>22 DEF ReapFailed
<1>23. ASSUME NEW t \in Thread, Reap(t)
       PROVE  OwnerInv'
  BY <1>23 DEF Reap
<1>24. ASSUME NEW t \in Thread, UnlistTracked(t)
       PROVE  OwnerInv'
  BY <1>24 DEF UnlistTracked
<1>25. ASSUME NEW t \in Thread, ReturnTracked(t)
       PROVE  OwnerInv'
  BY <1>25 DEF ReturnTracked
<1>26. ASSUME NEW t \in Thread, Accept(t)
       PROVE  OwnerInv'
  BY <1>26 DEF Accept, Park, Interrupt
<1>27. ASSUME NEW t \in Thread, InterruptedChild(t)
       PROVE  OwnerInv'
  BY <1>27 DEF InterruptedChild, Park, Interrupt
<1>28. ASSUME NEW t \in Thread, DropGuard(t)
       PROVE  OwnerInv'
  BY <1>28 DEF DropGuard
<1>29. ASSUME NEW t \in Thread, ChildExit(t)
       PROVE  OwnerInv'
  BY <1>29 DEF ChildExit
<1> QED
  BY <1>1, <1>2, <1>3, <1>4, <1>5, <1>6, <1>7, <1>8, <1>9, <1>10, <1>11,
     <1>12, <1>13, <1>14, <1>15, <1>16, <1>17, <1>18, <1>19, <1>20, <1>21,
           <1>22, <1>23, <1>24, <1>25, <1>26, <1>27, <1>28, <1>29
     DEF ExecutionNext, OwnerStep, WorkspaceStep, CommandStep

(* A tracked command is listed before it looks at the flag, and the flag is *)
(* set before the list is taken: one of the two sees the other.            *)
LEMMA NextWatched ==
    ASSUME ExecutionTypeOK, ThreadInv, OwnerInv, NoUnwatchedWait, [ExecutionNext]_vars
    PROVE  NoUnwatchedWait'
<1> USE DEF ExecutionTypeOK, ThreadInv, OwnerInv, NoUnwatchedWait,
           At, Goto, sharedVars, threadVars, ownerVars, signalVars
<1>1. CASE UNCHANGED vars
  BY <1>1 DEF vars
<1>2. CASE Signalled
  BY <1>2 DEF Signalled, Interrupt
<1>3. CASE TakeChildren
  BY <1>3 DEF TakeChildren
<1>4. CASE TakeGroups
  BY <1>4 DEF TakeGroups
<1>5. CASE SignalAll
  BY <1>5 DEF SignalAll
<1>6. CASE GraceOver
  BY <1>6 DEF GraceOver
<1>7. CASE KillAll
  BY <1>7 DEF KillAll, Slain
<1>8. CASE Drain
  BY <1>8 DEF Drain
<1>9. CASE Exit
  BY <1>9 DEF Exit
<1>10. ASSUME NEW t \in Thread, MakeDir(t)
       PROVE  NoUnwatchedWait'
  BY <1>10 DEF MakeDir
<1>11. ASSUME NEW t \in Thread, Register(t)
       PROVE  NoUnwatchedWait'
  BY <1>11 DEF Register
<1>12. ASSUME NEW t \in Thread, RegisterLocked(t)
       PROVE  NoUnwatchedWait'
  BY <1>12 DEF RegisterLocked
<1>13. ASSUME NEW t \in Thread, Write(t)
       PROVE  NoUnwatchedWait'
  BY <1>13 DEF Write
<1>14. ASSUME NEW t \in Thread, RemoveDir(t)
       PROVE  NoUnwatchedWait'
  BY <1>14 DEF RemoveDir
<1>15. ASSUME NEW t \in Thread, Unlist(t)
       PROVE  NoUnwatchedWait'
  BY <1>15 DEF Unlist
<1>16. ASSUME NEW t \in Thread, NEW k \in Kind, Check(t, k)
       PROVE  NoUnwatchedWait'
  BY <1>16 DEF Check, Park, Interrupt
<1>17. ASSUME NEW t \in Thread, Spawn(t)
       PROVE  NoUnwatchedWait'
  BY <1>17 DEF Spawn
<1>18. ASSUME NEW t \in Thread, List(t)
       PROVE  NoUnwatchedWait'
  BY <1>18 DEF List
<1>19. ASSUME NEW t \in Thread, Recheck(t)
       PROVE  NoUnwatchedWait'
  BY <1>19 DEF Recheck, Slain
<1>20. ASSUME NEW t \in Thread, Abort(t)
       PROVE  NoUnwatchedWait'
  BY <1>20 DEF Abort, Slain
<1>21. ASSUME NEW t \in Thread, RelayError(t)
       PROVE  NoUnwatchedWait'
  BY <1>21 DEF RelayError, Slain
<1>22. ASSUME NEW t \in Thread, ReapFailed(t)
       PROVE  NoUnwatchedWait'
  BY <1>22 DEF ReapFailed
<1>23. ASSUME NEW t \in Thread, Reap(t)
       PROVE  NoUnwatchedWait'
  BY <1>23 DEF Reap
<1>24. ASSUME NEW t \in Thread, UnlistTracked(t)
       PROVE  NoUnwatchedWait'
  BY <1>24 DEF UnlistTracked
<1>25. ASSUME NEW t \in Thread, ReturnTracked(t)
       PROVE  NoUnwatchedWait'
  BY <1>25 DEF ReturnTracked
<1>26. ASSUME NEW t \in Thread, Accept(t)
       PROVE  NoUnwatchedWait'
  BY <1>26 DEF Accept, Park, Interrupt
<1>27. ASSUME NEW t \in Thread, InterruptedChild(t)
       PROVE  NoUnwatchedWait'
  BY <1>27 DEF InterruptedChild, Park, Interrupt
<1>28. ASSUME NEW t \in Thread, DropGuard(t)
       PROVE  NoUnwatchedWait'
  BY <1>28 DEF DropGuard
<1>29. ASSUME NEW t \in Thread, ChildExit(t)
       PROVE  NoUnwatchedWait'
  BY <1>29 DEF ChildExit
<1> QED
  BY <1>1, <1>2, <1>3, <1>4, <1>5, <1>6, <1>7, <1>8, <1>9, <1>10, <1>11,
     <1>12, <1>13, <1>14, <1>15, <1>16, <1>17, <1>18, <1>19, <1>20, <1>21,
           <1>22, <1>23, <1>24, <1>25, <1>26, <1>27, <1>28, <1>29
     DEF ExecutionNext, OwnerStep, WorkspaceStep, CommandStep

(* Only a child that is alive is signalled, and a status is accepted after *)
(* the child was reaped.                                                   *)
LEMMA NextUndisturbed ==
    ASSUME ExecutionTypeOK, ThreadInv, OwnerInv, NoDisturbedSuccess, [ExecutionNext]_vars
    PROVE  NoDisturbedSuccess'
<1> USE DEF ExecutionTypeOK, ThreadInv, OwnerInv, NoDisturbedSuccess,
           At, Goto, sharedVars, threadVars, ownerVars, signalVars
<1>1. CASE UNCHANGED vars
  BY <1>1 DEF vars
<1>2. CASE Signalled
  BY <1>2 DEF Signalled, Interrupt
<1>3. CASE TakeChildren
  BY <1>3 DEF TakeChildren
<1>4. CASE TakeGroups
  BY <1>4 DEF TakeGroups
<1>5. CASE SignalAll
  BY <1>5 DEF SignalAll
<1>6. CASE GraceOver
  BY <1>6 DEF GraceOver
<1>7. CASE KillAll
  BY <1>7 DEF KillAll, Slain
<1>8. CASE Drain
  BY <1>8 DEF Drain
<1>9. CASE Exit
  BY <1>9 DEF Exit
<1>10. ASSUME NEW t \in Thread, MakeDir(t)
       PROVE  NoDisturbedSuccess'
  BY <1>10 DEF MakeDir
<1>11. ASSUME NEW t \in Thread, Register(t)
       PROVE  NoDisturbedSuccess'
  BY <1>11 DEF Register
<1>12. ASSUME NEW t \in Thread, RegisterLocked(t)
       PROVE  NoDisturbedSuccess'
  BY <1>12 DEF RegisterLocked
<1>13. ASSUME NEW t \in Thread, Write(t)
       PROVE  NoDisturbedSuccess'
  BY <1>13 DEF Write
<1>14. ASSUME NEW t \in Thread, RemoveDir(t)
       PROVE  NoDisturbedSuccess'
  BY <1>14 DEF RemoveDir
<1>15. ASSUME NEW t \in Thread, Unlist(t)
       PROVE  NoDisturbedSuccess'
  BY <1>15 DEF Unlist
<1>16. ASSUME NEW t \in Thread, NEW k \in Kind, Check(t, k)
       PROVE  NoDisturbedSuccess'
  BY <1>16 DEF Check, Park, Interrupt
<1>17. ASSUME NEW t \in Thread, Spawn(t)
       PROVE  NoDisturbedSuccess'
  BY <1>17 DEF Spawn
<1>18. ASSUME NEW t \in Thread, List(t)
       PROVE  NoDisturbedSuccess'
  BY <1>18 DEF List
<1>19. ASSUME NEW t \in Thread, Recheck(t)
       PROVE  NoDisturbedSuccess'
  BY <1>19 DEF Recheck, Slain
<1>20. ASSUME NEW t \in Thread, Abort(t)
       PROVE  NoDisturbedSuccess'
  BY <1>20 DEF Abort, Slain
<1>21. ASSUME NEW t \in Thread, RelayError(t)
       PROVE  NoDisturbedSuccess'
  BY <1>21 DEF RelayError, Slain
<1>22. ASSUME NEW t \in Thread, ReapFailed(t)
       PROVE  NoDisturbedSuccess'
  BY <1>22 DEF ReapFailed
<1>23. ASSUME NEW t \in Thread, Reap(t)
       PROVE  NoDisturbedSuccess'
  BY <1>23 DEF Reap
<1>24. ASSUME NEW t \in Thread, UnlistTracked(t)
       PROVE  NoDisturbedSuccess'
  BY <1>24 DEF UnlistTracked
<1>25. ASSUME NEW t \in Thread, ReturnTracked(t)
       PROVE  NoDisturbedSuccess'
  BY <1>25 DEF ReturnTracked
<1>26. ASSUME NEW t \in Thread, Accept(t)
       PROVE  NoDisturbedSuccess'
  BY <1>26 DEF Accept, Park, Interrupt
<1>27. ASSUME NEW t \in Thread, InterruptedChild(t)
       PROVE  NoDisturbedSuccess'
  BY <1>27 DEF InterruptedChild, Park, Interrupt
<1>28. ASSUME NEW t \in Thread, DropGuard(t)
       PROVE  NoDisturbedSuccess'
  BY <1>28 DEF DropGuard
<1>29. ASSUME NEW t \in Thread, ChildExit(t)
       PROVE  NoDisturbedSuccess'
  BY <1>29 DEF ChildExit
<1> QED
  BY <1>1, <1>2, <1>3, <1>4, <1>5, <1>6, <1>7, <1>8, <1>9, <1>10, <1>11,
     <1>12, <1>13, <1>14, <1>15, <1>16, <1>17, <1>18, <1>19, <1>20, <1>21,
           <1>22, <1>23, <1>24, <1>25, <1>26, <1>27, <1>28, <1>29
     DEF ExecutionNext, OwnerStep, WorkspaceStep, CommandStep

LEMMA ExecutionNextInv == ExecutionInv /\ [ExecutionNext]_vars => ExecutionInv'
  BY NextExecutionTypeOK, NextThreadInv, NextWorkspaceInv, NextOwnerInv, NextWatched,
     NextUndisturbed DEF ExecutionInv

LEMMA ExecutionInvAlways == ExecutionSpec => []ExecutionInv
  BY ExecutionInitInv, ExecutionNextInv, PTL DEF ExecutionSpec

(* Every variable keeps its type, whatever interleaves.                    *)
THEOREM ExecutionTypeCorrect == ExecutionSpec => []ExecutionTypeOK
  BY ExecutionInvAlways, PTL DEF ExecutionInv

(* However signals, spawns and ends of children interleave with it, a      *)
(* shutdown leaves no listed child alive that it may signal, no tracked    *)
(* command unwatched, no cut-short command that passes for a finished one, *)
(* and no workspace but one that raced with it.                            *)
THEOREM ShutdownCleans == ExecutionSpec => []ShutdownIsClean
<1>1. ExecutionInv => ListedChildrenDieFirst
  BY DEF ExecutionInv, OwnerInv, ListedChildrenDieFirst
<1>2. ExecutionInv => OnlyRacingWorkspacesLeak
  BY DEF ExecutionInv, WorkspaceInv, OnlyRacingWorkspacesLeak
<1>3. ExecutionInv => ShutdownIsClean
  BY <1>1, <1>2 DEF ExecutionInv, ShutdownIsClean
<1> QED
  BY <1>3, ExecutionInvAlways, PTL

(* Only interrupt() and the owner's own steps touch the state of the       *)
(* shutdown.                                                               *)
LEMMA WhoShutsDown ==
    ASSUME [ExecutionNext]_vars
    PROVE  \/ OwnerStep
           \/ \E t \in Thread \cup {Handler} : Interrupt(t)
           \/ UNCHANGED <<terminating, ownerVars>>
<1>1. CASE UNCHANGED vars
  BY <1>1 DEF vars, sharedVars
<1>2. CASE Signalled
  BY <1>2 DEF Signalled
<1>3. ASSUME NEW t \in Thread, WorkspaceStep(t)
      PROVE  UNCHANGED <<terminating, ownerVars>>
  BY <1>3 DEF WorkspaceStep, MakeDir, Register, RegisterLocked, Write, RemoveDir,
              Unlist, sharedVars
<1>4. ASSUME NEW t \in Thread, NEW k \in Kind, Check(t, k)
      PROVE  UNCHANGED <<terminating, ownerVars>> \/ Interrupt(t)
  BY <1>4 DEF Check, Park, sharedVars
<1>5. ASSUME NEW t \in Thread,
             \/ Spawn(t) \/ List(t) \/ Recheck(t) \/ Abort(t) \/ RelayError(t)
             \/ ReapFailed(t) \/ Reap(t) \/ UnlistTracked(t)
             \/ ReturnTracked(t) \/ DropGuard(t) \/ ChildExit(t)
      PROVE  UNCHANGED <<terminating, ownerVars>>
  BY <1>5 DEF Spawn, List, Recheck, Abort, RelayError, ReapFailed, Reap,
              UnlistTracked, ReturnTracked, DropGuard, ChildExit, sharedVars
<1>6. ASSUME NEW t \in Thread, Accept(t) \/ InterruptedChild(t)
      PROVE  UNCHANGED <<terminating, ownerVars>> \/ Interrupt(t)
  BY <1>6 DEF Accept, InterruptedChild, Park, sharedVars
<1> QED
  BY <1>1, <1>2, <1>3, <1>4, <1>5, <1>6 DEF ExecutionNext, CommandStep

(* Only KillAll leads from "kill" to "drain".  A foreground child is in no *)
(* group, so it is killed as one that was taken, and a child that was      *)
(* listed at the beginning was taken; alive as it is, it was interrupted   *)
(* before.                                                                 *)
LEMMA KillIsGraceful ==
    ASSUME ExecutionInv, [ExecutionNext]_vars
    PROVE  GracefulFirst
<1> SUFFICES ASSUME phase = "kill", phase' = "drain",
                    NEW t \in killed' \ killed, kind[t] = "foreground" \/ t \in known
             PROVE  t \in interrupted
  BY DEF GracefulFirst
<1>1. KillAll
  BY WhoShutsDown DEF ownerVars, OwnerStep, Interrupt, TakeChildren, TakeGroups,
                      SignalAll, GraceOver, Drain, Exit
<1>2. t \in (taken \cup takenGroups) \ root /\ proc[t] = "alive"
  BY <1>1 DEF KillAll
<1>3. t \in taken
  BY <1>2 DEF ExecutionInv, ExecutionTypeOK, ThreadInv, OwnerInv, InGroup
<1> QED
  BY <1>2, <1>3 DEF ExecutionInv, OwnerInv

(* Every owner step leads to a later phase, and a second interrupt() finds *)
(* the flag set and changes nothing.                                       *)
LEMMA StepKeepsShutdown ==
    ASSUME ExecutionInv, [ExecutionNext]_vars
    PROVE  OneShutdown
<1> SUFFICES ASSUME terminating
             PROVE  /\ terminating' /\ owner' = owner /\ known' = known
                    /\ phase' # phase => phase' \notin {"running", "children"}
  BY DEF OneShutdown
<1>1. CASE OwnerStep
  BY <1>1 DEF OwnerStep, TakeChildren, TakeGroups, SignalAll, GraceOver, KillAll,
              Drain, Exit, sharedVars
<1>2. CASE \E t \in Thread \cup {Handler} : Interrupt(t)
  BY <1>2 DEF Interrupt, ownerVars
<1>3. CASE UNCHANGED <<terminating, ownerVars>>
  BY <1>3 DEF ownerVars
<1> QED
  BY <1>1, <1>2, <1>3, WhoShutsDown

(* A shutdown happens once, by one thread, and interrupts every foreground *)
(* child, and every child that was listed when it began, before it kills   *)
(* it.                                                                     *)
THEOREM ShutdownOrder == ExecutionSpec => ShutdownIsOrderly
<1>1. ExecutionInv /\ [ExecutionNext]_vars => GracefulFirst /\ OneShutdown
  BY KillIsGraceful, StepKeepsShutdown
<1> QED
  BY <1>1, ExecutionInvAlways, PTL DEF ExecutionSpec, ShutdownIsOrderly

-----------------------------------------------------------------------------
(***************************************************************************)
(* Preparation. The inductive invariant IInv adds Bookkeeping to the type  *)
(* and the safety properties.                                              *)
(***************************************************************************)

(* The inductive invariant holds in a new session.                         *)
LEMMA InitIInv == Init => IInv
  BY DEF Init, IInv, TypeOK, NoDetachedWorker, BeforeStageIsAlone, Bookkeeping,
         Policy

(* Every operation of the session, and every end of a worker, preserves    *)
(* the inductive invariant.                                                *)
LEMMA NextIInv == IInv /\ [Next]_prepVars => IInv'
<1> SUFFICES ASSUME IInv, [Next]_prepVars
             PROVE  IInv'
  OBVIOUS
<1> USE DEF IInv, TypeOK, NoDetachedWorker, BeforeStageIsAlone, Bookkeeping,
            MainFree
<1>1. ASSUME NEW m, NEW w, OnWindow(m, w)
      PROVE  IInv'
  <2>1. Eligible(m) \subseteq Jobs
    BY DEF Eligible
  <2>2. \A p \in Eligible(m) : policy[p] = "Background"
    BY DEF Eligible
  <2>3. TypeOK'
    BY <1>1, <2>1 DEF OnWindow, StartJobs
  <2>4. NoDetachedWorker'
    BY <1>1, <2>1 DEF OnWindow, StartJobs
  <2>5. BeforeStageIsAlone'
    BY <1>1, <2>2 DEF OnWindow, StartJobs
  <2>6. Bookkeeping'
    BY <1>1, <2>1, <2>2 DEF OnWindow, StartJobs
  <2> QED
    BY <2>3, <2>4, <2>5, <2>6
<1>2. ASSUME NEW p \in Jobs, Before(p)
      PROVE  IInv'
  <2>1. TypeOK'
    BY <1>2 DEF Before, StartJobs
  <2>2. NoDetachedWorker'
    BY <1>2, JobsAssumption DEF Before, StartJobs
  <2>3. BeforeStageIsAlone'
    BY <1>2, JobsAssumption DEF Before, StartJobs
  <2>4. Bookkeeping'
    BY <1>2 DEF Before, StartJobs
  <2> QED
    BY <2>1, <2>2, <2>3, <2>4
<1>3. CASE JoinDone
  BY <1>3 DEF JoinDone
<1>4. CASE Finish
  BY <1>4 DEF Finish
<1>5. ASSUME NEW p \in Jobs, FinishJoin(p)
      PROVE  IInv'
  BY <1>5, JobsAssumption DEF FinishJoin
<1>6. ASSUME NEW p \in Jobs, WorkerEnd(p)
      PROVE  IInv'
  BY <1>6 DEF WorkerEnd
<1>7. CASE UNCHANGED prepVars
  BY <1>7 DEF prepVars
<1> QED
  BY <1>1, <1>2, <1>3, <1>4, <1>5, <1>6, <1>7 DEF Next

LEMMA IInvAlways == Spec => []IInv
  BY InitIInv, NextIInv, PTL DEF Spec

(* The state always has its type.                                          *)
THEOREM TypeCorrect == Spec => []TypeOK
  BY IInvAlways, PTL DEF IInv

(* No handle is ever lost: a worker that runs can be joined.               *)
THEOREM WorkersStayReachable == Spec => []NoDetachedWorker
  BY IInvAlways, PTL DEF IInv

(* Work that shares a backend cache runs only in front of its own stage.   *)
THEOREM BeforeStageWorkIsAlone == Spec => []BeforeStageIsAlone
  BY IInvAlways, PTL DEF IInv

(* A session whose finish has returned has no worker left.                 *)
THEOREM QuietOnceFinished == Spec => []QuietAfterFinish
<1>1. IInv => QuietAfterFinish
  BY JobsAssumption
     DEF IInv, QuietAfterFinish, NoDetachedWorker, Bookkeeping, MainFree, TypeOK
<1> QED
  BY <1>1, IInvAlways, PTL

(* A closed session starts nothing, whatever windows still arrive.         *)
THEOREM ClosedStartsNothing == Spec => NoStartAfterClose
<1> DEFINE Quiet == closed => started' = started /\ \A p \in Jobs :
                        worker'[p] = "running" => worker[p] = "running"
<1>1. IInv /\ [Next]_prepVars => [Quiet]_prepVars
  BY DEF IInv, TypeOK, Next, OnWindow, Before, JoinDone, Finish, FinishJoin,
         WorkerEnd, prepVars
<1> QED
  BY <1>1, IInvAlways, PTL DEF Spec, NoStartAfterClose

(* The session implements the contract its users rely on.                  *)
THEOREM SessionImplementsContract == Spec => ImplementsContract
<1> USE DEF Contract!vars, MainFree
<1>1. Init => Contract!Init
  BY DEF Init, Contract!Init
<1>2. IInv /\ IInv' /\ [Next]_prepVars => [Contract!Next]_(Contract!vars)
  <2> SUFFICES ASSUME IInv, IInv', [Next]_prepVars
               PROVE  [Contract!Next]_(Contract!vars)
    OBVIOUS
  <2> USE DEF IInv, TypeOK
  <2>1. ASSUME NEW m, NEW w, OnWindow(m, w)
        PROVE  Contract!Start(Eligible(m) \ started)
    BY <2>1 DEF OnWindow, StartJobs, Contract!Start, Bookkeeping, Eligible
  <2>2. ASSUME NEW p \in Jobs, Before(p)
        PROVE  Contract!Start({p} \ started)
    BY <2>2 DEF Before, StartJobs, Contract!Start, Bookkeeping
  <2>3. CASE JoinDone
    BY <2>3 DEF JoinDone, Contract!Next, Contract!Return, NoDetachedWorker,
                Bookkeeping
  <2>4. CASE Finish
    BY <2>4 DEF Finish, Contract!Next, Contract!Close, NoDetachedWorker,
                Bookkeeping
  <2>5. ASSUME NEW p \in Jobs, FinishJoin(p)
        PROVE  [Contract!Next]_(Contract!vars)
    <3>1. CASE closed /\ MainFree'
      <4>1. \A q \in Jobs : worker'[q] # "running"
        BY <2>5, <3>1, JobsAssumption
           DEF FinishJoin, NoDetachedWorker, Bookkeeping
      <4> QED
        BY <2>5, <3>1, <4>1 DEF FinishJoin, Contract!Next, Contract!Return
    <3>2. CASE ~(closed /\ MainFree')
      BY <2>5, <3>2 DEF FinishJoin
    <3> QED
      BY <3>1, <3>2
  <2>6. ASSUME NEW p \in Jobs, WorkerEnd(p)
        PROVE  Contract!End(p)
    BY <2>6 DEF WorkerEnd, Contract!End
  <2>7. CASE UNCHANGED prepVars
    BY <2>7 DEF prepVars
  <2>8. \A m : Eligible(m) \ started \in SUBSET Jobs
    BY DEF Eligible
  <2>9. \A p \in Jobs : {p} \ started \in SUBSET Jobs
    OBVIOUS
  <2>10. ASSUME NEW m, NEW w, OnWindow(m, w)
         PROVE  Contract!Next
    BY <2>1, <2>8, <2>10 DEF Contract!Next, Contract!Start
  <2>11. ASSUME NEW p \in Jobs, Before(p)
         PROVE  Contract!Next
    BY <2>2, <2>9, <2>11 DEF Contract!Next, Contract!Start
  <2>12. ASSUME NEW p \in Jobs, WorkerEnd(p)
         PROVE  Contract!Next
    BY <2>6, <2>12 DEF Contract!Next
  <2> HIDE DEF Contract!vars, MainFree, IInv, TypeOK
  <2> QED
    BY <2>3, <2>4, <2>5, <2>7, <2>10, <2>11, <2>12 DEF Next
<1> QED
  BY <1>1, <1>2, IInvAlways, PTL DEF Spec, ImplementsContract, Contract!Spec

(* The owner of a session has every worker in hand: reachable by a join,   *)
(* alone where it must be, and over when finish has returned.              *)
THEOREM WorkersAreInHand == Spec => []WorkersStayInHand
  BY WorkersStayReachable, BeforeStageWorkIsAlone, QuietOnceFinished, PTL
     DEF WorkersStayInHand

-----------------------------------------------------------------------------
(***************************************************************************)
(* Ephemeral. The inductive invariant EphemeralInv has one part for each   *)
(* thing the run builds: the resolution (VisitInv), the workspace on disk  *)
(* (DiskInv), the host (HostInv), the downloads (FetchInv) and what is     *)
(* unpacked (RunInv). That an application runs as promised follows from    *)
(* the parts together; that it is isolated follows from the mounts alone.  *)
(***************************************************************************)

(* Batches. A batch holds at most Batch downloads.                         *)
LEMMA BatchSize ==
    ASSUME plan \in Seq(DOMAIN world.depends),
           archives \in Seq((DOMAIN world.depends) \X {"good", "bad", Nothing} \X (Nat \X Nat)),
           Len(archives) <= Len(plan)
    PROVE  /\ Cardinality(InBatch) \in Nat /\ Len(archives) + Cardinality(InBatch) <= Len(plan)
           /\ \A i \in 1..Cardinality(InBatch) : Len(archives) + i \in InBatch
<1> DEFINE L == Len(archives)
           last == Batch * (L \div Batch + 1)
           hi   == IF last < Len(plan) THEN last ELSE Len(plan)
<1>1. L \in Nat /\ Len(plan) \in Nat /\ last \in Int /\ hi \in Int /\ hi <= Len(plan)
  <2>1. L \div Batch \in Int
    BY EphemeralAssumption
  <2>. QED
    BY <2>1, EphemeralAssumption
<1>2. InBatch = (L + 1)..hi
  BY <1>1 DEF InBatch
<1> HIDE DEF L, last, hi
<1>3. Cardinality(InBatch) = IF L + 1 > hi THEN 0 ELSE hi - (L + 1) + 1
  BY <1>1, <1>2, FS_Interval
<1>. QED
  BY <1>1, <1>2, <1>3 DEF L

(* What one step of a download thread may do.                              *)
WorkerStep(n) ==
  /\ main = "fetching" /\ n \in InBatch /\ n \in DOMAIN fetch
  /\ UNCHANGED <<asked, main, code, local, visit, plan, archives, owned, binary, dir, tree, guarded, around>>
  /\ \E st \in {"idle", "mirror", "curl", "ok", "err"}, m \in Nat, content \in {Nothing, "good", "bad"} :
       /\ Fetch(n, st, m, content)
       /\ st \in {"mirror", "curl"} => m \in 1..Mirrors /\ (Digest(n) \/ Options.allow)
       /\ st = "ok" => Trusted(n, content)
  /\ \/ registered' = registered /\ files' \subseteq files
     \/ /\ signal = "none"
        /\ \E m \in 1..Mirrors : registered' = registered \cup {<<n, m>>} /\ files' = files \cup {<<n, m>>}

(* A download thread works on its own entry of fetch only.                 *)
LEMMA WorkersStep ==
    ASSUME EphemeralInv, NEW n \in DOMAIN plan, LookInCache(n) \/ MakeTemporary(n) \/ Download(n)
    PROVE  WorkerStep(n)
<1> USE DEF Fetching, asked, around, disk
<1>1. /\ main = "fetching" /\ n \in InBatch /\ n \in DOMAIN fetch
      /\ UNCHANGED <<asked, main, code, local, visit, plan, archives, owned, binary, dir, tree, guarded, around>>
  BY DEF LookInCache, MakeTemporary, Download, EphemeralInv, FetchInv, Guarded
<1>2. CASE LookInCache(n)
  <2>1. cache[plan[n]] \in {Nothing, "good", "bad"}
    BY DEF EphemeralInv, VisitInv, HostInv, Explored
  <2>2. registered' = registered /\ files' = files
    BY <1>2 DEF LookInCache
  <2>3. CASE Fetch(n, "ok", 0, cache[plan[n]]) /\ Trusted(n, cache[plan[n]])
    BY <1>1, <2>1, <2>2, <2>3 DEF WorkerStep
  <2>4. CASE Fetch(n, "err", 0, Nothing)
    BY <1>1, <2>2, <2>4 DEF WorkerStep
  <2>5. CASE Fetch(n, "mirror", 1, Nothing) /\ (Digest(n) \/ Options.allow)
    BY <1>1, <2>2, <2>5, EphemeralAssumption DEF WorkerStep
  <2>. QED
    BY <1>2, <2>3, <2>4, <2>5, EphemeralAssumption DEF LookInCache, Mirror, Trusted
<1>3. CASE MakeTemporary(n)
  <2>1. fetch[n].mirror \in 1..Mirrors /\ (Digest(n) \/ Options.allow)
    BY <1>1, <1>3 DEF MakeTemporary, EphemeralInv, FetchInv
  <2>2. CASE Fetch(n, "err", fetch[n].mirror, Nothing) /\ UNCHANGED <<files, registered>>
    BY <1>1, <2>1, <2>2, EphemeralAssumption DEF WorkerStep
  <2>3. CASE /\ Fetch(n, "curl", fetch[n].mirror, Nothing) /\ signal = "none"
             /\ files' = files \cup {<<n, fetch[n].mirror>>} /\ registered' = registered \cup {<<n, fetch[n].mirror>>}
    BY <1>1, <2>1, <2>3, EphemeralAssumption DEF WorkerStep
  <2>. QED
    BY <1>3, <2>2, <2>3 DEF MakeTemporary
<1>4. CASE Download(n)
  <2>1. fetch[n].mirror \in 1..Mirrors /\ (Digest(n) \/ Options.allow)
    BY <1>1, <1>4 DEF Download, EphemeralInv, FetchInv
  <2>2. registered' = registered /\ files' \subseteq files
    BY <1>4 DEF Download
  <2>3. CASE Fetch(n, "err", fetch[n].mirror, Nothing)
    BY <1>1, <2>1, <2>2, <2>3, EphemeralAssumption DEF WorkerStep
  <2>4. ASSUME NEW got \in {"good", "bad"}, Fetch(n, "ok", fetch[n].mirror, got), got = "good" \/ ~Digest(n)
        PROVE  WorkerStep(n)
    BY <1>1, <2>1, <2>2, <2>4, EphemeralAssumption DEF WorkerStep, Trusted
  <2>5. CASE Mirror(n, fetch[n].mirror + 1)
    <3>1. CASE Fetch(n, "err", fetch[n].mirror + 1, Nothing)
      BY <1>1, <2>1, <2>2, <3>1, EphemeralAssumption DEF WorkerStep
    <3>2. CASE Fetch(n, "mirror", fetch[n].mirror + 1, Nothing) /\ fetch[n].mirror + 1 \in 1..Mirrors
      BY <1>1, <2>1, <2>2, <3>2, EphemeralAssumption DEF WorkerStep
    <3>. QED
      BY <2>1, <2>5, <3>1, <3>2, EphemeralAssumption DEF Mirror
  <2>. QED
    BY <1>4, <2>3, <2>4, <2>5 DEF Download
<1>. QED
  BY <1>2, <1>3, <1>4

(* Unpacking marks at most one archive.                                    *)
LEMMA ExtractMarks ==
    ASSUME EphemeralInv, Extract
    PROVE  /\ DOMAIN fetch' = DOMAIN fetch
           /\ \A n \in DOMAIN fetch : fetch'[n] = fetch[n] \/ fetch'[n] = [fetch[n] EXCEPT !.st = "unpacked"]
<1>1. PICK k : fetch' = [fetch EXCEPT ![k].st = "unpacked"] \/ fetch' = fetch
  BY DEF Extract
<1>. QED
  BY <1>1 DEF EphemeralInv, FetchInv

(* Every action keeps the types.                                           *)
LEMMA NextEphemeralTypeOK ==
    ASSUME EphemeralInv, [EphemeralNext]_ephemeralVars
    PROVE  EphemeralTypeOK'
<1> USE DEF EphemeralInv, EphemeralTypeOK, asked, disk, around, Quit, Fail, To, Work
<1>0. CASE UNCHANGED ephemeralVars
  BY <1>0 DEF ephemeralVars
<1>1. CASE Dispatch
  BY <1>1 DEF Dispatch
<1>2. CASE FlatpakQuery \/ FlatpakInstall
  BY <1>2 DEF FlatpakQuery, FlatpakInstall
<1>3. CASE FlatpakRun
  BY <1>3 DEF FlatpakRun
<1>4. CASE FlatpakPurge
  BY <1>4 DEF FlatpakPurge
<1>5. CASE HostRun
  BY <1>5 DEF HostRun
<1>6. CASE HostEnds
  BY <1>6 DEF HostEnds
<1>7. CASE Probe
  BY <1>7 DEF Probe
<1>8. CASE Choose
  BY <1>8 DEF Choose
<1>9. CASE LookAtDependency
  BY <1>9 DEF LookAtDependency
<1>10. CASE ListPackage
  BY <1>10 DEF ListPackage, FetchInv, VisitInv, Early
<1>11. CASE ChoosePlace
  BY <1>11 DEF ChoosePlace
<1>12. CASE MakeWorkspace
  BY <1>12 DEF MakeWorkspace
<1>13. CASE Guard
  BY <1>13 DEF Guard
<1>14. ASSUME NEW n \in DOMAIN plan, LookInCache(n) \/ MakeTemporary(n) \/ Download(n) PROVE EphemeralTypeOK'
  <2>1. WorkerStep(n)
    BY <1>14, WorkersStep
  <2>2. /\ DOMAIN fetch' = DOMAIN fetch
        /\ \A k \in DOMAIN fetch : fetch'[k].st \in {"idle", "mirror", "curl", "ok", "err", "unpacked"}
    BY <2>1 DEF WorkerStep, Fetch
  <2>3. files' \subseteq (DOMAIN plan) \X (1..Mirrors)
    BY <2>1 DEF WorkerStep
  <2>. QED
    BY <2>1, <2>2, <2>3 DEF WorkerStep
<1>15. CASE JoinBatch
  <2>1. guarded' \subseteq (DOMAIN plan) \X (1..Mirrors)
    BY <1>15 DEF JoinBatch, DiskInv, Guarded
  <2>2. Len(archives') <= Len(plan)
    BY <1>15, BatchSize DEF JoinBatch, FetchInv, VisitInv, Explored
  <2>. QED
    BY <1>15, <2>1, <2>2 DEF JoinBatch
<1>16. CASE Measure
  BY <1>16 DEF Measure
<1>17. CASE Extract
  <2>1. ASSUME NEW n \in DOMAIN fetch
        PROVE  fetch'[n].st \in {"idle", "mirror", "curl", "ok", "err", "unpacked"}
    <3>1. CASE fetch'[n] = fetch[n]
      BY <3>1
    <3>2. CASE fetch'[n] = [fetch[n] EXCEPT !.st = "unpacked"]
      BY <3>2 DEF FetchInv
    <3>. QED
      BY <1>17, <3>1, <3>2, ExtractMarks
  <2>2. DOMAIN fetch' = DOMAIN fetch
    BY <1>17, ExtractMarks
  <2>. QED
    BY <1>17, <2>1, <2>2 DEF Extract
<1>18. CASE Select
  BY <1>18 DEF Select
<1>19. CASE AppEnds
  BY <1>19 DEF AppEnds
<1>20. CASE Unregister
  BY <1>20 DEF Unregister
<1>21. CASE RemoveWorkspace
  BY <1>21 DEF RemoveWorkspace, WorkspaceGone
<1>22. CASE Raise
  BY <1>22 DEF Raise
<1>23. CASE Cleanup
  BY <1>23 DEF Cleanup, WorkspaceGone
<1>24. CASE ExitInterrupted
  BY <1>24 DEF ExitInterrupted
<1>25. CASE Killed
  BY <1>25 DEF Killed
<1>26. CASE CleanCache
  BY <1>26 DEF CleanCache
<1>27. CASE SweepCheck
  BY <1>27 DEF SweepCheck
<1>28. CASE SweepRemove
  BY <1>28 DEF SweepRemove, WorkspaceGone
<1>29. CASE Ended
  BY <1>29 DEF Ended, ephemeralVars
<1>. QED
  BY <1>0, <1>1, <1>2, <1>3, <1>4, <1>5, <1>6, <1>7, <1>8, <1>9, <1>10, <1>11, <1>12, <1>13, <1>14,
     <1>15, <1>16, <1>17, <1>18, <1>19, <1>20, <1>21, <1>22, <1>23, <1>24, <1>25, <1>26, <1>27, <1>28,
     <1>29 DEF EphemeralNext

Frames(w) == [pkg : DOMAIN w.depends, next : Nat \ {0}]
Stacks(w) == Seq(Frames(w))

(* Stacks: without the last entry, and with the last one replaced.         *)
LEMMA FrontOf ==
    ASSUME NEW S, NEW s \in Seq(S), s # <<>>
    PROVE  /\ Len(s) \in Nat \ {0} /\ DOMAIN s = 1..Len(s) /\ s[Len(s)] \in S
           /\ Front(s) \in Seq(S) /\ Len(Front(s)) = Len(s) - 1 /\ DOMAIN Front(s) = 1..(Len(s) - 1)
           /\ \A i \in 1..(Len(s) - 1) : Front(s)[i] = s[i]
<1>1. Len(s) \in Nat \ {0} /\ DOMAIN s = 1..Len(s)
  OBVIOUS
<1>2. s[Len(s)] \in S
  BY <1>1
<1>. QED
  BY <1>1, <1>2 DEF Front

LEMMA ReplacedIn ==
    ASSUME NEW S, NEW s \in Seq(S), NEW t, DOMAIN t = DOMAIN s, \A i \in DOMAIN s : t[i] \in S, t = [i \in DOMAIN s |-> t[i]]
    PROVE  t \in Seq(S)
<1>1. Len(s) \in Nat /\ DOMAIN s = 1..Len(s)
  OBVIOUS
<1>. QED
  BY <1>1

(* The databases list what every package needs.                            *)
LEMMA DependsAreListed ==
    ASSUME NEW w \in Worlds
    PROVE  /\ \A p \in DOMAIN w.depends : w.depends[p] \in Seq(DOMAIN w.provider)
           /\ \A spec \in DOMAIN w.provider : w.provider[spec] \in DOMAIN w.depends \cup {Nothing}
  BY WorldsAssumption

(* The resolution begins with the requested package.                       *)
LEMMA ExploredFirst ==
    ASSUME NEW w \in Worlds, NEW pkg \in DOMAIN w.depends
    PROVE  Explored(w, <<Frame(pkg)>>, {}, {pkg}, <<>>)
<1> DEFINE s == <<Frame(pkg)>>
<1>1. s \in Stacks(w) /\ DOMAIN s = {1} /\ s[1] = [pkg |-> pkg, next |-> 1]
  BY DEF Stacks, Frames, Frame
<1>2. \A k \in DOMAIN w.depends[pkg] : ~(k < 1)
  BY DependsAreListed
<1> HIDE DEF s
<1>3. Explored(w, s, {}, {pkg}, <<>>)
  BY <1>1, <1>2 DEF Explored, Stacks, Frames
<1>. QED
  BY <1>3 DEF s

(* A package is entered: nothing of it was looked at.                      *)
LEMMA ExploredEntered ==
    ASSUME NEW w \in Worlds, NEW stack, NEW specs, NEW pkgs, NEW listed, NEW pkg \in DOMAIN w.depends,
           Explored(w, stack, specs, pkgs, listed)
    PROVE  Explored(w, Append(stack, Frame(pkg)), specs, pkgs \cup {pkg}, listed)
<1> DEFINE s == Append(stack, Frame(pkg))
           top == Len(stack) + 1
<1>0. stack \in Stacks(w) /\ Frame(pkg) \in [pkg : DOMAIN w.depends, next : Nat \ {0}]
  BY DEF Explored, Stacks, Frames, Frame
<1>1. s \in Stacks(w) /\ DOMAIN s = DOMAIN stack \cup {top} /\ s[top] = Frame(pkg) /\ \A i \in DOMAIN stack : s[i] = stack[i]
  BY <1>0 DEF Stacks, Frames
<1>2. Frame(pkg).pkg = pkg /\ Frame(pkg).next = 1
  BY DEF Frame
<1>3. \A k \in DOMAIN w.depends[pkg] : ~(k < 1)
  BY DependsAreListed
<1> HIDE DEF s, top
<1>4. \A p \in pkgs \cup {pkg} : (\E i \in DOMAIN listed : listed[i] = p) \/ (\E i \in DOMAIN s : s[i].pkg = p)
  <2>1. ASSUME NEW p \in pkgs
        PROVE  (\E i \in DOMAIN listed : listed[i] = p) \/ (\E i \in DOMAIN s : s[i].pkg = p)
    BY <1>1, <2>1 DEF Explored
  <2>. QED
    BY <1>1, <1>2, <2>1
<1>5. \A i \in DOMAIN s : \A k \in DOMAIN w.depends[s[i].pkg] : k < s[i].next => w.depends[s[i].pkg][k] \in specs
  BY <1>1, <1>2, <1>3 DEF Explored
<1>. QED
  BY <1>1, <1>4, <1>5 DEF Explored, Stacks, Frames, s

(* The next dependency of a package on the stack was looked at.            *)
LEMMA ExploredAdvance ==
    ASSUME NEW w \in Worlds, NEW stack, NEW specs, NEW pkgs, NEW listed, NEW top \in DOMAIN stack, NEW spec,
           Explored(w, stack, specs, pkgs, listed),
           stack[top].next \in DOMAIN w.depends[stack[top].pkg], spec = w.depends[stack[top].pkg][stack[top].next]
    PROVE  Explored(w, [stack EXCEPT ![top].next = @ + 1], specs \cup {spec}, pkgs, listed)
<1> DEFINE s == [stack EXCEPT ![top].next = @ + 1]
<1>0. stack \in Stacks(w) /\ stack[top] \in [pkg : DOMAIN w.depends, next : Nat \ {0}]
  <2>1. stack \in Stacks(w)
    BY DEF Explored, Stacks, Frames
  <2>2. stack[top] \in Frames(w)
    BY <2>1 DEF Stacks
  <2>. QED
    BY <2>1, <2>2 DEF Frames
<1>1. /\ DOMAIN s = DOMAIN stack /\ \A i \in DOMAIN stack : i # top => s[i] = stack[i]
      /\ s[top] = [stack[top] EXCEPT !.next = @ + 1]
  BY <1>0 DEF Stacks
<1>2. s[top].pkg = stack[top].pkg /\ s[top].next = stack[top].next + 1 /\ s[top] \in [pkg : DOMAIN w.depends, next : Nat \ {0}]
  BY <1>0, <1>1
<1>3. s \in Stacks(w)
  <2>1. DOMAIN s = DOMAIN stack /\ s = [i \in DOMAIN stack |-> s[i]]
    OBVIOUS
  <2>2. \A i \in DOMAIN stack : s[i] \in Frames(w)
    <3>1. \A i \in DOMAIN stack : stack[i] \in Frames(w)
      BY <1>0 DEF Stacks
    <3>. QED
      BY <1>1, <1>2, <3>1 DEF Frames
  <2> HIDE DEF s
  <2>. QED
    BY <1>0, <2>1, <2>2, ReplacedIn DEF Stacks
<1>4. spec \in DOMAIN w.provider
  BY <1>0, DependsAreListed
<1> HIDE DEF s
<1>5. \A p \in pkgs : (\E i \in DOMAIN listed : listed[i] = p) \/ (\E i \in DOMAIN s : s[i].pkg = p)
  <2>1. \A i \in DOMAIN s : s[i].pkg = stack[i].pkg
    BY <1>1, <1>2
  <2>. QED
    BY <1>1, <2>1 DEF Explored
<1>6. \A i \in DOMAIN s : \A k \in DOMAIN w.depends[s[i].pkg] : k < s[i].next => w.depends[s[i].pkg][k] \in specs \cup {spec}
  <2>1. ASSUME NEW i \in DOMAIN s, NEW k \in DOMAIN w.depends[s[i].pkg], k < s[i].next
        PROVE  w.depends[s[i].pkg][k] \in specs \cup {spec}
    <3>1. CASE i # top
      BY <1>1, <2>1, <3>1 DEF Explored
    <3>2. CASE i = top
      <4>1. w.depends[stack[top].pkg] \in Seq(DOMAIN w.provider)
        BY <1>0, DependsAreListed
      <4>2. k < stack[top].next \/ k = stack[top].next
        BY <1>0, <1>2, <2>1, <3>2, <4>1
      <4>. QED
        BY <1>2, <2>1, <3>2, <4>2 DEF Explored
    <3>. QED
      BY <3>1, <3>2
  <2>. QED
    BY <2>1
<1>8. \A i \in DOMAIN listed : \A k \in DOMAIN w.depends[listed[i]] : w.depends[listed[i]][k] \in specs \cup {spec}
  BY DEF Explored
<1>9. specs \cup {spec} \subseteq DOMAIN w.provider /\ pkgs \subseteq DOMAIN w.depends /\ listed \in Seq(DOMAIN w.depends)
  BY <1>4 DEF Explored
<1>10. Explored(w, s, specs \cup {spec}, pkgs, listed)
  BY <1>3, <1>5, <1>6, <1>8, <1>9 DEF Explored, Stacks, Frames
<1>. QED
  BY <1>10 DEF s

(* A package whose dependencies were all looked at is listed.              *)
LEMMA ExploredListed ==
    ASSUME NEW w \in Worlds, NEW stack, NEW specs, NEW pkgs, NEW listed,
           Explored(w, stack, specs, pkgs, listed), stack # <<>>,
           stack[Len(stack)].next > Len(w.depends[stack[Len(stack)].pkg])
    PROVE  Explored(w, Front(stack), specs, pkgs, Append(listed, stack[Len(stack)].pkg))
<1> DEFINE top == Len(stack)
           s   == Front(stack)
           pkg == stack[top].pkg
           l   == Append(listed, pkg)
<1>0. /\ stack \in Stacks(w) /\ top \in Nat \ {0} /\ DOMAIN stack = 1..top
      /\ stack[top] \in [pkg : DOMAIN w.depends, next : Nat \ {0}] /\ pkg \in DOMAIN w.depends
  <2>1. stack \in Seq(Frames(w))
    BY DEF Explored, Frames
  <2>2. top \in Nat \ {0} /\ DOMAIN stack = 1..top /\ stack[top] \in Frames(w)
    BY <2>1, FrontOf
  <2>. QED
    BY <2>1, <2>2 DEF Stacks, Frames
<1>1. s \in Stacks(w) /\ DOMAIN s = 1..(top - 1) /\ \A i \in 1..(top - 1) : s[i] = stack[i]
  BY <1>0, FrontOf DEF Stacks
<1>2. /\ l \in Seq(DOMAIN w.depends) /\ DOMAIN l = DOMAIN listed \cup {Len(listed) + 1}
      /\ l[Len(listed) + 1] = pkg /\ \A i \in DOMAIN listed : l[i] = listed[i]
  <2>1. listed \in Seq(DOMAIN w.depends)
    BY DEF Explored
  <2> HIDE DEF pkg
  <2>. QED
    BY <1>0, <2>1
<1>3. \A k \in DOMAIN w.depends[pkg] : w.depends[pkg][k] \in specs
  <2>1. w.depends[pkg] \in Seq(DOMAIN w.provider)
    BY <1>0, DependsAreListed
  <2>2. \A k \in DOMAIN w.depends[pkg] : k < stack[top].next
    BY <1>0, <2>1
  <2>. QED
    BY <1>0, <2>2 DEF Explored
<1> HIDE DEF s, l, pkg
<1>4. \A p \in pkgs : (\E i \in DOMAIN l : l[i] = p) \/ (\E i \in DOMAIN s : s[i].pkg = p)
  <2>1. ASSUME NEW p \in pkgs, NEW i \in DOMAIN stack, stack[i].pkg = p
        PROVE  (\E j \in DOMAIN l : l[j] = p) \/ (\E j \in DOMAIN s : s[j].pkg = p)
    <3>1. CASE i = top
      BY <1>2, <2>1, <3>1 DEF pkg
    <3>2. CASE i # top
      BY <1>0, <1>1, <2>1, <3>2
    <3>. QED
      BY <3>1, <3>2
  <2>2. ASSUME NEW p \in pkgs, NEW i \in DOMAIN listed, listed[i] = p
        PROVE  \E j \in DOMAIN l : l[j] = p
    BY <1>2, <2>2
  <2>. QED
    BY <2>1, <2>2 DEF Explored
<1>5. \A i \in DOMAIN s : \A k \in DOMAIN w.depends[s[i].pkg] : k < s[i].next => w.depends[s[i].pkg][k] \in specs
  <2>1. \A i \in DOMAIN s : i \in DOMAIN stack /\ s[i] = stack[i]
    BY <1>0, <1>1
  <2>. QED
    BY <2>1 DEF Explored
<1>6. \A i \in DOMAIN l : \A k \in DOMAIN w.depends[l[i]] : w.depends[l[i]][k] \in specs
  BY <1>2, <1>3 DEF Explored
<1>7. Explored(w, s, specs, pkgs, l)
  BY <1>1, <1>2, <1>4, <1>5, <1>6 DEF Explored, Stacks, Frames
<1>. QED
  BY <1>7 DEF s, l, pkg

(* Only the choice and the resolution touch the visit and the plan.        *)
LEMMA VisitKept ==
    ASSUME VisitInv, UNCHANGED <<call, world, visit, plan, local>>,
           main' = "resolving" => main = "resolving",
           main' \in Settled /\ local = Nothing => main \in Settled,
           main' \in Early \ {"resolving", "placing", "making"} => main \in Early \ {"resolving", "placing", "making"}
    PROVE  VisitInv'
  BY DEF VisitInv, Target

(* The Flatpaks and the cache of the host.                                 *)
LEMMA NextHostInv ==
    ASSUME EphemeralInv, [EphemeralNext]_ephemeralVars
    PROVE  HostInv'
<1> USE DEF EphemeralInv, HostInv, asked, disk, around, Quit, Fail, To
<1>0. CASE UNCHANGED ephemeralVars
  BY <1>0 DEF ephemeralVars
<1>1. CASE Dispatch
  BY <1>1 DEF Dispatch
<1>2. CASE FlatpakQuery \/ FlatpakInstall
  BY <1>2 DEF FlatpakQuery, FlatpakInstall
<1>3. CASE FlatpakRun
  BY <1>3 DEF FlatpakRun
<1>4. CASE FlatpakPurge
  BY <1>4 DEF FlatpakPurge
<1>5. CASE HostRun
  BY <1>5 DEF HostRun
<1>6. CASE HostEnds
  BY <1>6 DEF HostEnds
<1>7. CASE Probe
  BY <1>7 DEF Probe
<1>8. CASE Choose
  BY <1>8 DEF Choose
<1>9. CASE LookAtDependency
  BY <1>9 DEF LookAtDependency
<1>10. CASE ListPackage
  BY <1>10 DEF ListPackage
<1>11. CASE ChoosePlace
  BY <1>11 DEF ChoosePlace
<1>12. CASE MakeWorkspace
  BY <1>12 DEF MakeWorkspace
<1>13. CASE Guard
  BY <1>13 DEF Guard
<1>14. ASSUME NEW n \in DOMAIN plan, LookInCache(n) \/ MakeTemporary(n) \/ Download(n) PROVE HostInv'
  BY <1>14, WorkersStep DEF WorkerStep
<1>15. CASE JoinBatch
  BY <1>15 DEF JoinBatch
<1>16. CASE Measure
  BY <1>16 DEF Measure
<1>17. CASE Extract
  BY <1>17 DEF Extract
<1>18. CASE Select
  BY <1>18 DEF Select
<1>19. CASE AppEnds
  BY <1>19 DEF AppEnds
<1>20. CASE Unregister
  BY <1>20 DEF Unregister
<1>21. CASE RemoveWorkspace
  BY <1>21 DEF RemoveWorkspace
<1>22. CASE Raise
  BY <1>22 DEF Raise
<1>23. CASE Cleanup
  BY <1>23 DEF Cleanup
<1>24. CASE ExitInterrupted
  BY <1>24 DEF ExitInterrupted
<1>25. CASE Killed
  BY <1>25 DEF Killed
<1>26. CASE CleanCache
  BY <1>26 DEF CleanCache
<1>27. CASE SweepCheck
  BY <1>27 DEF SweepCheck
<1>28. CASE SweepRemove
  BY <1>28 DEF SweepRemove
<1>29. CASE Ended
  BY <1>29 DEF Ended, ephemeralVars
<1>. QED
  BY <1>0, <1>1, <1>2, <1>3, <1>4, <1>5, <1>6, <1>7, <1>8, <1>9, <1>10, <1>11, <1>12, <1>13, <1>14,
     <1>15, <1>16, <1>17, <1>18, <1>19, <1>20, <1>21, <1>22, <1>23, <1>24, <1>25, <1>26, <1>27, <1>28,
     <1>29 DEF EphemeralNext

(* The resolution. What a package needs is entered before it is listed.    *)
LEMMA NextVisitInv ==
    ASSUME EphemeralInv, [EphemeralNext]_ephemeralVars
    PROVE  VisitInv'
<1> USE DEF EphemeralInv, asked, disk, around, Quit, Fail, To, Target
<1>0. CASE UNCHANGED ephemeralVars
  BY <1>0, VisitKept DEF ephemeralVars, Settled, Early, Joined, Filled
<1>1. CASE Dispatch
  BY <1>1, VisitKept DEF Dispatch, Settled, Early, Joined, Filled
<1>2. CASE FlatpakQuery \/ FlatpakInstall
  BY <1>2, VisitKept DEF FlatpakQuery, FlatpakInstall, Settled, Early, Joined, Filled
<1>3. CASE FlatpakRun
  BY <1>3, VisitKept DEF FlatpakRun, Settled, Early, Joined, Filled
<1>4. CASE FlatpakPurge
  BY <1>4, VisitKept DEF FlatpakPurge, Settled, Early, Joined, Filled
<1>5. CASE HostRun
  BY <1>5, VisitKept DEF HostRun, Settled, Early, Joined, Filled
<1>6. CASE HostEnds
  BY <1>6, VisitKept DEF HostEnds, Settled, Early, Joined, Filled
<1>7. CASE Probe
  BY <1>7, VisitKept DEF Probe, Settled, Early, Joined, Filled
<1>8. CASE Choose
  <2>1. visit = NoVisit /\ plan = <<>> /\ main = "choosing"
    BY <1>8 DEF Choose, VisitInv, Early
  <2>2. UNCHANGED <<call, world, plan>>
    BY <1>8 DEF Choose
  <2>3. CASE visit' = visit /\ (main' = "done" \/ (main' = "placing" /\ local' # Nothing))
    BY <2>1, <2>2, <2>3 DEF VisitInv, Settled, Early, Joined, Filled
  <2>4. CASE /\ Target # Nothing /\ main' = "resolving"
             /\ visit' = [visit EXCEPT !.stack = <<Frame(Target)>>, !.pkgs = {Target}]
    <3>1. Target \in DOMAIN world.depends
      BY <2>4, WorldsAssumption DEF Target
    <3>2. visit' = [stack |-> <<Frame(Target)>>, specs |-> {}, pkgs |-> {Target}]
      BY <2>1, <2>4 DEF NoVisit
    <3>3. Explored(world', visit'.stack, visit'.specs, visit'.pkgs, plan') /\ Answered(world', visit'.specs, visit'.pkgs)
      BY <2>1, <2>2, <3>1, <3>2, ExploredFirst DEF Answered
    <3>4. visit'.stack # <<>> /\ visit'.stack[1].pkg = Target
      BY <3>2 DEF Frame
    <3>5. visit' = [stack |-> visit'.stack, specs |-> visit'.specs, pkgs |-> visit'.pkgs]
      BY <3>2
    <3>. QED
      BY <2>2, <2>4, <3>3, <3>4, <3>5 DEF VisitInv, Settled, Early, Joined, Filled
  <2>. QED
    BY <1>8, <2>3, <2>4 DEF Choose
<1>9. CASE LookAtDependency
  <2> DEFINE stack == visit.stack
             top  == Len(stack)
             spec == Wanted[Top.next]
             p    == world.provider[spec]
             next == Onward(stack)
             on   == [visit EXCEPT !.specs = @ \cup {spec}, !.stack = Onward(@)]
  <2>1. main = "resolving" /\ UNCHANGED <<call, world, plan, local>> /\ Top.next <= Len(Wanted)
    BY <1>9 DEF LookAtDependency
  <2>2. stack \in Seq(Frames(world)) /\ stack # <<>> /\ stack[1].pkg = Target
    BY <2>1 DEF VisitInv, Explored, Frames
  <2>3. top \in Nat \ {0} /\ DOMAIN stack = 1..top /\ Top = stack[top] /\ Top \in Frames(world)
    BY <2>2, FrontOf DEF Top, Last
  <2>4. /\ Wanted = world.depends[Top.pkg] /\ Wanted \in Seq(DOMAIN world.provider) /\ Top.next \in DOMAIN Wanted
        /\ spec \in DOMAIN world.provider /\ p \in DOMAIN world.depends \cup {Nothing}
    <3>1. Top.pkg \in DOMAIN world.depends /\ Top.next \in Nat \ {0}
      BY <2>3 DEF Frames
    <3>2. Wanted = world.depends[Top.pkg] /\ Wanted \in Seq(DOMAIN world.provider)
      BY <3>1, DependsAreListed DEF Wanted
    <3>. QED
      BY <2>1, <3>1, <3>2, DependsAreListed
  <2>5. on = [stack |-> next, specs |-> visit.specs \cup {spec}, pkgs |-> visit.pkgs]
    <3>1. PICK s, a, b : visit = [stack |-> s, specs |-> a, pkgs |-> b]
      BY DEF VisitInv
    <3>2. visit.stack = s /\ visit.specs = a /\ visit.pkgs = b
      BY <3>1
    <3>3. on = [stack |-> Onward(s), specs |-> a \cup {spec}, pkgs |-> b]
      <4> HIDE DEF spec
      <4>1. on = [[stack |-> s, specs |-> a, pkgs |-> b] EXCEPT !.specs = @ \cup {spec}, !.stack = Onward(@)]
        BY <3>1
      <4> HIDE DEF on
      <4>. QED
        BY <4>1
    <3>. QED
      BY <3>2, <3>3
  <2>6. next[1].pkg = Target /\ next # <<>> /\ Len(next) = top /\ DOMAIN next = DOMAIN stack
    BY <2>2, <2>3 DEF Frames, Onward
  <2>6a. Explored(world, next, visit.specs \cup {spec}, visit.pkgs, plan)
    <3>1. Explored(world, stack, visit.specs, visit.pkgs, plan)
      BY DEF VisitInv
    <3>2. top \in DOMAIN stack /\ Top = stack[top]
      BY <2>3
    <3> HIDE DEF stack, top, spec, p
    <3>3. /\ stack[top].next \in DOMAIN world.depends[stack[top].pkg]
          /\ spec = world.depends[stack[top].pkg][stack[top].next]
      BY <2>4, <3>2 DEF spec
    <3>. QED
      BY <3>1, <3>2, <3>3, ExploredAdvance DEF Onward, top
  <2>7. CASE visit' = on /\ main' = main /\ (spec \in visit.specs \cup world.satisfied \/ p \in visit.pkgs)
    <3>1. Answered(world, visit.specs \cup {spec}, visit.pkgs)
      BY <2>7 DEF VisitInv, Answered
    <3> HIDE DEF next
    <3>2. Explored(world', visit'.stack, visit'.specs, visit'.pkgs, plan') /\ Answered(world', visit'.specs, visit'.pkgs)
      BY <2>1, <2>5, <2>6a, <2>7, <3>1
    <3>. QED
      BY <2>1, <2>5, <2>6, <2>7, <3>2 DEF VisitInv, Settled, Early, Joined, Filled
  <2>8. CASE visit' = visit /\ main' = "done"
    BY <2>1, <2>8, VisitKept DEF Settled, Early, Joined, Filled
  <2>9. CASE /\ visit' = [on EXCEPT !.stack = Append(@, Frame(p)), !.pkgs = @ \cup {p}]
             /\ main' = main /\ p # Nothing
    <3> DEFINE pushed == Append(next, Frame(p))
    <3>1. Explored(world, pushed, visit.specs \cup {spec}, visit.pkgs \cup {p}, plan)
      BY <2>4, <2>6a, <2>9, ExploredEntered
    <3>2. Answered(world, visit.specs \cup {spec}, visit.pkgs \cup {p})
      BY DEF VisitInv, Answered
    <3>5. pushed # <<>> /\ pushed[1].pkg = Target
      <4>1. next \in Seq(Frames(world))
        BY <2>6a DEF Explored, Frames
      <4> HIDE DEF next
      <4>. QED
        BY <2>3, <2>6, <4>1
    <3> HIDE DEF pushed, next
    <3>6. visit' = [stack |-> pushed, specs |-> visit.specs \cup {spec}, pkgs |-> visit.pkgs \cup {p}]
      BY <2>5, <2>9 DEF pushed
    <3>7. Explored(world', visit'.stack, visit'.specs, visit'.pkgs, plan') /\ Answered(world', visit'.specs, visit'.pkgs)
      BY <2>1, <3>1, <3>2, <3>6
    <3>8. visit'.stack = pushed /\ visit' = [stack |-> visit'.stack, specs |-> visit'.specs, pkgs |-> visit'.pkgs]
      BY <3>6
    <3>. QED
      BY <2>1, <2>9, <3>5, <3>7, <3>8 DEF VisitInv, Settled, Early, Joined, Filled
  <2>. QED
    BY <1>9, <2>7, <2>8, <2>9 DEF LookAtDependency
<1>10. CASE ListPackage
  <2> DEFINE stack == visit.stack
             top   == Len(stack)
             popped == Front(stack)
  <2>1. /\ main = "resolving" /\ UNCHANGED <<call, world, local>> /\ Top.next > Len(Wanted)
        /\ plan' = Append(plan, Top.pkg) /\ visit' = [visit EXCEPT !.stack = Front(@)]
        /\ main' = IF top = 1 THEN "placing" ELSE "resolving"
    BY <1>10 DEF ListPackage
  <2>2. stack \in Seq(Frames(world)) /\ stack # <<>> /\ stack[1].pkg = Target /\ plan \in Seq(DOMAIN world.depends)
    BY <2>1 DEF VisitInv, Explored, Frames
  <2>3. /\ top \in Nat \ {0} /\ Top = stack[top] /\ Top \in Frames(world) /\ popped \in Seq(Frames(world))
        /\ Len(popped) = top - 1 /\ \A i \in 1..(top - 1) : popped[i] = stack[i]
    BY <2>2, FrontOf DEF Top, Last
  <2>4. visit' = [stack |-> popped, specs |-> visit.specs, pkgs |-> visit.pkgs]
    BY <2>1 DEF VisitInv
  <2>5. Explored(world, popped, visit.specs, visit.pkgs, Append(plan, Top.pkg))
    BY <2>1, <2>2, <2>3, ExploredListed DEF VisitInv, Wanted
  <2>6. Explored(world', visit'.stack, visit'.specs, visit'.pkgs, plan') /\ Answered(world', visit'.specs, visit'.pkgs)
    BY <2>1, <2>4, <2>5 DEF VisitInv
  <2>7. CASE top = 1
    <3>1. popped = <<>> /\ Top.pkg = Target
      BY <2>2, <2>3, <2>7
    <3>2. plan' # <<>> /\ plan'[Len(plan')] = Top.pkg
      BY <2>1, <2>2, <2>3 DEF Frames
    <3> HIDE DEF popped, top, stack
    <3>. QED
      BY <2>1, <2>4, <2>6, <2>7, <3>1, <3>2 DEF VisitInv, Settled, Early, Joined, Filled
  <2>8. CASE top # 1
    <3>1. popped # <<>> /\ popped[1].pkg = Target
      <4>1. 1 \in 1..(top - 1) /\ Len(popped) # 0
        <5> HIDE DEF popped, top
        <5>. QED
          BY <2>3, <2>8
      <4> HIDE DEF popped, top
      <4>. QED
        BY <2>2, <2>3, <4>1
    <3> HIDE DEF popped, top, stack
    <3>. QED
      BY <2>1, <2>4, <2>6, <2>8, <3>1 DEF VisitInv, Settled, Early, Joined, Filled
  <2>. QED
    BY <2>7, <2>8
<1>11. CASE ChoosePlace
  BY <1>11, VisitKept DEF ChoosePlace, Settled, Early, Joined, Filled
<1>12. CASE MakeWorkspace
  BY <1>12, VisitKept DEF MakeWorkspace, Settled, Early, Joined, Filled
<1>13. CASE Guard
  BY <1>13, VisitKept DEF Guard, Settled, Early, Joined, Filled
<1>14. ASSUME NEW n \in DOMAIN plan, LookInCache(n) \/ MakeTemporary(n) \/ Download(n) PROVE VisitInv'
  BY <1>14, WorkersStep, VisitKept DEF WorkerStep
<1>15. CASE JoinBatch
  BY <1>15, VisitKept DEF JoinBatch, Settled, Early, Joined, Filled
<1>16. CASE Measure
  BY <1>16, VisitKept DEF Measure, Settled, Early, Joined, Filled
<1>17. CASE Extract
  BY <1>17, VisitKept DEF Extract, Settled, Early, Joined, Filled
<1>18. CASE Select
  BY <1>18, VisitKept DEF Select, Settled, Early, Joined, Filled
<1>19. CASE AppEnds
  BY <1>19, VisitKept DEF AppEnds, Settled, Early, Joined, Filled
<1>20. CASE Unregister
  BY <1>20, VisitKept DEF Unregister, Settled, Early, Joined, Filled
<1>21. CASE RemoveWorkspace
  BY <1>21, VisitKept DEF RemoveWorkspace, Settled, Early, Joined, Filled
<1>22. CASE Raise
  BY <1>22, VisitKept DEF Raise, Settled, Early, Joined, Filled
<1>23. CASE Cleanup
  BY <1>23, VisitKept DEF Cleanup, Settled, Early, Joined, Filled
<1>24. CASE ExitInterrupted
  BY <1>24, VisitKept DEF ExitInterrupted, Settled, Early, Joined, Filled
<1>25. CASE Killed
  BY <1>25, VisitKept DEF Killed, Settled, Early, Joined, Filled
<1>26. CASE CleanCache
  BY <1>26, VisitKept DEF CleanCache, Settled, Early, Joined, Filled
<1>27. CASE SweepCheck
  BY <1>27, VisitKept DEF SweepCheck, Settled, Early, Joined, Filled
<1>28. CASE SweepRemove
  BY <1>28, VisitKept DEF SweepRemove, Settled, Early, Joined, Filled
<1>29. CASE Ended
  BY <1>29, VisitKept DEF Ended, ephemeralVars, Settled, Early, Joined, Filled
<1>. QED
  BY <1>0, <1>1, <1>2, <1>3, <1>4, <1>5, <1>6, <1>7, <1>8, <1>9, <1>10, <1>11, <1>12, <1>13, <1>14,
     <1>15, <1>16, <1>17, <1>18, <1>19, <1>20, <1>21, <1>22, <1>23, <1>24, <1>25, <1>26, <1>27, <1>28,
     <1>29 DEF EphemeralNext

(* The workspace. A target is registered while its owner can remove it, and*)
(* the guard takes over what the threads of a batch made.                  *)
LEMMA NextDiskInv ==
    ASSUME EphemeralInv, [EphemeralNext]_ephemeralVars
    PROVE  DiskInv'
<1> USE DEF EphemeralInv, DiskInv, asked, disk, around, Quit, Fail, To, Over, Early, Guarded, Joined, Filled
<1>0. CASE UNCHANGED ephemeralVars
  BY <1>0 DEF ephemeralVars, InBatch
<1>1. CASE Dispatch
  BY <1>1 DEF Dispatch
<1>2. CASE FlatpakQuery \/ FlatpakInstall
  BY <1>2 DEF FlatpakQuery, FlatpakInstall
<1>3. CASE FlatpakRun
  BY <1>3 DEF FlatpakRun
<1>4. CASE FlatpakPurge
  BY <1>4 DEF FlatpakPurge
<1>5. CASE HostRun
  BY <1>5 DEF HostRun
<1>6. CASE HostEnds
  BY <1>6 DEF HostEnds
<1>7. CASE Probe
  BY <1>7 DEF Probe
<1>8. CASE Choose
  BY <1>8 DEF Choose
<1>9. CASE LookAtDependency
  BY <1>9 DEF LookAtDependency
<1>10. CASE ListPackage
  BY <1>10 DEF ListPackage
<1>11. CASE ChoosePlace
  BY <1>11 DEF ChoosePlace
<1>12. CASE MakeWorkspace
  BY <1>12 DEF MakeWorkspace
<1>13. CASE Guard
  BY <1>13 DEF Guard
<1>14. ASSUME NEW n \in DOMAIN plan, LookInCache(n) \/ MakeTemporary(n) \/ Download(n) PROVE DiskInv'
  <2>1. WorkerStep(n)
    BY <1>14, WorkersStep
  <2>2. n \in InBatch /\ InBatch' = InBatch /\ main = "fetching"
    BY <2>1 DEF WorkerStep, InBatch
  <2>. QED
    BY <2>1, <2>2 DEF WorkerStep
<1>15. CASE JoinBatch
  BY <1>15 DEF JoinBatch
<1>16. CASE Measure
  BY <1>16 DEF Measure
<1>17. CASE Extract
  BY <1>17 DEF Extract
<1>18. CASE Select
  BY <1>18 DEF Select
<1>19. CASE AppEnds
  BY <1>19 DEF AppEnds
<1>20. CASE Unregister
  BY <1>20 DEF Unregister
<1>21. CASE RemoveWorkspace
  BY <1>21 DEF RemoveWorkspace, WorkspaceGone
<1>22. CASE Raise
  BY <1>22 DEF Raise, InBatch
<1>23. CASE Cleanup
  BY <1>23 DEF Cleanup, WorkspaceGone
<1>24. CASE ExitInterrupted
  BY <1>24 DEF ExitInterrupted
<1>25. CASE Killed
  BY <1>25 DEF Killed
<1>26. CASE CleanCache
  BY <1>26 DEF CleanCache, InBatch
<1>27. CASE SweepCheck
  BY <1>27 DEF SweepCheck, Stale, InBatch
<1>28. CASE SweepRemove
  BY <1>28 DEF SweepRemove, WorkspaceGone
<1>29. CASE Ended
  BY <1>29 DEF Ended, ephemeralVars, InBatch
<1>. QED
  BY <1>0, <1>1, <1>2, <1>3, <1>4, <1>5, <1>6, <1>7, <1>8, <1>9, <1>10, <1>11, <1>12, <1>13, <1>14,
     <1>15, <1>16, <1>17, <1>18, <1>19, <1>20, <1>21, <1>22, <1>23, <1>24, <1>25, <1>26, <1>27, <1>28,
     <1>29 DEF EphemeralNext

(* Two lists joined.                                                       *)
LEMMA JoinedSeq ==
    ASSUME NEW S, NEW s \in Seq(S), NEW t \in Seq(S)
    PROVE  s \o t \in Seq(S) /\ DOMAIN (s \o t) = 1..(Len(s) + Len(t))
  OBVIOUS

(* What leaves the plan and the downloads alone keeps FetchInv, and so on. *)
LEMMA FetchKept ==
    ASSUME FetchInv, UNCHANGED <<call, world, plan, fetch, archives, local>>,
           main' \in Early \cup {"made"} => main \in Early \cup {"made"},
           main' \in Guarded => main \in Guarded,
           main' \in Joined /\ local = Nothing => main \in Joined
    PROVE  FetchInv'
<1>1. \A n \in DOMAIN plan : Digest(n)' = Digest(n)
  BY DEF Digest
<1>2. Options' = Options
  BY DEF Options
<1>3. \A n \in DOMAIN plan : \A content : Trusted(n, content)' = Trusted(n, content)
  BY <1>1, <1>2 DEF Trusted
<1>. QED
  BY <1>1, <1>2, <1>3 DEF FetchInv, Trusted, Digest, Options

LEMMA RunKept ==
    ASSUME RunInv, UNCHANGED <<world, archives, local, owned, binary, tree, dir>>,
           main' \in {"fetching", "measuring"} => main \in {"fetching", "measuring"},
           main' \in Filled => main \in Filled, main' = "running" => main = "running"
    PROVE  RunInv'
<1>1. \A a : Payload(a)' = Payload(a)
  BY DEF Payload
<1>. QED
  BY DEF RunInv, Payload

(* The downloads. An archive is accepted by its digest, or without one when*)
(* the user allowed that; JoinBatch lists a batch in the order of the plan.*)
LEMMA NextFetchInv ==
    ASSUME EphemeralInv, [EphemeralNext]_ephemeralVars
    PROVE  FetchInv'
<1> USE DEF EphemeralInv, asked, disk, around, Quit, Fail, To, Early, Guarded, Joined, Filled
<1>0. CASE UNCHANGED ephemeralVars
  BY <1>0, FetchKept DEF ephemeralVars
<1>1. CASE Dispatch
  BY <1>1, FetchKept DEF Dispatch
<1>2. CASE FlatpakQuery \/ FlatpakInstall
  BY <1>2, FetchKept DEF FlatpakQuery, FlatpakInstall
<1>3. CASE FlatpakRun
  BY <1>3, FetchKept DEF FlatpakRun
<1>4. CASE FlatpakPurge
  BY <1>4, FetchKept DEF FlatpakPurge
<1>5. CASE HostRun
  BY <1>5, FetchKept DEF HostRun
<1>6. CASE HostEnds
  BY <1>6, FetchKept DEF HostEnds
<1>7. CASE Probe
  BY <1>7, FetchKept DEF Probe
<1>8. CASE Choose
  BY <1>8 DEF Choose, FetchInv
<1>9. CASE LookAtDependency
  BY <1>9, FetchKept DEF LookAtDependency
<1>10. CASE ListPackage
  BY <1>10 DEF ListPackage, FetchInv
<1>11. CASE ChoosePlace
  BY <1>11, FetchKept DEF ChoosePlace
<1>12. CASE MakeWorkspace
  BY <1>12, FetchKept DEF MakeWorkspace
<1>13. CASE Guard
  BY <1>13 DEF Guard, FetchInv
<1>14. ASSUME NEW n \in DOMAIN plan, LookInCache(n) \/ MakeTemporary(n) \/ Download(n) PROVE FetchInv'
  <2>1. WorkerStep(n)
    BY <1>14, WorkersStep
  <2>2. PICK st \in {"idle", "mirror", "curl", "ok", "err"}, m \in Nat, content \in {Nothing, "good", "bad"} :
          /\ fetch' = [fetch EXCEPT ![n] = [st |-> st, mirror |-> m, content |-> content]]
          /\ st \in {"mirror", "curl"} => m \in 1..Mirrors /\ (Digest(n) \/ Options.allow)
          /\ st = "ok" => Trusted(n, content)
    BY <2>1 DEF WorkerStep, Fetch
  <2>3. UNCHANGED <<call, world, plan, archives, local, main>> /\ main = "fetching" /\ n \in DOMAIN fetch
    BY <2>1 DEF WorkerStep
  <2>4. /\ \A k : Digest(k)' = Digest(k)
        /\ Options' = Options
        /\ \A k : \A c : Trusted(k, c)' = Trusted(k, c)
    BY <2>3 DEF Trusted, Digest, Options
  <2>5. DOMAIN fetch' = DOMAIN fetch
    BY <2>2
  <2>6. ASSUME NEW k \in DOMAIN fetch
        PROVE  /\ fetch'[k] \in [st : {"idle", "mirror", "curl", "ok", "err", "unpacked"}, mirror : Nat,
                                 content : {Nothing, "good", "bad"}]
               /\ fetch'[k].st \in {"mirror", "curl"} => fetch'[k].mirror \in 1..Mirrors /\ (Digest(k) \/ Options.allow)
               /\ fetch'[k].st = "ok" => Trusted(k, fetch'[k].content)
    <3>1. CASE k = n
      BY <2>2, <2>3, <3>1
    <3>2. CASE k # n
      BY <2>2, <3>2 DEF FetchInv
    <3>. QED
      BY <3>1, <3>2
  <2>. QED
    BY <2>3, <2>4, <2>5, <2>6 DEF FetchInv
<1>15. CASE JoinBatch
  <2>1. CASE Fail /\ archives' = archives
    BY <1>15, <2>1, FetchKept DEF JoinBatch
  <2> DEFINE size   == Cardinality(InBatch)
             place(n) == <<plan[n], fetch[n].content, Place(n)>>
             joined == [i \in 1..size |-> place(Len(archives) + i)]
  <2>2. CASE /\ archives' = archives \o joined /\ \A n \in InBatch : fetch[n].st = "ok"
             /\ main' = IF Len(archives') = Len(plan) THEN "measuring" ELSE "fetching"
    <3>1. /\ UNCHANGED <<call, world, plan, fetch, local>> /\ main = "fetching"
          /\ DOMAIN fetch = DOMAIN plan /\ Len(archives) <= Len(plan)
      BY <1>15 DEF JoinBatch, FetchInv, EphemeralTypeOK
    <3>2. /\ plan \in Seq(DOMAIN world.depends)
          /\ archives \in Seq((DOMAIN world.depends) \X {"good", "bad", Nothing} \X (Nat \X Nat))
      BY DEF FetchInv, VisitInv, Explored
    <3>3. size \in Nat /\ \A i \in 1..size : Len(archives) + i \in InBatch
      BY <3>1, <3>2, BatchSize
    <3>4. \A n \in InBatch : n \in DOMAIN plan /\ n \in Nat
      BY <3>2 DEF InBatch
    <3>5. \A n \in InBatch : /\ place(n) \in (DOMAIN world.depends) \X {"good", "bad", Nothing} \X (Nat \X Nat)
                             /\ place(n)[1] = plan[n] /\ Trusted(n, place(n)[2])
      <4>1. ASSUME NEW n \in InBatch
            PROVE  /\ plan[n] \in DOMAIN world.depends /\ fetch[n].content \in {"good", "bad", Nothing}
                   /\ fetch[n].mirror \in Nat /\ n \in Nat /\ Trusted(n, fetch[n].content)
        BY <2>2, <3>1, <3>2, <3>4 DEF FetchInv
      <4>. QED
        BY <4>1 DEF Place
    <3> HIDE DEF place
    <3>6. joined \in Seq((DOMAIN world.depends) \X {"good", "bad", Nothing} \X (Nat \X Nat)) /\ Len(joined) = size
      BY <3>3, <3>5
    <3>7. \A i \in 1..size : joined[i] = place(Len(archives) + i)
      OBVIOUS
    <3> HIDE DEF joined
    <3>8. /\ archives' \in Seq((DOMAIN world.depends) \X {"good", "bad", Nothing} \X (Nat \X Nat))
          /\ DOMAIN archives' = 1..(Len(archives) + size)
      BY <2>2, <3>2, <3>3, <3>6, JoinedSeq
    <3>9. \A k \in DOMAIN archives' : archives'[k][1] = plan[k] /\ Trusted(k, archives'[k][2])
      <4>1. ASSUME NEW k \in DOMAIN archives
            PROVE  archives'[k][1] = plan[k] /\ Trusted(k, archives'[k][2])
        <5>1. archives'[k] = archives[k]
          BY <2>2, <3>2, <3>6, <4>1
        <5>. QED
          BY <5>1 DEF FetchInv
      <4>2. ASSUME NEW i \in 1..size
            PROVE  LET k == Len(archives) + i IN archives'[k][1] = plan[k] /\ Trusted(k, archives'[k][2])
        <5>1. archives'[Len(archives) + i] = joined[i]
          BY <2>2, <3>2, <3>3, <3>6, <4>2
        <5>. QED
          BY <3>3, <3>5, <3>7, <5>1
      <4>3. \A k \in DOMAIN archives' : k \in DOMAIN archives \/ \E i \in 1..size : k = Len(archives) + i
        <5>1. Len(archives) \in Nat /\ DOMAIN archives = 1..Len(archives)
          BY <3>2
        <5>2. \A k \in DOMAIN archives' : k \notin DOMAIN archives => k - Len(archives) \in 1..size /\ k = Len(archives) + (k - Len(archives))
          BY <3>3, <3>8, <5>1
        <5>. QED
          BY <5>2
      <4>. QED
        BY <4>1, <4>2, <4>3
    <3>10. /\ \A k : Digest(k)' = Digest(k)
           /\ Options' = Options
           /\ \A k : \A c : Trusted(k, c)' = Trusted(k, c)
      BY <3>1 DEF Trusted, Digest, Options
    <3>. QED
      BY <2>2, <3>1, <3>8, <3>9, <3>10 DEF FetchInv
  <2>3. (\A n \in InBatch : fetch[n].st # "err") => \A n \in InBatch : fetch[n].st = "ok"
    BY <1>15 DEF JoinBatch
  <2>. QED
    BY <1>15, <2>1, <2>2, <2>3 DEF JoinBatch
<1>16. CASE Measure
  BY <1>16, FetchKept DEF Measure
<1>17. CASE Extract
  <2>1. UNCHANGED <<call, world, plan, archives, local>> /\ main = "extracting" /\ main' \in {"selecting", "extracting", "dropping"}
    BY <1>17 DEF Extract
  <2>2. /\ \A k : Digest(k)' = Digest(k)
        /\ Options' = Options
        /\ \A k : \A c : Trusted(k, c)' = Trusted(k, c)
    BY <2>1 DEF Trusted, Digest, Options
  <2>3. ASSUME NEW k \in DOMAIN fetch
        PROVE  /\ fetch'[k] \in [st : {"idle", "mirror", "curl", "ok", "err", "unpacked"}, mirror : Nat,
                                 content : {Nothing, "good", "bad"}]
               /\ fetch'[k].st \in {"mirror", "curl"} => fetch'[k].mirror \in 1..Mirrors /\ (Digest(k) \/ Options.allow)
               /\ fetch'[k].st = "ok" => Trusted(k, fetch'[k].content)
    <3>1. CASE fetch'[k] = fetch[k]
      BY <3>1 DEF FetchInv
    <3>2. CASE fetch'[k] = [fetch[k] EXCEPT !.st = "unpacked"]
      BY <3>2 DEF FetchInv
    <3>. QED
      BY <1>17, <3>1, <3>2, ExtractMarks
  <2>4. DOMAIN fetch' = DOMAIN fetch
    BY <1>17, ExtractMarks
  <2>. QED
    BY <2>1, <2>2, <2>3, <2>4 DEF FetchInv
<1>18. CASE Select
  BY <1>18, FetchKept DEF Select
<1>19. CASE AppEnds
  BY <1>19, FetchKept DEF AppEnds
<1>20. CASE Unregister
  BY <1>20, FetchKept DEF Unregister
<1>21. CASE RemoveWorkspace
  BY <1>21, FetchKept DEF RemoveWorkspace
<1>22. CASE Raise
  BY <1>22, FetchKept DEF Raise
<1>23. CASE Cleanup
  BY <1>23, FetchKept DEF Cleanup
<1>24. CASE ExitInterrupted
  BY <1>24, FetchKept DEF ExitInterrupted
<1>25. CASE Killed
  BY <1>25, FetchKept DEF Killed
<1>26. CASE CleanCache
  BY <1>26, FetchKept DEF CleanCache
<1>27. CASE SweepCheck
  BY <1>27, FetchKept DEF SweepCheck
<1>28. CASE SweepRemove
  BY <1>28, FetchKept DEF SweepRemove
<1>29. CASE Ended
  BY <1>29, FetchKept DEF Ended, ephemeralVars
<1>. QED
  BY <1>0, <1>1, <1>2, <1>3, <1>4, <1>5, <1>6, <1>7, <1>8, <1>9, <1>10, <1>11, <1>12, <1>13, <1>14,
     <1>15, <1>16, <1>17, <1>18, <1>19, <1>20, <1>21, <1>22, <1>23, <1>24, <1>25, <1>26, <1>27, <1>28,
     <1>29 DEF EphemeralNext

(* Unpacking begins with no link, and keeps every link inside.             *)
LEMMA EmptyTreeIsInside == LinksStayInside(<<>>)
  BY DEF LinksStayInside, LinksOf

LEMMA ExtractedInside ==
    ASSUME NEW old, NEW archive, NEW who, Extracted(old, archive, who).ok
    PROVE  LinksStayInside(Extracted(old, archive, who).tree)
  BY DEF Extracted

(* What is selected is a candidate.                                        *)
LEMMA SelectedAmong ==
    ASSUME NEW paths, NEW pkg, NEW bin
    PROVE  Selected(paths, pkg, bin) \subseteq paths
  BY DEF Selected, Named

(* What is unpacked and chosen.                                            *)
LEMMA NextRunInv ==
    ASSUME EphemeralInv, [EphemeralNext]_ephemeralVars
    PROVE  RunInv'
<1> USE DEF EphemeralInv, asked, disk, around, Quit, Fail, To, Early, Guarded, Joined, Filled
<1>0. CASE UNCHANGED ephemeralVars
  BY <1>0, RunKept DEF ephemeralVars
<1>1. CASE Dispatch
  BY <1>1, RunKept DEF Dispatch
<1>2. CASE FlatpakQuery \/ FlatpakInstall
  BY <1>2, RunKept DEF FlatpakQuery, FlatpakInstall
<1>3. CASE FlatpakRun
  BY <1>3, RunKept DEF FlatpakRun
<1>4. CASE FlatpakPurge
  BY <1>4, RunKept DEF FlatpakPurge
<1>5. CASE HostRun
  BY <1>5 DEF HostRun, RunInv
<1>6. CASE HostEnds
  BY <1>6 DEF HostEnds, RunInv
<1>7. CASE Probe
  BY <1>7, RunKept DEF Probe
<1>8. CASE Choose
  BY <1>8 DEF Choose, RunInv
<1>9. CASE LookAtDependency
  BY <1>9, RunKept DEF LookAtDependency
<1>10. CASE ListPackage
  BY <1>10, RunKept DEF ListPackage
<1>11. CASE ChoosePlace
  BY <1>11, RunKept DEF ChoosePlace
<1>12. CASE MakeWorkspace
  BY <1>12 DEF MakeWorkspace, RunInv
<1>13. CASE Guard
  BY <1>13, EmptyTreeIsInside DEF Guard, RunInv, DiskInv
<1>14. ASSUME NEW n \in DOMAIN plan, LookInCache(n) \/ MakeTemporary(n) \/ Download(n) PROVE RunInv'
  <2>1. WorkerStep(n)
    BY <1>14, WorkersStep
  <2>. QED
    BY <2>1, RunKept DEF WorkerStep
<1>15. CASE JoinBatch
  BY <1>15 DEF JoinBatch, RunInv
<1>16. CASE Measure
  <2>1. CASE main' = "dropping"
    BY <2>1 DEF RunInv
  <2>2. CASE main' = "extracting" /\ owned' = Inspected(Payload(Last(archives))).owned
    <3>1. main = "measuring" /\ UNCHANGED <<world, archives, local, tree>>
      BY <1>16 DEF Measure
    <3>2. tree' = <<>>
      BY <3>1 DEF RunInv
    <3>3. \A a : Payload(a)' = Payload(a)
      BY <3>1 DEF Payload
    <3>. QED
      BY <2>2, <3>1, <3>2, <3>3, EmptyTreeIsInside DEF RunInv, Last
  <2>. QED
    BY <1>16, <2>1, <2>2 DEF Measure
<1>17. CASE Extract
  <2>1. UNCHANGED <<world, archives, local, owned>> /\ main = "extracting" /\ main' \in {"selecting", "extracting", "dropping"}
    BY <1>17 DEF Extract
  <2>2. CASE main' = "dropping"
    BY <2>2 DEF RunInv
  <2>3. CASE tree' = tree /\ main' # "dropping"
    BY <2>1, <2>3 DEF RunInv, Payload
  <2>4. CASE /\ \E n : tree' = Extracted(tree, Payload(archives[n]), n).tree /\ Extracted(tree, Payload(archives[n]), n).ok
             /\ main' # "dropping"
    <3>1. LinksStayInside(tree')
      BY <2>4, ExtractedInside
    <3>. QED
      BY <2>1, <2>4, <3>1 DEF RunInv, Payload
  <2>. QED
    BY <1>17, <2>2, <2>3, <2>4 DEF Extract
<1>18. CASE Select
  <2>1. UNCHANGED <<call, world, archives, local, owned, tree, dir>> /\ main = "selecting"
    BY <1>18 DEF Select
  <2>2. CASE main' = "dropping"
    BY <2>2 DEF RunInv
  <2>3. CASE binary' \in Selected(Candidates, call.pkg, Options.bin) /\ main' = "running"
    <3>1. binary' \in Candidates
      BY <2>3, SelectedAmong
    <3>2. local = Nothing => binary' \in owned /\ Runnable(tree, binary')
      BY <3>1 DEF Candidates
    <3>. QED
      BY <2>1, <2>3, <3>2 DEF RunInv, Payload
  <2>. QED
    BY <1>18, <2>2, <2>3 DEF Select
<1>19. CASE AppEnds
  BY <1>19, RunKept DEF AppEnds
<1>20. CASE Unregister
  BY <1>20, RunKept DEF Unregister
<1>21. CASE RemoveWorkspace
  BY <1>21 DEF RemoveWorkspace, RunInv
<1>22. CASE Raise
  BY <1>22, RunKept DEF Raise
<1>23. CASE Cleanup
  <2>1. CASE UNCHANGED <<dir, tree>>
    BY <1>23, <2>1, RunKept DEF Cleanup
  <2>2. CASE WorkspaceGone
    BY <1>23, <2>2, EmptyTreeIsInside DEF Cleanup, WorkspaceGone, RunInv, Payload
  <2>. QED
    BY <1>23, <2>1, <2>2 DEF Cleanup
<1>24. CASE ExitInterrupted
  BY <1>24, RunKept DEF ExitInterrupted
<1>25. CASE Killed
  BY <1>25, RunKept DEF Killed
<1>26. CASE CleanCache
  BY <1>26, RunKept DEF CleanCache
<1>27. CASE SweepCheck
  BY <1>27, RunKept DEF SweepCheck
<1>28. CASE SweepRemove
  BY <1>28 DEF SweepRemove, RunInv, DiskInv, Over
<1>29. CASE Ended
  BY <1>29, RunKept DEF Ended, ephemeralVars
<1>. QED
  BY <1>0, <1>1, <1>2, <1>3, <1>4, <1>5, <1>6, <1>7, <1>8, <1>9, <1>10, <1>11, <1>12, <1>13, <1>14,
     <1>15, <1>16, <1>17, <1>18, <1>19, <1>20, <1>21, <1>22, <1>23, <1>24, <1>25, <1>26, <1>27, <1>28,
     <1>29 DEF EphemeralNext

(* The parts together.                                                     *)
LEMMA EphemeralInitInv == EphemeralInit => EphemeralInv
<1> SUFFICES ASSUME EphemeralInit PROVE EphemeralInv
  OBVIOUS
<1> USE DEF EphemeralInit
<1>1. EphemeralTypeOK
  BY DEF EphemeralTypeOK
<1>2. VisitInv
  BY DEF VisitInv, Explored, Answered, NoVisit, Settled, Early, Joined, Filled
<1>3. DiskInv /\ RunInv
  BY DEF DiskInv, RunInv, Over, Early, Guarded, Joined, Filled
<1>4. HostInv
  BY WorldsAssumption DEF HostInv
<1>5. FetchInv
  BY DEF FetchInv, Early, Guarded, Joined, Filled
<1>. QED
  BY <1>1, <1>2, <1>3, <1>4, <1>5 DEF EphemeralInv

LEMMA EphemeralNextInv == EphemeralInv /\ [EphemeralNext]_ephemeralVars => EphemeralInv'
<1> SUFFICES ASSUME EphemeralInv, [EphemeralNext]_ephemeralVars PROVE EphemeralInv'
  OBVIOUS
<1>1. UNCHANGED <<call, world>>
  BY DEF EphemeralNext, ephemeralVars, asked, Dispatch, FlatpakQuery, FlatpakInstall, FlatpakRun, FlatpakPurge, HostRun, HostEnds,
         Probe, Choose, LookAtDependency, ListPackage, ChoosePlace, MakeWorkspace, Guard, LookInCache, MakeTemporary,
         Download, JoinBatch, Measure, Extract, Select, AppEnds, Unregister, RemoveWorkspace, Raise, Cleanup,
         ExitInterrupted, Killed, CleanCache, SweepCheck, SweepRemove, Ended
<1>. QED
  BY <1>1, NextEphemeralTypeOK, NextVisitInv, NextDiskInv, NextHostInv, NextFetchInv, NextRunInv DEF EphemeralInv

LEMMA EphemeralInvAlways == EphemeralSpec => []EphemeralInv
  BY EphemeralInitInv, EphemeralNextInv, PTL DEF EphemeralSpec

(***************************************************************************)
(* The state of a run keeps to its types, whatever was asked for and       *)
(* whatever databases, caches and capabilities the run meets.              *)
(***************************************************************************)
THEOREM EphemeralTypesAreKept == EphemeralSpec => []EphemeralTypeOK
<1>1. EphemeralInv => EphemeralTypeOK
  BY DEF EphemeralInv
<1>. QED
  BY <1>1, EphemeralInvAlways, PTL

(***************************************************************************)
(* No sweep takes the workspace of a live run, a run that ends by itself   *)
(* leaves none, and no archive of the cache is removed; of the Flatpaks    *)
(* that were there only the requested one can be, and only when the query  *)
(* of it failed, which the code takes for its absence (workspace.rs:44,    *)
(* 78; providers.rs:19, 28, 57).                                           *)
(***************************************************************************)
THEOREM RunsLeaveTheHost == EphemeralSpec => []HostIsUnchanged
<1>1. EphemeralInv => HostIsUnchanged
  BY DEF EphemeralInv, EphemeralTypeOK, DiskInv, HostInv, HostIsUnchanged, Over, Early, Guarded, Joined, Filled
<1>. QED
  BY <1>1, EphemeralInvAlways, PTL

OverPlace(mounts, place) == \E k \in DOMAIN mounts : mounts[k].at \in Prefixes1(place)

(* Mounts. What is seen at a place is the last mount over it.              *)
LEMMA SeenLastOver ==
    ASSUME NEW S, NEW s \in Seq(S), NEW place, NEW k \in DOMAIN s, s[k].at \in Prefixes1(place),
           \A j \in DOMAIN s : s[j].at \in Prefixes1(place) => j <= k
    PROVE  Seen(s, place) = s[k]
<1> DEFINE over == {n \in DOMAIN s : s[n].at \in Prefixes1(place)}
<1>1. over \subseteq Nat /\ k \in over /\ \A j \in over : k >= j
  OBVIOUS
<1> HIDE DEF over
<1>2. Max(over) = k
  <2>1. Max(over) \in over /\ \A j \in over : Max(over) >= j
    BY <1>1, Zenon DEF Max
  <2>2. Max(over) >= k /\ k >= Max(over)
    BY <1>1, <2>1
  <2>3. Max(over) \in Nat /\ k \in Nat
    BY <1>1, <2>1
  <2>. QED
    BY <2>2, <2>3
<1>. QED
  BY <1>1, <1>2 DEF Seen, over

LEMMA SeenNothing ==
    ASSUME NEW s, NEW place, ~OverPlace(s, place)
    PROVE  Seen(s, place) = Nothing
  BY DEF Seen, OverPlace

LEMMA LastOver ==
    ASSUME NEW S, NEW s \in Seq(S), NEW place, OverPlace(s, place)
    PROVE  \E k \in DOMAIN s : s[k].at \in Prefixes1(place) /\ \A j \in DOMAIN s : s[j].at \in Prefixes1(place) => j <= k
<1> DEFINE over == {n \in DOMAIN s : s[n].at \in Prefixes1(place)}
<1>1. over \in SUBSET (1..Len(s)) /\ over # {} /\ Len(s) \in Nat
  BY DEF OverPlace
<1> HIDE DEF over
<1>2. PICK k \in over : \A j \in over : j <= k
  BY <1>1, Largest
<1>. QED
  BY <1>2 DEF over

(* A mount of the second list hides what the first one has over a place.   *)
LEMMA SeenOverBoth ==
    ASSUME NEW S, NEW s \in Seq(S), NEW t \in Seq(S), NEW place
    PROVE  /\ OverPlace(t, place) => Seen(s \o t, place) = Seen(t, place)
           /\ ~OverPlace(t, place) => Seen(s \o t, place) = Seen(s, place)
<1> DEFINE u == s \o t
<1>0. /\ u \in Seq(S) /\ DOMAIN u = 1..(Len(s) + Len(t)) /\ DOMAIN s = 1..Len(s) /\ DOMAIN t = 1..Len(t)
      /\ Len(s) \in Nat /\ Len(t) \in Nat
  OBVIOUS
<1>1. /\ \A i \in DOMAIN s : i \in DOMAIN u /\ u[i] = s[i]
      /\ \A i \in DOMAIN t : Len(s) + i \in DOMAIN u /\ u[Len(s) + i] = t[i]
      /\ \A i \in DOMAIN u : i \notin DOMAIN s => i - Len(s) \in DOMAIN t /\ u[i] = t[i - Len(s)]
  BY <1>0
<1> HIDE DEF u
<1>2. CASE OverPlace(t, place)
  <2>1. PICK k \in DOMAIN t : t[k].at \in Prefixes1(place) /\ \A j \in DOMAIN t : t[j].at \in Prefixes1(place) => j <= k
    BY <1>2, LastOver
  <2>2. Seen(t, place) = t[k]
    BY <2>1, SeenLastOver
  <2>3. Len(s) + k \in DOMAIN u /\ u[Len(s) + k] = t[k]
    BY <1>1
  <2>4. \A j \in DOMAIN u : u[j].at \in Prefixes1(place) => j <= Len(s) + k
    BY <1>0, <1>1, <2>1
  <2>5. Seen(u, place) = u[Len(s) + k]
    BY <1>0, <2>1, <2>3, <2>4, SeenLastOver
  <2>. QED
    BY <1>2, <2>2, <2>3, <2>5 DEF u
<1>3. CASE ~OverPlace(t, place) /\ OverPlace(s, place)
  <2>1. PICK k \in DOMAIN s : s[k].at \in Prefixes1(place) /\ \A j \in DOMAIN s : s[j].at \in Prefixes1(place) => j <= k
    BY <1>3, LastOver
  <2>2. Seen(s, place) = s[k]
    BY <2>1, SeenLastOver
  <2>3. \A j \in DOMAIN u : u[j].at \in Prefixes1(place) => j \in DOMAIN s
    BY <1>1, <1>3 DEF OverPlace
  <2>4. \A j \in DOMAIN u : u[j].at \in Prefixes1(place) => j <= k
    BY <1>1, <2>1, <2>3
  <2>4a. k \in DOMAIN u /\ u[k].at \in Prefixes1(place)
    BY <1>1, <2>1
  <2>5. Seen(u, place) = u[k]
    BY <1>0, <2>4, <2>4a, SeenLastOver
  <2>. QED
    BY <1>1, <1>3, <2>2, <2>5 DEF u
<1>4. CASE ~OverPlace(t, place) /\ ~OverPlace(s, place)
  <2>1. ~OverPlace(u, place)
    BY <1>1, <1>4 DEF OverPlace
  <2>. QED
    BY <1>4, <2>1, SeenNothing DEF u
<1>. QED
  BY <1>2, <1>3, <1>4

LEMMA SeenOfOne ==
    ASSUME NEW m, NEW place
    PROVE  /\ OverPlace(<<m>>, place) <=> m.at \in Prefixes1(place)
           /\ m.at \in Prefixes1(place) => Seen(<<m>>, place) = m
<1>1. <<m>> \in Seq({m}) /\ DOMAIN <<m>> = {1} /\ <<m>>[1] = m
  OBVIOUS
<1>2. OverPlace(<<m>>, place) <=> m.at \in Prefixes1(place)
  BY <1>1 DEF OverPlace
<1>3. ASSUME m.at \in Prefixes1(place) PROVE Seen(<<m>>, place) = <<m>>[1]
  <2> DEFINE s == <<m>>
  <2>1. s \in Seq({m}) /\ 1 \in DOMAIN s /\ s[1].at \in Prefixes1(place) /\ \A j \in DOMAIN s : j <= 1
    BY <1>1, <1>3
  <2> HIDE DEF s
  <2>2. Seen(s, place) = s[1]
    BY <2>1, SeenLastOver
  <2>. QED
    BY <2>2 DEF s
<1>. QED
  BY <1>1, <1>2, <1>3

LEMMA NothingOver ==
    ASSUME NEW place
    PROVE  ~OverPlace(<<>>, place) /\ Seen(<<>>, place) = Nothing
<1>1. ~OverPlace(<<>>, place)
  BY DEF OverPlace
<1>. QED
  BY <1>1, SeenNothing

(* The places a place is in.                                               *)
LEMMA AppendedTo ==
    ASSUME NEW S, NEW s \in Seq(S), NEW e \in S
    PROVE  /\ Append(s, e) \in Seq(S) /\ Len(Append(s, e)) = Len(s) + 1
           /\ Append(s, e)[Len(s) + 1] = e /\ \A i \in 1..Len(s) : Append(s, e)[i] = s[i]
  OBVIOUS

LEMMA SameSeq ==
    ASSUME NEW S, NEW s \in Seq(S), NEW t \in Seq(S), Len(s) = Len(t), \A i \in 1..Len(s) : s[i] = t[i]
    PROVE  s = t
  OBVIOUS

LEMMA PrefixOf ==
    ASSUME NEW S, NEW s \in Seq(S), NEW n \in 1..Len(s)
    PROVE  /\ SubSeq(s, 1, n) \in Seq(S) /\ Len(SubSeq(s, 1, n)) = n
           /\ \A i \in 1..n : SubSeq(s, 1, n)[i] = s[i]
  OBVIOUS

LEMMA PrefixesOfOne ==
    ASSUME NEW a
    PROVE  Prefixes1(<<a>>) = {<<a>>}
<1>1. SubSeq(<<a>>, 1, 1) = <<a>>
  <2> DEFINE s == <<a>>
  <2>1. s \in Seq({a}) /\ Len(s) = 1
    OBVIOUS
  <2> HIDE DEF s
  <2>2. SubSeq(s, 1, 1) = s
    BY <2>1, PrefixOf, SameSeq
  <2>. QED
    BY <2>2 DEF s
<1>. QED
  BY <1>1 DEF Prefixes1

LEMMA PrefixesOfTwo ==
    ASSUME NEW a, NEW b
    PROVE  Prefixes1(<<a, b>>) = {<<a>>, <<a, b>>}
<1>1. SubSeq(<<a, b>>, 1, 1) = <<a>> /\ SubSeq(<<a, b>>, 1, 2) = <<a, b>>
  <2> DEFINE s == <<a, b>>
             t == <<a>>
  <2>1. s \in Seq({a, b}) /\ Len(s) = 2 /\ t \in Seq({a, b}) /\ Len(t) = 1 /\ t[1] = s[1]
    OBVIOUS
  <2> HIDE DEF s, t
  <2>2. SubSeq(s, 1, 1) = t /\ SubSeq(s, 1, 2) = s
    BY <2>1, PrefixOf, SameSeq
  <2>. QED
    BY <2>2 DEF s, t
<1>2. 1..Len(<<a, b>>) = {1, 2}
  OBVIOUS
<1>. QED
  BY <1>1, <1>2 DEF Prefixes1

LEMMA PrefixesOfThree ==
    ASSUME NEW a, NEW b, NEW c
    PROVE  Prefixes1(Append(<<a, b>>, c)) = {<<a>>, <<a, b>>, <<a, b, c>>}
<1>1. Append(<<a, b>>, c) = <<a, b, c>>
  <2> DEFINE s == <<a, b, c>>
             t == <<a, b>>
  <2>1. /\ s \in Seq({a, b, c}) /\ Len(s) = 3 /\ t \in Seq({a, b, c}) /\ Len(t) = 2
        /\ t[1] = s[1] /\ t[2] = s[2] /\ s[3] = c
    OBVIOUS
  <2> HIDE DEF s, t
  <2>2. Append(t, c) \in Seq({a, b, c}) /\ Len(Append(t, c)) = 3 /\ \A i \in 1..3 : Append(t, c)[i] = s[i]
    <3>1. /\ Append(t, c) \in Seq({a, b, c}) /\ Len(Append(t, c)) = 3 /\ Append(t, c)[3] = c
          /\ Append(t, c)[1] = t[1] /\ Append(t, c)[2] = t[2]
      <4> DEFINE T == {a, b, c}
      <4>1. t \in Seq(T) /\ c \in T /\ Len(t) = 2 /\ 1 \in 1..Len(t) /\ 2 \in 1..Len(t)
        BY <2>1
      <4> HIDE DEF T
      <4>2. /\ Append(t, c) \in Seq(T) /\ Len(Append(t, c)) = Len(t) + 1 /\ Append(t, c)[Len(t) + 1] = c
            /\ \A i \in 1..Len(t) : Append(t, c)[i] = t[i]
        BY <4>1, AppendedTo
      <4>. QED
        BY <4>1, <4>2 DEF T
    <3>2. \A i \in 1..3 : i = 1 \/ i = 2 \/ i = 3
      OBVIOUS
    <3>. QED
      BY <2>1, <3>1, <3>2
  <2>3. Append(t, c) = s
    BY <2>1, <2>2, SameSeq
  <2>. QED
    BY <2>3 DEF s, t
<1>2. SubSeq(<<a, b, c>>, 1, 1) = <<a>> /\ SubSeq(<<a, b, c>>, 1, 2) = <<a, b>> /\ SubSeq(<<a, b, c>>, 1, 3) = <<a, b, c>>
  <2> DEFINE s == <<a, b, c>>
             t == <<a, b>>
             u == <<a>>
  <2>1. /\ s \in Seq({a, b, c}) /\ Len(s) = 3 /\ t \in Seq({a, b, c}) /\ Len(t) = 2 /\ u \in Seq({a, b, c}) /\ Len(u) = 1
        /\ u[1] = s[1] /\ t[1] = s[1] /\ t[2] = s[2]
    OBVIOUS
  <2> HIDE DEF s, t, u
  <2>2. SubSeq(s, 1, 1) = u /\ SubSeq(s, 1, 2) = t /\ SubSeq(s, 1, 3) = s
    BY <2>1, PrefixOf, SameSeq
  <2>. QED
    BY <2>2 DEF s, t, u
<1>3. 1..Len(<<a, b, c>>) = {1, 2, 3}
  OBVIOUS
<1>. QED
  BY <1>1, <1>2, <1>3 DEF Prefixes1

LEMMA FirstIsPrefix ==
    ASSUME NEW p \in Seq(STRING), p # <<>>
    PROVE  <<p[1]>> \in Prefixes1(p)
<1>1. Len(p) \in Nat \ {0}
  OBVIOUS
<1>2. SubSeq(p, 1, 1) = <<p[1]>>
  <2> DEFINE t == <<p[1]>>
  <2>1. t \in Seq(STRING) /\ Len(t) = 1 /\ t[1] = p[1] /\ 1 \in 1..Len(p)
    BY <1>1
  <2> HIDE DEF t
  <2>2. SubSeq(p, 1, 1) = t
    BY <2>1, PrefixOf, SameSeq
  <2>. QED
    BY <2>2 DEF t
<1>. QED
  BY <1>1, <1>2 DEF Prefixes1

(* Two mounts: the second hides the first.                                 *)
LEMMA SeenOfTwo ==
    ASSUME NEW m, NEW n, NEW place
    PROVE  /\ OverPlace(<<m, n>>, place) <=> (m.at \in Prefixes1(place) \/ n.at \in Prefixes1(place))
           /\ n.at \in Prefixes1(place) => Seen(<<m, n>>, place) = n
           /\ OverPlace(<<m, n>>, place) => Seen(<<m, n>>, place) \in {m, n}
<1> DEFINE s == <<m, n>>
<1>1. s \in Seq({m, n}) /\ DOMAIN s = {1, 2} /\ s[1] = m /\ s[2] = n
  OBVIOUS
<1> HIDE DEF s
<1>2. OverPlace(s, place) <=> (m.at \in Prefixes1(place) \/ n.at \in Prefixes1(place))
  BY <1>1 DEF OverPlace
<1>3. n.at \in Prefixes1(place) => Seen(s, place) = n
  <2>1. ASSUME n.at \in Prefixes1(place) PROVE Seen(s, place) = s[2]
    <3>1. 2 \in DOMAIN s /\ s[2].at \in Prefixes1(place) /\ \A j \in DOMAIN s : j <= 2
      BY <1>1, <2>1
    <3>. QED
      BY <1>1, <3>1, SeenLastOver
  <2>. QED
    BY <1>1, <2>1
<1>4. OverPlace(s, place) => Seen(s, place) \in {m, n}
  <2>1. ASSUME OverPlace(s, place) PROVE Seen(s, place) \in {m, n}
    <3>1. PICK k \in DOMAIN s : s[k].at \in Prefixes1(place) /\ \A j \in DOMAIN s : s[j].at \in Prefixes1(place) => j <= k
      BY <1>1, <2>1, LastOver
    <3>2. Seen(s, place) = s[k]
      BY <1>1, <3>1, SeenLastOver
    <3>. QED
      BY <1>1, <3>2
  <2>. QED
    BY <2>1
<1>. QED
  BY <1>2, <1>3, <1>4 DEF s

(* The mounts, piece by piece.                                              *)
LEMMA SandboxIsolates ==
    ASSUME world \in Worlds
    PROVE  Isolated
<1> DEFINE o      == Options
           usr    == Mount(<<"usr">>, "host", FALSE)
           etc    == Mount(<<"etc">>, "host", FALSE)
           share  == Mount(<<"usr", "share">>, IF world.overlay THEN "both" ELSE "work", FALSE)
           tmp    == Mount(<<"tmp">>, "empty", TRUE)
           home   == Mount(<<"home">>, "empty", TRUE)
           cwd    == Mount(world.cwd, "host", o.rw)
           work   == Mount(WorkPlace, "work", FALSE)
           socket == Mount(<<"tmp", "wayland">>, "host", FALSE)
           S == {usr, etc, share, tmp, home, cwd, work, socket}
           A == <<usr, etc>>
           B == IF <<"usr", "share">> \in DirsOf(tree) THEN <<share>> ELSE <<>>
           C == <<tmp, home>>
           D == IF BindsCwd THEN <<cwd>> ELSE <<>>
           E == <<work>>
           F == IF o.gui /\ world.socket THEN <<socket>> ELSE <<>>
           AB == A \o B
           AC == AB \o C
           AD == AC \o D
           AE == AD \o E
<1>1. Mounts(o) = AE \o F
  BY DEF Mounts
<1>2. /\ A \in Seq(S) /\ B \in Seq(S) /\ C \in Seq(S) /\ D \in Seq(S) /\ E \in Seq(S) /\ F \in Seq(S)
      /\ AB \in Seq(S) /\ AC \in Seq(S) /\ AD \in Seq(S) /\ AE \in Seq(S)
  <2>1. {usr, etc, share, tmp, home, cwd, work, socket} \subseteq S
    OBVIOUS
  <2> HIDE DEF S, usr, etc, share, tmp, home, cwd, work, socket
  <2>2. A \in Seq(S) /\ B \in Seq(S) /\ C \in Seq(S) /\ D \in Seq(S) /\ E \in Seq(S) /\ F \in Seq(S)
    BY <2>1
  <2> HIDE DEF A, B, C, D, E, F
  <2>. QED
    BY <2>2
<1>3. /\ usr.at = <<"usr">> /\ etc.at = <<"etc">> /\ share.at = <<"usr", "share">> /\ tmp.at = <<"tmp">> /\ home.at = <<"home">>
      /\ cwd.at = world.cwd /\ work.at = WorkPlace /\ socket.at = <<"tmp", "wayland">>
      /\ usr.rw = FALSE /\ etc.rw = FALSE /\ share.from # "host" /\ tmp.from = "empty" /\ home.from = "empty"
      /\ cwd.rw = Options.rw /\ work.from = "work" /\ work.rw = FALSE /\ socket.rw = FALSE
  BY DEF Mount
<1>4. ASSUME NEW place
      PROVE  /\ OverPlace(B, place) => B = <<share>> /\ share.at \in Prefixes1(place) /\ Seen(B, place) = share
             /\ OverPlace(D, place) => BindsCwd /\ cwd.at \in Prefixes1(place) /\ Seen(D, place) = cwd
             /\ OverPlace(F, place) => socket.at \in Prefixes1(place) /\ Seen(F, place) = socket
             /\ OverPlace(E, place) <=> work.at \in Prefixes1(place)
             /\ OverPlace(E, place) => Seen(E, place) = work
  <2> HIDE DEF share, cwd, work, socket, o
  <2>. QED
    BY SeenOfOne, NothingOver
<1>5. ASSUME NEW place
      PROVE  /\ OverPlace(C, place) <=> (tmp.at \in Prefixes1(place) \/ home.at \in Prefixes1(place))
             /\ home.at \in Prefixes1(place) => Seen(C, place) = home
             /\ OverPlace(C, place) => Seen(C, place) \in {tmp, home}
             /\ OverPlace(A, place) => Seen(A, place) \in {usr, etc}
  <2> HIDE DEF tmp, home, usr, etc
  <2>. QED
    BY SeenOfTwo
<1> HIDE DEF A, B, C, D, E, F, AB, AC, AD, AE, S
<1>6. ASSUME NEW place
      PROVE  /\ OverPlace(F, place)  => Seen(Mounts(o), place) = Seen(F, place)
             /\ ~OverPlace(F, place) => Seen(Mounts(o), place) = Seen(AE, place)
             /\ OverPlace(E, place)  => Seen(AE, place) = Seen(E, place)
             /\ ~OverPlace(E, place) => Seen(AE, place) = Seen(AD, place)
             /\ OverPlace(D, place)  => Seen(AD, place) = Seen(D, place)
             /\ ~OverPlace(D, place) => Seen(AD, place) = Seen(AC, place)
             /\ OverPlace(C, place)  => Seen(AC, place) = Seen(C, place)
             /\ ~OverPlace(C, place) => Seen(AC, place) = Seen(AB, place)
             /\ OverPlace(B, place)  => Seen(AB, place) = Seen(B, place)
             /\ ~OverPlace(B, place) => Seen(AB, place) = Seen(A, place)
  <2>1. Seen(Mounts(o), place) = Seen(AE \o F, place)
    BY <1>1
  <2>2. AE \in Seq(S) /\ F \in Seq(S) /\ AD \in Seq(S) /\ E \in Seq(S)
    BY <1>2
  <2>3. /\ OverPlace(F, place)  => Seen(AE \o F, place) = Seen(F, place)
        /\ ~OverPlace(F, place) => Seen(AE \o F, place) = Seen(AE, place)
    BY <2>2, SeenOverBoth
  <2>4. /\ OverPlace(E, place)  => Seen(AD \o E, place) = Seen(E, place)
        /\ ~OverPlace(E, place) => Seen(AD \o E, place) = Seen(AD, place)
    BY <2>2, SeenOverBoth
  <2>5. AC \in Seq(S) /\ D \in Seq(S) /\ AB \in Seq(S) /\ C \in Seq(S) /\ A \in Seq(S) /\ B \in Seq(S)
    BY <1>2
  <2>6. /\ OverPlace(D, place)  => Seen(AC \o D, place) = Seen(D, place)
        /\ ~OverPlace(D, place) => Seen(AC \o D, place) = Seen(AC, place)
    BY <2>5, SeenOverBoth
  <2>7. /\ OverPlace(C, place)  => Seen(AB \o C, place) = Seen(C, place)
        /\ ~OverPlace(C, place) => Seen(AB \o C, place) = Seen(AB, place)
    BY <2>5, SeenOverBoth
  <2>8. /\ OverPlace(B, place)  => Seen(A \o B, place) = Seen(B, place)
        /\ ~OverPlace(B, place) => Seen(A \o B, place) = Seen(A, place)
    BY <2>5, SeenOverBoth
  <2>. QED
    BY <2>1, <2>3, <2>4, <2>6, <2>7, <2>8 DEF AB, AC, AD, AE
<1> HIDE DEF usr, etc, share, tmp, home, cwd, work, socket, o
(* The home directory.                                                     *)
<1>7. Seen(Mounts(o), <<"home", "key">>).from = "empty"
  <2> DEFINE place == <<"home", "key">>
  <2>1. Prefixes1(place) = {<<"home">>, <<"home", "key">>}
    BY PrefixesOfTwo
  <2>2. BindsCwd => world.cwd \notin Prefixes1(place)
    <3>1. Prefixes1(<<"home">>) = {<<"home">>}
      BY PrefixesOfOne
    <3>. QED
      BY <2>1, <3>1 DEF BindsCwd
  <2>3. WorkPlace \notin Prefixes1(place) /\ <<"tmp", "wayland">> \notin Prefixes1(place) /\ <<"home">> \in Prefixes1(place)
    BY <2>1 DEF WorkPlace
  <2> HIDE DEF place
  <2>4. ~OverPlace(F, place) /\ ~OverPlace(E, place) /\ ~OverPlace(D, place) /\ OverPlace(C, place)
    BY <1>3, <1>4, <1>5, <2>2, <2>3
  <2>5. Seen(Mounts(o), place) = home
    BY <1>3, <1>5, <1>6, <2>3, <2>4
  <2>. QED
    BY <1>3, <2>5 DEF place
(* The package in the workspace.                                           *)
<1>8. Seen(Mounts(o), Append(WorkPlace, "usr")) = work
  <2> DEFINE place == Append(WorkPlace, "usr")
  <2>1. Prefixes1(place) = {<<world.base>>, <<world.base, "work">>, <<world.base, "work", "usr">>}
    BY PrefixesOfThree DEF WorkPlace
  <2>2. WorkPlace \in Prefixes1(place) /\ <<"tmp", "wayland">> \notin Prefixes1(place)
    BY <2>1 DEF WorkPlace
  <2> HIDE DEF place
  <2>3. ~OverPlace(F, place) /\ OverPlace(E, place)
    BY <1>3, <1>4, <2>2
  <2>. QED
    BY <1>4, <1>6, <2>3 DEF place
(* The current directory.                                                  *)
<1>9. ASSUME Seen(Mounts(o), Append(world.cwd, "data")) # Nothing,
             Seen(Mounts(o), Append(world.cwd, "data")).from = "host",
             Seen(Mounts(o), Append(world.cwd, "data")).rw
      PROVE  Options.rw /\ world.cwd[1] \notin Protected \cup {"home"}
  <2> DEFINE place == Append(world.cwd, "data")
             here  == Seen(Mounts(o), place)
  <2>1. world.cwd \in Seq(STRING)
    BY WorldsAssumption
  <2> HIDE DEF place
  <2>3. ~OverPlace(F, place)
    BY <1>3, <1>4, <1>6, <1>9 DEF place
  <2>4. CASE OverPlace(E, place)
    BY <1>3, <1>4, <1>6, <1>9, <2>3, <2>4 DEF place
  <2>5. CASE ~OverPlace(E, place) /\ OverPlace(D, place)
    <3>1. BindsCwd /\ here = cwd
      BY <1>4, <1>6, <2>3, <2>5
    <3>2. world.cwd # <<>> /\ world.cwd[1] \notin Protected /\ <<"home">> \notin Prefixes1(world.cwd)
      BY <3>1 DEF BindsCwd
    <3>3. <<world.cwd[1]>> \in Prefixes1(world.cwd)
      BY <2>1, <3>2, FirstIsPrefix
    <3>. QED
      BY <1>3, <1>9, <3>1, <3>2, <3>3 DEF place
  <2>6. CASE ~OverPlace(E, place) /\ ~OverPlace(D, place)
    <3>1. here = Seen(AC, place)
      BY <1>6, <2>3, <2>6
    <3>2. CASE OverPlace(C, place)
      BY <1>3, <1>5, <1>6, <1>9, <3>1, <3>2 DEF place
    <3>3. CASE ~OverPlace(C, place) /\ OverPlace(B, place)
      BY <1>3, <1>4, <1>6, <1>9, <3>1, <3>3 DEF place
    <3>4. CASE ~OverPlace(C, place) /\ ~OverPlace(B, place)
      <4>1. here = Seen(A, place)
        BY <1>6, <3>1, <3>4
      <4>2. OverPlace(A, place)
        BY <1>9, <4>1, SeenNothing DEF place
      <4>. QED
        BY <1>3, <1>5, <1>9, <4>1, <4>2 DEF place
    <3>. QED
      BY <3>2, <3>3, <3>4
  <2>. QED
    BY <2>4, <2>5, <2>6
<1>. QED
  BY <1>3, <1>7, <1>8, <1>9 DEF Isolated, o

(* What runs is the requested package, trusted and complete.               *)
LEMMA RunsTheRequest ==
    ASSUME EphemeralInv
    PROVE  RunsWhatWasAsked
<1> SUFFICES ASSUME main = "running", local = Nothing, dir = "present"
             PROVE  /\ archives # <<>> /\ Last(archives)[1] = Target
                    /\ binary \in Inspected(world.payload[Target]).owned \cup Inspected(world.damaged).owned
                    /\ Runnable(tree, binary) /\ LinksStayInside(tree)
                    /\ \A n \in DOMAIN archives :
                         /\ archives[n][2] = "good" \/ (Options.allow /\ archives[n][1] \notin world.digests)
                         /\ \A spec \in ToSet(world.depends[archives[n][1]]) :
                              spec \in world.satisfied \/ \E m \in DOMAIN archives : archives[m][1] = world.provider[spec]
  BY DEF RunsWhatWasAsked
<1> USE DEF EphemeralInv
<1>1. main \in Settled /\ main \in Joined /\ main \in Filled
  BY DEF Settled, Joined, Filled
<1>2. visit.stack = <<>> /\ plan # <<>> /\ plan[Len(plan)] = Target /\ plan \in Seq(DOMAIN world.depends)
  BY <1>1 DEF VisitInv, Explored
<1>3. /\ Len(archives) = Len(plan) /\ \A n \in DOMAIN archives : archives[n][1] = plan[n] /\ Trusted(n, archives[n][2])
      /\ archives \in Seq((DOMAIN world.depends) \X {"good", "bad", Nothing} \X (Nat \X Nat))
  BY <1>1 DEF FetchInv
<1>4. Len(plan) \in Nat \ {0} /\ DOMAIN plan = 1..Len(plan) /\ DOMAIN archives = DOMAIN plan
  <2>1. Len(plan) \in Nat \ {0} /\ DOMAIN plan = 1..Len(plan)
    BY <1>2
  <2>2. DOMAIN archives = 1..Len(archives)
    BY <1>3
  <2>. QED
    BY <1>3, <2>1, <2>2
<1>5. archives # <<>> /\ Last(archives)[1] = Target
  <2>1. archives # <<>>
    BY <1>4
  <2>. QED
    BY <1>2, <1>3, <1>4, <2>1 DEF Last
<1>6. binary \in owned /\ Runnable(tree, binary) /\ LinksStayInside(tree)
      /\ owned = Inspected(Payload(archives[Len(archives)])).owned
  BY <1>1 DEF RunInv
<1>7. binary \in Inspected(world.payload[Target]).owned \cup Inspected(world.damaged).owned
  <2>1. archives[Len(archives)][1] = Target
    BY <1>5 DEF Last
  <2>2. Payload(archives[Len(archives)]) \in {world.payload[Target], world.damaged}
    BY <2>1 DEF Payload
  <2>. QED
    BY <1>6, <2>2
<1>8. ASSUME NEW n \in DOMAIN archives
      PROVE  archives[n][2] = "good" \/ (Options.allow /\ archives[n][1] \notin world.digests)
  BY <1>3 DEF Trusted, Digest
<1>9. ASSUME NEW n \in DOMAIN archives, NEW spec \in ToSet(world.depends[archives[n][1]])
      PROVE  spec \in world.satisfied \/ \E m \in DOMAIN archives : archives[m][1] = world.provider[spec]
  <2>1. PICK k \in DOMAIN world.depends[plan[n]] : spec = world.depends[plan[n]][k]
    BY <1>3 DEF ToSet
  <2>2. spec \in visit.specs
    BY <1>4, <2>1 DEF VisitInv, Explored
  <2>3. spec \in world.satisfied \/ world.provider[spec] \in visit.pkgs
    BY <2>2 DEF VisitInv, Answered
  <2>4. \A p \in visit.pkgs : \E m \in DOMAIN plan : plan[m] = p
    <3>1. \A p \in visit.pkgs : (\E i \in DOMAIN plan : plan[i] = p) \/ (\E i \in DOMAIN visit.stack : visit.stack[i].pkg = p)
      BY DEF VisitInv, Explored
    <3>2. DOMAIN visit.stack = {}
      BY <1>2
    <3>. QED
      BY <3>1, <3>2
  <2>. QED
    BY <1>3, <1>4, <2>3, <2>4
<1>. QED
  BY <1>5, <1>6, <1>7, <1>8, <1>9

(***************************************************************************)
(* An application starts only as the invocation promised: it is an         *)
(* executable of the requested package, every archive beside it matched    *)
(* its digest or the user waived that, its dependencies are complete, no   *)
(* link leaves the workspace, and in a sandbox the home is empty, the      *)
(* package read-only and the current directory only what the mode allows   *)
(* (native.rs:98-359, db.rs:214-279, download.rs:155-322). The host is     *)
(* left as it was.                                                         *)
(***************************************************************************)
THEOREM ApplicationsRunAsPromised == EphemeralSpec => []RunsAsPromised
<1>1. EphemeralInv => RunsWhatWasAsked /\ Isolated
  <2>1. EphemeralInv => RunsWhatWasAsked
    BY RunsTheRequest
  <2>2. EphemeralInv => Isolated
    BY SandboxIsolates DEF EphemeralInv
  <2>. QED
    BY <2>1, <2>2
<1>2. RunsWhatWasAsked /\ Isolated /\ HostIsUnchanged => RunsAsPromised
  BY DEF RunsAsPromised
<1>. QED
  BY <1>1, <1>2, EphemeralInvAlways, RunsLeaveTheHost, PTL
=============================================================================
