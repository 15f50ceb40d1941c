------------------------------- MODULE OrphanProofs -------------------------
(***************************************************************************)
(* Proofs about orphans: the three loops that find them and select among   *)
(* them (OrphanLoops), for every graph of dependencies and optional        *)
(* dependencies, and their review and removal (OrphanCleanup), for every   *)
(* graph and every failure.                                                *)
(***************************************************************************)
EXTENDS OrphanLoops, OrphanCleanup, TLAPS

-----------------------------------------------------------------------------
(***************************************************************************)
(* The three loops.                                                        *)
(***************************************************************************)

(* A dependency that something satisfies is satisfied by one of those.     *)
LEMMA SatisfierSatisfies ==
    ASSUME NEW d, d # {}
    PROVE  Satisfier(d) \in d
  BY DEF Satisfier

(* The same, for the dependencies of a well-typed state.                   *)
LEMMA SatisfierOfDep ==
    ASSUME LoopsTypeOK, NEW p \in Package, NEW d \in deps[p]
    PROVE  Satisfier(d) \in d /\ Satisfier(d) \in Package /\ d \subseteq Package
<1>1. d # {} /\ d \subseteq Package
  BY DepChoicesAssumption DEF LoopsTypeOK
<1> QED
  BY <1>1, SatisfierSatisfies

LEMMA LoopsInitInv == LoopsInit => LoopsInv
  BY DEF LoopsInit, LoopsInv, LoopsTypeOK, SearchInv, PruneInv, SafeInv, Supported,
         NothingKeptNeedlessly

(* The type of the state is preserved by every step.                       *)
LEMMA NextLoopsTypeOK == LoopsTypeOK /\ SafeInv /\ [LoopsNext]_loopVars => LoopsTypeOK'
<1> SUFFICES ASSUME LoopsTypeOK, SafeInv, [LoopsNext]_loopVars
             PROVE  LoopsTypeOK'
  OBVIOUS
<1>1. ASSUME NEW p \in Package, Visit(p)
      PROVE  LoopsTypeOK'
  <2> DEFINE found == {Satisfier(d) : d \in deps[p]}
  <2>1. found \subseteq Package
    BY SatisfierOfDep
  <2>2. reached' = reached \cup found /\ queue' = (queue \ {p}) \cup (found \ reached)
    BY <1>1 DEF Visit
  <2> HIDE DEF found
  <2> QED
    BY <1>1, <2>1, <2>2 DEF Visit, LoopsTypeOK, graph
<1>2. CASE ListUnneeded
  <2>1. OutsideParents(Package \ reached) \subseteq Package
    BY OptChoicesAssumption DEF OutsideParents, LoopsTypeOK
  <2> QED
    BY <1>2, <2>1 DEF ListUnneeded, LoopsTypeOK, SafeInv, graph
<1>3. ASSUME NEW o \in Package, Propagate(o)
      PROVE  LoopsTypeOK'
  BY <1>3 DEF Propagate, LoopsTypeOK, graph
<1>4. CASE Pruned
  BY <1>4 DEF Pruned, LoopsTypeOK, graph
<1>5. ASSUME NEW S \in SUBSET orphans, SelectSome(S)
      PROVE  LoopsTypeOK'
  BY <1>5 DEF SelectSome, LoopsTypeOK, graph
<1>6. CASE Round
  BY <1>6 DEF Round, LoopsTypeOK, graph
<1>7. CASE SelectionSafe
  BY <1>7 DEF SelectionSafe, LoopsTypeOK, graph
<1>8. CASE UNCHANGED loopVars
  BY <1>8 DEF loopVars, LoopsTypeOK
<1> QED
  BY <1>1, <1>2, <1>3, <1>4, <1>5, <1>6, <1>7, <1>8 DEF LoopsNext

(* The search never reaches beyond a supported set, and ends with one.     *)
LEMMA NextSearchInv == LoopsTypeOK /\ SearchInv /\ [LoopsNext]_loopVars => SearchInv'
<1> SUFFICES ASSUME LoopsTypeOK, SearchInv, [LoopsNext]_loopVars
             PROVE  SearchInv'
  OBVIOUS
<1>1. ASSUME NEW p \in Package, Visit(p)
      PROVE  SearchInv'
  <2> DEFINE found == {Satisfier(d) : d \in deps[p]}
  <2>1. /\ reached' = reached \cup found
        /\ queue' = (queue \ {p}) \cup (found \ reached)
        /\ UNCHANGED <<explicit, deps, optFor, pc, orphans>>
        /\ pc = "reach" /\ p \in queue /\ p \in reached
    BY <1>1 DEF Visit, graph, LoopsTypeOK
  <2>2. explicit' \subseteq reached'
    BY <2>1 DEF SearchInv
  <2>3. ASSUME NEW q \in reached' \ queue', NEW d \in deps[q]
        PROVE  Satisfier(d) \in reached'
    <3>1. CASE q = p
      BY <2>1, <3>1
    <3>2. CASE q # p
      <4>1. q \in reached \ queue
        BY <2>1, <3>2
      <4> QED
        BY <2>1, <4>1 DEF SearchInv
    <3> QED
      BY <3>1, <3>2
  <2>4. ASSUME NEW T \in SUBSET Package, Supported(T)
        PROVE  reached' \subseteq T
    <3>1. reached \subseteq T
      BY <2>4 DEF SearchInv
    <3>2. found \subseteq T
      BY <2>1, <2>4, <3>1 DEF Supported
    <3> QED
      BY <2>1, <3>1, <3>2
  <2>5. \A T \in SUBSET Package : Supported(T)' => Supported(T)
    BY <2>1 DEF Supported
  <2> HIDE DEF found
  <2> QED
    BY <2>1, <2>2, <2>3, <2>4, <2>5 DEF SearchInv
<1>2. ASSUME UNCHANGED <<explicit, deps, optFor, reached, queue, orphans>>,
             pc = "reach" <=> pc' = "reach"
      PROVE  SearchInv'
  BY <1>2 DEF SearchInv, Supported
<1>3. CASE ListUnneeded
  BY <1>3 DEF ListUnneeded, SearchInv, Supported, graph, LoopsTypeOK
<1> QED
  BY <1>1, <1>2, <1>3
     DEF LoopsNext, Propagate, Pruned, SelectSome, Round, SelectionSafe, loopVars, graph

(* Pruning never makes a package active that some lively set leaves out,   *)
(* and ends with a lively set.                                             *)
LEMMA NextPruneInv == LoopsTypeOK /\ PruneInv /\ [LoopsNext]_loopVars => PruneInv'
<1> SUFFICES ASSUME LoopsTypeOK, PruneInv, [LoopsNext]_loopVars
             PROVE  PruneInv'
  OBVIOUS
<1>1. ASSUME NEW p \in Package, Visit(p)
      PROVE  PruneInv'
  BY <1>1 DEF Visit, PruneInv
<1>2. CASE ListUnneeded
  BY <1>2 DEF ListUnneeded, PruneInv, LivelySet, OutsideParents, graph
<1>3. ASSUME NEW o \in Package, Propagate(o)
      PROVE  PruneInv'
  <2>1. UNCHANGED <<optFor, orphans>>
    BY <1>3 DEF Propagate, graph
  <2>2. \A T \in SUBSET Package : LivelySet(T)' => LivelySet(T)
    BY <2>1 DEF LivelySet, OutsideParents
  <2>3. ASSUME NEW T \in SUBSET Package, LivelySet(T)
        PROVE  active' \subseteq T
    BY <1>3, <2>3 DEF Propagate, PruneInv, LivelySet
  <2> QED
    BY <1>3, <2>1, <2>2, <2>3 DEF Propagate, PruneInv, OutsideParents
<1>4. CASE Pruned
  <2>1. LivelySet(active)
    BY <1>4 DEF Pruned, LivelySet, PruneInv
  <2> QED
    BY <1>4, <2>1 DEF Pruned, PruneInv, LivelySet, OutsideParents, graph
<1>5. ASSUME UNCHANGED <<optFor, orphans, active>>,
             \/ pc' = pc
             \/ pc \in {"select", "safe"} /\ pc' \in {"safe", "done"}
      PROVE  PruneInv'
  BY <1>5 DEF PruneInv, LivelySet, OutsideParents
<1> QED
  BY <1>1, <1>2, <1>3, <1>4, <1>5
     DEF LoopsNext, SelectSome, Round, SelectionSafe, loopVars, graph

(* A round keeps no package that a removable part of the selection holds.  *)
LEMMA RoundSafeInv == LoopsTypeOK /\ SearchInv /\ SafeInv /\ Round => SafeInv'
<1> SUFFICES ASSUME LoopsTypeOK, SearchInv, SafeInv, Round
             PROVE  SafeInv'
  OBVIOUS
<1>1. PICK causing \in [Broken(safe) -> safe] :
          /\ \A b \in Broken(safe) : causing[b] \in b[2]
          /\ safe' = safe \ {causing[b] : b \in Broken(safe)}
  BY DEF Round
<1>2. UNCHANGED <<deps, pc, reached, queue, orphans, ticked>> /\ pc = "safe"
  BY DEF Round, graph
<1>3. ASSUME NEW b \in Broken(safe)
      PROVE  /\ b[1] \in Package \ safe
             /\ b[2] \in deps[b[1]]
             /\ b[2] \subseteq safe
  BY DEF Broken
<1>4. ticked # orphans
  <2> SUFFICES ASSUME ticked = orphans
               PROVE  FALSE
    OBVIOUS
  <2>1. safe = Package \ reached /\ queue = {}
    BY <1>2 DEF SafeInv, SearchInv
  <2>2. PICK b : b \in Broken(safe)
    BY DEF Round
  <2>3. b[1] \in reached \ queue
    BY <1>3, <2>1, <2>2
  <2>4. Satisfier(b[2]) \in reached
    BY <1>3, <2>2, <2>3 DEF SearchInv
  <2>5. Satisfier(b[2]) \in safe
    BY <1>3, <2>2, SatisfierOfDep
  <2> QED
    BY <2>1, <2>4, <2>5
<1>5. ASSUME SoleProviders,
             NEW S \in SUBSET ticked,
             \A p \in Package \ S : \A d \in deps[p] : ~ d \subseteq S
      PROVE  S \subseteq safe'
  <2>1. S \subseteq safe
    BY <1>5 DEF SafeInv, NothingKeptNeedlessly
  <2>2. ASSUME NEW b \in Broken(safe)
        PROVE  causing[b] \notin S
    <3>1. b[1] \in Package \ S /\ b[2] \in deps[b[1]]
      BY <1>3, <2>1
    <3>2. PICK x \in b[2] : x \notin S
      BY <1>5, <3>1
    <3>3. x = causing[b]
      BY <1>1, <1>5, <3>1, <3>2 DEF SoleProviders
    <3> QED
      BY <3>2, <3>3
  <2> QED
    BY <1>1, <2>1, <2>2
<1> QED
  BY <1>2, <1>4, <1>5 DEF SafeInv, NothingKeptNeedlessly, SoleProviders

LEMMA NextSafeInv == LoopsTypeOK /\ SearchInv /\ SafeInv /\ [LoopsNext]_loopVars => SafeInv'
<1> SUFFICES ASSUME LoopsTypeOK, SearchInv, SafeInv, [LoopsNext]_loopVars
             PROVE  SafeInv'
  OBVIOUS
<1>1. ASSUME UNCHANGED <<deps, ticked, safe>>,
             \/ pc' \notin {"safe", "done"} /\ pc \notin {"safe", "done"}
             \/ UNCHANGED orphans /\ pc = "safe" /\ pc' = "done"
             \/ UNCHANGED <<orphans, pc>>
      PROVE  SafeInv'
  BY <1>1 DEF SafeInv, NothingKeptNeedlessly, SoleProviders
<1>2. ASSUME NEW S \in SUBSET orphans, SelectSome(S)
      PROVE  SafeInv'
  BY <1>2 DEF SelectSome, SafeInv, NothingKeptNeedlessly, graph
<1> QED
  BY <1>1, <1>2, RoundSafeInv
     DEF LoopsNext, Visit, ListUnneeded, Propagate, Pruned, SelectionSafe, loopVars, graph

LEMMA LoopsInvAlways == LoopsSpec => []LoopsInv
<1>1. LoopsInv /\ [LoopsNext]_loopVars => LoopsInv'
  BY NextLoopsTypeOK, NextSearchInv, NextPruneInv, NextSafeInv DEF LoopsInv
<1> QED
  BY LoopsInitInv, <1>1, PTL DEF LoopsSpec

(* Every variable keeps its type; the queue holds reached packages and     *)
(* what is safe was ticked.                                                *)
THEOREM LoopsTypeCorrect == LoopsSpec => []LoopsTypeOK
  BY LoopsInvAlways, PTL DEF LoopsInv

(* detect finds the packages that no explicit package needs, for every     *)
(* graph: dependency cycles included.                                      *)
THEOREM DetectIsExact == LoopsSpec => []OrphansAreUnsupported
<1>1. LoopsInv => OrphansAreUnsupported
  <2> SUFFICES ASSUME LoopsInv, pc # "reach", NEW p \in Package
               PROVE  p \in orphans <=>
                        \E T \in SUBSET Package : Supported(T) /\ p \notin T
    BY DEF OrphansAreUnsupported
  <2>1. Supported(reached) /\ reached \in SUBSET Package
    BY DEF LoopsInv, SearchInv, Supported, LoopsTypeOK
  <2> QED
    BY <2>1 DEF LoopsInv, SearchInv
<1> QED
  BY <1>1, LoopsInvAlways, PTL

(* prune_orphan_cycles calls an orphan pure exactly if nothing that stays  *)
(* can use it, for every graph of optional dependencies.                   *)
THEOREM PurityIsExact == LoopsSpec => []PureMeansNoLiveParent
<1>1. LoopsInv => PureMeansNoLiveParent
  <2> SUFFICES ASSUME LoopsInv, pc \in {"select", "safe", "done"}, NEW o \in orphans
               PROVE  o \in Pure <=>
                        \E T \in SUBSET Package : LivelySet(T) /\ optFor[o] \cap T = {}
    BY DEF PureMeansNoLiveParent
  <2>1. LivelySet(active) /\ active \in SUBSET Package
    BY DEF LoopsInv, PruneInv, LoopsTypeOK
  <2>2. \A T \in SUBSET Package : LivelySet(T) => active \subseteq T
    BY DEF LoopsInv, PruneInv
  <2> QED
    BY <2>1, <2>2 DEF Pure
<1> QED
  BY <1>1, LoopsInvAlways, PTL

(* What detect reports can be removed as a whole.                          *)
THEOREM DetectedAreRemovable == LoopsSpec => []AllOrphansRemovable
<1>1. LoopsInv => AllOrphansRemovable
  BY DEF LoopsInv, SafeInv, AllOrphansRemovable
<1> QED
  BY <1>1, LoopsInvAlways, PTL

(* safe_selection keeps the least it can where dependencies have a single  *)
(* satisfier.                                                              *)
THEOREM SelectionIsLargest == LoopsSpec => []NothingKeptNeedlessly
<1>1. LoopsInv => NothingKeptNeedlessly
  BY DEF LoopsInv, SafeInv
<1> QED
  BY <1>1, LoopsInvAlways, PTL

(* For every dependency graph the three loops of detection, pruning and    *)
(* safe selection compute exactly what they stand for.                     *)
THEOREM LoopsAreCorrect == LoopsSpec => []LoopsAreExact
  BY DetectIsExact, PurityIsExact, DetectedAreRemovable, SelectionIsLargest, PTL
     DEF LoopsAreExact

-----------------------------------------------------------------------------
(***************************************************************************)
(* Review and removal.                                                     *)
(***************************************************************************)

(* What is installed together with its dependencies is closed.             *)
LEMMA ClosureCloses ==
    ASSUME NEW S \in SUBSET Pkg, NEW w \in World
    PROVE  /\ S \subseteq Closure(S, w) /\ Closure(S, w) \subseteq Pkg
           /\ Closed(Closure(S, w), w)
<1>1. S \subseteq Closure(S, w) /\ Closure(S, w) \subseteq Pkg
  BY DEF Closure
<1>2. ASSUME NEW p \in Closure(S, w), NEW d \in Deps[w][p]
      PROVE  d \in Closure(S, w)
  <2>1. p \in Pkg /\ d \in Pkg
    BY DepsAssumption DEF Closure
  <2>2. ASSUME NEW T \in SUBSET Pkg, S \subseteq T, Closed(T, w)
        PROVE  d \in T
    BY <2>2 DEF Closure, Closed
  <2> QED
    BY <2>1, <2>2 DEF Closure
<1> QED
  BY <1>1, <1>2 DEF Closed

(* Removing the safe part of a selection opens no dependency.              *)
LEMMA SafePartIsSafe ==
    ASSUME NEW S, Closed(installed, world)
    PROVE  SafePart(S) \subseteq S /\ Closed(installed \ SafePart(S), world)
<1>1. SafePart(S) \subseteq S
  BY DEF SafePart
<1>2. ASSUME NEW p \in installed \ SafePart(S), NEW d \in Deps[world][p]
      PROVE  d \in installed \ SafePart(S)
  <2>1. d \in installed
    BY <1>2 DEF Closed
  <2>2. ASSUME NEW T \in SUBSET (S \cap installed), Closed(installed \ T, world)
        PROVE  d \notin T
    <3>1. p \in installed \ T
      BY <2>2 DEF SafePart
    <3> QED
      BY <2>2, <3>1 DEF Closed
  <2> QED
    BY <2>1, <2>2 DEF SafePart
<1> QED
  BY <1>1, <1>2 DEF Closed

(* Every list of orphans leaves the explicitly installed packages out.     *)
LEMMA DetectType ==
    ASSUME TypeOK, NEW U, NEW w
    PROVE  Detect(U, w) \in Inventory /\ Explicit \cap Detect(U, w).all = {}
<1>1. Unreachable \subseteq Pkg /\ Explicit \cap Unreachable = {}
  BY ClosureCloses, ExplicitAssumption DEF Unreachable, TypeOK
<1>2. Projected(U, w) \subseteq Pkg /\ Explicit \cap Projected(U, w) = {}
  BY DEF Projected, TypeOK
<1> QED
  BY <1>1, <1>2 DEF Detect, Inventory

LEMMA InventoryFacts ==
    /\ Empty \in Inventory /\ Empty.all = {}
    /\ \A inv \in Inventory : /\ inv.all \subseteq Pkg /\ inv.pure \subseteq inv.all
                              /\ \A S : /\ Without(inv, S) \in Inventory
                                        /\ Without(inv, S).all = inv.all \ S
  BY DEF Empty, Inventory, Without

LEMMA InitIInv == Init => IInv
<1> SUFFICES ASSUME Init
             PROVE  IInv
  OBVIOUS
<1>1. /\ Explicit \subseteq installed /\ installed \subseteq Pkg
      /\ Closed(installed, world)
  BY ClosureCloses, ExplicitAssumption DEF Init
<1> QED
  BY <1>1 DEF Init, IInv, TypeOK, OwedIsRecorded, OwedIsOffered, Deciding,
              NothingBroken, SelectionIsFresh, SafeRemains, Idle

(* An invocation that ends leaves a state in which the invariant is about  *)
(* the files and the packages alone.                                       *)
LEMMA EndKeeps ==
    ASSUME run' = Idle, OwedIsRecorded', NothingBroken',
           world' \in World, Explicit \subseteq installed', installed' \subseteq Pkg,
           pending' = None \/ pending' \in SUBSET Pkg,
           known' = None \/ known' \in Inventory,
           owed' \subseteq Pkg, shown' \subseteq Pkg,
           settled' = None \/ settled' \in Inventory
    PROVE  IInv'
  BY DEF IInv, TypeOK, OwedIsOffered, Deciding, SelectionIsFresh, SafeRemains, Idle

(* An invocation in any step but the idle one has all its variables.       *)
LEMMA RunningFacts ==
    ASSUME TypeOK, run.pc # "idle"
    PROVE  /\ run \in Invocation /\ run # Idle
           /\ run.seen \in Inventory /\ run.rest \in Inventory
           /\ run.safe \subseteq run.sel /\ run.sel \subseteq run.ticked
           /\ run.ticked \subseteq Pkg
  BY DEF TypeOK, Idle, Invocation

(* The steps after which the invocation is over.                           *)
LEMMA EndSteps ==
    ASSUME IInv,
           \/ QuietEnd \/ DryRun \/ Disapprove \/ RecordFails \/ TransactFails
           \/ RecheckFails \/ Finish \/ FinishFails \/ Crash
    PROVE  IInv'
<1> USE DEF IInv, TypeOK, OwedIsRecorded, NothingBroken
<1>1. CASE UNCHANGED <<system, files, owed, settled>> /\ shown' \subseteq Pkg /\ run' = Idle
  BY <1>1, EndKeeps DEF system, files
<1>2. CASE QuietEnd
  <2>1. run.seen \in Inventory
    BY <1>2, RunningFacts DEF QuietEnd
  <2> QED
    BY <1>2, <2>1, EndKeeps DEF QuietEnd, SaveKnown, system
<1>3. CASE DryRun
  <2>1. shown' \subseteq Pkg
    BY <1>3, RunningFacts, InventoryFacts DEF DryRun
  <2> QED
    BY <1>1, <1>3, <2>1 DEF DryRun
<1>4. CASE RecordFails
  <2>1. run.sel \subseteq Pkg
    BY <1>4, RunningFacts DEF RecordFails
  <2> QED
    BY <1>4, <2>1, EndKeeps DEF RecordFails, system
<1>5. CASE TransactFails
  <2>1. run.target \in World
    BY <1>5, RunningFacts DEF TransactFails, Invocation
  <2>2. /\ world' \in World /\ Closed(installed, world)'
        /\ Explicit \subseteq installed' /\ installed' \subseteq Pkg
    BY <1>5, <2>1, ClosureCloses DEF TransactFails, system
  <2> QED
    BY <1>5, <2>2, EndKeeps DEF TransactFails, files, history
<1>6. CASE Finish
  <2>1. settled' = None \/ settled' \in Inventory
    BY <1>6, RunningFacts DEF Finish, Reviewed
  <2>2. owed' \subseteq Pkg /\ (pending' = None \/ pending' \in SUBSET Pkg)
    BY <1>6 DEF Finish
  <2>3. pending' # None => owed' \subseteq pending'
    BY <1>6 DEF Finish
  <2> QED
    BY <1>6, <2>1, <2>2, <2>3, EndKeeps DEF Finish, system
<1>7. CASE FinishFails
  BY <1>7, EndKeeps DEF FinishFails, system
<1> QED
  BY <1>1, <1>2, <1>3, <1>4, <1>5, <1>6, <1>7
     DEF Disapprove, RecheckFails, Crash, history, system, files

(* The steps between two invocations.                                      *)
LEMMA IdleSteps ==
    ASSUME IInv, External \/ List
    PROVE  IInv'
<1> USE DEF IInv, TypeOK, OwedIsRecorded, NothingBroken
<1>1. CASE External
  <2>1. world' \in World
    BY <1>1 DEF External
  <2>2. PICK S \in SUBSET Pkg : Explicit \subseteq S /\ installed' = Closure(S, world')
    BY <1>1 DEF External
  <2>3. /\ Closed(installed', world')
        /\ Explicit \subseteq installed' /\ installed' \subseteq Pkg
    BY <2>1, <2>2, ClosureCloses
  <2> QED
    BY <1>1, <2>1, <2>3, EndKeeps DEF External, files, history
<1>2. CASE List
  <2>1. Detect({}, world) \in Inventory
    BY DetectType
  <2> QED
    BY <1>2, <2>1, EndKeeps, InventoryFacts DEF List, SaveKnown, system
<1> QED
  BY <1>1, <1>2

(* An invocation starts: what is owed and orphaned makes it review.        *)
LEMMA StartSteps ==
    ASSUME IInv,
           \/ \E U \in SUBSET Pkg, w \in World, full, smart, auto, noconfirm \in BOOLEAN :
                   StartUpgrade(U, w, full, smart, auto, noconfirm)
           \/ \E noconfirm \in BOOLEAN : StartClean(noconfirm)
    PROVE  IInv'
<1>1. ASSUME NEW U \in SUBSET Pkg, NEW w \in World, NEW full \in BOOLEAN,
             NEW smart \in BOOLEAN, NEW auto \in BOOLEAN, NEW noconfirm \in BOOLEAN,
             StartUpgrade(U, w, full, smart, auto, noconfirm)
      PROVE  IInv'
  <2> DEFINE seen == IF full /\ (smart \/ auto) THEN Detect(U, w) ELSE Empty
             changed == full /\ smart /\ NeedsReview(seen)
             review == (auto \/ changed) /\ seen.all # {}
  <2>1. seen \in Inventory /\ Explicit \cap seen.all = {}
    BY DetectType, InventoryFacts DEF IInv
  <2>2. changed \in BOOLEAN /\ review \in BOOLEAN
    OBVIOUS
  <2>3. full /\ smart /\ owed \cap seen.all # {} => review
    BY DEF IInv, OwedIsRecorded, NeedsReview, PendingNeedsReview
  <2>4. /\ run' = [pc |-> "select", kind |-> "upgrade", full |-> full, smart |-> smart,
               auto |-> auto, noconfirm |-> noconfirm, updates |-> U, target |-> w,
               seen |-> seen, changed |-> changed, review |-> review,
               ticked |-> {}, sel |-> {}, safe |-> {}, rest |-> seen, ok |-> TRUE]
        /\ shown' = IF U = {} /\ review THEN shown \cup seen.all ELSE shown
        /\ UNCHANGED <<world, installed, pending, known, owed, settled>>
    BY <1>1 DEF StartUpgrade, system, files
  <2> HIDE DEF seen, changed, review
  <2>5. run' \in Invocation /\ run' # Idle
    BY <2>1, <2>2, <2>4 DEF Invocation, Idle
  <2>6. TypeOK'
    BY <2>1, <2>4, <2>5, InventoryFacts DEF IInv, TypeOK
  <2>7. OwedIsOffered'
    BY <2>3, <2>4 DEF OwedIsOffered, Deciding
  <2>8. SelectionIsFresh'
    BY <2>1, <2>4 DEF SelectionIsFresh
  <2> QED
    BY <2>4, <2>6, <2>7, <2>8 DEF IInv, OwedIsRecorded, NothingBroken, SafeRemains
<1>2. ASSUME NEW noconfirm \in BOOLEAN, StartClean(noconfirm)
      PROVE  IInv'
  <2> DEFINE seen == Detect({}, world)
             nextPc == IF seen.all = {} THEN "finish" ELSE "select"
  <2>1. seen \in Inventory /\ Explicit \cap seen.all = {}
    BY DetectType DEF IInv
  <2>2. /\ run' = [pc |-> nextPc, kind |-> "clean",
               full |-> TRUE, smart |-> TRUE, auto |-> TRUE, noconfirm |-> noconfirm,
               updates |-> {}, target |-> world, seen |-> seen, changed |-> TRUE,
               review |-> seen.all # {}, ticked |-> {}, sel |-> {}, safe |-> {},
               rest |-> seen, ok |-> TRUE]
        /\ shown' = shown \cup seen.all
        /\ UNCHANGED <<world, installed, pending, known, owed, settled>>
    BY <1>2 DEF StartClean, system, files
  <2>3. nextPc \in {"finish", "select"}
    OBVIOUS
  <2> HIDE DEF seen, nextPc
  <2>4. run' \in Invocation /\ run' # Idle
    BY <2>1, <2>2, <2>3 DEF Invocation, Idle, IInv, TypeOK
  <2>5. TypeOK'
    BY <2>1, <2>2, <2>4, InventoryFacts DEF IInv, TypeOK
  <2>6. OwedIsOffered'
    BY <2>2 DEF OwedIsOffered, Deciding
  <2>7. SelectionIsFresh'
    BY <2>1, <2>2, <2>3 DEF SelectionIsFresh
  <2> QED
    BY <2>2, <2>3, <2>5, <2>6, <2>7
       DEF IInv, OwedIsRecorded, NothingBroken, SafeRemains
<1> QED
  BY <1>1, <1>2

(* A prompt, or --noconfirm, picks from the list of this invocation.       *)
LEMMA SelectStep ==
    ASSUME IInv, NEW S \in SUBSET Pkg, Select(S)
    PROVE  IInv'
<1> DEFINE next == IF MustRecord(S) THEN "record"
                   ELSE IF run.updates = {} THEN "prepare" ELSE "transact"
<1>1. /\ run.pc = "select"
      /\ run' = [run EXCEPT !.ticked = S, !.sel = S, !.pc = next]
      /\ shown' \in {shown, shown \cup run.seen.all} /\ settled' \in {settled, None}
      /\ UNCHANGED <<world, installed, pending, known, owed>>
  BY DEF Select, system, files
<1>2. next \in {"record", "prepare", "transact"}
  OBVIOUS
<1>3. /\ run \in Invocation /\ run.seen \in Inventory
      /\ run.rest = run.seen /\ run.safe = {}
  BY <1>1, RunningFacts DEF IInv, SelectionIsFresh
<1>4. IF run.noconfirm THEN S \subseteq run.seen.pure /\ (S # {} => run.auto)
      ELSE S \subseteq run.seen.all
  BY DEF Select, AutoSelection
<1> HIDE DEF next
<1>5. run' \in Invocation /\ run' # Idle
  BY <1>1, <1>2, <1>3 DEF Invocation, Idle
<1>6. TypeOK'
  BY <1>1, <1>3, <1>5, InventoryFacts DEF IInv, TypeOK, Invocation
<1>7. OwedIsOffered'
  BY <1>1, <1>2, <1>3 DEF OwedIsOffered, Deciding, Invocation
<1>8. SelectionIsFresh'
  BY <1>1, <1>2, <1>3, <1>4, <1>5, InventoryFacts
     DEF SelectionIsFresh, Invocation, IInv, Idle
<1>9. run'.pc = next
  BY <1>1, <1>3 DEF Invocation
<1> QED
  BY <1>1, <1>2, <1>6, <1>7, <1>8, <1>9
     DEF IInv, OwedIsRecorded, NothingBroken, SafeRemains

(* The invocation goes on, with its flags, its first list and its ticks.   *)
SameCall ==
    /\ run' \in Invocation
    /\ run'.ticked = run.ticked /\ run'.seen = run.seen
    /\ run'.noconfirm = run.noconfirm /\ run'.auto = run.auto

(* A step of an invocation that leaves those alone, does not return to the *)
(* prompt, and keeps the parts of the invariant that are about the         *)
(* packages and the record.                                                *)
LEMMA MiddleKeeps ==
    ASSUME IInv, run.pc \notin {"idle", "select"}, SameCall,
           run'.pc \in {"transact", "recheck", "prepare", "resave", "remove", "save", "finish"},
           run'.sel \subseteq run.ticked, run'.safe \subseteq run'.sel,
           run'.pc \in {"prepare", "resave", "remove"} =>
               /\ run'.sel \subseteq run'.rest.all
               /\ run.noconfirm => run'.sel \subseteq run'.rest.pure,
           Explicit \cap run'.rest.all = {},
           run'.pc \in {"transact", "recheck", "prepare"} => run'.safe = {},
           run'.pc \in {"resave", "remove"} =>
               run'.sel # {} /\ Closed(installed' \ run'.safe, world'),
           OwedIsRecorded', NothingBroken',
           world' \in World, Explicit \subseteq installed', installed' \subseteq Pkg,
           pending' = None \/ pending' \in SUBSET Pkg,
           known' = None \/ known' \in Inventory,
           owed' \subseteq Pkg, shown' = shown,
           settled' = None \/ settled' \in Inventory
    PROVE  IInv'
<1>1. run \in Invocation /\ run # Idle /\ run.ticked \subseteq Pkg
  BY RunningFacts DEF IInv
<1>2. run' \in Invocation /\ run' # Idle
  BY DEF SameCall, Invocation, Idle
<1>5. TypeOK'
  BY <1>2 DEF IInv, TypeOK, SameCall
<1>6. OwedIsOffered'
  BY DEF OwedIsOffered, Deciding
<1>7. SelectionIsFresh'
  BY <1>1 DEF IInv, SelectionIsFresh, SameCall
<1>8. SafeRemains'
  BY DEF SafeRemains
<1> QED
  BY <1>5, <1>6, <1>7, <1>8 DEF IInv

(* The record is written before and after safe_selection.                  *)
LEMMA RecordSteps ==
    ASSUME IInv, Record \/ Resave \/ ResaveFails
    PROVE  IInv'
<1> USE DEF system
<1>1. run.pc \in {"record", "resave"}
  BY DEF Record, Resave, ResaveFails
<1>2. /\ run \in Invocation /\ run.rest \in Inventory /\ run.ok \in BOOLEAN
      /\ run.safe \subseteq run.sel /\ run.sel \subseteq run.ticked /\ run.ticked \subseteq Pkg
      /\ Explicit \cap run.rest.all = {} /\ (run.pc = "record" => run.safe = {})
      /\ run.sel \subseteq run.rest.all
      /\ run.noconfirm => run.sel \subseteq run.rest.pure
  BY <1>1, RunningFacts DEF IInv, SelectionIsFresh, Invocation
<1>3. CASE Record
  <2> DEFINE nextPc == IF run.updates = {} THEN "prepare" ELSE "transact"
  <2>1. /\ SameCall /\ run'.pc = nextPc /\ run'.sel = run.sel
        /\ run'.safe = run.safe /\ run'.rest = run.rest
    BY <1>2, <1>3 DEF Record, SameCall, Invocation
  <2>2. nextPc \in {"prepare", "transact"}
    OBVIOUS
  <2> HIDE DEF nextPc
  <2>3. OwedIsRecorded' /\ NothingBroken'
    BY <1>3 DEF Record, OwedIsRecorded, NothingBroken, IInv
  <2> QED
    BY <1>1, <1>2, <1>3, <2>1, <2>2, <2>3, MiddleKeeps DEF Record, IInv, TypeOK
<1>4. CASE Resave
  <2> DEFINE nextPc == IF run.safe = {} THEN "save" ELSE "remove"
  <2>1. /\ SameCall /\ run'.pc = nextPc /\ run'.sel = run.sel
        /\ run'.safe = run.safe /\ run'.rest = run.rest
    BY <1>2, <1>4 DEF Resave, SameCall, Invocation
  <2>2. nextPc \in {"save", "remove"}
    OBVIOUS
  <2> HIDE DEF nextPc
  <2>3. OwedIsRecorded' /\ NothingBroken'
    BY <1>4 DEF Resave, OwedIsRecorded, NothingBroken, IInv
  <2>4. run.sel # {} /\ Closed(installed \ run.safe, world)
    BY <1>4 DEF Resave, IInv, SafeRemains
  <2> QED
    BY <1>1, <1>2, <1>4, <2>1, <2>2, <2>3, <2>4, MiddleKeeps DEF Resave, IInv, TypeOK
<1>5. CASE ResaveFails
  <2>1. /\ SameCall /\ run'.pc = "save" /\ run'.sel = run.sel
        /\ run'.safe = run.safe /\ run'.rest = run.rest
    BY <1>2, <1>5 DEF ResaveFails, SameCall, Invocation
  <2>2. OwedIsRecorded' /\ NothingBroken'
    BY <1>5 DEF ResaveFails, OwedIsRecorded, NothingBroken, IInv
  <2> QED
    BY <1>1, <1>2, <1>5, <2>1, <2>2, MiddleKeeps DEF ResaveFails, IInv, TypeOK
<1> QED
  BY <1>3, <1>4, <1>5

(* The transaction, the fresh look at its result, the safe part, the save. *)
LEMMA LookSteps ==
    ASSUME IInv, Transact \/ Recheck \/ Prepare \/ PrepareFails \/ Save
    PROVE  IInv'
<1> USE DEF system, files, history
<1>1. run.pc \in {"transact", "recheck", "prepare", "save"}
  BY DEF Transact, Recheck, Prepare, PrepareFails, Save
<1>2. /\ run \in Invocation /\ run.rest \in Inventory /\ run.ok \in BOOLEAN
      /\ run.safe \subseteq run.sel /\ run.sel \subseteq run.ticked /\ run.ticked \subseteq Pkg
      /\ Explicit \cap run.rest.all = {} /\ run.target \in World
      /\ run.pc # "save" => run.safe = {}
  BY <1>1, RunningFacts DEF IInv, SelectionIsFresh, Invocation
<1>3. CASE Transact
  <2>1. /\ world' \in World /\ NothingBroken'
        /\ Explicit \subseteq installed' /\ installed' \subseteq Pkg
    BY <1>2, <1>3, ClosureCloses DEF Transact, NothingBroken, IInv, TypeOK
  <2>2. OwedIsRecorded'
    BY <1>3 DEF Transact, IInv, OwedIsRecorded
  <2>3. CASE run' = Idle
    BY <1>3, <2>1, <2>2, <2>3, EndKeeps DEF Transact, IInv, TypeOK
  <2>4. CASE run' = [run EXCEPT !.pc = "recheck"]
    <3>1. /\ SameCall /\ run'.pc = "recheck" /\ run'.sel = run.sel
          /\ run'.safe = run.safe /\ run'.rest = run.rest
      BY <1>2, <2>4 DEF SameCall, Invocation
    <3> QED
      BY <1>1, <1>2, <1>3, <2>1, <2>2, <3>1, MiddleKeeps DEF Transact, IInv, TypeOK
  <2> QED
    BY <1>3, <2>3, <2>4 DEF Transact
<1>4. CASE Recheck
  <2> DEFINE actual == Detect({}, world)
             S == Revalidated(run.sel, actual)
  <2>1. actual \in Inventory /\ Explicit \cap actual.all = {}
    BY DetectType DEF IInv
  <2>2. /\ S \subseteq run.sel
        /\ S \subseteq actual.all
        /\ run.noconfirm => S \subseteq actual.pure
    BY <2>1, InventoryFacts DEF Revalidated
  <2>3. /\ run' = [run EXCEPT !.sel = S, !.rest = actual, !.pc = "prepare"]
        /\ owed' \in {owed, owed \cap S} /\ run.safe = {}
        /\ UNCHANGED <<world, installed, pending, known, settled, shown>>
    BY <1>2, <1>4 DEF Recheck
  <2> HIDE DEF actual, S
  <2>5. /\ SameCall /\ run'.pc = "prepare" /\ run'.sel = S
        /\ run'.safe = run.safe /\ run'.rest = actual
    BY <1>2, <2>1, <2>2, <2>3 DEF SameCall, Invocation
  <2>6. OwedIsRecorded' /\ NothingBroken'
    BY <2>2, <2>3 DEF IInv, OwedIsRecorded, NothingBroken
  <2> QED
    BY <1>1, <1>2, <2>1, <2>2, <2>3, <2>5, <2>6, MiddleKeeps DEF IInv, TypeOK
<1>5. CASE Prepare
  <2> DEFINE nextPc == IF run.sel = {} THEN "save" ELSE "resave"
             part == SafePart(run.sel)
  <2>1. part \subseteq run.sel /\ Closed(installed \ part, world)
    BY SafePartIsSafe DEF IInv, NothingBroken
  <2>2. /\ run.sel \subseteq run.rest.all
        /\ run.noconfirm => run.sel \subseteq run.rest.pure
    BY <1>5 DEF Prepare, IInv, SelectionIsFresh
  <2>3. /\ run' = [run EXCEPT !.safe = part, !.pc = nextPc]
        /\ UNCHANGED <<world, installed, pending, known, owed, settled, shown>>
    BY <1>5 DEF Prepare
  <2>4. nextPc \in {"save", "resave"} /\ (nextPc = "resave" => run.sel # {})
    OBVIOUS
  <2> HIDE DEF nextPc, part
  <2>5. /\ SameCall /\ run'.pc = nextPc /\ run'.sel = run.sel
        /\ run'.safe = part /\ run'.rest = run.rest
    BY <1>2, <2>1, <2>3, <2>4 DEF SameCall, Invocation
  <2>6. OwedIsRecorded' /\ NothingBroken'
    BY <2>3 DEF IInv, OwedIsRecorded, NothingBroken
  <2> QED
    BY <1>1, <1>2, <2>1, <2>2, <2>3, <2>4, <2>5, <2>6, MiddleKeeps
       DEF IInv, TypeOK
<1>6. CASE PrepareFails
  <2>1. /\ SameCall /\ run'.pc = "save" /\ run'.sel = run.sel
        /\ run'.safe = run.safe /\ run'.rest = run.rest
    BY <1>2, <1>6 DEF PrepareFails, SameCall, Invocation
  <2>2. OwedIsRecorded' /\ NothingBroken'
    BY <1>6 DEF PrepareFails, IInv, OwedIsRecorded, NothingBroken
  <2> QED
    BY <1>1, <1>2, <1>6, <2>1, <2>2, MiddleKeeps DEF PrepareFails, IInv, TypeOK
<1>7. CASE Save
  <2>1. /\ SameCall /\ run'.pc = "finish" /\ run'.sel = run.sel
        /\ run'.safe = run.safe /\ run'.rest = run.rest
    BY <1>2, <1>7 DEF Save, SameCall, Invocation
  <2>2. OwedIsRecorded' /\ NothingBroken'
    BY <1>7 DEF Save, IInv, OwedIsRecorded, NothingBroken
  <2>3. /\ known' = None \/ known' \in Inventory
        /\ settled' = None \/ settled' \in Inventory
    BY <1>2, <1>7 DEF Save, SaveKnown, IInv, TypeOK
  <2>4. UNCHANGED <<world, installed, pending, owed, shown>>
    BY <1>7 DEF Save
  <2> QED
    BY <1>1, <1>2, <1>7, <2>1, <2>2, <2>3, <2>4, MiddleKeeps DEF Save, IInv, TypeOK
<1> QED
  BY <1>3, <1>4, <1>5, <1>6, <1>7

(* pacman removes the safe part, or some of it before it fails.            *)
LEMMA RemoveSteps ==
    ASSUME IInv, Remove \/ RemoveFails
    PROVE  IInv'
<1> USE DEF system, files, history
<1>1. /\ run.pc = "remove"
      /\ run \in Invocation /\ run.rest \in Inventory /\ run.ok \in BOOLEAN
      /\ run.safe \subseteq run.sel /\ run.sel \subseteq run.ticked /\ run.ticked \subseteq Pkg
      /\ Explicit \cap run.rest.all = {} /\ run.sel \subseteq run.rest.all
  BY RunningFacts DEF Remove, RemoveFails, IInv, SelectionIsFresh, Invocation
<1>2. CASE Remove
  <2>1. /\ Without(run.rest, run.safe) \in Inventory
        /\ Explicit \cap Without(run.rest, run.safe).all = {}
    BY <1>1, InventoryFacts
  <2>2. /\ SameCall /\ run'.pc = "save" /\ run'.sel = run.sel
        /\ run'.safe = run.safe /\ run'.rest = Without(run.rest, run.safe)
    BY <1>1, <1>2, <2>1 DEF Remove, SameCall, Invocation
  <2>3. /\ installed' = installed \ run.safe /\ owed' = owed \ run.safe
        /\ UNCHANGED <<world, pending, known, settled, shown>>
    BY <1>2 DEF Remove
  <2>4. Closed(installed \ run.safe, world)
    BY <1>1 DEF IInv, SafeRemains
  <2>5. OwedIsRecorded' /\ NothingBroken'
    BY <2>3, <2>4 DEF IInv, OwedIsRecorded, NothingBroken
  <2> QED
    BY <1>1, <2>1, <2>2, <2>3, <2>5, MiddleKeeps DEF IInv, TypeOK
<1>3. CASE RemoveFails
  <2>1. PICK X \in SUBSET run.safe : /\ Closed(installed \ X, world)
                                     /\ installed' = installed \ X
                                     /\ owed' = owed \ X
    BY <1>3 DEF RemoveFails
  <2>2. /\ SameCall /\ run'.pc = "save" /\ run'.sel = run.sel
        /\ run'.safe = run.safe /\ run'.rest = run.rest
        /\ UNCHANGED <<world, pending, known, settled, shown>>
    BY <1>1, <1>3 DEF RemoveFails, SameCall, Invocation
  <2>3. OwedIsRecorded' /\ NothingBroken'
    BY <2>1, <2>2 DEF IInv, OwedIsRecorded, NothingBroken
  <2> QED
    BY <1>1, <2>1, <2>2, <2>3, MiddleKeeps DEF IInv, TypeOK
<1> QED
  BY <1>2, <1>3

LEMMA NextIInv == IInv /\ [Next]_vars => IInv'
<1> SUFFICES ASSUME IInv, [Next]_vars
             PROVE  IInv'
  OBVIOUS
<1>1. CASE UNCHANGED vars
  BY <1>1 DEF vars, system, files, history, IInv, TypeOK, OwedIsRecorded,
              OwedIsOffered, Deciding, NothingBroken, SelectionIsFresh, SafeRemains
<1> QED
  BY <1>1, EndSteps, IdleSteps, StartSteps, SelectStep, RecordSteps, LookSteps,
     RemoveSteps DEF Next

LEMMA IInvAlways == Spec => []IInv
  BY InitIInv, NextIInv, PTL DEF Spec

(* Every variable keeps its type, whatever fails or is killed.             *)
THEOREM TypeCorrect == Spec => []TypeOK
  BY IInvAlways, PTL DEF IInv

(* What was confirmed is offered again until it is finished or withdrawn,  *)
(* whatever fails or is killed in between.                                 *)
THEOREM ConfirmedIsOfferedAgain == Spec => []OwedIsOffered
  BY IInvAlways, PTL DEF IInv

(* An invocation that ends leaves only the files to compare.               *)
LEMMA EndSettles ==
    ASSUME run' = Idle, SettledIsSaved'
    PROVE  SettledInv'
  BY DEF SettledInv, ReviewIsRecorded, DeclineStops, Deciding, Idle

(* What the prompt of an invocation decided is in the files when it ends.  *)
LEMMA SettledEnds ==
    ASSUME IInv, SettledInv,
           \/ External \/ List \/ QuietEnd \/ DryRun \/ Disapprove \/ RecordFails
           \/ TransactFails \/ RecheckFails \/ FinishFails \/ Crash
    PROVE  SettledInv'
<1> USE DEF SettledInv, SettledIsSaved
<1>1. CASE UNCHANGED <<files, settled>> /\ run' = Idle
  BY <1>1, EndSettles DEF files, Idle
<1>2. CASE List \/ QuietEnd
  <2>1. settled' # None => settled' = settled /\ known' = known /\ pending' = pending
    BY <1>2 DEF List, QuietEnd, SaveKnown
  <2>2. run' = Idle
    BY <1>2 DEF List, QuietEnd
  <2> QED
    BY <2>1, <2>2, EndSettles DEF Idle
<1>3. CASE RecordFails
  <2>1. run.sel \subseteq run.ticked /\ run.sel \in SUBSET Pkg
    BY <1>3, RunningFacts DEF RecordFails, IInv
  <2>2. /\ pending' \in {pending, run.sel} /\ run' = Idle /\ UNCHANGED <<known, settled>>
        /\ run.pc = "record"
    BY <1>3 DEF RecordFails
  <2> QED
    BY <2>1, <2>2, EndSettles, NoneAssumption DEF Idle
<1>4. CASE FinishFails
  <2>1. /\ pending # None /\ pending' \in {pending, pending \cap run.rest.all}
        /\ run' = Idle /\ UNCHANGED <<known, settled>>
    BY <1>4 DEF FinishFails
  <2>2. pending \in SUBSET Pkg
    BY <2>1 DEF IInv, TypeOK
  <2> QED
    BY <2>1, <2>2, EndSettles, NoneAssumption DEF Idle
<1> QED
  BY <1>1, <1>2, <1>3, <1>4
     DEF External, DryRun, Disapprove, TransactFails, RecheckFails, Crash, files, history

(* A review that is carried through settles the list that remains: nothing *)
(* of it is in the record any more.                                        *)
LEMMA SettledFinish ==
    ASSUME IInv, SettledInv, Finish
    PROVE  SettledInv'
<1>1. /\ run' = Idle /\ UNCHANGED known /\ run.pc = "finish"
      /\ owed' = owed \cap run.rest.all
      /\ pending' = IF pending = None THEN None ELSE pending \cap run.rest.all
      /\ settled' = Reviewed
  BY DEF Finish
<1>2. pending # None => pending \in SUBSET Pkg /\ pending \cap run.rest.all \in SUBSET Pkg
  BY DEF IInv, TypeOK
<1>3. CASE run.ok /\ ~run.noconfirm /\ run.review /\ known = run.rest /\ owed' = {}
  <2>1. settled' = run.rest
    BY <1>1, <1>3 DEF Reviewed
  <2>2. pending # None /\ pending \cap run.rest.all \subseteq owed
    BY <1>1, <1>3 DEF SettledInv, ReviewIsRecorded
  <2>3. pending' = pending \cap run.rest.all /\ pending \cap run.rest.all = {}
    BY <1>1, <1>3, <2>2
  <2> QED
    BY <1>1, <1>2, <1>3, <2>1, <2>2, <2>3, EndSettles, NoneAssumption
       DEF SettledIsSaved, Idle
<1>4. CASE ~(run.ok /\ ~run.noconfirm /\ run.review /\ known = run.rest /\ owed' = {})
  <2>1. settled' = settled
    BY <1>1, <1>4 DEF Reviewed
  <2> QED
    BY <1>1, <1>2, <2>1, EndSettles, NoneAssumption DEF SettledInv, SettledIsSaved, Idle
<1> QED
  BY <1>3, <1>4

(* What was settled needs no review when the next invocation finds it.     *)
LEMMA SettledStart ==
    ASSUME IInv, SettledInv,
           \/ \E U \in SUBSET Pkg, w \in World, full, smart, auto, noconfirm \in BOOLEAN :
                   StartUpgrade(U, w, full, smart, auto, noconfirm)
           \/ \E noconfirm \in BOOLEAN : StartClean(noconfirm)
    PROVE  SettledInv'
<1>1. UNCHANGED <<pending, known, settled, owed>>
  BY DEF StartUpgrade, StartClean, files
<1>2. settled # None => ~NeedsReview(settled)
  BY DEF SettledInv, SettledIsSaved, NeedsReview, HasChanged, PendingNeedsReview
<1>3. ASSUME NEW U \in SUBSET Pkg, NEW w \in World, NEW full \in BOOLEAN,
             NEW smart \in BOOLEAN, NEW auto \in BOOLEAN, NEW noconfirm \in BOOLEAN,
             StartUpgrade(U, w, full, smart, auto, noconfirm)
      PROVE  SettledInv'
  <2>1. run'.pc = "select" /\ (run'.changed => NeedsReview(run'.seen))
    BY <1>3 DEF StartUpgrade
  <2> QED
    BY <1>1, <1>2, <2>1
       DEF SettledInv, SettledIsSaved, ReviewIsRecorded, DeclineStops, Deciding
<1>4. ASSUME NEW noconfirm \in BOOLEAN, StartClean(noconfirm)
      PROVE  SettledInv'
  <2>1. /\ run'.kind = "clean" /\ run'.ticked = {}
        /\ run'.pc = "select" \/ (run'.pc = "finish" /\ ~run'.review)
    BY <1>4 DEF StartClean
  <2> QED
    BY <1>1, <2>1 DEF SettledInv, SettledIsSaved, ReviewIsRecorded, DeclineStops, Deciding
<1> QED
  BY <1>3, <1>4

(* A selection withdraws what was settled, unless it is empty; a review    *)
(* goes to the record whatever was selected.                               *)
LEMMA SettledSelect ==
    ASSUME IInv, SettledInv, NEW S \in SUBSET Pkg, Select(S)
    PROVE  SettledInv'
<1> DEFINE next == IF MustRecord(S) THEN "record"
                   ELSE IF run.updates = {} THEN "prepare" ELSE "transact"
<1>1. /\ run.pc = "select" /\ run \in Invocation
      /\ run' = [run EXCEPT !.ticked = S, !.sel = S, !.pc = next]
      /\ settled' = IF S = {} THEN settled ELSE None
      /\ UNCHANGED <<pending, known, owed>>
  BY RunningFacts DEF Select, files, IInv
<1>2. next \in {"record", "prepare", "transact"}
      /\ (next # "record" => ~(run.review /\ ~run.noconfirm))
  BY DEF MustRecord
<1> HIDE DEF next
<1>3. /\ run'.pc = next /\ run'.ticked = S
      /\ run'.review = run.review /\ run'.noconfirm = run.noconfirm
  BY <1>1 DEF Invocation
<1>4. SettledIsSaved'
  BY <1>1, <1>3 DEF SettledInv, SettledIsSaved
<1> QED
  BY <1>1, <1>2, <1>3, <1>4 DEF SettledInv, ReviewIsRecorded, DeclineStops, Deciding

(* The steps of an invocation between its prompt and its end.              *)
LEMMA SettledMiddle ==
    ASSUME IInv, SettledInv,
           \/ Record \/ Transact \/ Recheck \/ Prepare \/ PrepareFails
           \/ Resave \/ ResaveFails \/ Remove \/ RemoveFails \/ Save
    PROVE  SettledInv'
<1>1. run.pc \in {"record", "transact", "recheck", "prepare", "resave", "remove", "save"}
  BY DEF Record, Transact, Recheck, Prepare, PrepareFails, Resave, ResaveFails,
         Remove, RemoveFails, Save
<1>2. /\ run \in Invocation /\ run.ok \in BOOLEAN /\ run.rest \in Inventory
      /\ run.safe \subseteq run.sel /\ run.sel \subseteq run.ticked /\ run.ticked \subseteq Pkg
  BY <1>1, RunningFacts DEF IInv, Invocation
<1>3. /\ run.sel \in SUBSET Pkg /\ run.safe \in SUBSET Pkg
      /\ run.pc \in {"resave", "remove"} => run.sel # {}
  BY <1>2 DEF IInv, SafeRemains
<1>4. settled # None => run.ticked = {} /\ run.sel = {}
  BY <1>1, <1>2 DEF SettledInv, SettledIsSaved
<1>5. CASE Record
  <2> DEFINE next == IF run.updates = {} THEN "prepare" ELSE "transact"
  <2>1. /\ pending' = run.sel /\ owed' = run.sel /\ UNCHANGED <<known, settled>>
        /\ run' = [run EXCEPT !.pc = next] /\ next \in {"prepare", "transact"}
    BY <1>5 DEF Record
  <2> HIDE DEF next
  <2>2. run'.pc = next /\ run'.ticked = run.ticked /\ run'.sel = run.sel
    BY <1>2, <2>1 DEF Invocation
  <2>3. SettledIsSaved'
    BY <1>1, <1>3, <1>4, <2>1, <2>2, NoneAssumption DEF SettledInv, SettledIsSaved
  <2>4. ReviewIsRecorded'
    BY <1>3, <2>1, <2>2, NoneAssumption DEF ReviewIsRecorded
  <2> QED
    BY <2>1, <2>2, <2>3, <2>4 DEF SettledInv, DeclineStops, Deciding
<1>6. CASE Transact
  <2>1. UNCHANGED <<pending, known, owed, settled>>
    BY <1>6 DEF Transact, files, history
  <2>2. CASE run' = Idle
    BY <1>1, <2>1, <2>2, EndSettles DEF SettledInv, SettledIsSaved, Idle
  <2>3. CASE run' = [run EXCEPT !.pc = "recheck"]
    <3>1. /\ run'.pc = "recheck" /\ run'.ticked = run.ticked /\ run'.sel = run.sel
          /\ run'.review = run.review /\ run'.noconfirm = run.noconfirm /\ run'.ok = run.ok
      BY <1>2, <2>3 DEF Invocation
    <3>2. run.pc = "transact"
      BY <1>6 DEF Transact
    <3> QED
      BY <2>1, <3>1, <3>2
         DEF SettledInv, SettledIsSaved, ReviewIsRecorded, DeclineStops, Deciding
  <2> QED
    BY <1>6, <2>2, <2>3 DEF Transact
<1>7. CASE Recheck
  <2> DEFINE actual == Detect({}, world)
             S == Revalidated(run.sel, actual)
  <2>1. /\ run' = [run EXCEPT !.sel = S, !.rest = actual, !.pc = "prepare"]
        /\ owed' = IF run.sel = {} THEN owed ELSE owed \cap S
        /\ UNCHANGED <<pending, known, settled>> /\ run.pc = "recheck"
    BY <1>7 DEF Recheck, files
  <2>2. ~run.noconfirm => S = run.sel \cap actual.all
    BY DEF Revalidated
  <2> HIDE DEF actual, S
  <2>3. /\ run'.pc = "prepare" /\ run'.ticked = run.ticked /\ run'.rest = actual
        /\ run'.review = run.review /\ run'.noconfirm = run.noconfirm /\ run'.ok = run.ok
    BY <1>2, <2>1 DEF Invocation
  <2>4. SettledIsSaved'
    BY <2>1, <2>3 DEF SettledInv, SettledIsSaved
  <2>5. ASSUME run.review, ~run.noconfirm, run.ok
        PROVE  pending # None /\ pending \cap actual.all \subseteq owed'
    BY <2>1, <2>2, <2>5 DEF SettledInv, ReviewIsRecorded
  <2>6. ReviewIsRecorded'
    BY <2>1, <2>3, <2>5 DEF ReviewIsRecorded
  <2> QED
    BY <2>3, <2>4, <2>6 DEF SettledInv, DeclineStops, Deciding
<1>8. CASE Prepare
  <2> DEFINE next == IF run.sel = {} THEN "save" ELSE "resave"
             part == SafePart(run.sel)
  <2>1. /\ run' = [run EXCEPT !.safe = part, !.pc = next]
        /\ UNCHANGED <<pending, known, owed, settled>> /\ run.pc = "prepare"
        /\ next \in {"save", "resave"}
    BY <1>8 DEF Prepare, files, history
  <2> HIDE DEF next, part
  <2>2. /\ run'.pc = next /\ run'.ticked = run.ticked /\ run'.rest = run.rest
        /\ run'.review = run.review /\ run'.noconfirm = run.noconfirm /\ run'.ok = run.ok
    BY <1>2, <2>1 DEF Invocation
  <2> QED
    BY <2>1, <2>2
       DEF SettledInv, SettledIsSaved, ReviewIsRecorded, DeclineStops, Deciding
<1>9. CASE PrepareFails \/ ResaveFails \/ RemoveFails
  <2>1. /\ run'.pc = "save" /\ run'.ok = FALSE /\ run'.ticked = run.ticked
        /\ UNCHANGED <<known, settled>>
    BY <1>2, <1>9 DEF PrepareFails, ResaveFails, RemoveFails, Invocation, files, history
  <2>2. settled # None => UNCHANGED pending
    BY <1>3, <1>4, <1>9 DEF PrepareFails, ResaveFails, RemoveFails, files
  <2> QED
    BY <1>1, <2>1, <2>2
       DEF SettledInv, SettledIsSaved, ReviewIsRecorded, DeclineStops, Deciding
<1>10. CASE Resave
  <2> DEFINE next == IF run.safe = {} THEN "save" ELSE "remove"
  <2>1. /\ pending' = run.safe /\ owed' = run.safe /\ UNCHANGED <<known, settled>>
        /\ run' = [run EXCEPT !.pc = next] /\ next \in {"save", "remove"}
        /\ run.pc = "resave"
    BY <1>10 DEF Resave
  <2> HIDE DEF next
  <2>2. run'.pc = next
    BY <1>2, <2>1 DEF Invocation
  <2>3. settled = None
    BY <1>3, <1>4, <2>1
  <2> QED
    BY <1>3, <2>1, <2>2, <2>3, NoneAssumption
       DEF SettledInv, SettledIsSaved, ReviewIsRecorded, DeclineStops, Deciding
<1>11. CASE Remove
  <2>1. /\ run' = [run EXCEPT !.rest = Without(run.rest, run.safe), !.pc = "save"]
        /\ owed' = owed \ run.safe /\ UNCHANGED <<pending, known, settled>>
        /\ run.pc = "remove"
    BY <1>11 DEF Remove, files
  <2>2. /\ run'.pc = "save" /\ run'.rest.all = run.rest.all \ run.safe
        /\ run'.review = run.review /\ run'.noconfirm = run.noconfirm /\ run'.ok = run.ok
    BY <1>2, <2>1, InventoryFacts DEF Invocation
  <2>3. settled = None
    BY <1>3, <1>4, <2>1
  <2> QED
    BY <2>1, <2>2, <2>3
       DEF SettledInv, SettledIsSaved, ReviewIsRecorded, DeclineStops, Deciding
<1>12. CASE Save
  <2>1. /\ run' = [run EXCEPT !.pc = "finish"] /\ UNCHANGED <<pending, owed>>
        /\ settled' # None => settled' = settled /\ known' = known
        /\ run.pc = "save"
    BY <1>12 DEF Save, SaveKnown, SettledInv, SettledIsSaved
  <2>2. /\ run'.pc = "finish" /\ run'.ticked = run.ticked /\ run'.rest = run.rest
        /\ run'.review = run.review /\ run'.noconfirm = run.noconfirm /\ run'.ok = run.ok
    BY <1>2, <2>1 DEF Invocation
  <2> QED
    BY <2>1, <2>2
       DEF SettledInv, SettledIsSaved, ReviewIsRecorded, DeclineStops, Deciding
<1> QED
  BY <1>5, <1>6, <1>7, <1>8, <1>9, <1>10, <1>11, <1>12

LEMMA SettledAlways == Spec => []SettledInv
<1>1. Init => SettledInv
  BY DEF Init, SettledInv, SettledIsSaved, ReviewIsRecorded, DeclineStops, Deciding, Idle
<1>2. IInv /\ SettledInv /\ [Next]_vars => SettledInv'
  <2> SUFFICES ASSUME IInv, SettledInv, [Next]_vars
               PROVE  SettledInv'
    OBVIOUS
  <2>1. CASE UNCHANGED vars
    BY <2>1 DEF vars, files, history, SettledInv, SettledIsSaved, ReviewIsRecorded,
                DeclineStops, Deciding
  <2> QED
    BY <2>1, SettledEnds, SettledFinish, SettledStart, SettledSelect, SettledMiddle DEF Next
<1> QED
  BY <1>1, <1>2, IInvAlways, PTL DEF Spec

(* A list that was reviewed to the end asks for no review again, as long   *)
(* as it stays what it was.                                                *)
THEOREM DeclineIsFinal == Spec => []DeclineStops
  BY SettledAlways, PTL DEF SettledInv

(* The user is asked as long as something is owed, and not again once it   *)
(* was settled.                                                            *)
THEOREM AskedExactlyWhenOwed == Spec => []AsksExactlyWhenOwed
  BY ConfirmedIsOfferedAgain, DeclineIsFinal, PTL DEF AsksExactlyWhenOwed

(* No removal, complete or not, opens a dependency of what stays.          *)
THEOREM RemovalsKeepDependencies == Spec => []NothingBroken
  BY IInvAlways, PTL DEF IInv

(* A removal stays within what was ticked in the same run and is still an  *)
(* orphan, and within the pure ones if nobody was asked.                   *)
THEOREM RemovalsAreAuthorized == Spec => RemovalIsAuthorized
<1> DEFINE removed == installed \ installed'
           Authorized == run.pc = "remove" =>
               /\ removed \subseteq run.ticked \cap run.rest.all
               /\ run.noconfirm => run.auto /\ removed \subseteq run.rest.pure
<1>1. IInv /\ [Next]_vars => [Authorized]_vars
  <2> SUFFICES ASSUME IInv, Next, run.pc = "remove"
               PROVE  Authorized
    BY DEF vars
  <2>1. /\ run.safe \subseteq run.sel /\ run.sel \subseteq run.ticked
        /\ run.sel \subseteq run.rest.all
        /\ run.noconfirm => run.sel \subseteq run.rest.pure
        /\ run.noconfirm /\ run.ticked # {} => run.auto
        /\ run # Idle /\ run.sel # {}
    BY RunningFacts DEF IInv, SelectionIsFresh, SafeRemains
  <2>2. ~External /\ ~List
    BY <2>1 DEF External, List
  <2>3. /\ ~ \E U \in SUBSET Pkg, w \in World, full, smart, auto, noconfirm \in BOOLEAN :
                StartUpgrade(U, w, full, smart, auto, noconfirm)
        /\ ~ \E noconfirm \in BOOLEAN : StartClean(noconfirm)
    BY <2>1 DEF StartUpgrade, StartClean
  <2>4. /\ ~QuietEnd /\ ~DryRun /\ ~Disapprove
        /\ ~ \E S \in SUBSET Pkg : Select(S)
        /\ ~Record /\ ~RecordFails /\ ~Transact /\ ~TransactFails
        /\ ~Recheck /\ ~RecheckFails /\ ~Prepare /\ ~PrepareFails
        /\ ~Resave /\ ~ResaveFails /\ ~Save /\ ~Finish /\ ~FinishFails
    BY DEF QuietEnd, DryRun, Disapprove, Select, Record, RecordFails, Transact,
           TransactFails, Recheck, RecheckFails, Prepare, PrepareFails, Resave,
           ResaveFails, Save, Finish, FinishFails
  <2>5. Remove \/ RemoveFails \/ Crash
    BY <2>2, <2>3, <2>4 DEF Next
  <2>6. removed \subseteq run.safe
    BY <2>5 DEF Remove, RemoveFails, Crash, system
  <2> QED
    BY <2>1, <2>6
<1> QED
  BY <1>1, IInvAlways, PTL DEF Spec, RemovalIsAuthorized
=============================================================================
