---------------------------- MODULE OrphanLoops ----------------------------
(***************************************************************************)
(* The three loops behind orphan cleanup (src/src/orphans.rs), one action  *)
(* per iteration, over one fixed set of installed packages:                *)
(*   - detect: what explicitly installed packages reach through their      *)
(*     dependencies; the rest is orphaned;                                 *)
(*   - prune_orphan_cycles: which orphans are still optional for a package *)
(*     that stays, directly or along a chain of orphans; the others are    *)
(*     pure, and --noconfirm removes them unasked;                         *)
(*   - safe_selection: what of a selection can be removed without breaking *)
(*     a package that is retained.                                         *)
(* A dependency is the set of the installed packages that satisfy it.      *)
(* OrphanCleanup uses the results by their definitions; the theorems of    *)
(* OrphanProofs say that the loops compute them.                           *)
(***************************************************************************)
EXTENDS Naturals, FiniteSets

CONSTANTS
    Package,        \* the installed packages
    DepChoices, \* what a package may depend on: sets of satisfier sets
    OptChoices  \* sets of packages a package may be optional for

ASSUME DepChoicesAssumption == DepChoices \subseteq SUBSET ((SUBSET Package) \ {{}})
ASSUME OptChoicesAssumption == OptChoices \subseteq SUBSET Package

VARIABLES
    explicit,   \* packages whose install reason is Explicit
    deps,       \* package -> its dependencies, each a set of satisfiers
    optFor,     \* package -> packages it is an optional dependency of
    pc,         \* the loop that runs: "reach", "prune", "select", "safe", "done"
    reached,    \* reachable_from_explicit
    queue,      \* reached packages whose dependencies are still to be read
    orphans,    \* what detect returns, projections left out
    active,     \* active_packages
    ticked,     \* the selection safe_selection was called with
    safe        \* its local variable `safe'

loopVars == <<explicit, deps, optFor, pc, reached, queue, orphans, active, ticked, safe>>
graph == <<explicit, deps, optFor>>

LoopsTypeOK ==
    /\ explicit \subseteq Package
    /\ deps \in [Package -> DepChoices]
    /\ optFor \in [Package -> OptChoices]
    /\ pc \in {"reach", "prune", "select", "safe", "done"}
    /\ reached \subseteq Package
    /\ queue \subseteq reached
    /\ orphans \subseteq Package
    /\ active \subseteq Package
    /\ ticked \subseteq orphans
    /\ safe \subseteq ticked

(* find_satisfier: ALPM returns the first match in the local database.     *)
Satisfier(d) == CHOOSE p \in d : TRUE

(* The loops start on any installed graph.                                 *)
LoopsInit ==
    /\ explicit \in SUBSET Package
    /\ deps \in [Package -> DepChoices]
    /\ optFor \in [Package -> OptChoices]
    /\ pc = "reach"
    /\ reached = explicit
    /\ queue = explicit
    /\ orphans = {}
    /\ active = {}
    /\ ticked = {}
    /\ safe = {}

(* One turn of the breadth-first search of detect.                         *)
Visit(p) ==
    LET found == {Satisfier(d) : d \in deps[p]} IN
    /\ pc = "reach"
    /\ p \in queue
    /\ reached' = reached \cup found
    /\ queue' = (queue \ {p}) \cup (found \ reached)
    /\ UNCHANGED <<graph, pc, orphans, active, ticked, safe>>

(* Packages outside the set S that a member of S is optional for.          *)
OutsideParents(S) == UNION {optFor[o] : o \in S} \ S

(* The search is over: every package it did not reach is orphaned, and     *)
(* prune_orphan_cycles starts from the optional parents that stay.         *)
ListUnneeded ==
    /\ pc = "reach"
    /\ queue = {}
    /\ orphans' = Package \ reached
    /\ active' = OutsideParents(Package \ reached)
    /\ pc' = "prune"
    /\ UNCHANGED <<graph, reached, queue, ticked, safe>>

(* Fault: every optional parent counts, orphaned or not.                   *)
PropagateAny(o) ==
    /\ pc = "prune"
    /\ o \in orphans \ active
    /\ optFor[o] # {}
    /\ active' = active \cup {o}
    /\ UNCHANGED <<graph, pc, reached, queue, orphans, ticked, safe>>

(* An orphan with an active optional parent is active itself.              *)
Propagate(o) ==
    /\ pc = "prune"
    /\ o \in orphans \ active
    /\ optFor[o] \cap active # {}
    /\ active' = active \cup {o}
    /\ UNCHANGED <<graph, pc, reached, queue, orphans, ticked, safe>>

(* A pass that adds nothing ends the loop.                                 *)
Pruned ==
    /\ pc = "prune"
    /\ \A o \in orphans \ active : optFor[o] \cap active = {}
    /\ pc' = "select"
    /\ UNCHANGED <<graph, reached, queue, orphans, active, ticked, safe>>

(* The orphans whose optional parents were all pruned: is_pure().          *)
Pure == {o \in orphans : optFor[o] \cap active = {}}

(* Fault: everything detected is taken for selected.                       *)
SelectEverything(S) ==
    /\ pc = "select"
    /\ ticked' = S
    /\ safe' = orphans
    /\ pc' = "safe"
    /\ UNCHANGED <<graph, reached, queue, orphans, active>>

(* The user, or the autoremove policy, selects some of the orphans.        *)
SelectSome(S) ==
    /\ pc = "select"
    /\ ticked' = S
    /\ safe' = S
    /\ pc' = "safe"
    /\ UNCHANGED <<graph, reached, queue, orphans, active>>

(* check_deps: dependencies of retained packages that removing S breaks,   *)
(* each with the retained package.                                         *)
Broken(S) ==
    {b \in (Package \ S) \X (SUBSET Package) : b[2] \in deps[b[1]] /\ b[2] \subseteq S}

(* Fault: the broken dependencies are only reported.                       *)
RoundReports ==
    /\ pc = "safe"
    /\ Broken(safe) # {}
    /\ UNCHANGED loopVars

(* One iteration of safe_selection: every broken dependency names one of   *)
(* the packages being removed that satisfied it, and that one is kept.     *)
Round ==
    /\ pc = "safe"
    /\ Broken(safe) # {}
    /\ \E causing \in [Broken(safe) -> safe] :
        /\ \A b \in Broken(safe) : causing[b] \in b[2]
        /\ safe' = safe \ {causing[b] : b \in Broken(safe)}
    /\ UNCHANGED <<graph, pc, reached, queue, orphans, active, ticked>>

SelectionSafe ==
    /\ pc = "safe"
    /\ Broken(safe) = {}
    /\ pc' = "done"
    /\ UNCHANGED <<graph, reached, queue, orphans, active, ticked, safe>>

LoopsNext ==
    \/ \E p \in Package : Visit(p)
    \/ ListUnneeded
    \/ \E o \in Package : Propagate(o)
    \/ Pruned
    \/ \E S \in SUBSET orphans : SelectSome(S)
    \/ Round
    \/ SelectionSafe

LoopsSpec == LoopsInit /\ [][LoopsNext]_loopVars

(* The loops run on the calling thread.                                    *)
LoopsFairSpec == LoopsSpec /\ WF_loopVars(LoopsNext)

-----------------------------------------------------------------------------
(* Sets of packages that contain every explicit package and the satisfier  *)
(* of every dependency of their members.                                   *)
Supported(T) ==
    /\ explicit \subseteq T
    /\ \A p \in T : \A d \in deps[p] : Satisfier(d) \in T

(* Sets that contain every orphan with an optional parent in them.         *)
LivelySet(T) ==
    /\ OutsideParents(orphans) \subseteq T
    /\ \A o \in orphans : optFor[o] \cap T # {} => o \in T

(* detect reports a package exactly if it is outside the smallest supported *)
(* set: dependency cycles among orphans do not keep each other alive.      *)
OrphansAreUnsupported ==
    pc # "reach" =>
        \A p \in Package : p \in orphans <=> \E T \in SUBSET Package : Supported(T) /\ p \notin T

(* An orphan is pure exactly if no chain of optional parents leads to a    *)
(* package that stays: cycles of optional dependencies are no such chain,  *)
(* a chain through other orphans is.                                       *)
PureMeansNoLiveParent ==
    pc \in {"select", "safe", "done"} =>
        \A o \in orphans :
            o \in Pure <=> \E T \in SUBSET Package : LivelySet(T) /\ optFor[o] \cap T = {}

(* A selection of everything that detect reported is removable as it is:   *)
(* what it keeps for a retained package would be a package that detect     *)
(* wrongly reported.                                                       *)
AllOrphansRemovable == pc = "done" /\ ticked = orphans => safe = orphans

(* Where every dependency has one satisfier, no package is kept without    *)
(* need: safe_selection ends with the largest removable part.              *)
SoleProviders == \A p \in Package : \A d \in deps[p] : \A x, y \in d : x = y

NothingKeptNeedlessly ==
    SoleProviders =>
        \A S \in SUBSET ticked :
            (\A p \in Package \ S : \A d \in deps[p] : ~ d \subseteq S) => S \subseteq safe

(* The three loops compute what they stand for: detection the packages no  *)
(* explicit one needs, pruning those without a live optional parent, safe  *)
(* selection the largest part of the selection that can go.                *)
LoopsAreExact == OrphansAreUnsupported /\ PureMeansNoLiveParent
                 /\ AllOrphansRemovable /\ NothingKeptNeedlessly

(* What makes the four inductive.  The search: everything reached is in    *)
(* every supported set, and a package off the queue is fully read.         *)
SearchInv ==
    /\ explicit \subseteq reached
    /\ \A p \in reached \ queue : \A d \in deps[p] : Satisfier(d) \in reached
    /\ \A T \in SUBSET Package : Supported(T) => reached \subseteq T
    /\ pc = "reach" => orphans = {}
    /\ pc # "reach" => queue = {} /\ orphans = Package \ reached

(* The pruning: every active package is in every lively set.               *)
PruneInv ==
    /\ pc # "reach" => OutsideParents(orphans) \subseteq active
    /\ pc # "reach" => \A T \in SUBSET Package : LivelySet(T) => active \subseteq T
    /\ pc \in {"select", "safe", "done"} => LivelySet(active)

(* The selection before, during and after its loop.                        *)
SafeInv ==
    /\ pc \notin {"safe", "done"} => ticked = {} /\ safe = {}
    /\ pc \in {"safe", "done"} /\ ticked = orphans => safe = orphans
    /\ NothingKeptNeedlessly

LoopsInv == LoopsTypeOK /\ SearchInv /\ PruneInv /\ SafeInv

(* The loops end: a round keeps at least one package more.                 *)
Ends == <>(pc = "done")
=============================================================================
