--------------------------- MODULE OrphanCleanup ---------------------------
(***************************************************************************)
(* Orphan cleanup across invocations (src/src/orphans.rs, with its callers *)
(* in commands/upgrade.rs and commands/orphans.rs).  Two files survive a   *)
(* run: the inventory of orphans that are known, and the selection that    *)
(* was confirmed but is not finished.  Both are written at several points  *)
(* of a run that can fail or be killed between any two of them, while the  *)
(* packages of the system change under the run itself and between runs.    *)
(*                                                                         *)
(* The system is one of several `worlds' (who depends on whom) with a set  *)
(* of installed packages.  Detection and the safe part of a selection are  *)
(* used by their definitions; OrphanLoops has the loops that compute them. *)
(***************************************************************************)
EXTENDS Naturals, FiniteSets

CONSTANTS
    Pkg,        \* packages
    Explicit,   \* those installed explicitly; they are never removed
    World,      \* versions of the dependency data
    Deps,       \* world -> package -> packages it depends on
    Opts,       \* world -> package -> packages it optionally depends on
    None        \* an absent or unreadable file

ASSUME ExplicitAssumption == Explicit \subseteq Pkg
ASSUME DepsAssumption == Deps \in [World -> [Pkg -> SUBSET Pkg]]
ASSUME OptsAssumption == Opts \in [World -> [Pkg -> SUBSET Pkg]]

VARIABLES
    world,      \* the dependency data of the installed packages
    installed,  \* the local database
    pending,    \* pending_orphan_cleanup.json: None or a set of names
    known,      \* known_orphans.json: None or an inventory
    run,        \* the invocation that is running
    owed,       \* confirmed by the user, neither finished nor withdrawn
    settled,    \* the inventory the user last reviewed to the end, or None
    shown       \* orphans the user was ever shown a list with

system == <<world, installed>>
files == <<pending, known>>
history == <<owed, settled, shown>>
vars == <<system, files, run, history>>

(* A list of orphans: their names, and which of them are pure.             *)
Inventory == {inv \in [all: SUBSET Pkg, pure: SUBSET Pkg] : inv.pure \subseteq inv.all}
Empty == [all |-> {}, pure |-> {}]
ASSUME NoneAssumption ==
    (\A S \in SUBSET Pkg : None # S) /\ (\A inv \in Inventory : None # inv)
Without(inv, S) == [all |-> inv.all \ S, pure |-> inv.pure \ S]

(* No invocation is running.                                               *)
Idle == [pc |-> "idle"]

(* An invocation: its flags, and the local variables of its run.           *)
Invocation ==
    [pc: {"select", "record", "transact", "recheck", "prepare", "resave",
          "remove", "save", "finish"},
     kind: {"upgrade", "clean"},
     full: BOOLEAN, smart: BOOLEAN, auto: BOOLEAN, noconfirm: BOOLEAN,
     updates: SUBSET Pkg,   \* the approved updates, and where they lead
     target: World,
     seen: Inventory,       \* the orphans found before the approval
     changed: BOOLEAN,      \* orphan_list_changed
     review: BOOLEAN,       \* review_orphans
     ticked: SUBSET Pkg,    \* what was selected of them
     sel: SUBSET Pkg,       \* what is left of that after the transaction
     safe: SUBSET Pkg,      \* what execute_removal hands to pacman
     rest: Inventory,       \* `remaining'
     ok: BOOLEAN]

TypeOK ==
    /\ world \in World
    /\ Explicit \subseteq installed /\ installed \subseteq Pkg
    /\ pending = None \/ pending \in SUBSET Pkg
    /\ known = None \/ known \in Inventory
    /\ run = Idle \/ run \in Invocation
    /\ run # Idle => run.safe \subseteq run.sel /\ run.sel \subseteq run.ticked
    /\ owed \subseteq Pkg /\ shown \subseteq Pkg
    /\ settled = None \/ settled \in Inventory

-----------------------------------------------------------------------------
(* Sets of installed packages in which every dependency is installed.      *)
Closed(S, w) == \A p \in S : Deps[w][p] \subseteq S

(* What installing the packages S brings in.                               *)
Closure(S, w) == {p \in Pkg : \A T \in SUBSET Pkg : S \subseteq T /\ Closed(T, w) => p \in T}

(* detect, first part: installed packages that no explicit one reaches.    *)
Unreachable == installed \ Closure(Explicit, world)

(* detect, second part: packages whose every dependent is among the        *)
(* updates U and drops them in world w.                                    *)
Projected(U, w) ==
    {p \in installed \ (Explicit \cup Unreachable) :
        LET parents == {q \in installed : p \in Deps[world][q]} IN
        parents # {} /\ parents \subseteq U /\ \A q \in parents : p \notin Deps[w][q]}

(* Members of S with a chain of optional parents that leads out of S.      *)
Lively(S) ==
    LET OptFor(p) == {q \in installed : p \in Opts[world][q]}
        Dead(T) == \A p \in T : OptFor(p) \subseteq T
    IN  S \ UNION {T \in SUBSET S : Dead(T)}

(* What detect returns before the updates U lead to world w.               *)
Detect(U, w) ==
    LET found == Unreachable \cup Projected(U, w) IN
    [all |-> found, pure |-> found \ Lively(found)]

(* The part of a selection that safe_selection leaves.                     *)
SafePart(S) ==
    UNION {T \in SUBSET (S \cap installed) : Closed(installed \ T, world)}

(* has_changed_from_known.                                                 *)
HasChanged(seen) ==
    IF known = None THEN seen.all # {}
    ELSE \E o \in seen.all : o \notin known.all \/ (o \in seen.pure) # (o \in known.pure)

(* pending_needs_review.                                                   *)
PendingNeedsReview(seen) ==
    IF pending = None THEN seen.all # {} ELSE seen.all \cap pending # {}

(* OrphanManager::needs_review.                                            *)
NeedsReview(seen) == HasChanged(seen) \/ PendingNeedsReview(seen)

(* When a selection is written: after every prompt, and whenever something *)
(* is selected without one.                                                *)
MustRecord(S) == S # {} \/ (~run.noconfirm /\ run.review) \/ run.kind = "clean"

(* noconfirm_orphan_selection.                                             *)
AutoSelection(seen, auto) == IF auto THEN seen.pure ELSE {}

(* revalidate_orphan_selection.                                            *)
Revalidated(S, actual) == S \cap (IF run.noconfirm THEN actual.pure ELSE actual.all)

-----------------------------------------------------------------------------
(* The system may start anywhere; the state files may be missing.          *)
Init ==
    /\ world \in World
    /\ installed = Closure(Explicit, world)
    /\ pending = None
    /\ known = None
    /\ run = Idle
    /\ owed = {}
    /\ settled = None
    /\ shown = {}

(* Between runs, packages change without pacpin.                           *)
External ==
    /\ run = Idle
    /\ world' \in World
    /\ \E S \in SUBSET Pkg : Explicit \subseteq S /\ installed' = Closure(S, world')
    /\ UNCHANGED <<files, run, history>>

(* An upgrade computes the orphans its approved updates U lead to, and     *)
(* whether they need a review.  `full' is a native scope with a complete   *)
(* plan; without updates the list is shown at once.                        *)
StartUpgrade(U, w, full, smart, auto, noconfirm) ==
    LET seen == IF full /\ (smart \/ auto) THEN Detect(U, w) ELSE Empty
        changed == full /\ smart /\ NeedsReview(seen)
        review == (auto \/ changed) /\ seen.all # {}
    IN
    /\ run = Idle
    /\ U \subseteq installed
    /\ \A p \in installed \ U : Deps[w][p] = Deps[world][p] /\ Opts[w][p] = Opts[world][p]
    /\ U = {} => w = world
    /\ run' = [pc |-> "select", kind |-> "upgrade", full |-> full, smart |-> smart,
               auto |-> auto, noconfirm |-> noconfirm, updates |-> U, target |-> w,
               seen |-> seen, changed |-> changed, review |-> review,
               ticked |-> {}, sel |-> {}, safe |-> {}, rest |-> seen, ok |-> TRUE]
    /\ shown' = IF U = {} /\ review THEN shown \cup seen.all ELSE shown
    /\ UNCHANGED <<system, files, owed, settled>>

(* pin orphans -c.  Without orphans the pending record is emptied.         *)
StartClean(noconfirm) ==
    LET seen == Detect({}, world) IN
    /\ run = Idle
    /\ run' = [pc |-> IF seen.all = {} THEN "finish" ELSE "select", kind |-> "clean",
               full |-> TRUE, smart |-> TRUE, auto |-> TRUE, noconfirm |-> noconfirm,
               updates |-> {}, target |-> world, seen |-> seen, changed |-> TRUE,
               review |-> seen.all # {}, ticked |-> {}, sel |-> {}, safe |-> {},
               rest |-> seen, ok |-> TRUE]
    /\ shown' = shown \cup seen.all
    /\ UNCHANGED <<system, files, owed, settled>>

(* fs::write of the inventory, whose errors are ignored: done, not even    *)
(* begun, or cut off, which leaves a file that does not parse.             *)
SaveKnown(inv) ==
    /\ known' \in {inv, known, None}
    /\ settled' = IF known' = settled THEN settled ELSE None

(* pin orphans: the listing.                                               *)
List ==
    LET seen == Detect({}, world) IN
    /\ run = Idle
    /\ seen.all # {}
    /\ SaveKnown(seen)
    /\ shown' = shown \cup seen.all
    /\ UNCHANGED <<system, pending, run, owed>>

(* No updates and nothing to review: a first inventory is taken.           *)
QuietEnd ==
    /\ run.pc = "select" /\ run.updates = {} /\ ~run.review
    /\ IF known = None /\ run.full THEN SaveKnown(run.seen) ELSE UNCHANGED <<known, settled>>
    /\ run' = Idle
    /\ UNCHANGED <<system, pending, owed, shown>>

(* A dry run ends with the list; a plan that is not approved, before it.   *)
DryRun ==
    /\ run.pc = "select" /\ run.kind = "upgrade"
    /\ shown' = IF run.review THEN shown \cup run.seen.all ELSE shown
    /\ run' = Idle
    /\ UNCHANGED <<system, files, owed, settled>>

Disapprove ==
    /\ run.pc = "select" /\ run.updates # {} /\ ~run.noconfirm
    /\ run' = Idle
    /\ UNCHANGED <<system, files, history>>

(* The prompt, or what --noconfirm selects in its place.                   *)
Select(S) ==
    /\ run.pc = "select"
    /\ run.updates # {} \/ run.review
    /\ IF run.noconfirm THEN S = AutoSelection(run.seen, run.auto)
       ELSE S \subseteq (IF run.review THEN run.seen.all ELSE {})
    /\ run' = [run EXCEPT !.ticked = S, !.sel = S,
                          !.pc = IF MustRecord(S) THEN "record"
                                 ELSE IF run.updates = {} THEN "prepare" ELSE "transact"]
    /\ shown' = IF run.review /\ ~run.noconfirm THEN shown \cup run.seen.all ELSE shown
    /\ settled' = IF S = {} THEN settled ELSE None
    /\ UNCHANGED <<system, files, owed>>

(* record_selection, before any package is touched.  A new confirmation    *)
(* takes the place of an earlier one.                                      *)
Record ==
    /\ run.pc = "record"
    /\ pending' = run.sel
    /\ owed' = run.sel
    /\ run' = [run EXCEPT !.pc = IF run.updates = {} THEN "prepare" ELSE "transact"]
    /\ UNCHANGED <<system, known, settled, shown>>

(* The write failed, before or after the rename: the run is abandoned.     *)
RecordFails ==
    /\ run.pc = "record"
    /\ \/ UNCHANGED <<pending, owed>>
       \/ pending' = run.sel /\ owed' = run.sel
    /\ run' = Idle
    /\ UNCHANGED <<system, known, settled, shown>>

(* Every stage of the upgrade succeeded.                                   *)
Transact ==
    /\ run.pc = "transact"
    /\ world' = run.target
    /\ installed' = Closure(installed, run.target)
    /\ run' = IF run.full /\ (run.smart \/ run.auto)
              THEN [run EXCEPT !.pc = "recheck"] ELSE Idle
    /\ UNCHANGED <<files, history>>

(* A stage failed, with the updates applied or not: cleanup is skipped.    *)
TransactFails ==
    /\ run.pc = "transact"
    /\ \/ UNCHANGED system
       \/ world' = run.target /\ installed' = Closure(installed, run.target)
    /\ run' = Idle
    /\ UNCHANGED <<files, history>>

(* Fault: the stored selection is taken for permission.                    *)
RecheckStored ==
    LET actual == Detect({}, world)
        S == IF pending = None THEN {} ELSE Revalidated(pending, actual) IN
    /\ run.pc = "recheck"
    /\ run' = [run EXCEPT !.sel = S, !.rest = actual, !.pc = "prepare"]
    /\ owed' = IF run.sel = {} THEN owed ELSE owed \cap S
    /\ UNCHANGED <<system, files, settled, shown>>

(* The orphans are detected again; selections that are none any more are   *)
(* reported and skipped.                                                   *)
Recheck ==
    LET actual == Detect({}, world)
        S == Revalidated(run.sel, actual) IN
    /\ run.pc = "recheck"
    /\ run' = [run EXCEPT !.sel = S, !.rest = actual, !.pc = "prepare"]
    /\ owed' = IF run.sel = {} THEN owed ELSE owed \cap S
    /\ UNCHANGED <<system, files, settled, shown>>

(* ALPM cannot be opened for it, or, in pin orphans -c, pacman's lock      *)
(* exists: the run ends here.                                              *)
RecheckFails ==
    /\ \/ run.pc = "recheck"
       \/ run.pc = "prepare" /\ run.kind = "clean" /\ run.sel # {}
    /\ run' = Idle
    /\ UNCHANGED <<system, files, history>>

(* Fault: the selection is not checked against retained packages.          *)
PrepareUnchecked ==
    /\ run.pc = "prepare"
    /\ run' = [run EXCEPT !.safe = run.sel,
                          !.pc = IF run.sel = {} THEN "save" ELSE "resave"]
    /\ UNCHANGED <<system, files, history>>

(* execute_removal up to safe_selection; nothing selected is a success.    *)
Prepare ==
    /\ run.pc = "prepare"
    /\ run' = [run EXCEPT !.safe = SafePart(run.sel),
                          !.pc = IF run.sel = {} THEN "save" ELSE "resave"]
    /\ UNCHANGED <<system, files, history>>

(* execute_removal cannot open ALPM.                                       *)
PrepareFails ==
    /\ run.pc = "prepare" /\ run.sel # {}
    /\ run' = [run EXCEPT !.pc = "save", !.ok = FALSE]
    /\ UNCHANGED <<system, files, history>>

(* The adjusted selection replaces the confirmed one before the removal.   *)
Resave ==
    /\ run.pc = "resave"
    /\ pending' = run.safe
    /\ owed' = run.safe
    /\ run' = [run EXCEPT !.pc = IF run.safe = {} THEN "save" ELSE "remove"]
    /\ UNCHANGED <<system, known, settled, shown>>

ResaveFails ==
    /\ run.pc = "resave"
    /\ \/ UNCHANGED <<pending, owed>>
       \/ pending' = run.safe /\ owed' = run.safe
    /\ run' = [run EXCEPT !.pc = "save", !.ok = FALSE]
    /\ UNCHANGED <<system, known, settled, shown>>

(* pacman -Rn of exactly that set.                                         *)
Remove ==
    /\ run.pc = "remove"
    /\ installed' = installed \ run.safe
    /\ owed' = owed \ run.safe
    /\ run' = [run EXCEPT !.rest = Without(run.rest, run.safe), !.pc = "save"]
    /\ UNCHANGED <<world, files, settled, shown>>

(* pacman fails, is locked out, or is interrupted on the way: what it has  *)
(* removed by then leaves no dependency open.                              *)
RemoveFails ==
    /\ run.pc = "remove"
    /\ \E X \in SUBSET run.safe :
        /\ Closed(installed \ X, world)
        /\ installed' = installed \ X
        /\ owed' = owed \ X
    /\ run' = [run EXCEPT !.pc = "save", !.ok = FALSE]
    /\ UNCHANGED <<world, files, settled, shown>>

(* save_known of what remains, whatever became of the removal.             *)
Save ==
    /\ run.pc = "save"
    /\ SaveKnown(run.rest)
    /\ run' = [run EXCEPT !.pc = "finish"]
    /\ UNCHANGED <<system, pending, owed, shown>>

(* What a review that was carried through leaves behind: the user has seen *)
(* the whole remaining list and owes nothing.                              *)
Reviewed ==
    IF run.ok /\ ~run.noconfirm /\ run.review /\ known = run.rest /\ owed' = {}
    THEN run.rest ELSE settled

(* Fault: the record is emptied whatever became of the removal.            *)
FinishClears ==
    /\ run.pc = "finish"
    /\ pending' = IF pending = None THEN None ELSE {}
    /\ owed' = owed \cap run.rest.all
    /\ settled' = Reviewed
    /\ run' = Idle
    /\ UNCHANGED <<system, known, shown>>

(* finish_review: names that are orphaned no more leave the record.        *)
Finish ==
    /\ run.pc = "finish"
    /\ pending' = IF pending = None THEN None ELSE pending \cap run.rest.all
    /\ owed' = owed \cap run.rest.all
    /\ settled' = Reviewed
    /\ run' = Idle
    /\ UNCHANGED <<system, known, shown>>

FinishFails ==
    /\ run.pc = "finish"
    /\ pending # None
    /\ pending' \in {pending, pending \cap run.rest.all}
    /\ owed' = owed \cap run.rest.all
    /\ run' = Idle
    /\ UNCHANGED <<system, known, settled, shown>>

(* The process is killed between two steps.                                *)
Crash ==
    /\ run # Idle
    /\ run' = Idle
    /\ UNCHANGED <<system, files, history>>

Next ==
    \/ External
    \/ \E U \in SUBSET Pkg, w \in World, full, smart, auto, noconfirm \in BOOLEAN :
        StartUpgrade(U, w, full, smart, auto, noconfirm)
    \/ \E noconfirm \in BOOLEAN : StartClean(noconfirm)
    \/ List
    \/ QuietEnd \/ DryRun \/ Disapprove
    \/ \E S \in SUBSET Pkg : Select(S)
    \/ Record \/ RecordFails
    \/ Transact \/ TransactFails
    \/ Recheck \/ RecheckFails
    \/ Prepare \/ PrepareFails
    \/ Resave \/ ResaveFails
    \/ Remove \/ RemoveFails
    \/ Save
    \/ Finish \/ FinishFails
    \/ Crash

Spec == Init /\ [][Next]_vars

-----------------------------------------------------------------------------
(* A full upgrade has decided about the orphans it found.                  *)
Deciding == run.pc = "select" /\ run.kind = "upgrade" /\ run.full /\ run.smart

(* "If an upgrade fails or removal cannot finish, a later full upgrade     *)
(* offers cleanup again, even with no package updates and an unchanged     *)
(* known list": whatever failed, was killed, listed or ran unattended in   *)
(* between, what the user confirmed is offered while it is an orphan.      *)
OwedIsOffered == Deciding /\ owed \cap run.seen.all # {} => run.review

(* "Declining the new review stops repeated prompts for that unchanged     *)
(* list": a list that was reviewed to the end asks for no review.          *)
DeclineStops == Deciding /\ settled # None /\ run.seen = settled => ~run.changed

(* The user is asked as long as something is owed and not again once it    *)
(* was settled, whatever fails or is killed in between.                    *)
AsksExactlyWhenOwed == OwedIsOffered /\ DeclineStops

(* A removal leaves no installed package without a dependency, for any     *)
(* part of the list that is ticked and however the removal ends.           *)
NothingBroken == Closed(installed, world)

(* "Stored selections are a reminder, not permission", "Removal is limited *)
(* to the confirmed targets": what a run removes was ticked in that run,   *)
(* is an orphan by a fresh look, and pure if nobody was asked.             *)
RemovalIsAuthorized ==
    [][run.pc = "remove" =>
        LET removed == installed \ installed' IN
        /\ removed \subseteq run.ticked \cap run.rest.all
        /\ run.noconfirm => run.auto /\ removed \subseteq run.rest.pure]_vars

(* "Brand new orphan appears -> MUST detect change!": an orphan the user   *)
(* was never shown makes a full upgrade ask for a review.                  *)
NewOrphansAreOffered == Deciding /\ run.seen.all \ shown # {} => run.review

(* What makes OwedIsOffered inductive: a record that exists holds all that *)
(* is owed.                                                                *)
OwedIsRecorded == pending # None => owed \subseteq pending

(* What makes RemovalIsAuthorized inductive: outside the transaction, the  *)
(* selection holds orphans of the latest list only, and pure ones if       *)
(* nobody was asked; no list holds an explicitly installed package.        *)
SelectionIsFresh ==
    /\ run.pc = "select" => run.rest = run.seen /\ run.sel = {}
    /\ run.pc \in {"select", "record", "transact", "recheck", "prepare"} => run.safe = {}
    /\ run.pc \in {"record", "prepare", "resave", "remove"} =>
        /\ run.sel \subseteq run.rest.all
        /\ run.noconfirm => run.sel \subseteq run.rest.pure
    /\ run # Idle /\ run.noconfirm /\ run.ticked # {} => run.auto
    /\ run # Idle => Explicit \cap run.seen.all = {} /\ Explicit \cap run.rest.all = {}

(* What makes NothingBroken inductive: what goes to pacman was checked.    *)
SafeRemains ==
    run.pc \in {"resave", "remove"} =>
        run.sel # {} /\ Closed(installed \ run.safe, world)

(* What makes DeclineStops inductive: what was settled is what the files    *)
(* say as long as no run ticks anything, and the run that can settle a     *)
(* review has its whole selection in the record.                           *)
SettledIsSaved ==
    settled # None =>
        /\ known = settled
        /\ pending # None /\ settled.all \cap pending = {}
        /\ run.pc \notin {"idle", "select"} => run.ticked = {}

ReviewIsRecorded ==
    run.pc \notin {"idle", "select", "record"} /\ run.review /\ ~run.noconfirm /\ run.ok =>
        /\ pending # None
        /\ IF run.pc \in {"transact", "recheck"} THEN pending = run.sel /\ owed = run.sel
           ELSE pending \cap run.rest.all \subseteq owed

SettledInv == SettledIsSaved /\ ReviewIsRecorded /\ DeclineStops

IInv ==
    /\ TypeOK
    /\ OwedIsRecorded /\ OwedIsOffered
    /\ NothingBroken /\ SafeRemains
    /\ SelectionIsFresh
=============================================================================
