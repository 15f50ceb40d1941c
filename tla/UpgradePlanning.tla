--------------------------- MODULE UpgradePlanning ---------------------------
(***************************************************************************)
(* From `pin -Syu' to the plan that the user approves: the discovery of    *)
(* every manager's updates in threads of their own, the resolution         *)
(* (module Resolver), the scope and the ignored packages, the targets that *)
(* the user added, the eligibility of managers under --keep-going          *)
(* (preflight.rs), the native targets with the dependencies that the       *)
(* solver adds (preview.rs), and the plan (execution_plan.rs).             *)
(***************************************************************************)
EXTENDS Resolver

CONSTANTS
    Sources,
    Providers,  \* the active providers in their order; Sources is one
    Refreshing, \* those whose metadata is refreshed first
    Failing,    \* owned packages whose check may fail alone
    Invocations \* what the user asked: scope, refresh, dry, keepGoing,
                \* noCache, ignored, requests, options, offers

(* discovery::Manager tells a provider, the AUR and a package of a source  *)
(* from each other.  A host also has the order of pacman.conf, in which    *)
(* pacman itself looks for a name; repo_order may put the same             *)
(* repositories in another Order (order_repos).                            *)
ASSUME PlanningAssumption ==
    /\ Providers \in Seq(ToSet(Providers))
    /\ Sources \in ToSet(Providers) /\ {Aur, None} \cap ToSet(Providers) = {}
    /\ \A i \in Invocations :
          /\ (Failing \cup i.offers[Sources]) \cap ({Aur} \cup ToSet(Providers)) = {}
          /\ i.requests \in Seq(ToSet(i.requests))
          /\ {t.name : t \in ToSet(i.requests)} \subseteq Package
    /\ \A h \in Hosts : h.order \in Seq(ToSet(Order)) /\ ToSet(h.order) = ToSet(Order)
    /\ None # 0

VARIABLES
    run,        \* the invocation
    checks,     \* how far the thread of each provider is
    found,      \* the updates it reports
    bad,        \* the failures it reports
    offered,    \* res.updates
    heldBack,   \* res.held_packages
    requested,  \* RequestedTargets.items, native and AUR together
    external,   \* external_updates: pairs of provider and package
    skipped,    \* managers and source packages left out
    configured, \* providers told to keep no cache
    targets,    \* pacman_targets: pairs of repository or None and name
    stages,     \* the stages of the approved plan
    code        \* the exit code, or None

discovery == <<checks, found, bad>>
selection == <<offered, heldBack, requested, external>>
plan == <<skipped, configured, targets, stages, code>>
vars == <<resolver, run, discovery, selection, plan>>

IncludesNative == run.scope = "all"
IncludesAur == run.scope \in {"all", "aur"}
IncludesRunner(m) == run.scope = "all" \/ (run.scope = "sources" /\ m = Sources)
                         \/ (run.scope = "external" /\ m # Sources)
Active == Filtered(Providers, IncludesRunner)
Failed(m, ph) == [manager |-> m, phase |-> ph]

Init ==
    /\ ResolverInit
    /\ run \in Invocations
    /\ phase = IF run.refresh /\ ~run.dry /\ IncludesNative THEN "refresh"
               ELSE IF run.scope \in {"sources", "external"} THEN "resolved" ELSE "start"
    /\ checks = [m \in ToSet(Active) |->
           IF run.refresh /\ ~run.dry /\ m \in Refreshing THEN "refreshing" ELSE "checking"]
    /\ found = [m \in ToSet(Active) |-> {}] /\ bad = [m \in ToSet(Active) |-> {}]
    /\ offered = {} /\ heldBack = {} /\ requested = << >> /\ external = {}
    /\ skipped = {} /\ configured = {} /\ targets = << >> /\ stages = << >>
    /\ code = None

Exit(c) == phase' = "over" /\ code' = c

-----------------------------------------------------------------------------
(* A provider waits for its own refresh only.  An error and a panic are    *)
(* the same to the report.                                                 *)
Refreshed(m) ==
    /\ checks[m] = "refreshing"
    /\ \/ checks' = [checks EXCEPT ![m] = "checking"] /\ bad' = bad
       \/ /\ checks' = [checks EXCEPT ![m] = "over"]
          /\ bad' = [bad EXCEPT ![m] = {Failed(m, "refresh")}]
    /\ UNCHANGED <<resolver, run, found, selection, plan>>

(* One package of Sources may fail alone: the others keep their updates.   *)
Checked(m) ==
    /\ checks[m] = "checking"
    /\ checks' = [checks EXCEPT ![m] = "over"]
    /\ \/ \E lost \in SUBSET (IF m = Sources THEN Failing ELSE {}) :
            /\ found' = [found EXCEPT ![m] = run.offers[m] \ lost]
            /\ bad' = [bad EXCEPT ![m] = {Failed(p, "updates") : p \in lost}]
       \/ found' = found /\ bad' = [bad EXCEPT ![m] = {Failed(m, "updates")}]
    /\ UNCHANGED <<resolver, run, selection, plan>>

AllChecked == \A m \in DOMAIN checks : checks[m] = "over"

(* pacman -Sy and the ALPM handle; a failure waits for the threads first.  *)
RefreshNative ==
    /\ phase = "refresh"
    /\ phase' \in {"start", "abandon"}
    /\ UNCHANGED <<host, cfg, worker, outcome, failures, cascade, run, discovery, selection, plan>>

Abandon ==
    /\ phase = "abandon" /\ AllChecked
    /\ Exit(1)
    /\ UNCHANGED <<host, cfg, worker, outcome, failures, cascade, run, discovery, selection,
                   skipped, configured, targets, stages>>

(* The scope and the ignored packages leave the resolution.                *)
Scope ==
    LET scoped(p) == IF resolved[p].candidate.repo = Aur THEN IncludesAur ELSE IncludesNative
    IN  /\ phase = "resolved"
        /\ offered' = {p \in Updates \ run.ignored : scoped(p)}
        /\ heldBack' = {p \in HeldPackages \ run.ignored : IncludesNative \/ scoped(p)}
        /\ unresolved' = {p \in unresolved : IncludesNative \/ (IncludesAur /\ Pin(p) = Aur)}
        /\ phase' = "external"
        /\ UNCHANGED <<host, cfg, worker, resolved, pending, failures, cascade, run, discovery,
                       requested, external, plan>>

JoinExternal ==
    /\ phase = "external" /\ AllChecked
    /\ external' = UNION {{m} \X (found[m] \ IF m = Sources THEN run.ignored ELSE {}) :
                              m \in DOMAIN found}
    /\ failures' = failures \cup UNION {bad[m] : m \in DOMAIN bad}
    /\ phase' = "requests"
    /\ UNCHANGED <<host, cfg, worker, outcome, cascade, run, discovery, offered, heldBack,
                   requested, plan>>

-----------------------------------------------------------------------------
(* Targets of the user.  After a failed AUR check those that need the AUR  *)
(* are set aside; the others keep their validation.                        *)
Eligible(t) ==
    \/ AurFailure \notin failures
    \/ t.repo # None /\ t.repo # Aur
    \/ t.repo = None /\ (t.name \in cfg.owned
                         \/ IF Pin(t.name) # None THEN Pin(t.name) # Aur
                            ELSE Carriers(t.name) # << >>)

(* The repository that a target names, a pin, or the first carrier.        *)
SourceOf(t) ==
    IF t.repo # None THEN t.repo
    ELSE IF Pin(t.name) # None THEN Pin(t.name)
    ELSE IF Carriers(t.name) = << >> THEN Aur ELSE First(Carriers(t.name))

TooYoung(p, r) == DelayOf(p) # None /\ host.age[r][p] < DelayOf(p)

(* Sources are not mixed in, and a hold, an ignore, an exclusion or a      *)
(* delay is an error rather than a target left out.                        *)
Acceptable(t) ==
    LET p == t.name
        r == SourceOf(t)
    IN  /\ t.repo \notin cfg.aliases
        /\ t.repo = None => p \notin cfg.owned
        /\ p \notin run.ignored /\ p \notin heldBack
        /\ r = Aur \/ (Carries(r, p) /\ ~Excluded(p, r) /\ ~TooYoung(p, r))

Status(p, v) ==
    IF ~Installed(p) THEN "new"
    ELSE IF Newer(v, host.installed[p]) THEN "upgrade"
    ELSE IF Newer(host.installed[p], v) THEN "downgrade"
    ELSE "current"

Item(t) ==
    LET c == Candidate(t.name, SourceOf(t))
    IN  [name |-> t.name, repo |-> c.repo, status |-> Status(t.name, c.version)]

(* The first spelling of a name wins.  Each AUR target asks the AUR again, *)
(* and an unanswered question counts as an absent package.                 *)
Names == {requested[i].name : i \in DOMAIN requested}
FirstSpellings(s) == Kept(s, {i \in DOMAIN s : \A j \in 1 .. i - 1 : s[j].name # s[i].name})

Requests ==
    /\ phase = "requests"
    /\ LET asked == FirstSpellings(Filtered(run.requests, Eligible))
           aur == {i \in DOMAIN asked : SourceOf(asked[i]) = Aur}
           items == [i \in DOMAIN asked |-> Item(asked[i])]
           inScope == \A i \in DOMAIN items : IF items[i].repo = Aur THEN IncludesAur
                                              ELSE IncludesNative
       IN  \/ /\ \A i \in DOMAIN asked : Acceptable(asked[i])
              /\ \A i \in aur : host.aur[asked[i].name] > 0
              /\ IF inScope THEN requested' = items /\ phase' = "preflight" /\ code' = code
                 ELSE Exit(2) /\ UNCHANGED requested
           \/ /\ aur # {} \/ \E i \in DOMAIN asked : ~Acceptable(asked[i])
              /\ Exit(1) /\ UNCHANGED requested
    /\ UNCHANGED <<host, cfg, worker, outcome, failures, cascade, run, discovery, offered,
                   heldBack, external, skipped, configured, targets, stages>>

-----------------------------------------------------------------------------
Routine == offered \ Names
Actionable(updates) == updates # {} \/ external # {}
                  \/ \E i \in DOMAIN requested : requested[i].status # "current"
IsAur(p) == resolved[p] # None /\ resolved[p].candidate # None
                /\ resolved[p].candidate.repo = Aur
AurTargets(updates) == {p \in updates : IsAur(p)} \cup
              {requested[i].name : i \in {i \in DOMAIN requested : requested[i].repo = Aur}}

Included(out, m) == m \notin out
IncludedUpdate(out, u) == u[1] \notin out /\ (u[1] = Sources => u[2] \notin out)

(* Which managers are asked about their options: those with updates that   *)
(* the discovery did not lose.                                             *)
Questioned(lost) ==
    (IF Actionable(offered) /\ AurTargets(offered) # {} THEN {Aur} \ lost ELSE {})
        \cup {m \in DOMAIN checks : \E u \in external : u[1] = m /\ IncludedUpdate(lost, u)}

(* Failed discovery and unsupported options are skipped under --keep-going *)
(* and fatal otherwise; invalid options are fatal always.  No provider is  *)
(* configured before the last fatal check.                                 *)
Preflight ==
    LET lost == {f.manager : f \in failures}
        gaps == {m \in Questioned(lost) : run.options[m] = "unsupported"}
        fatal == \/ failures # {} /\ ~run.keepGoing
                 \/ gaps # {} /\ ~run.keepGoing
                 \/ \E m \in Questioned(lost) : run.options[m] = "invalid"
        out == lost \cup gaps
    IN  /\ phase = "preflight"
        /\ IF fatal THEN Exit(2) /\ UNCHANGED <<skipped, configured, selection>>
           ELSE /\ skipped' = out
                /\ configured' = {m \in DOMAIN checks : run.noCache /\ Included(out, m)
                                      /\ \E u \in external : u[1] = m}
                /\ external' = {u \in external : IncludedUpdate(out, u)}
                /\ offered' = {p \in offered : Included(out, Aur) \/ ~IsAur(p)}
                /\ requested' = Filtered(requested, LAMBDA i : Included(out, Aur) \/ i.repo # Aur)
                /\ UNCHANGED heldBack
                /\ phase' = "targets" /\ code' = code
    /\ UNCHANGED <<host, cfg, worker, outcome, failures, cascade, run, discovery, targets, stages>>

Incomplete == skipped # {}

NothingToDo ==
    /\ phase = "targets" /\ ~Actionable(Routine)
    /\ Exit(IF Incomplete THEN 2 ELSE 0)
    /\ UNCHANGED <<host, cfg, worker, outcome, failures, cascade, run, discovery, selection,
                   skipped, configured, targets, stages>>

-----------------------------------------------------------------------------

(* Fault: a package kept from its first repository is not qualified. *)
TargetOfPinsOnly(p) ==
    <<IF resolved[p].state = "custom" THEN resolved[p].candidate.repo ELSE None, p>>

(* A pinned or diverted package names its repository, any other leaves it  *)
(* to pacman; a requested target always names it and replaces the routine  *)
(* one.                                                                    *)
TargetOf(p) ==
    LET e == resolved[p]
    IN  <<IF e.state = "custom" \/ Diverted(e) THEN e.candidate.repo ELSE None, p>>
Targets ==
    LET native == Filtered(requested, LAMBDA x : x.repo # Aur)
    IN  SetToSeq({TargetOf(p) : p \in {p \in Routine : ~IsAur(p)}})
            \o [i \in DOMAIN native |-> <<native[i].repo, native[i].name>>]

(* The repository a target comes from, when they are searched in an order: *)
(* pacpin's own for the preview, that of pacman.conf for pacman.           *)
Found(t, order) == IF t[1] # None THEN t[1]
                   ELSE First(Filtered(order, LAMBDA r : Carries(r, t[2])))

(* The prepared transaction: targets whose version is already installed    *)
(* are left out (NEEDED), missing or too old dependencies come with it,    *)
(* and installed packages that a target replaces go.                       *)
Adds(ts) ==
    LET current(t) == Spells(host.sync[Found(t, Order)][t[2]], host.installed[t[2]])
        staged == {[name |-> t[2], repo |-> Found(t, Order)] :
                      t \in {t \in ToSet(ts) : ~(Installed(t[2]) /\ current(t))}}
        wants(s) == {d \in Package : \E a \in s : host.needs[a.name][d] > 0
                         /\ d \notin {b.name : b \in s} /\ host.needs[a.name][d] > host.installed[d]}
        more(s) == s \cup {[name |-> d, repo |-> First(Carriers(d))] : d \in wants(s)}
        grown[n \in 0 .. Cardinality(Package)] == IF n = 0 THEN staged ELSE more(grown[n - 1])
    IN  grown[Cardinality(Package)]

Removes(ts) == {q \in Package : /\ Installed(q) /\ \A t \in ToSet(ts) : t[2] # q
                                /\ \E t \in ToSet(ts) : q \in host.replaces[t[2]]}

Unsatisfied(adds, removes) ==
    \/ \E a \in adds : a.repo = None
    \/ \E q \in Package \ removes : Installed(q) /\ host.depends[q] \cap removes # {}
Explicit == Names \cup Routine

(* An ignored package cannot come in as a dependency; the new dependencies *)
(* become targets with the repository that the preview chose.              *)
Approve ==
    LET adds == Adds(Targets)
        pulled == {a \in adds : a.name \notin Explicit}
        all == Targets \o SetToSeq({<<a.repo, a.name>> : a \in {a \in pulled : ~Installed(a.name)}})
    IN  /\ phase = "targets" /\ Actionable(Routine)
        /\ IF Unsatisfied(adds, Removes(Targets)) \/ \E a \in pulled : a.name \in run.ignored
           THEN Exit(1) /\ UNCHANGED targets
           ELSE targets' = all /\ phase' = "plan" /\ code' = code
        /\ UNCHANGED <<host, cfg, worker, outcome, failures, cascade, run, discovery, selection,
                       skipped, configured, stages>>

(* One stage for each manager with work; a provider that has no action for *)
(* its updates, or no space for the packages, ends the run.                *)
Plan ==
    LET with(m, n) == IF n THEN << m >> ELSE << >>
        updated(m) == \E u \in external : u[1] = m
    IN  /\ phase = "plan"
        /\ \/ /\ stages' = with("Pacman", targets # << >>) \o with(Aur, AurTargets(Routine) # {})
                               \o Filtered(Active, updated)
              /\ IF run.dry THEN Exit(IF Incomplete THEN 2 ELSE 0)
                 ELSE phase' = "approved" /\ code' = code
           \/ /\ external # {} \/ AurTargets(Routine) # {} \/ ~run.dry
              /\ Exit(1) /\ UNCHANGED stages
        /\ UNCHANGED <<host, cfg, worker, outcome, failures, cascade, run, discovery, selection,
                       skipped, configured, targets>>

Ended == phase \in {"over", "approved"} /\ UNCHANGED vars

Next ==
    \/ Resolve /\ UNCHANGED <<run, discovery, selection, plan>>
    \/ \E i \in DOMAIN chunks : Ask(i) /\ UNCHANGED <<run, discovery, selection, plan>>
    \/ \E m \in DOMAIN checks : Refreshed(m) \/ Checked(m)
    \/ RefreshNative \/ Abandon \/ Scope \/ JoinExternal \/ Requests \/ Preflight
    \/ NothingToDo \/ Approve \/ Plan
    \/ Ended

Spec == Init /\ [][Next]_vars

-----------------------------------------------------------------------------
States == {"default", "sticky", "custom"}
CandidateType == [repo : ToSet(Order) \cup {Aur}, version : Nat, age : Nat]
EntryType == [state : States, candidate : CandidateType \cup {None},
              top : ToSet(Order) \cup {None}, held : BOOLEAN,
              change : {"current", "upgrade", "downgrade", "pin_sync"}]
ItemType == [name : Package, repo : ToSet(Order) \cup {Aur},
             status : {"new", "upgrade", "downgrade", "current"}]

(* The variables hold what the program's structures can hold.              *)
TypeOK ==
    /\ phase \in {"refresh", "abandon", "start", "native", "join", "delays", "cascade",
                  "resolved", "external", "requests", "preflight", "targets", "plan",
                  "approved", "over"}
    /\ \A i \in DOMAIN chunks : tries[i] \in 0 .. MaxAttempts
    /\ \A i \in DOMAIN chunks : answers[i] \in {"asking", "answered", "failed"}
    /\ \A p \in Package : resolved[p] = None \/ resolved[p] \in EntryType
    /\ pending \cup unresolved \cup queue \cup visited \cup offered \cup heldBack \subseteq Package
    /\ \A i \in DOMAIN requested : requested[i] \in ItemType
    /\ configured \subseteq ToSet(Providers) /\ code \in {None, 0, 1, 2}

(* What pacman takes for a target, and whether the preview showed that.    *)
Taken(t) == Found(t, host.order)
Foreseen(t) == Taken(t) = Found(t, Order)

(* What the plan installs is what the policies allow: no target is         *)
(* ignored; none that the user or the resolution chose is held, or owned   *)
(* by a source; a pinned package comes from its pin unless the user named  *)
(* a repository; a requested one comes from none that is excluded; a mere  *)
(* dependency was not installed.  Any other update is newer and from a     *)
(* repository that is not excluded where pacman's order finds the          *)
(* repository that pacpin's order found; a target that names it always     *)
(* does, a bare one when the orders agree on the package.  (A sticky       *)
(* package is handed over by its bare name.)                               *)
Obeys(t) ==
    LET p == t[2]
        r == Taken(t)
        named == \E i \in DOMAIN run.requests :
                     run.requests[i].name = p /\ run.requests[i].repo = r
    IN  /\ p \notin run.ignored
        /\ p \in Explicit => p \notin heldBack
        /\ p \in cfg.owned /\ p \in Explicit => named
        /\ p \notin Explicit => ~Installed(p)
        /\ p \in Explicit /\ Pin(p) # None /\ ~named => r = Pin(p)
        /\ p \in Routine /\ Pin(p) = None /\ resolved[p].state # "sticky" /\ Foreseen(t) =>
               /\ Newer(host.sync[r][p], host.installed[p])
               /\ ~(cfg.pinning /\ Excluded(p, r))
        /\ p \in Names => ~Excluded(p, r)

PolicyIsObeyed == phase \in {"plan", "approved"} => \A t \in ToSet(targets) : Obeys(t)

(* A check that failed is never taken for a check that found nothing: the  *)
(* run goes on only under --keep-going and can no longer exit with 0, the  *)
(* AUR's half answers are not used and its pins not called unresolved,     *)
(* while every provider that answered keeps all of its updates.            *)
FailuresAreCounted ==
    /\ failures # {} /\ phase \in {"targets", "plan", "approved"} => run.keepGoing /\ Incomplete
    /\ failures # {} \/ Incomplete => code # 0

FailuresStayVisible ==
    /\ FailuresAreCounted
    /\ AurFailure \in failures /\ phase \notin {"native", "join"} =>
           /\ \A p \in unresolved : Pin(p) # Aur
           /\ \A p \in Package : ~IsAur(p)
           /\ phase \in {"targets", "plan", "approved"} => AurTargets(offered) = {}
    /\ phase \in {"targets", "plan", "approved"} =>
           \A m \in DOMAIN checks : m \notin skipped =>
               \A p \in found[m] : <<m, p>> \in external \/ (m = Sources /\ p \in run.ignored)

(* The plan is honest: it keeps every rule of the user, and hides no       *)
(* failure of the checks it was made from.                                 *)
PlanIsHonest == PolicyIsObeyed /\ FailuresStayVisible
=============================================================================
