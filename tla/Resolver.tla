------------------------------ MODULE Resolver ------------------------------
(***************************************************************************)
(* Which updates the installed packages get, and which of them wait        *)
(* (ResolverEngine::resolve_with_options in src/src/resolver.rs).  Pins,   *)
(* exclusions, the originating repository and the order of the             *)
(* repositories choose one candidate for each package; a worker asks the   *)
(* AUR meanwhile, in chunks with retries (src/src/aur.rs); updates that    *)
(* are too young are held, and so is whatever depends on them.             *)
(*                                                                         *)
(* Versions are naturals, 0 where there is none; 2n and 2n + 1 spell the   *)
(* same version.  The packages of the repositories and of the AUR, the     *)
(* installed packages and the configuration do not change during the       *)
(* resolution: ALPM's handle caches the databases.                         *)
(***************************************************************************)
EXTENDS Integers, FiniteSets, SequencesExt, Subsequences

CONSTANTS
    Package,    \* names of packages, installed or not
    Order,      \* the registered repositories, by priority
    Aur, None,
    Globs,      \* patterns of rules, longest first
    Matching,   \* the packages that each pattern matches
    Vcs,        \* packages built from a version control system
    ChunkSize, MaxWorkers, MaxAttempts, \* of query_aur_checked: 50, 4, 3
    Hosts,      \* states of the databases: installed, depends, provides,
                \* needs, replaces, origin, sync, aur, age
    Configs     \* configurations: pinning, delays, sticky, pins, exclude,
                \* delay, owned, aliases

ASSUME ResolverAssumption ==
    /\ {ChunkSize, MaxWorkers, MaxAttempts} \subseteq Nat \ {0}
    /\ IsFiniteSet(Package) /\ Order \in Seq(ToSet(Order)) /\ Globs \in Seq(ToSet(Globs))
    /\ Aur # None /\ {Aur, None} \cap ToSet(Order) = {}
    /\ Package \cap ToSet(Globs) = {}
    /\ \A h \in Hosts :
          /\ {h.installed, h.aur} \subseteq [Package -> Nat]
          /\ h.sync \in [ToSet(Order) -> [Package -> Nat]]
          /\ h.age \in [ToSet(Order) \cup {Aur} -> [Package -> Nat]]

VARIABLES
    host, cfg,  \* the databases and the configuration
    phase,      \* where the main thread is
    chunks,     \* the names the AUR worker asks for, in chunks
    tries,      \* its attempts for each chunk
    answers,    \* "asking", "answered" or "failed" for each chunk
    resolved,   \* the entry of each package, or None
    pending,    \* pending_aur
    unresolved, \* unresolved_pins
    failures,   \* check_errors
    queue, visited  \* of the cascade of holds

worker == <<chunks, tries, answers>>
outcome == <<resolved, pending, unresolved>>
cascade == <<queue, visited>>
resolver == <<host, cfg, phase, worker, outcome, failures, cascade>>

-----------------------------------------------------------------------------
(* The exact rule, else the longest pattern.                               *)
Rule(p, rules) ==
    IF p \in DOMAIN rules THEN rules[p]
    ELSE LET hits == Filtered(Globs, LAMBDA g : g \in DOMAIN rules /\ p \in Matching[g])
         IN  IF hits = << >> THEN None ELSE rules[Head(hits)]

DelayOf(p) == IF cfg.delays THEN Rule(p, cfg.delay) ELSE None

Pins == IF cfg.pinning THEN cfg.pins ELSE << >>
Pin(p) == Rule(p, Pins)

Excluded(p, r) == r \in DOMAIN cfg.exclude /\ p \in cfg.exclude[r]

Installed(p) == host.installed[p] > 0
Carries(r, p) == r \in ToSet(Order) /\ host.sync[r][p] > 0
Carriers(p) == Filtered(Order, LAMBDA r : Carries(r, p))
First(s) == IF s = << >> THEN None ELSE Head(s)
Spells(v, w) == v \div 2 = w \div 2
Newer(v, w) == v \div 2 > w \div 2

(* %INSTALLED_DB%, else the first repository with the installed version,   *)
(* else the first one that carries the package.                            *)
Origin(p) ==
    LET same == Filtered(Carriers(p), LAMBDA r : Spells(host.sync[r][p], host.installed[p]))
    IN  IF host.origin[p] # None THEN host.origin[p] ELSE First(same \o Carriers(p))

(* Where the candidate of p comes from.  A pin is final, a sticky package  *)
(* leaves only an excluded repository, and what no open repository carries *)
(* is looked up in the AUR.                                                *)
Choice(p) ==
    LET from(r) == IF r = Aur \/ Carries(r, p) THEN r ELSE None
        open == Filtered(Carriers(p), LAMBDA r : ~(cfg.pinning /\ Excluded(p, r)))
        keeps == cfg.sticky /\ Origin(p) # None /\ ~(cfg.pinning /\ Excluded(p, Origin(p)))
    IN  IF Pin(p) # None THEN [state |-> "custom", repo |-> from(Pin(p))]
        ELSE IF keeps THEN [state |-> "sticky", repo |-> from(Origin(p))]
        ELSE [state |-> "default", repo |-> IF open = << >> THEN Aur ELSE Head(open)]

Candidate(p, r) ==
    [repo |-> r, version |-> IF r = Aur THEN host.aur[p] ELSE host.sync[r][p],
     age |-> host.age[r][p]]

(* Only a pin downgrades or respells, and never a version that is known    *)
(* only after the build.                                                   *)
Change(p, c, state) ==
    LET synchronize == state = "custom" /\ ~(c.repo = Aur /\ p \in Vcs)
    IN  IF Newer(c.version, host.installed[p]) THEN "upgrade"
        ELSE IF Newer(host.installed[p], c.version) /\ synchronize THEN "downgrade"
        ELSE IF Spells(c.version, host.installed[p]) /\ c.version # host.installed[p]
                 /\ synchronize THEN "pin_sync"
        ELSE "current"

Entry(p, state, c) ==
    [state |-> IF state = "sticky" /\ c = None THEN "default" ELSE state,
     candidate |-> c, top |-> First(Carriers(p)), held |-> FALSE,
     change |-> IF c = None THEN "current" ELSE Change(p, c, state)]

Diverted(e) == e.state = "default" /\ e.candidate # None /\ e.top # None
                   /\ e.candidate.repo # e.top

NeedsUpdate(p) == resolved[p] # None /\ resolved[p].change # "current"
Updates == {p \in Package : NeedsUpdate(p) /\ ~resolved[p].held}
HeldPackages == {p \in Package : NeedsUpdate(p) /\ resolved[p].held}

-----------------------------------------------------------------------------
(* The names to ask for: foreign packages and what is pinned to the AUR.   *)
ForeignNames ==
    LET mine == {p \in Package : Installed(p) /\ p \notin cfg.owned /\ Pin(p) \in {None, Aur}}
        globbed == UNION {Matching[g] : g \in {g \in DOMAIN Pins \ Package : Pins[g] = Aur}}
    IN  {p \in mine : Carriers(p) = << >> \/ p \in globbed}
            \cup {p \in DOMAIN Pins \cap Package : Pins[p] = Aur}

(* One order stands for all: it only decides which names share a chunk.    *)
Chunked(names) ==
    LET s == SetToSeq(names)
        n == (Len(s) + ChunkSize - 1) \div ChunkSize
        end(i) == IF i * ChunkSize < Len(s) THEN i * ChunkSize ELSE Len(s)
    IN  [i \in 1 .. n |-> SubSeq(s, (i - 1) * ChunkSize + 1, end(i))]

Begin ==
    /\ phase = "start"
    /\ chunks' = Chunked(ForeignNames)
    /\ tries' = [i \in DOMAIN chunks' |-> 0]
    /\ answers' = [i \in DOMAIN chunks' |-> "asking"]
    /\ phase' = "native"
    /\ UNCHANGED <<host, cfg, outcome, failures, cascade>>

(* A batch of workers starts when the batch before it has answered.        *)
Batch(i) == (i - 1) \div MaxWorkers
Running(i) == \A j \in DOMAIN chunks : Batch(j) < Batch(i) => answers[j] = "answered"

(* Fault: an error does not count up to the last attempt. *)
AskForever(i) ==
    /\ i \in DOMAIN chunks /\ answers[i] = "asking" /\ Running(i)
    /\ tries' = [tries EXCEPT ![i] = @ + 1]
    /\ answers' \in {answers, [answers EXCEPT ![i] = "answered"]}
    /\ UNCHANGED <<host, cfg, phase, chunks, outcome, failures, cascade>>

(* One attempt: an answer, or an error that ends the worker after the last *)
(* attempt; a worker may also panic.                                       *)
Ask(i) ==
    /\ i \in DOMAIN chunks /\ answers[i] = "asking" /\ tries[i] < MaxAttempts /\ Running(i)
    /\ tries' = [tries EXCEPT ![i] = @ + 1]
    /\ \/ answers' = [answers EXCEPT ![i] = "answered"]
       \/ answers' = IF tries[i] + 1 = MaxAttempts THEN [answers EXCEPT ![i] = "failed"]
                     ELSE answers
       \/ answers' = [answers EXCEPT ![i] = "failed"]
    /\ UNCHANGED <<host, cfg, phase, chunks, outcome, failures, cascade>>

(* Handles are joined in order: an error is seen once the handles before   *)
(* it are over, and what the others answered is dropped.                   *)
WorkerFailed == \E i \in DOMAIN chunks :
    answers[i] = "failed" /\ \A j \in 1 .. i - 1 : answers[j] = "answered"
WorkerAnswered == \A i \in DOMAIN chunks : answers[i] = "answered"
AurData == {p \in UNION {ToSet(chunks[i]) : i \in DOMAIN chunks} : host.aur[p] > 0}

(* The loop over the local database; it reads the sync databases only.     *)
ResolveNative ==
    /\ phase = "native"
    /\ LET mine == {p \in Package : Installed(p) /\ p \notin cfg.owned}
           from(p) == Choice(p).repo
           candidate(p) == IF from(p) = None THEN None ELSE Candidate(p, from(p))
       IN  /\ resolved' = [p \in Package |-> IF p \in mine /\ from(p) # Aur
                              THEN Entry(p, Choice(p).state, candidate(p)) ELSE None]
           /\ pending' = {p \in mine : from(p) = Aur}
           /\ unresolved' = {p \in mine : Choice(p).state = "custom" /\ from(p) = None}
    /\ phase' = "join"
    /\ UNCHANGED <<host, cfg, worker, failures, cascade>>

AurFailure == [manager |-> Aur, phase |-> "updates"]

JoinFailed ==
    /\ phase = "join" /\ WorkerFailed
    /\ failures' = failures \cup {AurFailure}
    /\ pending' = {}
    /\ phase' = "delays"
    /\ UNCHANGED <<host, cfg, worker, resolved, unresolved, cascade>>

JoinAnswered ==
    /\ phase = "join" /\ WorkerAnswered
    /\ resolved' = [p \in Package |-> IF p \notin pending THEN resolved[p]
                        ELSE Entry(p, Choice(p).state,
                                   IF p \in AurData THEN Candidate(p, Aur) ELSE None)]
    /\ unresolved' = unresolved \cup {p \in pending \ AurData : Choice(p).state = "custom"}
    /\ pending' = {}
    /\ phase' = "delays"
    /\ UNCHANGED <<host, cfg, worker, failures, cascade>>

-----------------------------------------------------------------------------
(* Too young: the delay is longer than the age (9999 if it is unknown).    *)
Young(p) == NeedsUpdate(p) /\ DelayOf(p) # None /\ resolved[p].candidate.age < DelayOf(p)

HoldAll(s) == [p \in Package |-> IF p \in s /\ NeedsUpdate(p)
                                 THEN [resolved[p] EXCEPT !.held = TRUE] ELSE resolved[p]]

Delays ==
    /\ phase = "delays"
    /\ queue' = {p \in Package : Young(p)}
    /\ visited' = queue'
    /\ resolved' = HoldAll(queue')
    /\ phase' = "cascade"
    /\ UNCHANGED <<host, cfg, worker, pending, unresolved, failures>>

(* Fault: what p provides is forgotten. *)
DependentsByName(p) ==
    {q \in Package : Installed(q) /\ p \in host.depends[q]}

(* get_dependents: installed packages that depend on p or on a name it     *)
(* provides.                                                               *)
Dependents(p) == {q \in Package : Installed(q) /\ host.depends[q] \cap ({p} \cup host.provides[p]) # {}}

(* The queue starts in the order of a hash map: any of its members is next. *)
Cascade ==
    /\ phase = "cascade"
    /\ \E p \in queue :
        /\ resolved' = HoldAll(Dependents(p))
        /\ queue' = (queue \ {p}) \cup (Dependents(p) \ visited)
        /\ visited' = visited \cup Dependents(p)
    /\ UNCHANGED <<host, cfg, phase, worker, pending, unresolved, failures>>

CascadeEnds ==
    /\ phase = "cascade" /\ queue = {}
    /\ phase' = "resolved"
    /\ UNCHANGED <<host, cfg, worker, outcome, failures, cascade>>

Resolve == Begin \/ ResolveNative \/ JoinFailed \/ JoinAnswered
               \/ Delays \/ Cascade \/ CascadeEnds

ResolverInit ==
    /\ host \in Hosts /\ cfg \in Configs
    /\ chunks = << >> /\ tries = << >> /\ answers = << >>
    /\ resolved = [p \in Package |-> None] /\ pending = {} /\ unresolved = {}
    /\ failures = {} /\ queue = {} /\ visited = {}

-----------------------------------------------------------------------------
(* No update goes ahead of something it stands on: a set of packages that  *)
(* holds the young updates and all that depends on its members, directly   *)
(* or through packages without an update, meets no update of the plan.     *)
DependsOn(q, p) == Installed(q) /\ \E d \in host.depends[q] : d = p \/ d \in host.provides[p]

HeldClosure ==
    phase \in {"start", "native", "join", "delays", "cascade"} \/
    \E s \in SUBSET Package :
        /\ {p \in Package : Young(p)} \subseteq s
        /\ \A p \in s, q \in Package : DependsOn(q, p) => q \in s
        /\ s \cap Updates = {}

(* Why: outside the queue what was visited has its dependents visited too, *)
(* every update that was visited is held, and holding makes none young.    *)
Unheld == {"start", "native", "join", "delays"}
EntriesAreWhole ==
    /\ DOMAIN resolved = Package
    /\ \A p \in Package : resolved[p] = None \/
           {"candidate", "held", "change"} \subseteq DOMAIN resolved[p]
YoungAreVisited == \A p \in Package : Young(p) => p \in visited
VisitedIsClosed ==
    \A p \in visited \ queue, q \in Package : DependsOn(q, p) => q \in visited
VisitedIsHeld == \A p \in visited : NeedsUpdate(p) => resolved[p].held

HoldingInv ==
    /\ EntriesAreWhole
    /\ visited \subseteq Package
    /\ phase \notin Unheld => YoungAreVisited /\ VisitedIsClosed /\ VisitedIsHeld
    /\ phase \notin Unheld \cup {"cascade"} => queue = {}
=============================================================================
