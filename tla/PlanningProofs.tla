--------------------------- MODULE PlanningProofs ---------------------------
(* Proofs about the planning of an upgrade, for every set of packages,     *)
(* state of the databases and configuration.  When the cascade of holds is *)
(* over, the packages it visited are the set that HeldClosure asks for; an *)
(* approved plan obeys the user's rules; and a check that failed reaches   *)
(* the exit code.                                                          *)
EXTENDS UpgradePlanning, SubsequenceProofs

\* What the cascade reads and writes.
holding == <<host, cfg, resolved, queue, visited>>

\* Dependents is the relation that HeldClosure is stated with.
LEMMA DependentsDefinition ==
    ASSUME NEW p, NEW q \in Package
    PROVE  q \in Dependents(p) <=> DependsOn(q, p)
BY DEF Dependents, DependsOn

LEMMA DependentsAreNamed == \A p : Dependents(p) \subseteq Package
BY DEF Dependents

\* The witness is what was visited.
LEMMA HoldingSuffices == HoldingInv => HeldClosure
<1> SUFFICES ASSUME HoldingInv, phase \notin Unheld \cup {"cascade"}
             PROVE  HeldClosure
    BY DEF HeldClosure, Unheld
<1>1. queue = {} /\ visited \in SUBSET Package
    BY DEF HoldingInv
<1>2. {p \in Package : Young(p)} \subseteq visited
    BY DEF HoldingInv, YoungAreVisited
<1>3. \A p \in visited, q \in Package : DependsOn(q, p) => q \in visited
    BY <1>1 DEF HoldingInv, VisitedIsClosed
<1>4. visited \cap Updates = {}
    BY DEF HoldingInv, VisitedIsHeld, Updates
<1> QED
    BY <1>1, <1>2, <1>3, <1>4 DEF HeldClosure

LEMMA HoldingInit == Init => HoldingInv
<1> SUFFICES ASSUME Init PROVE HoldingInv
    OBVIOUS
<1>1. resolved = [p \in Package |-> None] /\ queue = {} /\ visited = {}
    BY DEF Init, ResolverInit
<1> QED
    BY <1>1 DEF HoldingInv, EntriesAreWhole, YoungAreVisited, VisitedIsClosed, VisitedIsHeld,
                Young, NeedsUpdate

\* A step that leaves all of it alone keeps what is known of it, when it
\* does not leave the phases before the holds.
LEMMA HoldingFrame ==
    ASSUME HoldingInv, UNCHANGED holding,
           phase \in Unheld => phase' \in Unheld,
           phase = "cascade" => phase' = "cascade" \/ queue = {}
    PROVE  HoldingInv'
BY DEF holding, HoldingInv, EntriesAreWhole, YoungAreVisited, VisitedIsClosed, VisitedIsHeld,
       Young, NeedsUpdate, DependsOn, Installed, DelayOf, Unheld

\* Holding an update changes nothing but its mark.
LEMMA HoldAllHolds ==
    ASSUME EntriesAreWhole, NEW s, resolved' = HoldAll(s), UNCHANGED <<host, cfg>>
    PROVE  /\ EntriesAreWhole'
           /\ \A p \in Package : NeedsUpdate(p)' => NeedsUpdate(p)
           /\ \A p \in Package : Young(p)' => Young(p)
           /\ \A p \in Package : /\ p \in s \/ (NeedsUpdate(p) => resolved[p].held)
                                 /\ NeedsUpdate(p)'
                                 => resolved'[p].held
<1> DEFINE marked(p) == p \in s /\ NeedsUpdate(p)
<1>1. \A p \in Package : resolved'[p] = IF marked(p) THEN [resolved[p] EXCEPT !.held = TRUE]
                                        ELSE resolved[p]
    BY DEF HoldAll
<1>2. DOMAIN resolved' = Package
    BY DEF HoldAll
<1>3. ASSUME NEW p \in Package, marked(p)
      PROVE  /\ DOMAIN resolved'[p] = DOMAIN resolved[p]
             /\ resolved'[p].held
             /\ resolved'[p].change = resolved[p].change
             /\ resolved'[p].candidate = resolved[p].candidate
             /\ {"candidate", "held", "change"} \subseteq DOMAIN resolved'[p]
    <2>1. resolved'[p] = [resolved[p] EXCEPT !.held = TRUE]
        BY <1>1, <1>3
    <2>2. {"candidate", "held", "change"} \subseteq DOMAIN resolved[p]
        BY <1>3 DEF NeedsUpdate, EntriesAreWhole
    <2> QED
        BY <2>1, <2>2
<1>4. EntriesAreWhole'
    BY <1>1, <1>2, <1>3 DEF EntriesAreWhole
<1>5. ASSUME NEW p \in Package, NeedsUpdate(p)'
      PROVE  NeedsUpdate(p) /\ (p \in s \/ resolved[p].held => resolved'[p].held)
    BY <1>1, <1>3, <1>5 DEF NeedsUpdate
<1>6. ASSUME NEW p \in Package, Young(p)'
      PROVE  Young(p)
    <2>1. NeedsUpdate(p)' /\ NeedsUpdate(p)
        BY <1>5, <1>6 DEF Young
    <2>2. DelayOf(p)' = DelayOf(p)
        BY DEF DelayOf
    <2>3. resolved'[p].candidate = resolved[p].candidate
        BY <1>1, <1>3
    <2> QED
        BY <1>6, <2>1, <2>2, <2>3 DEF Young
<1> QED
    BY <1>4, <1>5, <1>6

\* The young updates start the cascade ...
LEMMA DelaysHold == HoldingInv /\ Delays => HoldingInv'
<1> SUFFICES ASSUME HoldingInv, Delays PROVE HoldingInv'
    OBVIOUS
<1>1. /\ queue' = {p \in Package : Young(p)} /\ visited' = queue' /\ phase' = "cascade"
      /\ resolved' = HoldAll(queue') /\ EntriesAreWhole /\ UNCHANGED <<host, cfg>>
    BY DEF Delays, HoldingInv
<1>2. YoungAreVisited' /\ VisitedIsHeld' /\ EntriesAreWhole'
    BY <1>1, HoldAllHolds DEF YoungAreVisited, VisitedIsHeld
<1>3. VisitedIsClosed'
    BY <1>1 DEF VisitedIsClosed
<1> QED
    BY <1>1, <1>2, <1>3 DEF HoldingInv

\* ... and each step adds the dependents of one package.
LEMMA CascadeHolds == HoldingInv /\ Cascade => HoldingInv'
<1> SUFFICES ASSUME HoldingInv, Cascade PROVE HoldingInv'
    OBVIOUS
<1>1. PICK p \in queue :
          /\ resolved' = HoldAll(Dependents(p))
          /\ queue' = (queue \ {p}) \cup (Dependents(p) \ visited)
          /\ visited' = visited \cup Dependents(p)
    BY DEF Cascade
<1>2. /\ phase = "cascade" /\ phase' = "cascade" /\ UNCHANGED <<host, cfg>>
      /\ EntriesAreWhole /\ YoungAreVisited /\ VisitedIsClosed /\ VisitedIsHeld
      /\ visited \subseteq Package
    BY DEF Cascade, HoldingInv, Unheld
<1>3. visited' \subseteq Package
    BY <1>1, <1>2, DependentsAreNamed
<1>4. YoungAreVisited' /\ VisitedIsHeld' /\ EntriesAreWhole'
    BY <1>1, <1>2, <1>3, HoldAllHolds DEF YoungAreVisited, VisitedIsHeld
<1>5. ASSUME NEW v \in visited' \ queue', NEW q \in Package, DependsOn(q, v)'
      PROVE  q \in visited'
    <2>1. DependsOn(q, v)
        BY <1>2, <1>5 DEF DependsOn, Installed
    <2>2. v = p \/ v \in visited \ queue
        BY <1>1
    <2> QED
        BY <1>1, <1>2, <2>1, <2>2, DependentsDefinition DEF VisitedIsClosed
<1>6. VisitedIsClosed'
    BY <1>5 DEF VisitedIsClosed
<1> QED
    BY <1>2, <1>3, <1>4, <1>6 DEF HoldingInv

\* Before that, the resolution makes whole entries.
LEMMA EntryIsWhole ==
    \A p, state, c : {"candidate", "held", "change"} \subseteq DOMAIN Entry(p, state, c)
BY DEF Entry

LEMMA ResolutionHolds ==
    ASSUME HoldingInv, ResolveNative \/ JoinAnswered
    PROVE  HoldingInv'
<1>1. phase' \in Unheld /\ phase' # "cascade" /\ visited' \subseteq Package
    BY DEF HoldingInv, ResolveNative, JoinAnswered, Unheld, cascade
<1>2. EntriesAreWhole'
    <2>1. CASE ResolveNative
        BY <2>1, EntryIsWhole DEF ResolveNative, EntriesAreWhole
    <2>2. CASE JoinAnswered
        BY <2>2, EntryIsWhole DEF JoinAnswered, EntriesAreWhole, HoldingInv
    <2> QED
        BY <2>1, <2>2
<1> QED
    BY <1>1, <1>2 DEF HoldingInv

\* Every other step leaves the holds alone.
LEMMA OtherStepsHold ==
    ASSUME HoldingInv,
           \/ Begin \/ JoinFailed \/ CascadeEnds
           \/ \E i \in DOMAIN chunks : Ask(i)
           \/ \E m \in DOMAIN checks : Refreshed(m) \/ Checked(m)
           \/ RefreshNative \/ Abandon \/ Scope \/ JoinExternal \/ Requests \/ Preflight
           \/ NothingToDo \/ Approve \/ Plan
           \/ UNCHANGED vars
    PROVE  HoldingInv'
<1>1. CASE Begin \/ JoinFailed \/ CascadeEnds
    BY <1>1, HoldingFrame DEF Begin, JoinFailed, CascadeEnds, holding, outcome, cascade, Unheld
<1>2. CASE \E i \in DOMAIN chunks : Ask(i)
    BY <1>2, HoldingFrame DEF Ask, holding, outcome, cascade
<1>3. CASE \E m \in DOMAIN checks : Refreshed(m) \/ Checked(m)
    BY <1>3, HoldingFrame DEF Refreshed, Checked, holding, resolver, outcome, cascade
<1>4. CASE RefreshNative \/ Abandon
    BY <1>4, HoldingFrame DEF RefreshNative, Abandon, Exit, holding, outcome, cascade, Unheld
<1>5. CASE Scope
    BY <1>5, HoldingFrame DEF Scope, holding, cascade, Unheld
<1>6. CASE JoinExternal
    BY <1>6, HoldingFrame DEF JoinExternal, holding, outcome, cascade, Unheld
<1>7. CASE Requests
    <2>1. UNCHANGED holding /\ phase = "requests"
        BY <1>7 DEF Requests, holding, outcome, cascade
    <2> QED
        BY <2>1, HoldingFrame DEF Unheld
<1>8. CASE Preflight
    <2>1. UNCHANGED holding /\ phase = "preflight"
        BY <1>8 DEF Preflight, holding, outcome, cascade
    <2> QED
        BY <2>1, HoldingFrame DEF Unheld
<1>9. CASE NothingToDo \/ Approve \/ Plan
    <2>1. UNCHANGED holding /\ phase \in {"targets", "plan"}
        BY <1>9 DEF NothingToDo, Approve, Plan, holding, outcome, cascade
    <2> QED
        BY <2>1, HoldingFrame DEF Unheld
<1>10. CASE UNCHANGED vars
    BY <1>10, HoldingFrame DEF vars, resolver, holding, outcome, cascade
<1> QED
    BY <1>1, <1>2, <1>3, <1>4, <1>5, <1>6, <1>7, <1>8, <1>9, <1>10

\* The holds are what the cascade has computed so far (apply_delays,
\* src/src/resolver.rs).
LEMMA HoldingAlways == Spec => []HoldingInv
<1>1. HoldingInv /\ [Next]_vars => HoldingInv'
    BY DelaysHold, CascadeHolds, ResolutionHolds, OtherStepsHold DEF Next, Resolve, Ended
<1> QED
    BY HoldingInit, <1>1, PTL DEF Spec

\* No update of the plan stands on an update that is held, however the
\* dependencies run between them: apply_delays holds the young updates and
\* then everything that depends on a held package.
THEOREM UpdatesStandOnUpdates == Spec => []HeldClosure
BY HoldingAlways, HoldingSuffices, PTL

-----------------------------------------------------------------------------
\* Where failures may still be added, and where they have been looked at.
Gathering == {"refresh", "abandon", "start", "native", "join", "delays", "cascade",
              "resolved", "external", "requests", "preflight"}
Planning == {"targets", "plan", "approved"}

\* Nothing is left out, and there is no exit code, before there is a reason.
CountingInv ==
    /\ phase \in Gathering \cup Planning \cup {"over"}
    /\ phase # "over" => code = None
    /\ phase \in Gathering => skipped = {}
    /\ phase \in Planning /\ failures # {} => run.keepGoing /\ Incomplete
    /\ phase = "over" /\ (failures # {} \/ Incomplete) => code # 0

LEMMA CountingSuffices == CountingInv => FailuresAreCounted
BY PlanningAssumption DEF CountingInv, FailuresAreCounted, Gathering, Planning

LEMMA CountingInit == Init => CountingInv
BY DEF Init, CountingInv, Gathering, Planning, Incomplete

\* A step within the gathering, or one that touches nothing of it.
LEMMA CountingGathers ==
    ASSUME CountingInv, phase \in Gathering, phase' \in Gathering,
           UNCHANGED <<skipped, code>>
    PROVE  CountingInv'
BY DEF CountingInv, Gathering, Planning, Incomplete

LEMMA CountingFrame ==
    ASSUME CountingInv, UNCHANGED <<phase, failures, run, skipped, code>>
    PROVE  CountingInv'
BY DEF CountingInv, Incomplete

\* The resolution and the discovery gather failures.
LEMMA GatheringCounts ==
    ASSUME CountingInv,
           \/ Resolve /\ UNCHANGED plan
           \/ \E i \in DOMAIN chunks : Ask(i) /\ UNCHANGED <<run, plan>>
           \/ \E m \in DOMAIN checks : Refreshed(m) \/ Checked(m)
           \/ RefreshNative \/ Scope \/ JoinExternal
    PROVE  CountingInv'
<1>1. CASE Resolve /\ UNCHANGED plan
    <2>1. phase \in Gathering /\ phase' \in Gathering
        BY <1>1 DEF Resolve, Begin, ResolveNative, JoinFailed, JoinAnswered, Delays, Cascade,
                    CascadeEnds, Gathering
    <2> QED
        BY <1>1, <2>1, CountingGathers DEF plan
<1>2. CASE \E i \in DOMAIN chunks : Ask(i) /\ UNCHANGED <<run, plan>>
    BY <1>2, CountingFrame DEF Ask, plan
<1>3. CASE \E m \in DOMAIN checks : Refreshed(m) \/ Checked(m)
    BY <1>3, CountingFrame DEF Refreshed, Checked, resolver, plan
<1>4. CASE RefreshNative
    BY <1>4, CountingGathers DEF RefreshNative, plan, Gathering
<1>5. CASE Scope
    BY <1>5, CountingGathers DEF Scope, plan, Gathering
<1>6. CASE JoinExternal
    BY <1>6, CountingGathers DEF JoinExternal, plan, Gathering
<1> QED
    BY <1>1, <1>2, <1>3, <1>4, <1>5, <1>6

\* Abandon and Requests never end with 0.
LEMMA RequestsCount == CountingInv /\ (Abandon \/ Requests) => CountingInv'
<1> SUFFICES ASSUME CountingInv, Abandon \/ Requests PROVE CountingInv'
    OBVIOUS
<1>1. CASE Abandon
    <2>1. phase' = "over" /\ code' = 1
        BY <1>1 DEF Abandon, Exit
    <2> QED
        BY <2>1 DEF CountingInv, Gathering, Planning
<1>2. CASE Requests
    <2>1. /\ phase = "requests" /\ UNCHANGED skipped
          /\ \/ phase' = "preflight" /\ code' = code
             \/ phase' = "over" /\ code' \in {1, 2}
        BY <1>2 DEF Requests, Exit
    <2> QED
        BY <2>1 DEF CountingInv, Gathering, Planning
<1> QED
    BY <1>1, <1>2

\* Past the preflight a failure has a manager that is left out.
LEMMA PreflightCounts == CountingInv /\ Preflight => CountingInv'
<1> SUFFICES ASSUME CountingInv, Preflight PROVE CountingInv'
    OBVIOUS
<1> DEFINE lost == {f.manager : f \in failures}
<1>1. /\ phase = "preflight" /\ UNCHANGED <<failures, run>>
      /\ \/ phase' = "over" /\ code' = 2
         \/ /\ failures = {} \/ run.keepGoing
            /\ lost \subseteq skipped' /\ phase' = "targets" /\ code' = code
    BY DEF Preflight, Exit
<1>2. failures # {} => lost # {}
    OBVIOUS
<1> QED
    BY <1>1, <1>2 DEF CountingInv, Gathering, Planning, Incomplete

\* After it the run ends with 0 only if nothing was left out.
LEMMA PlanningCounts ==
    CountingInv /\ (NothingToDo \/ Approve \/ Plan) => CountingInv'
<1> SUFFICES ASSUME CountingInv, NothingToDo \/ Approve \/ Plan PROVE CountingInv'
    OBVIOUS
<1>1. /\ phase \in {"targets", "plan"} /\ UNCHANGED <<failures, run, skipped>>
      /\ \/ phase' = "over" /\ code' \in {1, IF Incomplete THEN 2 ELSE 0}
         \/ phase' \in Planning /\ code' = code
    BY DEF NothingToDo, Approve, Plan, Exit, Planning
<1> QED
    BY <1>1 DEF CountingInv, Gathering, Planning, Incomplete

LEMMA CountingSteps == CountingInv /\ [Next]_vars => CountingInv'
<1> SUFFICES ASSUME CountingInv, [Next]_vars PROVE CountingInv'
    OBVIOUS
<1>1. CASE UNCHANGED vars
    BY <1>1, CountingFrame DEF vars, resolver, plan
<1> QED
    BY <1>1, GatheringCounts, RequestsCount, PreflightCounts, PlanningCounts DEF Next, Ended

\* A run whose check failed goes on only when it was told to, and neither
\* it nor a run that left a manager out ends with 0 (discovery, preflight
\* and exit codes of commands/upgrade.rs).
THEOREM FailuresReachTheExit == Spec => []FailuresAreCounted
BY CountingInit, CountingSteps, CountingSuffices, PTL DEF Spec

-----------------------------------------------------------------------------
\* What the choice of a candidate returns.
LEMMA FirstIs ==
    ASSUME NEW S, NEW s \in Seq(S)
    PROVE  /\ First(s) \in S \cup {None}
           /\ s # << >> => First(s) = s[1] /\ 1 \in DOMAIN s /\ s[1] \in S
BY DEF First

LEMMA CarriersCarry ==
    ASSUME NEW p
    PROVE  /\ Carriers(p) \in Seq(ToSet(Order))
           /\ \A i \in DOMAIN Carriers(p) : Carries(Carriers(p)[i], p)
           /\ \A r : Carries(r, p) => Carriers(p) # << >>
<1> DEFINE I == {i \in DOMAIN Order : Carries(Order[i], p)}
<1>1. Carriers(p) = Kept(Order, I)
    BY DEF Carriers, Filtered
<1>2. Order \in Seq(ToSet(Order))
    BY ResolverAssumption
<1>3. PICK q : q = Kept(Order, I)
    OBVIOUS
<1>4. /\ q \in Seq(ToSet(Order))
      /\ \A i \in DOMAIN q : \E j \in DOMAIN Order : j \in I /\ q[i] = Order[j]
      /\ \A j \in DOMAIN Order : j \in I => \E i \in DOMAIN q : q[i] = Order[j]
    <2> HIDE DEF I
    <2> QED
        BY <1>2, <1>3, KeptInSeq
<1>5. \A i \in DOMAIN q : Carries(q[i], p)
    BY <1>4
<1>6. ASSUME NEW r, Carries(r, p)
      PROVE  q # << >>
    <2>1. PICK j \in DOMAIN Order : Order[j] = r
        BY <1>6 DEF Carries, ToSet
    <2>2. j \in I
        BY <1>6, <2>1
    <2> QED
        BY <1>4, <2>1, <2>2
<1> QED
    BY <1>1, <1>3, <1>4, <1>5, <1>6

LEMMA TopCarries ==
    ASSUME NEW p
    PROVE  /\ First(Carriers(p)) \in ToSet(Order) \cup {None}
           /\ First(Carriers(p)) # None => Carries(First(Carriers(p)), p)
           /\ \A r : Carries(r, p) => First(Carriers(p)) # None
<1>1. PICK s : s = Carriers(p)
    OBVIOUS
<1>2. /\ s \in Seq(ToSet(Order)) /\ \A i \in DOMAIN s : Carries(s[i], p)
      /\ \A r : Carries(r, p) => s # << >>
    BY <1>1, CarriersCarry
<1>3. /\ First(s) \in ToSet(Order) \cup {None}
      /\ s # << >> => First(s) = s[1] /\ 1 \in DOMAIN s /\ s[1] \in ToSet(Order)
    BY <1>2, FirstIs
<1>4. s = << >> => First(s) = None
    BY DEF First
<1>5. None \notin ToSet(Order)
    BY ResolverAssumption
<1> QED
    BY <1>1, <1>2, <1>3, <1>4, <1>5

\* A pin is final; what is left to the order of the repositories comes from
\* one that is not excluded.
LEMMA ChoiceIs ==
    ASSUME NEW p
    PROVE  /\ Choice(p).state \in States
           /\ Choice(p).repo \in ToSet(Order) \cup {Aur, None}
           /\ Choice(p).repo \in ToSet(Order) => Carries(Choice(p).repo, p)
           /\ Choice(p).state = "custom" <=> Pin(p) # None
           /\ Choice(p).state = "custom" /\ Choice(p).repo # None => Choice(p).repo = Pin(p)
           /\ Choice(p).state = "custom" /\ Choice(p).repo = None => Pin(p) # Aur
           /\ Choice(p).state = "default" /\ Choice(p).repo # Aur =>
                  /\ Choice(p).repo \in ToSet(Order)
                  /\ ~(cfg.pinning /\ Excluded(p, Choice(p).repo))
<1> DEFINE from(r) == IF r = Aur \/ Carries(r, p) THEN r ELSE None
           I == {i \in DOMAIN Carriers(p) : ~(cfg.pinning /\ Excluded(p, Carriers(p)[i]))}
           open == Kept(Carriers(p), I)
           keeps == cfg.sticky /\ Origin(p) # None /\ ~(cfg.pinning /\ Excluded(p, Origin(p)))
           choice == IF Pin(p) # None THEN [state |-> "custom", repo |-> from(Pin(p))]
                     ELSE IF keeps THEN [state |-> "sticky", repo |-> from(Origin(p))]
                     ELSE [state |-> "default", repo |-> IF open = << >> THEN Aur ELSE Head(open)]
<1>1. Choice(p) = choice
    BY DEF Choice, Filtered
<1>2. \A r : from(r) \in {r, None} /\ (from(r) = None \/ from(r) = Aur \/ Carries(from(r), p))
             /\ (from(r) = None => r # Aur \/ r = None)
    OBVIOUS
<1>3. \A r : Carries(r, p) => r \in ToSet(Order)
    BY DEF Carries
<1>4. open # << >> =>
          /\ Head(open) \in ToSet(Order) /\ Carries(Head(open), p)
          /\ ~(cfg.pinning /\ Excluded(p, Head(open)))
    <2>1. PICK s : s = Carriers(p)
        OBVIOUS
    <2>2. s \in Seq(ToSet(Order)) /\ \A i \in DOMAIN s : Carries(s[i], p)
        BY <2>1, CarriersCarry
    <2> DEFINE J == {i \in DOMAIN s : ~(cfg.pinning /\ Excluded(p, s[i]))}
    <2>3. PICK q : q = Kept(s, J)
        OBVIOUS
    <2>4. /\ q \in Seq(ToSet(Order))
          /\ \A i \in DOMAIN q : \E j \in DOMAIN s : j \in J /\ q[i] = s[j]
        <3> HIDE DEF J
        <3> QED
            BY <2>2, <2>3, KeptInSeq
    <2>5. ASSUME q # << >>
          PROVE  /\ Head(q) \in ToSet(Order) /\ Carries(Head(q), p)
                 /\ ~(cfg.pinning /\ Excluded(p, Head(q)))
        <3>1. 1 \in DOMAIN q /\ Head(q) = q[1]
            BY <2>4, <2>5
        <3>2. PICK j \in DOMAIN s : j \in J /\ q[1] = s[j]
            BY <2>4, <3>1
        <3> QED
            BY <2>2, <2>4, <3>1, <3>2
    <2> QED
        BY <2>1, <2>3, <2>5
<1>5. {Aur, None} \cap ToSet(Order) = {} /\ Aur # None
    BY ResolverAssumption
<1> HIDE DEF open, keeps
<1> QED
    BY <1>1, <1>2, <1>3, <1>4, <1>5 DEF States

\* The resolution reads the databases and the configuration, which stay.
LEMMA ChoiceStays ==
    ASSUME UNCHANGED <<host, cfg>>, NEW p
    PROVE  /\ Choice(p)' = Choice(p) /\ Pin(p)' = Pin(p) /\ Carriers(p)' = Carriers(p)
           /\ \A r : Candidate(p, r)' = Candidate(p, r)
           /\ \A c, state : Change(p, c, state)' = Change(p, c, state)
           /\ \A r : Carries(r, p)' = Carries(r, p) /\ Excluded(p, r)' = Excluded(p, r)
<1>1. Carriers(p)' = Carriers(p)
    BY DEF Carriers, Filtered, Carries
<1>2. Pin(p)' = Pin(p)
    <2>1. Pins' = Pins
        BY DEF Pins
    <2> QED
        BY <2>1 DEF Pin
<1>3. Origin(p)' = Origin(p)
    BY <1>1 DEF Origin, Filtered
<1>4. Choice(p)' = Choice(p)
    BY <1>1, <1>2, <1>3 DEF Choice, Filtered, Carries, Excluded
<1> QED
    BY <1>1, <1>2, <1>4 DEF Candidate, Change, Carries, Excluded

\* An entry holds the candidate of its choice, and what that changes.
Comes(p, e) ==
    /\ e \in EntryType /\ p \notin cfg.owned /\ e.top = First(Carriers(p))
    /\ IF e.candidate = None THEN e.change = "current"
       ELSE /\ e.state = Choice(p).state /\ Choice(p).repo # None
            /\ e.candidate = Candidate(p, Choice(p).repo)
            /\ e.change = Change(p, e.candidate, e.state)

Known == host \in Hosts /\ cfg \in Configs /\ run \in Invocations

EntriesInv ==
    /\ DOMAIN resolved = Package
    /\ \A p \in Package : resolved[p] = None \/ Comes(p, resolved[p])

LEMMA CandidateIsTyped ==
    ASSUME Known, NEW p \in Package, NEW r \in ToSet(Order) \cup {Aur}
    PROVE  Candidate(p, r) \in CandidateType /\ Candidate(p, r).repo = r
<1>1. /\ host.aur \in [Package -> Nat]
      /\ host.sync \in [ToSet(Order) -> [Package -> Nat]]
      /\ host.age \in [ToSet(Order) \cup {Aur} -> [Package -> Nat]]
    BY ResolverAssumption DEF Known
<1>2. host.age[r][p] \in Nat
    BY <1>1
<1>3. (IF r = Aur THEN host.aur[p] ELSE host.sync[r][p]) \in Nat
    BY <1>1
<1> QED
    BY <1>2, <1>3 DEF Candidate, CandidateType

LEMMA EntryComes ==
    ASSUME Known, NEW p \in Package, p \notin cfg.owned, NEW c,
           c = None \/ (Choice(p).repo # None /\ c = Candidate(p, Choice(p).repo))
    PROVE  Comes(p, Entry(p, Choice(p).state, c))
<1>1. PICK s, r : s = Choice(p).state /\ r = Choice(p).repo
    OBVIOUS
<1>2. s \in States /\ r \in ToSet(Order) \cup {Aur, None}
    BY <1>1, ChoiceIs
<1>3. c \in CandidateType \cup {None}
    BY <1>1, <1>2, CandidateIsTyped
<1>4. First(Carriers(p)) \in ToSet(Order) \cup {None}
    BY TopCarries
<1>5. Change(p, c, s) \in {"current", "upgrade", "downgrade", "pin_sync"}
    BY DEF Change
<1>6. PICK e : e = Entry(p, s, c)
    OBVIOUS
<1>7. /\ e \in EntryType /\ e.top = First(Carriers(p)) /\ e.candidate = c
      /\ c = None => e.change = "current"
      /\ c # None => e.state = s /\ e.change = Change(p, c, s)
    BY <1>2, <1>3, <1>4, <1>5, <1>6 DEF Entry, EntryType, States
<1> QED
    BY <1>1, <1>6, <1>7 DEF Comes

\* What an update is.
LEMMA UpdateComes ==
    ASSUME EntriesInv, NEW p \in Updates \cup HeldPackages
    PROVE  /\ p \in Package /\ Comes(p, resolved[p]) /\ resolved[p].candidate # None
           /\ resolved[p] # None
BY DEF EntriesInv, Updates, HeldPackages, NeedsUpdate, Comes

LEMMA HoldAllComes ==
    ASSUME EntriesInv, NEW s, resolved' = HoldAll(s), UNCHANGED <<host, cfg>>
    PROVE  EntriesInv'
<1>1. DOMAIN resolved' = Package
    BY DEF HoldAll
<1>2. ASSUME NEW p \in Package
      PROVE  resolved'[p] = None \/ Comes(p, resolved[p])'
    <2>1. resolved[p] = None \/ Comes(p, resolved[p])
        BY DEF EntriesInv
    <2>3. CASE resolved'[p] = resolved[p]
        BY <2>1, <2>3, ChoiceStays DEF Comes
    <2>4. CASE NeedsUpdate(p) /\ resolved'[p] = [resolved[p] EXCEPT !.held = TRUE]
        <3>1. PICK e : e = resolved[p]
            OBVIOUS
        <3>2. PICK f : f = [e EXCEPT !.held = TRUE]
            OBVIOUS
        <3>3. Comes(p, e)
            BY <2>1, <2>4, <3>1 DEF NeedsUpdate
        <3>4. /\ f \in EntryType /\ f.top = e.top /\ f.candidate = e.candidate
              /\ f.change = e.change /\ f.state = e.state
            BY <3>2, <3>3 DEF Comes, EntryType
        <3>5. Comes(p, f)
            BY <3>3, <3>4 DEF Comes
        <3> QED
            BY <2>4, <3>1, <3>2, <3>5, ChoiceStays DEF Comes
    <2> QED
        BY <2>3, <2>4 DEF HoldAll
<1>3. \A p \in Package : resolved'[p] = None \/ Comes(p, resolved[p])'
    BY <1>2
<1> QED
    BY <1>1, <1>3 DEF EntriesInv

ResolutionInv ==
    /\ Known /\ EntriesInv
    /\ pending \cup unresolved \cup queue \cup visited \subseteq Package
    /\ \A p \in pending : p \notin cfg.owned /\ Choice(p).repo = Aur

\* The steps that leave the resolution alone.
Elsewhere ==
    \/ Begin \/ CascadeEnds
    \/ \E i \in DOMAIN chunks : Ask(i) /\ UNCHANGED run
    \/ \E m \in DOMAIN checks : Refreshed(m) \/ Checked(m)
    \/ RefreshNative \/ Abandon \/ JoinExternal \/ Requests \/ Preflight
    \/ NothingToDo \/ Approve \/ Plan \/ UNCHANGED vars

LEMMA ElsewhereLeaves == Elsewhere => UNCHANGED <<host, cfg, outcome, cascade>>
<1> SUFFICES ASSUME Elsewhere PROVE UNCHANGED <<host, cfg, outcome, cascade>>
    OBVIOUS
<1>1. CASE Begin \/ CascadeEnds
    BY <1>1 DEF Begin, CascadeEnds
<1>2. CASE \E i \in DOMAIN chunks : Ask(i)
    BY <1>2 DEF Ask
<1>3. CASE \E m \in DOMAIN checks : Refreshed(m) \/ Checked(m)
    BY <1>3 DEF Refreshed, Checked, resolver
<1>4. CASE RefreshNative \/ Abandon \/ JoinExternal \/ Requests
    BY <1>4 DEF RefreshNative, Abandon, JoinExternal, Requests
<1>5. CASE Preflight \/ NothingToDo \/ Approve \/ Plan
    BY <1>5 DEF Preflight, NothingToDo, Approve, Plan
<1>6. CASE UNCHANGED vars
    BY <1>6 DEF vars, resolver
<1> QED
    BY <1>1, <1>2, <1>3, <1>4, <1>5, <1>6 DEF Elsewhere

LEMMA RunStays == [Next]_vars => UNCHANGED <<host, cfg, run>>
<1> SUFFICES ASSUME [Next]_vars PROVE UNCHANGED <<host, cfg, run>>
    OBVIOUS
<1>1. CASE Resolve /\ UNCHANGED <<run, discovery, selection, plan>>
    BY <1>1 DEF Resolve, Begin, ResolveNative, JoinFailed, JoinAnswered, Delays, Cascade, CascadeEnds
<1>2. CASE \E i \in DOMAIN chunks : Ask(i) /\ UNCHANGED <<run, discovery, selection, plan>>
    BY <1>2 DEF Ask
<1>3. CASE \E m \in DOMAIN checks : Refreshed(m) \/ Checked(m)
    BY <1>3 DEF Refreshed, Checked, resolver
<1>4. CASE RefreshNative \/ Abandon \/ Scope \/ JoinExternal \/ Requests
    BY <1>4 DEF RefreshNative, Abandon, Scope, JoinExternal, Requests
<1>5. CASE Preflight \/ NothingToDo \/ Approve \/ Plan
    BY <1>5 DEF Preflight, NothingToDo, Approve, Plan
<1>6. CASE UNCHANGED vars
    BY <1>6 DEF vars, resolver
<1> QED
    BY <1>1, <1>2, <1>3, <1>4, <1>5, <1>6 DEF Next, Ended

\* The steps of the resolution, and the rest.
LEMMA StepKinds ==
    [Next]_vars => \/ ResolveNative \/ JoinFailed \/ JoinAnswered \/ Delays \/ Cascade
                   \/ Scope \/ Elsewhere
BY DEF Next, Resolve, Ended, Elsewhere

LEMMA EntriesStay ==
    ASSUME EntriesInv, UNCHANGED <<host, cfg, resolved>>
    PROVE  EntriesInv'
<1>1. \A p \in Package : resolved'[p] = None \/ Comes(p, resolved[p])'
    BY ChoiceStays DEF EntriesInv, Comes
<1> QED
    BY <1>1 DEF EntriesInv

LEMMA ResolutionSteps == ResolutionInv /\ [Next]_vars => ResolutionInv'
<1> SUFFICES ASSUME ResolutionInv, [Next]_vars PROVE ResolutionInv'
    OBVIOUS
<1> DEFINE Sets == pending \cup unresolved \cup queue \cup visited \subseteq Package
           Waiting == \A p \in pending : p \notin cfg.owned /\ Choice(p).repo = Aur
<1>0. Known /\ EntriesInv /\ Sets /\ Waiting /\ UNCHANGED <<host, cfg>> /\ Known'
    BY RunStays DEF ResolutionInv, Known
<1>1. \A p : Choice(p)' = Choice(p)
    BY <1>0, ChoiceStays
<1>2. pending' \subseteq pending => Waiting'
    BY <1>0, <1>1
<1>3. CASE ResolveNative
    <2>1. EntriesInv'
        <3>1. DOMAIN resolved' = Package
            BY <1>3 DEF ResolveNative
        <3>2. ASSUME NEW p \in Package, resolved'[p] # None
              PROVE  Comes(p, resolved[p])'
            <4> DEFINE from == Choice(p).repo
                       c == IF from = None THEN None ELSE Candidate(p, from)
            <4>1. p \notin cfg.owned /\ resolved'[p] = Entry(p, Choice(p).state, c)
                BY <1>3, <3>2 DEF ResolveNative
            <4>2. Comes(p, Entry(p, Choice(p).state, c))
                BY <1>0, <4>1, EntryComes
            <4> HIDE DEF c
            <4> QED
                BY <1>0, <4>1, <4>2, ChoiceStays DEF Comes
        <3> QED
            BY <3>1, <3>2 DEF EntriesInv
    <2>2. Sets' /\ \A p \in pending' : p \notin cfg.owned /\ Choice(p).repo = Aur
        BY <1>0, <1>3 DEF ResolveNative, cascade
    <2> QED
        BY <1>0, <1>1, <2>1, <2>2 DEF ResolutionInv
<1>4. CASE JoinFailed
    <2>1. EntriesInv'
        BY <1>0, <1>4, EntriesStay DEF JoinFailed
    <2>2. Sets' /\ pending' = {}
        BY <1>0, <1>4 DEF JoinFailed, cascade
    <2> QED
        BY <1>0, <2>1, <2>2 DEF ResolutionInv
<1>5. CASE JoinAnswered
    <2>1. EntriesInv'
        <3>1. DOMAIN resolved' = Package
            BY <1>5 DEF JoinAnswered
        <3>2. ASSUME NEW p \in Package, resolved'[p] # None, p \in pending
              PROVE  Comes(p, resolved[p])'
            <4> DEFINE c == IF p \in AurData THEN Candidate(p, Aur) ELSE None
            <4>1. /\ p \notin cfg.owned /\ Choice(p).repo = Aur /\ Aur # None
                  /\ resolved'[p] = Entry(p, Choice(p).state, c)
                BY <1>0, <1>5, <3>2, ResolverAssumption DEF JoinAnswered
            <4>2. Comes(p, Entry(p, Choice(p).state, c))
                BY <1>0, <4>1, EntryComes
            <4> HIDE DEF c
            <4> QED
                BY <1>0, <4>1, <4>2, ChoiceStays DEF Comes
        <3>3. ASSUME NEW p \in Package, resolved'[p] # None, p \notin pending
              PROVE  Comes(p, resolved[p])'
            <4>1. resolved'[p] = resolved[p]
                BY <1>5, <3>3 DEF JoinAnswered
            <4>2. Comes(p, resolved[p])
                BY <1>0, <3>3, <4>1 DEF EntriesInv
            <4> QED
                BY <1>0, <4>1, <4>2, ChoiceStays DEF Comes
        <3> QED
            BY <3>1, <3>2, <3>3 DEF EntriesInv
    <2>2. Sets' /\ pending' = {}
        BY <1>0, <1>5 DEF JoinAnswered, cascade
    <2> QED
        BY <1>0, <2>1, <2>2 DEF ResolutionInv
<1>6. CASE Delays
    <2>1. EntriesInv'
        BY <1>0, <1>6, HoldAllComes DEF Delays
    <2>2. Sets' /\ pending' = pending
        BY <1>0, <1>6 DEF Delays
    <2> QED
        BY <1>0, <1>2, <2>1, <2>2 DEF ResolutionInv
<1>7. CASE Cascade
    <2>1. EntriesInv'
        BY <1>0, <1>7, HoldAllComes DEF Cascade
    <2>2. Sets' /\ pending' = pending
        BY <1>0, <1>7, DependentsAreNamed DEF Cascade
    <2> QED
        BY <1>0, <1>2, <2>1, <2>2 DEF ResolutionInv
<1>8. CASE Scope
    <2>1. EntriesInv'
        BY <1>0, <1>8, EntriesStay DEF Scope
    <2>2. Sets' /\ pending' = pending
        BY <1>0, <1>8 DEF Scope, cascade
    <2> QED
        BY <1>0, <1>2, <2>1, <2>2 DEF ResolutionInv
<1>9. CASE Elsewhere
    <2>1. UNCHANGED <<host, cfg, outcome, cascade>>
        BY <1>9, ElsewhereLeaves
    <2>2. EntriesInv'
        BY <1>0, <2>1, EntriesStay DEF outcome
    <2>3. Sets' /\ pending' = pending
        BY <1>0, <2>1 DEF outcome, cascade
    <2> QED
        BY <1>0, <1>2, <2>2, <2>3 DEF ResolutionInv
<1> QED
    BY <1>3, <1>4, <1>5, <1>6, <1>7, <1>8, <1>9, StepKinds

\* Once the checks are joined, nothing but the selection and the plan moves,
\* and before that neither of them does, except for the updates in scope.
Joined == {"requests", "preflight", "targets", "plan", "approved", "over"}

LEMMA JoinedSteps ==
    ASSUME [Next]_vars, phase \in Joined, AllChecked
    PROVE  /\ phase' \in Joined
           /\ UNCHANGED <<host, cfg, run, outcome, cascade, failures, discovery, heldBack>>
           /\ \/ Requests \/ Preflight \/ NothingToDo \/ Approve \/ Plan
              \/ UNCHANGED <<phase, selection, plan>>
<1>1. CASE Resolve /\ UNCHANGED <<run, discovery, selection, plan>>
    BY <1>1 DEF Resolve, Begin, ResolveNative, JoinFailed, JoinAnswered, Delays, Cascade,
                CascadeEnds, Joined
<1>2. CASE \E i \in DOMAIN chunks : Ask(i) /\ UNCHANGED <<run, discovery, selection, plan>>
    BY <1>2 DEF Ask, selection
<1>3. CASE \E m \in DOMAIN checks : Refreshed(m) \/ Checked(m)
    BY <1>3 DEF Refreshed, Checked, AllChecked
<1>4. CASE RefreshNative \/ Abandon \/ Scope \/ JoinExternal
    BY <1>4 DEF RefreshNative, Abandon, Scope, JoinExternal, Joined
<1>5. CASE Requests
    BY <1>5 DEF Requests, Exit, Joined
<1>6. CASE Preflight
    BY <1>6 DEF Preflight, Exit, Joined, selection
<1>7. CASE NothingToDo \/ Approve \/ Plan
    BY <1>7 DEF NothingToDo, Approve, Plan, Exit, Joined, selection
<1>8. CASE UNCHANGED vars
    BY <1>8 DEF vars, resolver, selection
<1> QED
    BY <1>1, <1>2, <1>3, <1>4, <1>5, <1>6, <1>7, <1>8 DEF Next, Ended

LEMMA EarlySteps ==
    ASSUME [Next]_vars, phase \notin Joined
    PROVE  \/ JoinExternal
           \/ Abandon
           \/ /\ phase' \notin Joined
              /\ UNCHANGED <<requested, external, plan>>
<1>1. CASE Resolve /\ UNCHANGED <<run, discovery, selection, plan>>
    BY <1>1 DEF Resolve, Begin, ResolveNative, JoinFailed, JoinAnswered, Delays, Cascade,
                CascadeEnds, Joined, selection
<1>2. CASE \E i \in DOMAIN chunks : Ask(i) /\ UNCHANGED <<run, discovery, selection, plan>>
    BY <1>2 DEF Ask, selection
<1>3. CASE \E m \in DOMAIN checks : Refreshed(m) \/ Checked(m)
    BY <1>3 DEF Refreshed, Checked, resolver, selection
<1>4. CASE RefreshNative \/ Scope
    BY <1>4 DEF RefreshNative, Scope, Joined, selection
<1>5. CASE Requests \/ Preflight \/ NothingToDo \/ Approve \/ Plan
    BY <1>5 DEF Requests, Preflight, NothingToDo, Approve, Plan, Joined
<1>6. CASE UNCHANGED vars
    BY <1>6 DEF vars, resolver, selection
<1> QED
    BY <1>1, <1>2, <1>3, <1>4, <1>5, <1>6 DEF Next, Ended

\* A provider reports no package as found that it also reports as failed,
\* and nothing fails in the name of the AUR but the AUR's own check.
DiscoveryInv ==
    /\ DOMAIN checks \subseteq ToSet(Providers)
    /\ DOMAIN found = DOMAIN checks /\ DOMAIN bad = DOMAIN checks
    /\ \A m \in DOMAIN checks : m = Sources => found[m] \subseteq run.offers[m]
    /\ \A m \in DOMAIN checks : \A f \in bad[m] :
           f.manager \in ToSet(Providers) \/ (m = Sources /\ f.manager \in Failing \ found[m])
    /\ phase \in Joined => AllChecked

FailuresInv ==
    \A f \in failures :
        f = AurFailure \/ (phase \in Joined /\ \E m \in DOMAIN bad : f \in bad[m])

LEMMA DiscoveryStays ==
    ASSUME DiscoveryInv, UNCHANGED <<run, discovery>>, phase' \in Joined => AllChecked
    PROVE  DiscoveryInv'
BY DEF DiscoveryInv, discovery, AllChecked

LEMMA ProviderReports ==
    ASSUME DiscoveryInv, [Next]_vars, NEW m \in DOMAIN checks, Refreshed(m) \/ Checked(m)
    PROVE  DiscoveryInv'
<1>0. /\ DOMAIN checks \subseteq ToSet(Providers)
      /\ DOMAIN found = DOMAIN checks /\ DOMAIN bad = DOMAIN checks
      /\ \A n \in DOMAIN checks : n = Sources => found[n] \subseteq run.offers[n]
      /\ \A n \in DOMAIN checks : \A f \in bad[n] :
             f.manager \in ToSet(Providers) \/ (n = Sources /\ f.manager \in Failing \ found[n])
      /\ UNCHANGED <<run, phase>>
    BY DEF DiscoveryInv, Refreshed, Checked, resolver
<1>1. DOMAIN checks' = DOMAIN checks /\ DOMAIN found' = DOMAIN found /\ DOMAIN bad' = DOMAIN bad
    BY DEF Refreshed, Checked
<1>2. phase \notin Joined
    BY DEF DiscoveryInv, AllChecked, Refreshed, Checked
<1>3. \A n \in DOMAIN checks : n # m => found'[n] = found[n] /\ bad'[n] = bad[n]
    BY <1>0 DEF Refreshed, Checked
<1>4. /\ m = Sources => found'[m] \subseteq run.offers[m]
      /\ \A f \in bad'[m] :
             f.manager \in ToSet(Providers) \/ (m = Sources /\ f.manager \in Failing \ found'[m])
    <2>1. CASE Refreshed(m)
        BY <1>0, <2>1 DEF Refreshed, Failed
    <2>2. CASE Checked(m)
        <3>1. CASE found' = found /\ bad' = [bad EXCEPT ![m] = {Failed(m, "updates")}]
            BY <1>0, <3>1 DEF Failed
        <3>2. CASE \E lost \in SUBSET (IF m = Sources THEN Failing ELSE {}) :
                       /\ found' = [found EXCEPT ![m] = run.offers[m] \ lost]
                       /\ bad' = [bad EXCEPT ![m] = {Failed(p, "updates") : p \in lost}]
            <4>1. PICK lost \in SUBSET (IF m = Sources THEN Failing ELSE {}) :
                       /\ found'[m] = run.offers[m] \ lost
                       /\ bad'[m] = {Failed(p, "updates") : p \in lost}
                BY <1>0, <3>2
            <4> QED
                BY <4>1 DEF Failed
        <3> QED
            BY <2>2, <3>1, <3>2 DEF Checked
    <2> QED
        BY <2>1, <2>2
<1>5. \A n \in DOMAIN checks : n = Sources => found'[n] \subseteq run.offers[n]
    BY <1>0, <1>3, <1>4
<1>6. \A n \in DOMAIN checks : \A f \in bad'[n] :
          f.manager \in ToSet(Providers) \/ (n = Sources /\ f.manager \in Failing \ found'[n])
    BY <1>0, <1>3, <1>4
<1> QED
    BY <1>0, <1>1, <1>2, <1>5, <1>6 DEF DiscoveryInv

LEMMA FailureMoves ==
    ASSUME [Next]_vars
    PROVE  /\ \/ \E m \in DOMAIN checks : Refreshed(m) \/ Checked(m)
              \/ UNCHANGED discovery
           /\ JoinExternal \/ JoinFailed \/ UNCHANGED failures
<1>1. CASE Resolve /\ UNCHANGED <<run, discovery, selection, plan>>
    BY <1>1 DEF Resolve, Begin, ResolveNative, JoinAnswered, Delays, Cascade, CascadeEnds
<1>2. CASE \E i \in DOMAIN chunks : Ask(i) /\ UNCHANGED <<run, discovery, selection, plan>>
    BY <1>2 DEF Ask
<1>3. CASE \E m \in DOMAIN checks : Refreshed(m) \/ Checked(m)
    BY <1>3 DEF Refreshed, Checked, resolver
<1>4. CASE RefreshNative \/ Abandon \/ Scope \/ JoinExternal \/ Requests
    BY <1>4 DEF RefreshNative, Abandon, Scope, JoinExternal, Requests
<1>5. CASE Preflight \/ NothingToDo \/ Approve \/ Plan
    BY <1>5 DEF Preflight, NothingToDo, Approve, Plan
<1>6. CASE UNCHANGED vars
    BY <1>6 DEF vars, resolver
<1> QED
    BY <1>1, <1>2, <1>3, <1>4, <1>5, <1>6 DEF Next, Ended

LEMMA DiscoverySteps == DiscoveryInv /\ [Next]_vars => DiscoveryInv'
<1> SUFFICES ASSUME DiscoveryInv, [Next]_vars PROVE DiscoveryInv'
    OBVIOUS
<1>1. CASE \E m \in DOMAIN checks : Refreshed(m) \/ Checked(m)
    BY <1>1, ProviderReports
<1>2. CASE UNCHANGED discovery
    <2>1. UNCHANGED run
        BY RunStays
    <2>2. phase' \in Joined => AllChecked
        <3>1. phase \in Joined => AllChecked
            BY DEF DiscoveryInv
        <3>2. phase \notin Joined => JoinExternal \/ Abandon \/ phase' \notin Joined
            BY EarlySteps
        <3> QED
            BY <3>1, <3>2 DEF JoinExternal, Abandon
    <2> QED
        BY <1>2, <2>1, <2>2, DiscoveryStays
<1> QED
    BY <1>1, <1>2, FailureMoves

LEMMA FailuresSteps == DiscoveryInv /\ FailuresInv /\ [Next]_vars => FailuresInv'
<1> SUFFICES ASSUME DiscoveryInv, FailuresInv, [Next]_vars PROVE FailuresInv'
    OBVIOUS
<1>1. CASE phase \in Joined
    <2>1. AllChecked
        BY <1>1 DEF DiscoveryInv
    <2>2. phase' \in Joined /\ UNCHANGED <<failures, bad>>
        BY <1>1, <2>1, JoinedSteps DEF discovery
    <2> QED
        BY <1>1, <2>2 DEF FailuresInv
<1>2. CASE phase \notin Joined
    <2>1. \A f \in failures : f = AurFailure
        BY <1>2 DEF FailuresInv
    <2>2. CASE JoinExternal
        <3>1. /\ failures' = failures \cup UNION {bad[m] : m \in DOMAIN bad}
              /\ phase' \in Joined /\ bad' = bad
            BY <2>2 DEF JoinExternal, discovery, Joined
        <3> QED
            BY <2>1, <3>1 DEF FailuresInv, AurFailure
    <2>3. CASE JoinFailed \/ UNCHANGED failures
        BY <2>1, <2>3 DEF FailuresInv, AurFailure, JoinFailed
    <2> QED
        BY <2>2, <2>3, FailureMoves
<1> QED
    BY <1>1, <1>2

\* The AUR's half answers are not used, and its pins not called unresolved.
AurQuiet ==
    /\ \A p \in unresolved : Pin(p) # Aur
    /\ \A p \in Package : ~IsAur(p)

Unjoined == {"refresh", "abandon", "start", "native", "join"}

AurInv ==
    /\ phase \in Unjoined => AurQuiet /\ AurFailure \notin failures
    /\ AurFailure \in failures => AurQuiet

LEMMA OnlyTheAurFails ==
    ASSUME Known, DiscoveryInv, NEW m \in DOMAIN bad
    PROVE  \A f \in bad[m] : f.manager # Aur
BY PlanningAssumption DEF Known, DiscoveryInv

LEMMA AurStays ==
    ASSUME AurQuiet, UNCHANGED <<host, cfg>>, unresolved' \subseteq unresolved,
           \A p \in Package : IsAur(p)' => IsAur(p)
    PROVE  AurQuiet'
<1>1. \A p : Pin(p)' = Pin(p)
    BY ChoiceStays
<1> QED
    BY <1>1 DEF AurQuiet

LEMMA HoldAllIsAur ==
    ASSUME EntriesInv, NEW s, resolved' = HoldAll(s), NEW p \in Package, IsAur(p)'
    PROVE  IsAur(p)
<1>1. resolved'[p] # None /\ resolved'[p].candidate # None /\ resolved'[p].candidate.repo = Aur
    BY DEF IsAur
<1>2. CASE resolved'[p] = resolved[p]
    BY <1>1, <1>2 DEF IsAur
<1>3. CASE NeedsUpdate(p) /\ resolved'[p] = [resolved[p] EXCEPT !.held = TRUE]
    <2>1. resolved[p] # None /\ resolved[p] \in EntryType
        BY <1>3 DEF NeedsUpdate, EntriesInv, Comes
    <2>2. resolved'[p].candidate = resolved[p].candidate
        BY <1>3, <2>1 DEF EntryType
    <2> QED
        BY <1>1, <2>1, <2>2 DEF IsAur
<1> QED
    BY <1>2, <1>3 DEF HoldAll

LEMMA AurSteps ==
    ResolutionInv /\ DiscoveryInv /\ AurInv /\ [Next]_vars => AurInv'
<1> SUFFICES ASSUME ResolutionInv, DiscoveryInv, AurInv, [Next]_vars PROVE AurInv'
    OBVIOUS
<1>0. Known /\ EntriesInv /\ UNCHANGED <<host, cfg>>
    BY RunStays DEF ResolutionInv
<1>1. CASE ResolveNative
    <2>1. phase = "native" /\ UNCHANGED failures
        BY <1>1 DEF ResolveNative
    <2>2. AurFailure \notin failures'
        BY <2>1 DEF AurInv, Unjoined
    <2>3. \A p \in unresolved' : Pin(p) # Aur
        BY <1>1, ChoiceIs DEF ResolveNative
    <2>4. ASSUME NEW p \in Package
          PROVE  ~IsAur(p)'
        <3> DEFINE from == Choice(p).repo
                   c == IF from = None THEN None ELSE Candidate(p, from)
        <3>1. resolved'[p] = None \/ (from # Aur /\ resolved'[p] = Entry(p, Choice(p).state, c))
            BY <1>1 DEF ResolveNative
        <3>2. Entry(p, Choice(p).state, c).candidate = c
            BY DEF Entry
        <3>3. c = None \/ c.repo = from
            BY DEF Candidate
        <3> HIDE DEF c, from
        <3> QED
            BY <3>1, <3>2, <3>3 DEF IsAur
    <2>5. \A p : Pin(p)' = Pin(p)
        BY <1>0, ChoiceStays
    <2>6. AurQuiet'
        BY <2>3, <2>4, <2>5 DEF AurQuiet
    <2> QED
        BY <2>2, <2>6 DEF AurInv
<1>2. CASE JoinFailed
    <2>1. phase = "join" /\ phase' = "delays" /\ UNCHANGED <<resolved, unresolved>>
        BY <1>2 DEF JoinFailed
    <2>2. AurQuiet
        BY <2>1 DEF AurInv, Unjoined
    <2>3. AurQuiet'
        BY <1>0, <2>1, <2>2, AurStays DEF IsAur
    <2> QED
        BY <2>1, <2>3 DEF AurInv, Unjoined
<1>3. CASE JoinAnswered
    <2>1. phase = "join" /\ phase' = "delays" /\ UNCHANGED failures
        BY <1>3 DEF JoinAnswered
    <2> QED
        BY <2>1 DEF AurInv, Unjoined
<1>4. CASE Delays \/ Cascade
    <2>1. /\ \E s : resolved' = HoldAll(s)
          /\ unresolved' = unresolved /\ failures' = failures /\ phase' \notin Unjoined
        BY <1>4 DEF Delays, Cascade, Unjoined
    <2>2. \A p \in Package : IsAur(p)' => IsAur(p)
        BY <1>0, <2>1, HoldAllIsAur
    <2>3. AurQuiet => AurQuiet'
        BY <1>0, <2>1, <2>2, AurStays
    <2> QED
        BY <2>1, <2>3 DEF AurInv
<1>5. CASE Scope
    <2>1. /\ resolved' = resolved /\ unresolved' \subseteq unresolved
          /\ failures' = failures /\ phase' \notin Unjoined
        BY <1>5 DEF Scope, Unjoined
    <2>2. AurQuiet => AurQuiet'
        BY <1>0, <2>1, AurStays DEF IsAur
    <2> QED
        BY <2>1, <2>2 DEF AurInv
<1>6. CASE Elsewhere /\ ~JoinFailed
    <2>1. UNCHANGED <<resolved, unresolved>>
        BY <1>6, ElsewhereLeaves DEF outcome
    <2>2. AurQuiet => AurQuiet'
        BY <1>0, <2>1, AurStays DEF IsAur
    <2>3. phase' \in Unjoined => phase \in Unjoined
        <3>1. CASE phase \in Joined
            BY <3>1, JoinedSteps DEF DiscoveryInv, Joined, Unjoined
        <3>2. CASE Begin \/ CascadeEnds \/ RefreshNative
            BY <3>2 DEF Begin, CascadeEnds, RefreshNative, Unjoined
        <3>3. CASE \E i \in DOMAIN chunks : Ask(i)
            BY <3>3 DEF Ask
        <3>4. CASE \E m \in DOMAIN checks : Refreshed(m) \/ Checked(m)
            BY <3>4 DEF Refreshed, Checked, resolver
        <3>5. CASE Abandon \/ JoinExternal
            BY <3>5 DEF Abandon, JoinExternal, Exit, Unjoined
        <3>6. CASE Requests \/ Preflight \/ NothingToDo \/ Approve \/ Plan
            BY <3>1, <3>6 DEF Requests, Preflight, NothingToDo, Approve, Plan, Joined
        <3>7. CASE UNCHANGED vars
            BY <3>7 DEF vars, resolver
        <3> QED
            BY <1>6, <3>2, <3>3, <3>4, <3>5, <3>6, <3>7 DEF Elsewhere
    <2>4. AurFailure \in failures' => AurFailure \in failures
        <3>1. CASE JoinExternal
            <4>1. failures' = failures \cup UNION {bad[m] : m \in DOMAIN bad}
                BY <3>1 DEF JoinExternal
            <4>2. \A m \in DOMAIN bad : AurFailure \notin bad[m]
                BY <1>0, OnlyTheAurFails DEF AurFailure
            <4> QED
                BY <4>1, <4>2
        <3> QED
            BY <1>6, <3>1, FailureMoves
    <2> QED
        BY <2>2, <2>3, <2>4 DEF AurInv
<1> QED
    BY <1>1, <1>2, <1>3, <1>4, <1>5, <1>6, StepKinds

-----------------------------------------------------------------------------
\* What is offered are updates, what is held back is held.
Unscoped == Unjoined \cup {"delays", "cascade", "resolved"}

OfferedInv ==
    /\ offered \subseteq Updates \ run.ignored
    /\ heldBack \subseteq HeldPackages
    /\ phase \in Unscoped => offered = {} /\ heldBack = {}

LEMMA ScopeMoves ==
    ASSUME [Next]_vars
    PROVE  \/ Scope
           \/ /\ offered' \subseteq offered /\ UNCHANGED heldBack
              /\ phase' \in Unscoped => phase \in Unscoped
              /\ phase \in Unscoped \/ UNCHANGED resolved
<1>1. CASE Resolve /\ UNCHANGED <<run, discovery, selection, plan>>
    <2>1. UNCHANGED <<offered, heldBack>>
        BY <1>1 DEF selection
    <2>2. phase \in Unscoped
        BY <1>1 DEF Resolve, Begin, ResolveNative, JoinFailed, JoinAnswered, Delays, Cascade,
                    CascadeEnds, Unscoped, Unjoined
    <2> QED
        BY <2>1, <2>2
<1>2. CASE \E i \in DOMAIN chunks : Ask(i) /\ UNCHANGED <<run, discovery, selection, plan>>
    BY <1>2 DEF Ask, selection, outcome
<1>3. CASE \E m \in DOMAIN checks : Refreshed(m) \/ Checked(m)
    BY <1>3 DEF Refreshed, Checked, resolver, selection, outcome
<1>4. CASE RefreshNative \/ Abandon
    BY <1>4 DEF RefreshNative, Abandon, Exit, selection, outcome, Unscoped, Unjoined
<1>5. CASE JoinExternal
    BY <1>5 DEF JoinExternal, outcome, Unscoped, Unjoined
<1>6. CASE Requests
    BY <1>6 DEF Requests, Exit, outcome, Unscoped, Unjoined
<1>7. CASE Preflight
    BY <1>7 DEF Preflight, Exit, outcome, selection, Unscoped, Unjoined
<1>8. CASE NothingToDo \/ Approve \/ Plan
    BY <1>8 DEF NothingToDo, Approve, Plan, Exit, outcome, selection, Unscoped, Unjoined
<1>9. CASE UNCHANGED vars
    BY <1>9 DEF vars, resolver, selection, outcome
<1> QED
    BY <1>1, <1>2, <1>3, <1>4, <1>5, <1>6, <1>7, <1>8, <1>9 DEF Next, Ended

LEMMA OfferedSteps == OfferedInv /\ [Next]_vars => OfferedInv'
<1> SUFFICES ASSUME OfferedInv, [Next]_vars PROVE OfferedInv'
    OBVIOUS
<1>0. run' = run
    BY RunStays
<1>1. CASE Scope
    <2>1. /\ offered' \subseteq Updates \ run.ignored /\ heldBack' \subseteq HeldPackages
          /\ phase' \notin Unscoped /\ resolved' = resolved
        BY <1>1 DEF Scope, Unscoped, Unjoined
    <2> QED
        BY <1>0, <2>1 DEF OfferedInv, Updates, HeldPackages, NeedsUpdate
<1>2. CASE /\ offered' \subseteq offered /\ UNCHANGED heldBack
           /\ phase' \in Unscoped => phase \in Unscoped
           /\ phase \in Unscoped \/ UNCHANGED resolved
    <2>1. CASE phase \in Unscoped
        BY <1>2, <2>1 DEF OfferedInv
    <2>2. CASE phase \notin Unscoped
        BY <1>0, <1>2, <2>2 DEF OfferedInv, Updates, HeldPackages, NeedsUpdate
    <2> QED
        BY <2>1, <2>2
<1> QED
    BY <1>1, <1>2, ScopeMoves

\* The requested targets are requests of the user that were accepted.
Accepted == {Item(t) : t \in {t \in ToSet(run.requests) : Acceptable(t)}}

RequestedInv ==
    /\ requested \in Seq(Accepted)
    /\ phase \in Joined \ {"requests"} \/ requested = << >>

LEMMA AcceptedIs ==
    ASSUME Known, NEW x \in Accepted
    PROVE  /\ x \in ItemType
           /\ x.name \notin run.ignored /\ x.name \notin heldBack
           /\ x.repo # Aur => Carries(x.repo, x.name) /\ ~Excluded(x.name, x.repo)
           /\ \/ x.name \notin cfg.owned /\ (Pin(x.name) = None \/ x.repo = Pin(x.name))
              \/ \E i \in DOMAIN run.requests :
                     run.requests[i].name = x.name /\ run.requests[i].repo = x.repo
<1>1. PICK t \in ToSet(run.requests) : Acceptable(t) /\ x = Item(t)
    BY DEF Accepted
<1>2. PICK p, r : p = t.name /\ r = SourceOf(t)
    OBVIOUS
<1>3. p \in Package
    BY <1>1, <1>2, PlanningAssumption DEF Known
<1>4. /\ x.name = p /\ x.repo = r
      /\ x = [name |-> p, repo |-> r, status |-> Status(p, Candidate(p, r).version)]
    BY <1>1, <1>2 DEF Item, Candidate
<1>5. /\ t.repo = None => p \notin cfg.owned
      /\ p \notin run.ignored /\ p \notin heldBack
      /\ r = Aur \/ (Carries(r, p) /\ ~Excluded(p, r))
    BY <1>1, <1>2 DEF Acceptable
<1>6. r \in ToSet(Order) \cup {Aur}
    BY <1>5 DEF Carries
<1>7. Status(p, Candidate(p, r).version) \in {"new", "upgrade", "downgrade", "current"}
    BY DEF Status
<1>8. x \in ItemType
    BY <1>3, <1>4, <1>6, <1>7 DEF ItemType
<1>9. t.repo # None => \E i \in DOMAIN run.requests :
                           run.requests[i].name = x.name /\ run.requests[i].repo = x.repo
    <2>1. PICK i \in DOMAIN run.requests : run.requests[i] = t
        BY DEF ToSet
    <2> QED
        BY <1>2, <1>4, <2>1 DEF SourceOf
<1>10. t.repo = None => Pin(p) = None \/ r = Pin(p)
    BY <1>2 DEF SourceOf
<1> QED
    BY <1>4, <1>5, <1>8, <1>9, <1>10

LEMMA AcceptedStays ==
    ASSUME UNCHANGED <<host, cfg, run, heldBack>>
    PROVE  Accepted' = Accepted
<1>1. \A p : /\ Pin(p)' = Pin(p) /\ Carriers(p)' = Carriers(p)
             /\ \A r : Candidate(p, r)' = Candidate(p, r)
             /\ \A r : Carries(r, p)' = Carries(r, p) /\ Excluded(p, r)' = Excluded(p, r)
    BY ChoiceStays
<1>2. \A t : SourceOf(t)' = SourceOf(t)
    BY <1>1 DEF SourceOf
<1>3. \A t : Item(t)' = Item(t)
    BY <1>1, <1>2 DEF Item, Status, Installed
<1>4. \A t : Acceptable(t)' = Acceptable(t)
    <2>1. \A p, r : TooYoung(p, r)' = TooYoung(p, r)
        BY DEF TooYoung, DelayOf
    <2> QED
        BY <1>1, <1>2, <2>1 DEF Acceptable
<1> QED
    BY <1>3, <1>4 DEF Accepted

\* The first spellings of what is eligible are requests.
LEMMA AskedIs ==
    ASSUME Known
    PROVE  FirstSpellings(Filtered(run.requests, Eligible)) \in Seq(ToSet(run.requests))
<1> DEFINE S == ToSet(run.requests)
           I == {i \in DOMAIN run.requests : Eligible(run.requests[i])}
           s == Kept(run.requests, I)
           J == {i \in DOMAIN s : \A j \in 1 .. i - 1 : s[j].name # s[i].name}
<1>1. run.requests \in Seq(S)
    BY PlanningAssumption DEF Known
<1>2. s \in Seq(S)
    <2> HIDE DEF I, S
    <2> QED
        BY <1>1, KeptInSeq
<1>3. Filtered(run.requests, Eligible) = s
    BY DEF Filtered
<1>4. FirstSpellings(s) = Kept(s, J)
    BY DEF FirstSpellings
<1>5. Kept(s, J) \in Seq(S)
    <2> HIDE DEF J, s, S
    <2> QED
        BY <1>2, KeptInSeq
<1> QED
    BY <1>3, <1>4, <1>5

LEMMA RequestedSteps ==
    Known /\ DiscoveryInv /\ RequestedInv /\ [Next]_vars => RequestedInv'
<1> SUFFICES ASSUME Known, DiscoveryInv, RequestedInv, [Next]_vars PROVE RequestedInv'
    OBVIOUS
<1>1. CASE phase \notin Joined
    <2>1. requested = << >>
        BY <1>1 DEF RequestedInv
    <2>2. requested' = requested
        <3>1. CASE JoinExternal
            BY <3>1 DEF JoinExternal
        <3>2. CASE Abandon
            BY <3>2 DEF Abandon, selection
        <3> QED
            BY <1>1, <3>1, <3>2, EarlySteps
    <2>3. << >> \in Seq(Accepted')
        OBVIOUS
    <2> QED
        BY <2>1, <2>2, <2>3 DEF RequestedInv
<1>2. CASE phase \in Joined
    <2>1. AllChecked
        BY <1>2 DEF DiscoveryInv
    <2>2. Accepted' = Accepted
        BY <1>2, <2>1, JoinedSteps, AcceptedStays
    <2>3. phase' \in Joined
        BY <1>2, <2>1, JoinedSteps
    <2>4. CASE Requests
        <3>1. PICK asked : asked = FirstSpellings(Filtered(run.requests, Eligible))
            OBVIOUS
        <3>2. asked \in Seq(ToSet(run.requests))
            BY <3>1, AskedIs
        <3>3. \/ requested' = requested /\ phase' = "over"
              \/ /\ \A i \in DOMAIN asked : Acceptable(asked[i])
                 /\ requested' = [i \in DOMAIN asked |-> Item(asked[i])]
                 /\ phase' = "preflight"
            BY <2>4, <3>1 DEF Requests, Exit
        <3>4. CASE requested' = requested /\ phase' = "over"
            BY <2>2, <3>4 DEF RequestedInv, Joined
        <3>5. CASE /\ \A i \in DOMAIN asked : Acceptable(asked[i])
                   /\ requested' = [i \in DOMAIN asked |-> Item(asked[i])]
                   /\ phase' = "preflight"
            <4>1. \A i \in DOMAIN asked : Item(asked[i]) \in Accepted
                BY <3>2, <3>5 DEF Accepted
            <4>2. requested' \in Seq(Accepted)
                BY <3>2, <3>5, <4>1
            <4> QED
                BY <2>2, <3>5, <4>2 DEF RequestedInv, Joined
        <3> QED
            BY <3>3, <3>4, <3>5
    <2>5. CASE Preflight
        <3>1. phase = "preflight"
            BY <2>5 DEF Preflight
        <3>2. requested \in Seq(Accepted)
            BY DEF RequestedInv
        <3>3. requested' = requested \/ \E I : requested' = Kept(requested, I)
            BY <2>5 DEF Preflight, selection, Filtered
        <3>4. requested' \in Seq(Accepted)
            BY <3>2, <3>3, KeptInSeq
        <3>5. phase' \in Joined \ {"requests"}
            BY <2>5 DEF Preflight, Exit, Joined
        <3> QED
            BY <2>2, <3>4, <3>5 DEF RequestedInv
    <2>6. CASE NothingToDo \/ Approve \/ Plan
        <3>1. requested' = requested /\ phase' \in Joined \ {"requests"}
            BY <2>6 DEF NothingToDo, Approve, Plan, Exit, selection, Joined
        <3> QED
            BY <2>2, <3>1 DEF RequestedInv
    <2>7. CASE UNCHANGED <<phase, selection, plan>>
        BY <2>2, <2>7 DEF RequestedInv, selection
    <2> QED
        BY <1>2, <2>1, <2>4, <2>5, <2>6, <2>7, JoinedSteps
<1> QED
    BY <1>1, <1>2

\* While a failed check of the AUR is known, nothing of it is planned, and
\* what a provider found and no failure sets aside is kept.
Discovered(m) ==
    \A p \in found[m] : <<m, p>> \in external \/ (m = Sources /\ p \in run.ignored)

KeepingInv ==
    /\ phase \in {"requests", "preflight"} \cup Planning =>
           \A m \in DOMAIN checks : m \notin skipped => Discovered(m)
    /\ AurFailure \in failures /\ phase \in Planning =>
           \A i \in DOMAIN requested : requested[i].repo # Aur

\* A failure is one of the AUR, of a provider, or of a package that its
\* source no longer reports.
LEMMA LostIsNotFound ==
    ASSUME Known, DiscoveryInv, FailuresInv, phase \in Joined,
           NEW f \in failures, NEW p \in found[Sources], Sources \in DOMAIN checks
    PROVE  f.manager # p
<1>1. p \in run.offers[Sources]
    BY DEF DiscoveryInv
<1>2. p \notin {Aur} \cup ToSet(Providers)
    BY <1>1, PlanningAssumption DEF Known
<1>3. CASE f = AurFailure
    BY <1>2, <1>3 DEF AurFailure
<1>4. CASE \E m \in DOMAIN bad : f \in bad[m]
    BY <1>2, <1>4 DEF DiscoveryInv
<1> QED
    BY <1>3, <1>4 DEF FailuresInv

LEMMA PreflightKeeps ==
    ASSUME Known, DiscoveryInv, FailuresInv, RequestedInv, KeepingInv, CountingInv,
           Preflight
    PROVE  KeepingInv'
<1> DEFINE lost == {f.manager : f \in failures}
           gaps == {m \in Questioned(lost) : run.options[m] = "unsupported"}
           out == lost \cup gaps
<1>1. /\ phase = "preflight" /\ UNCHANGED <<run, checks, found, failures>>
      /\ \/ phase' = "over"
         \/ /\ phase' = "targets" /\ skipped' = out
            /\ external' = {u \in external : IncludedUpdate(out, u)}
            /\ requested' = Filtered(requested, LAMBDA i : Included(out, Aur) \/ i.repo # Aur)
    BY DEF Preflight, Exit, discovery
<1>2. CASE phase' = "over"
    BY <1>2 DEF KeepingInv, Planning
<1>3. CASE /\ phase' = "targets" /\ skipped' = out
           /\ external' = {u \in external : IncludedUpdate(out, u)}
           /\ requested' = Filtered(requested, LAMBDA i : Included(out, Aur) \/ i.repo # Aur)
    <2>1. ASSUME NEW m \in DOMAIN checks, m \notin skipped', NEW p \in found[m],
                 ~(m = Sources /\ p \in run.ignored)
          PROVE  <<m, p>> \in external'
        <3>1. <<m, p>> \in external
            BY <1>1, <2>1 DEF KeepingInv, CountingInv, Gathering, Discovered
        <3>2. m \notin out
            BY <1>3, <2>1
        <3>3. m = Sources => p \notin out
            <4>1. SUFFICES ASSUME m = Sources PROVE p \notin lost /\ p \notin gaps
                OBVIOUS
            <4>2. p \notin lost
                BY <1>1, <2>1, <4>1, LostIsNotFound DEF Joined
            <4>3. gaps \subseteq {Aur} \cup ToSet(Providers)
                BY DEF Questioned, DiscoveryInv
            <4>4. p \in run.offers[Sources]
                BY <2>1, <4>1 DEF DiscoveryInv
            <4>5. p \notin {Aur} \cup ToSet(Providers)
                BY <4>4, PlanningAssumption DEF Known
            <4> HIDE DEF lost, gaps
            <4> QED
                BY <4>2, <4>3, <4>5
        <3> HIDE DEF out
        <3> QED
            BY <1>3, <3>1, <3>2, <3>3 DEF IncludedUpdate
    <2>2. ASSUME AurFailure \in failures, NEW i \in DOMAIN requested'
          PROVE  requested'[i].repo # Aur
        <3>1. Aur \in out
            BY <2>2 DEF AurFailure
        <3> DEFINE I == {j \in DOMAIN requested : Included(out, Aur) \/ requested[j].repo # Aur}
        <3>2. requested' = Kept(requested, I)
            BY <1>3 DEF Filtered
        <3>3. \A j \in I : requested[j].repo # Aur
            BY <3>1 DEF Included
        <3>4. requested \in Seq(Accepted)
            BY DEF RequestedInv
        <3> HIDE DEF I
        <3>5. \E j \in DOMAIN requested : j \in I /\ Kept(requested, I)[i] = requested[j]
            BY <2>2, <3>2, <3>4, KeptInSeq
        <3> QED
            BY <3>2, <3>3, <3>5
    <2> QED
        BY <1>1, <1>3, <2>1, <2>2 DEF KeepingInv, Discovered
<1> QED
    BY <1>1, <1>2, <1>3

LEMMA KeepingStays ==
    ASSUME KeepingInv, UNCHANGED <<run, discovery, failures, external, requested, skipped>>,
           phase' \in {"requests", "preflight"} \cup Planning =>
               phase \in {"requests", "preflight"} \cup Planning,
           phase' \in Planning => phase \in Planning
    PROVE  KeepingInv'
<1>1. \A m \in DOMAIN checks : Discovered(m) => Discovered(m)'
    BY DEF Discovered, discovery
<1> QED
    BY <1>1 DEF KeepingInv, discovery

LEMMA KeepingSteps ==
    /\ Known /\ DiscoveryInv /\ FailuresInv /\ RequestedInv /\ KeepingInv /\ CountingInv
    /\ [Next]_vars
    => KeepingInv'
<1> SUFFICES ASSUME Known, DiscoveryInv, FailuresInv, RequestedInv, KeepingInv, CountingInv,
                    [Next]_vars
             PROVE  KeepingInv'
    OBVIOUS
<1>0. run' = run
    BY RunStays
<1>1. CASE phase \notin Joined
    <2>1. CASE JoinExternal
        <3>1. /\ phase' = "requests" /\ UNCHANGED <<checks, found, bad>>
              /\ external' = UNION {{m} \X (found[m] \ IF m = Sources THEN run.ignored ELSE {}) :
                                        m \in DOMAIN found}
            BY <2>1 DEF JoinExternal, discovery
        <3>2. \A m \in DOMAIN checks : Discovered(m)'
            <4> SUFFICES ASSUME NEW m \in DOMAIN checks, NEW p \in found[m],
                                ~(m = Sources /\ p \in run.ignored)
                         PROVE  <<m, p>> \in external'
                BY <1>0, <3>1 DEF Discovered
            <4>1. m \in DOMAIN found
                BY DEF DiscoveryInv
            <4> QED
                BY <3>1, <4>1
        <3> QED
            BY <3>1, <3>2 DEF KeepingInv, Planning
    <2>2. CASE Abandon
        BY <2>2 DEF Abandon, Exit, KeepingInv, Planning
    <2>3. CASE phase' \notin Joined
        BY <2>3 DEF KeepingInv, Planning, Joined
    <2> QED
        BY <1>1, <2>1, <2>2, <2>3, EarlySteps
<1>2. CASE phase \in Joined
    <2>1. AllChecked
        BY <1>2 DEF DiscoveryInv
    <2>2. UNCHANGED <<run, discovery, failures>>
        BY <1>2, <2>1, JoinedSteps
    <2>3. CASE Requests
        <3>1. /\ phase = "requests" /\ phase' \in {"preflight", "over"}
              /\ UNCHANGED <<external, skipped>>
            BY <2>3 DEF Requests, Exit
        <3>2. \A m \in DOMAIN checks : Discovered(m) => Discovered(m)'
            BY <2>2, <3>1 DEF Discovered, discovery
        <3> QED
            BY <2>2, <3>1, <3>2 DEF KeepingInv, discovery, Planning
    <2>4. CASE Preflight
        BY <2>4, PreflightKeeps
    <2>5. CASE NothingToDo \/ Approve \/ Plan
        <3>1. /\ phase \in Planning /\ UNCHANGED <<external, requested, skipped>>
            BY <2>5 DEF NothingToDo, Approve, Plan, selection, Planning
        <3> QED
            BY <2>2, <3>1, KeepingStays
    <2>6. CASE UNCHANGED <<phase, selection, plan>>
        BY <2>2, <2>6, KeepingStays DEF selection, plan
    <2> QED
        BY <1>2, <2>1, <2>3, <2>4, <2>5, <2>6, JoinedSteps
<1> QED
    BY <1>1, <1>2

\* What the last steps write.
LastInv ==
    /\ code \in {None, 0, 1, 2}
    /\ configured \subseteq ToSet(Providers)

LEMMA LastSteps == DiscoveryInv /\ LastInv /\ [Next]_vars => LastInv'
<1> SUFFICES ASSUME DiscoveryInv, LastInv, [Next]_vars PROVE LastInv'
    OBVIOUS
<1>1. CASE phase \notin Joined
    <2>1. CASE JoinExternal
        BY <2>1 DEF JoinExternal, plan, LastInv
    <2>2. CASE Abandon
        BY <2>2 DEF Abandon, Exit, LastInv
    <2>3. CASE UNCHANGED plan
        BY <2>3 DEF plan, LastInv
    <2> QED
        BY <1>1, <2>1, <2>2, <2>3, EarlySteps
<1>2. CASE phase \in Joined
    <2>1. AllChecked
        BY <1>2 DEF DiscoveryInv
    <2>2. CASE Requests
        BY <2>2 DEF Requests, Exit, LastInv
    <2>3. CASE Preflight
        <3>1. /\ code' = code \/ code' = 2
              /\ configured' = configured \/ configured' \subseteq DOMAIN checks
            BY <2>3 DEF Preflight, Exit
        <3> QED
            BY <3>1 DEF LastInv, DiscoveryInv
    <2>4. CASE NothingToDo \/ Approve \/ Plan
        BY <2>4 DEF NothingToDo, Approve, Plan, Exit, LastInv
    <2>5. CASE UNCHANGED <<phase, selection, plan>>
        BY <2>5 DEF plan, LastInv
    <2> QED
        BY <1>2, <2>1, <2>2, <2>3, <2>4, <2>5, JoinedSteps
<1> QED
    BY <1>1, <1>2

\* The worker of the AUR.
WorkerInv ==
    /\ DOMAIN tries = DOMAIN chunks /\ DOMAIN answers = DOMAIN chunks
    /\ \A i \in DOMAIN chunks : tries[i] \in 0 .. MaxAttempts
    /\ \A i \in DOMAIN chunks : answers[i] \in {"asking", "answered", "failed"}

LEMMA WorkerMoves ==
    [Next]_vars => Begin \/ (\E i \in DOMAIN chunks : Ask(i)) \/ UNCHANGED worker
<1> SUFFICES ASSUME [Next]_vars, ~Begin, ~\E i \in DOMAIN chunks : Ask(i)
             PROVE  UNCHANGED worker
    OBVIOUS
<1>1. CASE Resolve
    BY <1>1 DEF Resolve, ResolveNative, JoinFailed, JoinAnswered, Delays, Cascade, CascadeEnds
<1>2. CASE \E m \in DOMAIN checks : Refreshed(m) \/ Checked(m)
    BY <1>2 DEF Refreshed, Checked, resolver
<1>3. CASE RefreshNative \/ Abandon \/ Scope \/ JoinExternal \/ Requests
    BY <1>3 DEF RefreshNative, Abandon, Scope, JoinExternal, Requests
<1>4. CASE Preflight \/ NothingToDo \/ Approve \/ Plan
    BY <1>4 DEF Preflight, NothingToDo, Approve, Plan
<1>5. CASE UNCHANGED vars
    BY <1>5 DEF vars, resolver
<1> QED
    BY <1>1, <1>2, <1>3, <1>4, <1>5 DEF Next, Ended

LEMMA WorkerSteps == WorkerInv /\ [Next]_vars => WorkerInv'
<1> SUFFICES ASSUME WorkerInv, [Next]_vars PROVE WorkerInv'
    OBVIOUS
<1>0. MaxAttempts \in Nat \ {0}
    BY ResolverAssumption
<1>1. CASE Begin
    BY <1>0, <1>1 DEF Begin, WorkerInv
<1>2. CASE \E i \in DOMAIN chunks : Ask(i)
    <2>1. PICK i \in DOMAIN chunks : Ask(i)
        BY <1>2
    <2>2. /\ chunks' = chunks /\ tries[i] < MaxAttempts
          /\ tries' = [tries EXCEPT ![i] = @ + 1]
          /\ \E a \in {"answered", "failed"} :
                 answers' = answers \/ answers' = [answers EXCEPT ![i] = a]
        BY <2>1 DEF Ask
    <2>3. \A j \in DOMAIN chunks : tries'[j] \in 0 .. MaxAttempts
        BY <1>0, <2>1, <2>2 DEF WorkerInv
    <2>4. \A j \in DOMAIN chunks : answers'[j] \in {"asking", "answered", "failed"}
        BY <2>1, <2>2 DEF WorkerInv
    <2> QED
        BY <2>2, <2>3, <2>4 DEF WorkerInv
<1>3. CASE UNCHANGED worker
    BY <1>3 DEF worker, WorkerInv
<1> QED
    BY <1>1, <1>2, <1>3, WorkerMoves

-----------------------------------------------------------------------------
\* The native targets, and what comes with them.
TargetType == (ToSet(Order) \cup {None}) \X Package
AddedType == [name : Package, repo : ToSet(Order) \cup {None}]

LEMMA OrderIsFinite == IsFiniteSet(ToSet(Order))
<1>1. Order \in Seq(ToSet(Order))
    BY ResolverAssumption
<1>2. /\ Len(Order) \in Nat /\ Order \in [1 .. Len(Order) -> ToSet(Order)]
      /\ DOMAIN Order = 1 .. Len(Order)
    BY <1>1
<1>3. \A r \in ToSet(Order) : \E i \in 1 .. Len(Order) : Order[i] = r
    BY <1>2 DEF ToSet
<1>4. Order \in Surjection(1 .. Len(Order), ToSet(Order))
    BY <1>2, <1>3 DEF Surjection
<1>5. IsFiniteSet(1 .. Len(Order))
    BY <1>2, FS_Interval
<1> QED
    BY <1>4, <1>5, FS_Surjection

LEMMA TargetsAreFinite == ASSUME NEW S \in SUBSET TargetType PROVE IsFiniteSet(S)
<1>1. IsFiniteSet(ToSet(Order) \cup {None}) /\ IsFiniteSet(Package)
    BY OrderIsFinite, FS_AddElement, ResolverAssumption
<1>2. IsFiniteSet(TargetType)
    BY <1>1, FS_Product DEF TargetType
<1> QED
    BY <1>2, FS_Subset

LEMMA FoundIs ==
    ASSUME NEW t \in TargetType
    PROVE  /\ Found(t, Order) \in ToSet(Order) \cup {None}
           /\ t[1] # None => Found(t, Order) = t[1]
           /\ t[1] = None => Found(t, Order) = First(Carriers(t[2]))
<1>1. t[1] = None => Found(t, Order) = First(Carriers(t[2]))
    BY DEF Found, Carriers
<1>2. t[1] # None => Found(t, Order) = t[1]
    BY DEF Found
<1>3. First(Carriers(t[2])) \in ToSet(Order) \cup {None}
    BY TopCarries
<1> QED
    BY <1>1, <1>2, <1>3 DEF TargetType

\* The solver adds packages with the repository they come from.
LEMMA AddsAreTyped ==
    ASSUME NEW ts, ToSet(ts) \subseteq TargetType
    PROVE  Adds(ts) \subseteq AddedType
<1> DEFINE current(t) == Spells(host.sync[Found(t, Order)][t[2]], host.installed[t[2]])
           staged == {[name |-> t[2], repo |-> Found(t, Order)] :
                         t \in {t \in ToSet(ts) : ~(Installed(t[2]) /\ current(t))}}
           wants(s) == {d \in Package : \E a \in s : host.needs[a.name][d] > 0
                            /\ d \notin {b.name : b \in s} /\ host.needs[a.name][d] > host.installed[d]}
           more(s) == s \cup {[name |-> d, repo |-> First(Carriers(d))] : d \in wants(s)}
           N == Cardinality(Package)
           grown == CHOOSE g : g = [n \in 0 .. N |-> IF n = 0 THEN staged ELSE more(g[n - 1])]
<1>1. Adds(ts) = grown[N]
    BY DEF Adds
<1>2. staged \subseteq AddedType
    <2> SUFFICES ASSUME NEW t \in ToSet(ts)
                 PROVE  [name |-> t[2], repo |-> Found(t, Order)] \in AddedType
        OBVIOUS
    <2>1. t \in TargetType /\ t[2] \in Package
        BY DEF TargetType
    <2> QED
        BY <2>1, FoundIs DEF AddedType
<1>3. ASSUME NEW s \in SUBSET AddedType
      PROVE  more(s) \subseteq AddedType
    <2>1. \A d \in Package : [name |-> d, repo |-> First(Carriers(d))] \in AddedType
        BY TopCarries DEF AddedType
    <2>2. wants(s) \subseteq Package
        OBVIOUS
    <2> HIDE DEF wants
    <2> QED
        BY <2>1, <2>2
<1>4. N \in Nat
    BY FS_CardinalityType, ResolverAssumption
<1> HIDE DEF staged, more, N
<1> DEFINE Is(n, g) == g = [m \in 0 .. n |-> IF m = 0 THEN staged ELSE more(g[m - 1])]
           T == {n \in Nat : \E g : Is(n, g)}
<1>5. 0 \in T
    <2>1. Is(0, [m \in 0 .. 0 |-> staged])
        OBVIOUS
    <2> QED
        BY <2>1
<1>6. ASSUME NEW n \in Nat, n \in T
      PROVE  n + 1 \in T
    <2>1. PICK g : Is(n, g)
        BY <1>6
    <2> DEFINE last == more(g[n])
               h == [m \in 0 .. n + 1 |-> IF m = n + 1 THEN last ELSE g[m]]
    <2>2. \A m \in 0 .. n : g[m] = IF m = 0 THEN staged ELSE more(g[m - 1])
        BY <2>1, Zenon
    <2>3. h[n + 1] = last /\ (\A m \in 0 .. n : h[m] = g[m]) /\ h = [m \in 0 .. n + 1 |-> h[m]]
        OBVIOUS
    <2>4. ASSUME NEW m \in 0 .. n + 1
          PROVE  h[m] = IF m = 0 THEN staged ELSE more(h[m - 1])
        <3> HIDE DEF h
        <3>1. CASE m = n + 1
            <4>1. m - 1 = n /\ n \in 0 .. n /\ m # 0
                BY <3>1
            <4>2. h[m] = last /\ h[m - 1] = g[n]
                BY <2>3, <3>1, <4>1
            <4> QED
                BY <4>1, <4>2
        <3>2. CASE m \in 0 .. n /\ m # 0
            <4>1. m - 1 \in 0 .. n
                BY <3>2
            <4>2. h[m] = g[m] /\ h[m - 1] = g[m - 1]
                BY <2>3, <3>2, <4>1
            <4> QED
                BY <2>2, <3>2, <4>2
        <3>3. CASE m = 0
            BY <2>2, <2>3, <3>3
        <3> QED
            BY <3>1, <3>2, <3>3
    <2> HIDE DEF h, last
    <2>5. Is(n + 1, h)
        BY <2>3, <2>4
    <2> QED
        BY <2>5
<1>7. \E g : Is(N, g)
    <2>1. Nat \subseteq T
        <3> HIDE DEF T
        <3> QED
            BY <1>5, <1>6, Induction
    <2> QED
        BY <1>4, <2>1
<1>8. Is(N, grown)
    BY <1>7
<1> HIDE DEF grown
<1>9. /\ grown[0] = staged
      /\ \A n \in 0 .. N : n # 0 => grown[n] = more(grown[n - 1])
    BY <1>4, <1>8
<1> DEFINE U == {n \in Nat : n <= N => grown[n] \subseteq AddedType}
<1>10. 0 \in U
    BY <1>2, <1>9
<1>11. ASSUME NEW n \in Nat, n \in U
       PROVE  n + 1 \in U
    <2> SUFFICES ASSUME n + 1 <= N
                 PROVE  grown[n + 1] \subseteq AddedType
        OBVIOUS
    <2>1. grown[n] \subseteq AddedType
        BY <1>4, <1>11
    <2>2. grown[n + 1] = more(grown[n])
        BY <1>4, <1>9
    <2> QED
        BY <1>3, <2>1, <2>2
<1>12. Nat \subseteq U
    <2> HIDE DEF U
    <2> QED
        BY <1>10, <1>11, Induction
<1> QED
    BY <1>1, <1>4, <1>12

\* A target that names its repository is taken from it, in every order.
LEMMA NamedIsTaken ==
    ASSUME NEW t, t[1] # None
    PROVE  Taken(t) = t[1]
BY DEF Taken, Found

\* A routine target: what the resolution chose for a package that is offered.
LEMMA RoutineObeys ==
    ASSUME ResolutionInv, OfferedInv, NEW p \in Routine, ~IsAur(p)
    PROVE  TargetOf(p) \in TargetType /\ Obeys(TargetOf(p))
<1>1. /\ p \in Updates \ run.ignored /\ p \notin heldBack /\ p \notin Names /\ p \in Explicit
    BY DEF Routine, OfferedInv, Updates, HeldPackages, Explicit
<1>2. PICK e, r : e = resolved[p] /\ r = Choice(p).repo
    OBVIOUS
<1>3. /\ p \in Package /\ e # None /\ Comes(p, e) /\ e.candidate # None /\ e.change # "current"
    BY <1>1, <1>2, UpdateComes DEF ResolutionInv, Updates, NeedsUpdate
<1>4. /\ e \in EntryType /\ p \notin cfg.owned /\ e.top = First(Carriers(p))
      /\ e.state = Choice(p).state /\ e.candidate = Candidate(p, r)
      /\ e.change = Change(p, e.candidate, e.state) /\ r # None
    BY <1>2, <1>3 DEF Comes
<1>5. r # Aur /\ e.candidate.repo = r
    BY <1>2, <1>3, <1>4 DEF IsAur, Candidate
<1>6. r \in ToSet(Order) /\ Carries(r, p)
    BY <1>2, <1>4, <1>5, ChoiceIs
<1>7. e.candidate.version = host.sync[r][p]
    BY <1>4, <1>5 DEF Candidate
<1>8. e.top # None
    BY <1>4, <1>6, TopCarries
<1>9. PICK t : t = TargetOf(p)
    OBVIOUS
<1>10. t = <<IF e.state = "custom" \/ Diverted(e) THEN r ELSE None, p>>
    BY <1>2, <1>5, <1>9 DEF TargetOf
<1>11. t \in TargetType /\ t[2] = p
    BY <1>3, <1>6, <1>10 DEF TargetType
<1>12. e.state # "sticky" => Found(t, Order) = r
    <2>1. CASE e.state = "custom" \/ Diverted(e)
        <3>1. t[1] = r
            BY <1>10, <2>1
        <3> QED
            BY <1>4, <1>11, <3>1, FoundIs
    <2>2. CASE e.state = "default" /\ ~Diverted(e)
        <3>1. t[1] = None /\ r = e.top
            BY <1>3, <1>5, <1>8, <1>10, <2>2 DEF Diverted
        <3> QED
            BY <1>4, <1>11, <3>1, FoundIs
    <2> QED
        BY <1>4, <2>1, <2>2 DEF EntryType, States
<1>13. Pin(p) # None => Taken(t) = Pin(p)
    <2> SUFFICES ASSUME Pin(p) # None PROVE Taken(t) = Pin(p)
        OBVIOUS
    <2>1. e.state = "custom" /\ r = Pin(p)
        BY <1>2, <1>4, ChoiceIs
    <2>2. t[1] = r
        BY <1>10, <2>1
    <2> QED
        BY <1>4, <2>1, <2>2, NamedIsTaken
<1>14. ASSUME Pin(p) = None, e.state # "sticky"
       PROVE  /\ Newer(host.sync[r][p], host.installed[p])
              /\ ~(cfg.pinning /\ Excluded(p, r))
    <2>1. e.state = "default"
        BY <1>2, <1>4, <1>14, ChoiceIs DEF States
    <2>2. ~(cfg.pinning /\ Excluded(p, r))
        BY <1>2, <1>4, <1>5, <2>1, ChoiceIs
    <2>3. Newer(e.candidate.version, host.installed[p])
        BY <1>3, <1>4, <2>1 DEF Change
    <2> QED
        BY <1>7, <2>2, <2>3
<1>15. ASSUME Pin(p) = None, e.state # "sticky", Foreseen(t)
       PROVE  /\ Newer(host.sync[Taken(t)][p], host.installed[p])
              /\ ~(cfg.pinning /\ Excluded(p, Taken(t)))
    <2>1. Taken(t) = r
        BY <1>12, <1>15 DEF Foreseen
    <2> QED
        BY <1>14, <1>15, <2>1
<1> QED
    BY <1>1, <1>2, <1>4, <1>9, <1>11, <1>13, <1>15 DEF Obeys

\* A requested target.
LEMMA RequestObeys ==
    ASSUME Known, NEW x \in Accepted, x.repo # Aur, x.name \in Names
    PROVE  <<x.repo, x.name>> \in TargetType /\ Obeys(<<x.repo, x.name>>)
<1> DEFINE t == <<x.repo, x.name>>
<1>1. /\ x \in ItemType
      /\ x.name \notin run.ignored /\ x.name \notin heldBack /\ ~Excluded(x.name, x.repo)
      /\ \/ x.name \notin cfg.owned /\ (Pin(x.name) = None \/ x.repo = Pin(x.name))
         \/ \E i \in DOMAIN run.requests :
                run.requests[i].name = x.name /\ run.requests[i].repo = x.repo
    BY AcceptedIs
<1>2. t \in TargetType /\ t[1] = x.repo /\ t[2] = x.name /\ x.repo \in ToSet(Order)
    BY <1>1 DEF TargetType, ItemType
<1>3. x.repo # None
    BY <1>2, ResolverAssumption
<1> HIDE DEF t
<1>4. Taken(t) = x.repo
    BY <1>2, <1>3, NamedIsTaken
<1>5. x.name \in Explicit /\ x.name \notin Routine
    BY DEF Explicit, Routine
<1>6. Obeys(t)
    BY <1>1, <1>2, <1>4, <1>5 DEF Obeys
<1> QED
    BY <1>2, <1>6 DEF t

\* A dependency that the solver adds.
LEMMA DependencyObeys ==
    ASSUME NEW a \in AddedType, a.repo # None, a.name \notin Explicit, ~Installed(a.name),
           a.name \notin run.ignored
    PROVE  Obeys(<<a.repo, a.name>>)
<1>1. a.name \notin Routine /\ a.name \notin Names
    BY DEF Explicit
<1>2. <<a.repo, a.name>>[2] = a.name
    OBVIOUS
<1> QED
    BY <1>1, <1>2 DEF Obeys

LEMMA ObeysStays ==
    ASSUME UNCHANGED <<host, cfg, run, resolved, offered, heldBack, requested>>, NEW t
    PROVE  Obeys(t)' = Obeys(t)
<1>1. \A p : /\ Pin(p)' = Pin(p)
             /\ \A r : Carries(r, p)' = Carries(r, p) /\ Excluded(p, r)' = Excluded(p, r)
    BY ChoiceStays
<1>2. Taken(t)' = Taken(t) /\ Foreseen(t)' = Foreseen(t)
    BY <1>1 DEF Taken, Foreseen, Found, Filtered
<1>3. Names' = Names /\ Routine' = Routine /\ Explicit' = Explicit
    BY DEF Names, Routine, Explicit
<1> QED
    BY <1>1, <1>2, <1>3 DEF Obeys, Installed

LEMMA JoinedObey ==
    ASSUME NEW s \in Seq(TargetType), NEW r \in Seq(TargetType),
           \A i \in DOMAIN s : Obeys(s[i]), \A i \in DOMAIN r : Obeys(r[i])
    PROVE  s \o r \in Seq(TargetType) /\ \A i \in DOMAIN (s \o r) : Obeys((s \o r)[i])
<1>1. PICK q : q = s \o r
    OBVIOUS
<1>2. /\ q \in Seq(TargetType) /\ Len(q) = Len(s) + Len(r)
      /\ \A i \in 1 .. Len(s) : q[i] = s[i]
      /\ \A i \in Len(s) + 1 .. Len(q) : q[i] = r[i - Len(s)]
      /\ Len(s) \in Nat /\ Len(r) \in Nat
    BY <1>1
<1>3. ASSUME NEW i \in DOMAIN q
      PROVE  Obeys(q[i])
    <2>1. i \in 1 .. Len(s) \/ (i \in Len(s) + 1 .. Len(q) /\ i - Len(s) \in 1 .. Len(r))
        BY <1>2
    <2>2. DOMAIN s = 1 .. Len(s) /\ DOMAIN r = 1 .. Len(r)
        OBVIOUS
    <2> QED
        BY <1>2, <2>1, <2>2
<1> QED
    BY <1>1, <1>2, <1>3

LEMMA TargetsObey ==
    ASSUME ResolutionInv, OfferedInv, RequestedInv
    PROVE  Targets \in Seq(TargetType) /\ \A i \in DOMAIN Targets : Obeys(Targets[i])
<1> DEFINE chosen == {TargetOf(p) : p \in {p \in Routine : ~IsAur(p)}}
           I == {i \in DOMAIN requested : requested[i].repo # Aur}
           native == Kept(requested, I)
           asked == [i \in DOMAIN native |-> <<native[i].repo, native[i].name>>]
<1>1. Targets = SetToSeq(chosen) \o asked
    BY DEF Targets, Filtered
<1>2. chosen \subseteq TargetType /\ \A t \in chosen : Obeys(t)
    BY RoutineObeys
<1>3. PICK s : s = SetToSeq(chosen)
    OBVIOUS
<1>4. s \in Seq(chosen)
    <2>1. IsFiniteSet(chosen)
        BY <1>2, TargetsAreFinite
    <2> HIDE DEF chosen
    <2> QED
        BY <1>3, <2>1, SetToSeqLists
<1>5. PICK q : q = native
    OBVIOUS
<1>6. /\ q \in Seq(Accepted)
      /\ \A i \in DOMAIN q : \E j \in DOMAIN requested : j \in I /\ q[i] = requested[j]
    <2>1. requested \in Seq(Accepted)
        BY DEF RequestedInv
    <2> HIDE DEF I
    <2> QED
        BY <1>5, <2>1, KeptInSeq
<1>7. ASSUME NEW i \in DOMAIN q
      PROVE  <<q[i].repo, q[i].name>> \in TargetType /\ Obeys(<<q[i].repo, q[i].name>>)
    <2>1. q[i] \in Accepted
        BY <1>6
    <2>2. q[i].repo # Aur /\ q[i].name \in Names
        BY <1>6 DEF Names
    <2> QED
        BY <2>1, <2>2, RequestObeys DEF ResolutionInv
<1>8. PICK r : r = [i \in DOMAIN q |-> <<q[i].repo, q[i].name>>]
    OBVIOUS
<1>9. r \in Seq(TargetType) /\ \A i \in DOMAIN r : Obeys(r[i])
    <2>1. DOMAIN q = 1 .. Len(q) /\ Len(q) \in Nat
        BY <1>6
    <2> QED
        BY <1>7, <1>8, <2>1
<1>10. s \in Seq(TargetType) /\ \A i \in DOMAIN s : Obeys(s[i])
    <2>1. \A i \in DOMAIN s : s[i] \in chosen
        BY <1>4
    <2>2. s \in Seq(TargetType)
        <3>1. DOMAIN s = 1 .. Len(s) /\ Len(s) \in Nat /\ s = [i \in 1 .. Len(s) |-> s[i]]
            BY <1>4
        <3> HIDE DEF chosen
        <3> QED
            BY <1>2, <2>1, <3>1
    <2> HIDE DEF chosen
    <2> QED
        BY <1>2, <2>1, <2>2
<1>11. Targets = s \o r
    BY <1>1, <1>3, <1>5, <1>8
<1> QED
    BY <1>9, <1>10, <1>11, JoinedObey

\* The approved plan.
LEMMA ApprovalObeys ==
    ASSUME ResolutionInv, OfferedInv, RequestedInv, Approve
    PROVE  PolicyIsObeyed'
<1> DEFINE adds == Adds(Targets)
           pulled == {a \in adds : a.name \notin Explicit}
           new == {<<a.repo, a.name>> : a \in {a \in pulled : ~Installed(a.name)}}
<1>1. /\ UNCHANGED <<host, cfg, run, resolved, offered, heldBack, requested>>
      /\ \/ phase' = "over"
         \/ /\ targets' = Targets \o SetToSeq(new)
            /\ ~Unsatisfied(adds, Removes(Targets)) /\ \A a \in pulled : a.name \notin run.ignored
    BY DEF Approve, Exit, outcome, selection
<1>2. Targets \in Seq(TargetType) /\ \A i \in DOMAIN Targets : Obeys(Targets[i])
    BY TargetsObey
<1>3. adds \subseteq AddedType
    <2>1. ToSet(Targets) \subseteq TargetType
        BY <1>2 DEF ToSet
    <2> QED
        BY <2>1, AddsAreTyped
<1>4. CASE phase' = "over"
    BY <1>4 DEF PolicyIsObeyed
<1>5. CASE /\ targets' = Targets \o SetToSeq(new)
           /\ ~Unsatisfied(adds, Removes(Targets)) /\ \A a \in pulled : a.name \notin run.ignored
    <2>1. \A a \in adds : a.repo # None
        BY <1>5 DEF Unsatisfied
    <2>2. \A t \in new : t \in TargetType /\ Obeys(t)
        <3> SUFFICES ASSUME NEW a \in adds, a.name \notin Explicit, ~Installed(a.name)
                     PROVE  <<a.repo, a.name>> \in TargetType /\ Obeys(<<a.repo, a.name>>)
            OBVIOUS
        <3>1. a \in AddedType /\ a.repo # None /\ a.name \notin run.ignored
            BY <1>3, <1>5, <2>1
        <3>2. <<a.repo, a.name>> \in TargetType
            BY <3>1 DEF AddedType, TargetType
        <3> QED
            BY <3>1, <3>2, DependencyObeys
    <2>3. PICK s : s = SetToSeq(new)
        OBVIOUS
    <2>4. s \in Seq(new)
        <3>1. IsFiniteSet(new)
            BY <2>2, TargetsAreFinite
        <3> HIDE DEF new
        <3> QED
            BY <2>3, <3>1, SetToSeqLists
    <2>5. s \in Seq(TargetType) /\ \A i \in DOMAIN s : Obeys(s[i])
        <3>1. new \subseteq TargetType /\ \A t \in new : Obeys(t)
            BY <2>2
        <3> HIDE DEF new
        <3>2. \A i \in DOMAIN s : s[i] \in new
            BY <2>4
        <3>3. DOMAIN s = 1 .. Len(s) /\ Len(s) \in Nat /\ s = [i \in 1 .. Len(s) |-> s[i]]
            BY <2>4
        <3> QED
            BY <3>1, <3>2, <3>3
    <2>6. PICK q : q = Targets \o s
        OBVIOUS
    <2>7. \A i \in DOMAIN q : Obeys(q[i])
        BY <1>2, <2>5, <2>6, JoinedObey
    <2>8. targets' = q
        BY <1>5, <2>3, <2>6
    <2>9. \A t \in ToSet(q) : Obeys(t)
        BY <2>7 DEF ToSet
    <2>10. \A t : Obeys(t)' = Obeys(t)
        BY <1>1, ObeysStays
    <2>11. \A t \in ToSet(targets') : Obeys(t)'
        BY <2>8, <2>9, <2>10
    <2> QED
        BY <2>11 DEF PolicyIsObeyed
<1> QED
    BY <1>1, <1>4, <1>5

LEMMA PolicySteps ==
    /\ ResolutionInv /\ DiscoveryInv /\ OfferedInv /\ RequestedInv /\ PolicyIsObeyed
    /\ [Next]_vars
    => PolicyIsObeyed'
<1> SUFFICES ASSUME ResolutionInv, DiscoveryInv, OfferedInv, RequestedInv, PolicyIsObeyed,
                    [Next]_vars
             PROVE  PolicyIsObeyed'
    OBVIOUS
<1>1. CASE phase \notin Joined
    <2>1. CASE JoinExternal \/ Abandon
        BY <2>1 DEF JoinExternal, Abandon, Exit, PolicyIsObeyed
    <2>2. CASE phase' \notin Joined
        BY <2>2 DEF PolicyIsObeyed, Joined
    <2> QED
        BY <1>1, <2>1, <2>2, EarlySteps
<1>2. CASE phase \in Joined
    <2>1. AllChecked
        BY <1>2 DEF DiscoveryInv
    <2>2. UNCHANGED <<host, cfg, run, resolved, heldBack>>
        BY <1>2, <2>1, JoinedSteps DEF outcome
    <2>3. ASSUME UNCHANGED <<offered, requested, targets>>,
                 phase' \in {"plan", "approved"} => phase \in {"plan", "approved"}
          PROVE  PolicyIsObeyed'
        <3>1. \A t : Obeys(t)' = Obeys(t)
            BY <2>2, <2>3, ObeysStays
        <3> QED
            BY <2>3, <3>1 DEF PolicyIsObeyed
    <2>4. CASE Requests \/ Preflight \/ NothingToDo
        <3>1. phase' \notin {"plan", "approved"}
            BY <2>4 DEF Requests, Preflight, NothingToDo, Exit
        <3> QED
            BY <3>1 DEF PolicyIsObeyed
    <2>5. CASE Approve
        BY <2>5, ApprovalObeys
    <2>6. CASE Plan
        BY <2>3, <2>6 DEF Plan, selection
    <2>7. CASE UNCHANGED <<phase, selection, plan>>
        BY <2>3, <2>7 DEF selection, plan
    <2> QED
        BY <1>2, <2>1, <2>4, <2>5, <2>6, <2>7, JoinedSteps
<1> QED
    BY <1>1, <1>2

-----------------------------------------------------------------------------
\* All that is known of the planning.
PlanningInv ==
    /\ ResolutionInv /\ AurInv /\ DiscoveryInv /\ FailuresInv
    /\ OfferedInv /\ RequestedInv /\ KeepingInv /\ LastInv /\ WorkerInv
    /\ CountingInv /\ PolicyIsObeyed

LEMMA PlanningInit == Init => PlanningInv
<1> SUFFICES ASSUME Init PROVE PlanningInv
    OBVIOUS
<1>1. /\ host \in Hosts /\ cfg \in Configs /\ run \in Invocations
      /\ resolved = [p \in Package |-> None] /\ pending = {} /\ unresolved = {}
      /\ failures = {} /\ queue = {} /\ visited = {}
      /\ chunks = << >> /\ tries = << >> /\ answers = << >>
      /\ phase \in {"refresh", "resolved", "start"}
      /\ offered = {} /\ heldBack = {} /\ requested = << >> /\ configured = {} /\ code = None
    BY DEF Init, ResolverInit
<1>2. ResolutionInv
    BY <1>1 DEF ResolutionInv, Known, EntriesInv
<1>3. AurInv
    BY <1>1 DEF AurInv, AurQuiet, IsAur
<1>4. DiscoveryInv
    <2>1. DOMAIN checks = ToSet(Active) /\ DOMAIN found = DOMAIN checks /\ DOMAIN bad = DOMAIN checks
        BY DEF Init
    <2>2. (\A m \in DOMAIN checks : found[m] = {} /\ bad[m] = {}) /\ phase \notin Joined
        BY <1>1 DEF Init, Joined
    <2>3. ToSet(Active) \subseteq ToSet(Providers)
        <3> DEFINE I == {i \in DOMAIN Providers : IncludesRunner(Providers[i])}
        <3>1. Active = Kept(Providers, I)
            BY DEF Active, Filtered
        <3>2. Providers \in Seq(ToSet(Providers))
            BY PlanningAssumption
        <3> HIDE DEF I
        <3>3. \A i \in DOMAIN Kept(Providers, I) :
                  \E j \in DOMAIN Providers : Kept(Providers, I)[i] = Providers[j]
            BY <3>2, KeptInSeq
        <3> QED
            BY <3>1, <3>3 DEF ToSet
    <2> QED
        BY <2>1, <2>2, <2>3 DEF DiscoveryInv
<1>5. FailuresInv
    BY <1>1 DEF FailuresInv
<1>6. OfferedInv /\ RequestedInv
    BY <1>1 DEF OfferedInv, RequestedInv
<1>7. KeepingInv /\ LastInv /\ WorkerInv
    BY <1>1 DEF KeepingInv, LastInv, WorkerInv, Planning
<1>8. PolicyIsObeyed
    BY <1>1 DEF PolicyIsObeyed
<1> QED
    BY <1>2, <1>3, <1>4, <1>5, <1>6, <1>7, <1>8, CountingInit DEF PlanningInv

LEMMA PlanningSteps == PlanningInv /\ [Next]_vars => PlanningInv'
<1> SUFFICES ASSUME PlanningInv, [Next]_vars PROVE PlanningInv'
    OBVIOUS
<1>1. /\ ResolutionInv /\ AurInv /\ DiscoveryInv /\ FailuresInv
      /\ OfferedInv /\ RequestedInv /\ KeepingInv /\ LastInv /\ WorkerInv
      /\ CountingInv /\ PolicyIsObeyed /\ Known
    BY DEF PlanningInv, ResolutionInv
<1>2. ResolutionInv' /\ AurInv'
    BY <1>1, ResolutionSteps, AurSteps
<1>3. DiscoveryInv' /\ FailuresInv'
    BY <1>1, DiscoverySteps, FailuresSteps
<1>4. OfferedInv' /\ RequestedInv'
    BY <1>1, OfferedSteps, RequestedSteps
<1>5. KeepingInv' /\ LastInv'
    BY <1>1, KeepingSteps, LastSteps
<1>6. WorkerInv' /\ CountingInv'
    BY <1>1, WorkerSteps, CountingSteps
<1>7. PolicyIsObeyed'
    BY <1>1, PolicySteps
<1> QED
    BY <1>2, <1>3, <1>4, <1>5, <1>6, <1>7 DEF PlanningInv

LEMMA PlanningAlways == Spec => []PlanningInv
BY PlanningInit, PlanningSteps, PTL DEF Spec

LEMMA PlanningIsTyped == PlanningInv => TypeOK
<1> SUFFICES ASSUME PlanningInv PROVE TypeOK
    OBVIOUS
<1>1. phase \in {"refresh", "abandon", "start", "native", "join", "delays", "cascade",
                 "resolved", "external", "requests", "preflight", "targets", "plan",
                 "approved", "over"}
    BY DEF PlanningInv, CountingInv, Gathering, Planning
<1>2. /\ \A i \in DOMAIN chunks : tries[i] \in 0 .. MaxAttempts
      /\ \A i \in DOMAIN chunks : answers[i] \in {"asking", "answered", "failed"}
    BY DEF PlanningInv, WorkerInv
<1>3. \A p \in Package : resolved[p] = None \/ resolved[p] \in EntryType
    BY DEF PlanningInv, ResolutionInv, EntriesInv, Comes
<1>4. pending \cup unresolved \cup queue \cup visited \cup offered \cup heldBack \subseteq Package
    BY DEF PlanningInv, ResolutionInv, OfferedInv, Updates, HeldPackages
<1>5. \A i \in DOMAIN requested : requested[i] \in ItemType
    <2>1. requested \in Seq(Accepted) /\ Known
        BY DEF PlanningInv, RequestedInv, ResolutionInv
    <2> QED
        BY <2>1, AcceptedIs
<1>6. configured \subseteq ToSet(Providers) /\ code \in {None, 0, 1, 2}
    BY DEF PlanningInv, LastInv
<1> QED
    BY <1>1, <1>2, <1>3, <1>4, <1>5, <1>6 DEF TypeOK

\* The variables of the resolution, the requests and the plan hold what the
\* structures of resolver.rs and of commands/upgrade hold.
THEOREM TypeCorrect == Spec => []TypeOK
BY PlanningAlways, PlanningIsTyped, PTL

LEMMA PlanningIsHonest == PlanningInv => PlanIsHonest
<1> SUFFICES ASSUME PlanningInv PROVE PlanIsHonest
    OBVIOUS
<1>1. PolicyIsObeyed /\ FailuresAreCounted
    BY CountingSuffices DEF PlanningInv
<1>2. ASSUME AurFailure \in failures
      PROVE  /\ \A p \in unresolved : Pin(p) # Aur
             /\ \A p \in Package : ~IsAur(p)
             /\ phase \in Planning => AurTargets(offered) = {}
    <2>1. AurQuiet
        BY <1>2 DEF PlanningInv, AurInv
    <2>2. offered \subseteq Package
        BY DEF PlanningInv, OfferedInv, Updates
    <2>3. phase \in Planning => \A i \in DOMAIN requested : requested[i].repo # Aur
        BY <1>2 DEF PlanningInv, KeepingInv
    <2> QED
        BY <2>1, <2>2, <2>3 DEF AurQuiet, AurTargets
<1>3. phase \in Planning =>
          \A m \in DOMAIN checks : m \notin skipped =>
              \A p \in found[m] : <<m, p>> \in external \/ (m = Sources /\ p \in run.ignored)
    BY DEF PlanningInv, KeepingInv, Discovered
<1> QED
    BY <1>1, <1>2, <1>3 DEF PlanIsHonest, FailuresStayVisible, Planning

\* The plan keeps the pins, exclusions, holds and ignored packages of the
\* user, for a target without a repository where the order of pacman.conf
\* finds what the preview showed, and hides no failure of the checks it was made from, whatever the
\* databases, the configuration and the answers (resolver.rs, preflight.rs,
\* planning.rs and preview.rs, in the order of cmd_upgrade).
THEOREM PlanHonest == Spec => []PlanIsHonest
BY PlanningAlways, PlanningIsHonest, PTL
=============================================================================
