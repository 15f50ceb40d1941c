-------------------------- MODULE UpgradeRunProofs --------------------------
(* Proofs about UpgradeRun, for every plan, every set of AUR packages and  *)
(* every sequence of Sources updates, whatever fails and whoever else uses *)
(* pacman.                                                                 *)
EXTENDS UpgradeRun, TLAPS

-----------------------------------------------------------------------------
(* The shape of a plan.                                                    *)
LEMMA ProvidersShape ==
    /\ Len(Providers) \in Nat /\ Len(Providers) > 0
    /\ Providers[1] = Sources
    /\ \A i \in 1 .. Len(Providers) : Providers[i] \in Range(Providers)
    /\ \A i \in 2 .. Len(Providers) : Providers[i] \in Range(Others)
    /\ Range(Providers) = {Sources} \cup Range(Others)
    /\ None \notin Range(Providers)
<1>1. Others \in Seq(Range(Others)) /\ Len(Others) \in Nat
    BY PlanAssumption
<1>2. Len(Providers) = Len(Others) + 1 /\ Providers[1] = Sources
    BY <1>1 DEF Providers
<1>3. \A i \in 2 .. Len(Providers) : Providers[i] = Others[i - 1]
    BY <1>1 DEF Providers
<1>4. \A i \in 2 .. Len(Providers) : Providers[i] \in Range(Others)
    BY <1>1, <1>2, <1>3 DEF Range
<1>5. \A i \in 1 .. Len(Others) : Providers[i + 1] = Others[i]
    BY <1>1 DEF Providers
<1>6. Range(Others) \subseteq Range(Providers)
    <2>1. ASSUME NEW i \in 1 .. Len(Others) PROVE Others[i] \in Range(Providers)
        <3>1. i + 1 \in 1 .. Len(Providers) /\ Providers[i + 1] = Others[i]
            BY <1>1, <1>2, <1>5
        <3> QED
            BY <3>1 DEF Range
    <2> QED
        BY <2>1 DEF Range
<1>7. \A i \in 1 .. Len(Providers) : i = 1 \/ i \in 2 .. Len(Providers)
    BY <1>1, <1>2
<1>8. Range(Providers) = {Providers[i] : i \in 1 .. Len(Providers)}
    BY DEF Range
<1>9. Range(Providers) = {Sources} \cup Range(Others)
    <2>1. \A i \in 1 .. Len(Providers) : Providers[i] \in {Sources} \cup Range(Others)
        BY <1>2, <1>4, <1>7
    <2>2. Range(Providers) \subseteq {Sources} \cup Range(Others)
        BY <1>8, <2>1
    <2>3. 1 \in 1 .. Len(Providers)
        BY <1>1, <1>2
    <2>4. Sources \in Range(Providers)
        BY <1>2, <1>8, <2>3
    <2> QED
        BY <1>6, <2>2, <2>4
<1> QED
    BY <1>1, <1>2, <1>4, <1>8, <1>9, PlanAssumption

LEMMA PlannedShape == Range(Planned) = {Native, Aur, Sources} \cup Range(Others)
<1> DEFINE sources == [i \in 1..Len(SourceSeq) |-> Sources]
           first == <<Native, Aur>> \o sources
           n == Len(SourceSeq)
           k == Len(Others)
<1>1. Others \in Seq(Range(Others)) /\ k \in Nat /\ n \in Nat /\ n > 0
    BY PlanAssumption
<1>2. sources \in Seq({Sources}) /\ Len(sources) = n
    BY <1>1
<1>3. \A i \in 1 .. n : sources[i] = Sources
    OBVIOUS
<1> HIDE DEF sources
<1>4. /\ first \in Seq({Native, Aur, Sources}) /\ Len(first) = n + 2
      /\ first[1] = Native /\ first[2] = Aur /\ \A i \in 3 .. n + 2 : first[i] = Sources
    BY <1>1, <1>2, <1>3
<1> HIDE DEF first
<1>5. Planned = first \o Others
    BY DEF Planned, first, sources
<1>6. /\ Len(Planned) = n + 2 + k
      /\ \A i \in 1 .. n + 2 : Planned[i] = first[i]
      /\ \A i \in 1 .. k : Planned[n + 2 + i] = Others[i]
    <2> DEFINE M == {Native, Aur, Sources} \cup Range(Others)
    <2>1. first \in Seq(M) /\ Others \in Seq(M)
        BY <1>1, <1>4
    <2>2. Len(first \o Others) = n + 2 + k
        BY <1>1, <1>4, <2>1
    <2>3. \A i \in 1 .. n + 2 : (first \o Others)[i] = first[i]
        BY <1>1, <1>4, <2>1
    <2>4. \A i \in 1 .. k : (first \o Others)[n + 2 + i] = Others[i]
        BY <1>1, <1>4, <2>1
    <2> QED
        BY <1>5, <2>2, <2>3, <2>4
<1>7. Range(Planned) \subseteq {Native, Aur, Sources} \cup Range(Others)
    <2>1. ASSUME NEW i \in 1 .. Len(Planned)
          PROVE  Planned[i] \in {Native, Aur, Sources} \cup Range(Others)
        <3>1. CASE i \in 1 .. n + 2
            BY <1>1, <1>4, <1>6, <3>1
        <3>2. CASE \E j \in 1 .. k : i = n + 2 + j
            BY <1>6, <3>2 DEF Range
        <3>3. i \in 1 .. n + 2 \/ i - (n + 2) \in 1 .. k
            BY <1>1, <1>6
        <3>4. i = n + 2 + (i - (n + 2))
            BY <1>1
        <3> QED
            BY <3>1, <3>2, <3>3, <3>4
    <2> QED
        BY <2>1 DEF Range
<1>8. {Native, Aur, Sources} \subseteq Range(Planned)
    <2>1. /\ {1, 2, 3} \subseteq 1 .. Len(Planned)
          /\ Planned[1] = Native /\ Planned[2] = Aur /\ Planned[3] = Sources
        BY <1>1, <1>4, <1>6
    <2> QED
        BY <2>1 DEF Range
<1>9. ASSUME NEW i \in 1 .. k PROVE Others[i] \in Range(Planned)
    <2>1. n + 2 + i \in 1 .. Len(Planned) /\ Planned[n + 2 + i] = Others[i]
        BY <1>1, <1>6
    <2> QED
        BY <2>1 DEF Range
<1>10. Range(Others) \subseteq Range(Planned)
    BY <1>9 DEF Range
<1> QED
    BY <1>7, <1>8, <1>10

(* What the managers install.                                              *)
LEMMA UnitsShape ==
    /\ Units(Native) = {Native} /\ Units(Aur) = AurPkg /\ Units(Sources) = Range(SourceSeq)
    /\ \A m \in Range(Others) : Units(m) = {m}
    /\ AllUnits = {Native} \cup AurPkg \cup Range(SourceSeq) \cup Range(Others)
<1>1. /\ Units(Native) = {Native} /\ Units(Aur) = AurPkg /\ Units(Sources) = Range(SourceSeq)
      /\ \A m \in Range(Others) : Units(m) = {m}
    BY PlanAssumption DEF Units
<1>2. AllUnits = UNION {Units(m) : m \in {Native, Aur, Sources} \cup Range(Others)}
    BY PlannedShape DEF AllUnits
<1> QED
    BY <1>1, <1>2

LEMMA SourcesShape ==
    /\ Len(SourceSeq) \in Nat /\ Len(SourceSeq) > 0
    /\ \A i \in 1 .. Len(SourceSeq) : SourceSeq[i] \in Range(SourceSeq)
    /\ \A u \in Range(SourceSeq) : \E i \in 1 .. Len(SourceSeq) : SourceSeq[i] = u
BY PlanAssumption DEF Range

-----------------------------------------------------------------------------
(* The sections of the run.                                                *)
Front == {"review", "record", "abandon", "wait", "recheck", "native", "nativeRun",
          "aur", "aurRun"}
Installing == {"source", "install", "installing", "verify"}
Stages == {"ext", "join", "other"} \cup Installing
Back == {"finish", "joining", "clear", "journal", "hooks", "orphans", "cache", "exit"}

(* Where the loops are; without a permit no stage has failed so far.       *)
PlaceInv ==
    /\ pc \in Front => /\ at = 1 /\ src = 1 /\ success /\ ~permitted /\ ~attempted
                        /\ unverified = {} /\ outcomes = {} /\ upgraded = {} /\ cleaned = {}
    /\ permitted => at = 1 /\ ~success
    /\ pc \in Stages \ {"ext"} => at <= Len(Providers)
    /\ pc \in Stages => src <= Len(SourceSeq) /\ (success \/ permitted)
    /\ pc \in {"ext", "other"} => ~permitted
    /\ pc = "cont" => permitted
    /\ pc = "other" => at > 1
    /\ pc \in Installing => at = 1

LEMMA PlaceInit == Init => RunTypeOK /\ PlaceInv
<1>1. 1 \in 1..(Len(Providers) + 1) /\ 1 \in 1..(Len(SourceSeq) + 1) /\ 1 <= Len(SourceSeq)
    BY ProvidersShape, SourcesShape
<1>2. ASSUME Init PROVE db \in Database
    BY <1>2, PlanAssumption DEF Init, Database
<1>3. Init => RunTypeOK
    <2> SUFFICES ASSUME Init PROVE RunTypeOK
        OBVIOUS
    <2>1. {success, nativeOk, aurOk, seen, permitted, attempted} \subseteq BOOLEAN
        BY DEF Init
    <2>2. hookAur \in {None, TRUE, FALSE} /\ checkpoint = None /\ code \in {None, 0, 1}
        BY DEF Init
    <2>3. artifacts \subseteq Range(SourceSeq) /\ fetched \in 0..Len(SourceSeq)
        BY SourcesShape DEF Init
    <2> QED
        BY <1>1, <1>2, <2>1, <2>2, <2>3 DEF Init, RunTypeOK
<1>4. Init => PlaceInv
    BY <1>1 DEF Init, PlaceInv, Front, Stages, Installing
<1> QED
    BY <1>3, <1>4

LEMMA ProvidersAt ==
    ASSUME RunTypeOK, at <= Len(Providers)
    PROVE  /\ Providers[at] \in Range(Providers)
           /\ Providers[at] = Sources <=> at = 1
           /\ Providers[at] # Sources <=> at > 1
           /\ at > 1 => Providers[at] \in Range(Others)
           /\ at + 1 \in 1 .. (Len(Providers) + 1)
<1>1. at \in 1 .. Len(Providers)
    BY ProvidersShape DEF RunTypeOK
<1>2. at = 1 \/ at \in 2 .. Len(Providers)
    BY <1>1, ProvidersShape
<1> QED
    BY <1>1, <1>2, ProvidersShape, PlanAssumption

(* What may become of the database.                                        *)
LEMMA DatabaseGrows ==
    ASSUME db \in Database, NEW u \in AllUnits, FailedTransaction(u)
    PROVE  db' \in Database
BY DEF FailedTransaction, Database

(* Steps that leave the loops alone, and variables no loop depends on.     *)
LEMMA PlaceFrame ==
    ASSUME PlaceInv, UNCHANGED <<pc, place, result, upgraded, permit, ending>>
    PROVE  PlaceInv'
BY DEF PlaceInv, place, result, permit, ending

LEMMA TypeFrame ==
    ASSUME RunTypeOK, UNCHANGED <<flags, place, result, upgraded, permit, ending>>,
           pc' \in Front \cup Stages \cup Back \cup {"cont"},
           download' \in {"none", "running", "stray", "over"}, db' \in Database,
           artifacts' \subseteq Range(SourceSeq), fetched' \in 0..Len(SourceSeq)
    PROVE  RunTypeOK'
<1>1. UNCHANGED <<flags, at, src, success, nativeOk, aurOk, outcomes, hookAur, upgraded, seen,
                  permitted, checkpoint, attempted, unverified, journal, cleaned, code>>
    BY DEF place, result, permit, ending
<1> QED
    BY <1>1 DEF RunTypeOK, Front, Stages, Back, Installing

(* A package of Sources has failed, or the loop goes on to the next one.   *)
LEMMA FailedTypes ==
    ASSUME RunTypeOK,
           UNCHANGED <<flags, at, nativeOk, aurOk, outcomes, hookAur, download, upgraded, permit,
                       fetched, cleaned, code>>,
           pc' \in {"cont", "finish"}, src' \in 1..(Len(SourceSeq) + 1), success' \in BOOLEAN,
           db' \in Database, artifacts' \subseteq Range(SourceSeq), journal' \subseteq AllUnits
    PROVE  RunTypeOK'
<1>1. UNCHANGED <<seen, permitted, checkpoint, attempted, unverified>>
    BY DEF permit
<1>2. {success, nativeOk, aurOk, seen, permitted, attempted}' \subseteq BOOLEAN
    BY <1>1 DEF RunTypeOK
<1>3. at' \in 1..(Len(Providers) + 1) /\ outcomes' \subseteq Range(Providers)
    BY DEF RunTypeOK
<1>4. artifacts' \subseteq Range(SourceSeq) /\ fetched' \in 0..Len(SourceSeq)
    BY DEF RunTypeOK
<1>5. checkpoint' = None \/ checkpoint' \in Database
    BY <1>1 DEF RunTypeOK
<1> QED
    BY <1>1, <1>2, <1>3, <1>4, <1>5 DEF RunTypeOK

LEMMA FailedKeeps ==
    ASSUME db \in Database, NEW u, FailedTransaction(u)
    PROVE  /\ db'.done = db.done
           /\ db'.partial = db.partial \/ db'.partial = db.partial \cup {u}
BY DEF FailedTransaction, Database

LEMMA FrontPlaces ==
    ASSUME RunTypeOK, PlaceInv,
           \/ Review \/ Record \/ Wait \/ Recheck \/ NativeStart \/ NativeDone \/ NativeFails
           \/ AurStart \/ AurRefused \/ AurDone \/ \E built \in BOOLEAN : AurFails(built)
           \/ \E u \in AurPkg : AurInstalls(u)
    PROVE  RunTypeOK' /\ PlaceInv'
<1> USE DEF RunTypeOK, PlaceInv, Front, Stages, Installing
<1>1. CASE Review
    BY <1>1 DEF Review, place, result, system, permit, cache, ending
<1>2. CASE Record
    BY <1>2 DEF Record, place, result, system, permit, cache, ending
<1>3. CASE Wait
    BY <1>3 DEF Wait, place, result, system, permit, cache
<1>4. CASE Recheck
    BY <1>4 DEF Recheck, place, result, system, permit, cache
<1>5. CASE NativeStart
    BY <1>5 DEF NativeStart, place, result, system, permit, cache, ending
<1>6. CASE NativeDone
    <2>1. db' \in Database
        BY <1>6, UnitsShape DEF NativeDone, Database
    <2> QED
        BY <1>6, <2>1 DEF NativeDone, place, permit, cache, ending
<1>7. CASE NativeFails
    <2>1. db' \in Database
        BY <1>7, UnitsShape, DatabaseGrows DEF NativeFails
    <2> QED
        BY <1>7, <2>1 DEF NativeFails, place, permit, cache, ending
<1>8. CASE AurStart
    BY <1>8 DEF AurStart, place, result, system, cache, ending
<1>9. CASE AurRefused
    BY <1>9 DEF AurRefused, place, system, permit, cache, ending
<1>10. CASE AurDone
    <2>1. RunTypeOK'
        BY <1>10 DEF AurDone, place, system, permit, cache, ending
    <2>2. /\ pc = "aurRun" /\ pc' = "ext" /\ at' = at /\ src' = src /\ permitted' = permitted
          /\ success' = success
        BY <1>10 DEF AurDone, place, permit
    <2>3. PlaceInv'
        BY <2>2, SourcesShape
    <2> QED
        BY <2>1, <2>3
<1>11. CASE \E built \in BOOLEAN : AurFails(built)
    <2>1. /\ pc = "aurRun" /\ success' = FALSE /\ permitted' \in BOOLEAN
          /\ pc' = IF permitted' THEN "cont" ELSE "finish"
          /\ UNCHANGED <<flags, place, nativeOk, aurOk, outcomes, hookAur, download, system,
                         seen, checkpoint, attempted, unverified, cache, ending>>
        <3>1. PICK built \in BOOLEAN : AurFails(built)
            BY <1>11
        <3>2. PICK granted \in {built /\ ~seen /\ checkpoint # None /\ Valid(db), FALSE} :
                  permitted' = granted /\ pc' = IF granted THEN "cont" ELSE "finish"
            BY <3>1 DEF AurFails
        <3>3. granted \in BOOLEAN
            OBVIOUS
        <3> QED
            BY <3>1, <3>2, <3>3 DEF AurFails
    <2> QED
        BY <2>1 DEF place, system, cache, ending
<1>12. CASE \E u \in AurPkg : AurInstalls(u)
    <2>1. PICK u \in AurPkg : AurInstalls(u)
        BY <1>12
    <2>2. u \in AllUnits
        BY UnitsShape
    <2>3. db' \in Database
        BY <2>1, <2>2, DatabaseGrows DEF AurInstalls, Database
    <2> QED
        BY <2>1, <2>3 DEF AurInstalls, place, result, cache, ending
<1> QED
    BY <1>1, <1>2, <1>3, <1>4, <1>5, <1>6, <1>7, <1>8, <1>9, <1>10, <1>11, <1>12

(* A provider is entered in front of its own stage.                        *)
LEMMA EnterGoesOn ==
    ASSUME NEW p, Enter(p)
    PROVE  /\ pc' \in {"join", "source", "other"}
           /\ pc' = "source" => p = Sources
           /\ pc' = "other" => p # Sources
BY DEF Enter

LEMMA StagePlaces ==
    ASSUME RunTypeOK, PlaceInv,
           \/ NextProvider \/ NextIndependent \/ PlanInvalid \/ JoinStage
           \/ OtherDone \/ OtherFails
    PROVE  RunTypeOK' /\ PlaceInv'
<1>0. at <= Len(Providers) => /\ Providers[at] = Sources <=> at = 1
                              /\ Providers[at] # Sources <=> at > 1
    BY ProvidersAt
<1> USE DEF RunTypeOK, PlaceInv, Front, Stages, Installing
<1>1. CASE NextProvider
    <2>1. CASE at > Len(Providers) /\ pc' = "finish"
        BY <1>1, <2>1 DEF NextProvider, place, result, system, permit, cache, ending
    <2>2. CASE ~(at > Len(Providers)) /\ Enter(Providers[at])
        <3>1. at <= Len(Providers)
            BY <2>2, ProvidersShape
        <3>2. /\ pc = "ext" /\ pc' \in {"join", "source", "other"}
              /\ UNCHANGED <<flags, place, result, download, system, permit, cache, ending>>
            BY <1>1, <2>2, EnterGoesOn DEF NextProvider
        <3>3. pc' = "source" => at = 1
            BY <1>0, <2>2, <3>1, EnterGoesOn
        <3>4. pc' = "other" => at > 1
            BY <1>0, <2>2, <3>1, EnterGoesOn
        <3>5. RunTypeOK'
            BY <3>2, TypeFrame DEF system, cache
        <3>6. PlaceInv'
            BY <3>1, <3>2, <3>3, <3>4 DEF place, result, system, permit, cache, ending
        <3> QED
            BY <3>5, <3>6
    <2> QED
        BY <1>1, <2>1, <2>2 DEF NextProvider
<1>2. CASE NextIndependent
    <2>1. CASE pc' = "finish"
        BY <1>2, <2>1 DEF NextIndependent, place, result, system, permit, cache, ending
    <2>2. CASE ~(src > Len(SourceSeq)) /\ Enter(Sources)
        <3>1. src <= Len(SourceSeq) /\ at <= Len(Providers)
            BY <1>2, <2>2, SourcesShape, ProvidersShape DEF NextIndependent
        <3> QED
            BY <1>2, <2>2, <3>1, EnterGoesOn
            DEF NextIndependent, place, result, system, permit, cache, ending
    <2> QED
        BY <1>2, <2>1, <2>2 DEF NextIndependent
<1>3. CASE PlanInvalid
    BY <1>3 DEF PlanInvalid, place, system, permit, cache, ending
<1>4. CASE JoinStage
    <2>1. /\ pc = "join" /\ at <= Len(Providers) /\ pc' \in {"source", "other"}
          /\ UNCHANGED <<flags, place, result, download, system, permit, cache, ending>>
        BY <1>4 DEF JoinStage
    <2>2. /\ pc' = "source" => at = 1
          /\ pc' = "other" => at > 1 /\ ~permitted
        BY <1>0, <1>4, <2>1 DEF JoinStage
    <2>3. RunTypeOK'
        BY <2>1, TypeFrame DEF system, cache
    <2>4. PlaceInv'
        BY <2>1, <2>2 DEF place, result, system, permit, cache, ending
    <2> QED
        BY <2>3, <2>4
<1>5. CASE OtherDone
    <2>1. Providers[at] \in AllUnits /\ Providers[at] \in Range(Providers)
          /\ at + 1 \in 1 .. (Len(Providers) + 1)
        BY <1>5, ProvidersAt, UnitsShape DEF OtherDone
    <2> QED
        BY <1>5, <2>1 DEF OtherDone, permit, cache, ending
<1>6. CASE OtherFails
    <2>1. Providers[at] \in AllUnits
        BY <1>6, ProvidersAt, UnitsShape DEF OtherFails
    <2> QED
        BY <1>6, <2>1 DEF OtherFails, place, permit, cache, ending
<1> QED
    BY <1>1, <1>2, <1>3, <1>4, <1>5, <1>6

(* The current Sources update is one of the plan.                          *)
LEMMA SourceAt ==
    ASSUME RunTypeOK, PlaceInv, pc \in Installing
    PROVE  /\ src \in 1 .. Len(SourceSeq) /\ SourceSeq[src] \in Range(SourceSeq)
           /\ SourceSeq[src] \in AllUnits /\ at = 1
           /\ src + 1 \in 1 .. (Len(SourceSeq) + 1)
           /\ 2 \in 1 .. (Len(Providers) + 1)
BY SourcesShape, UnitsShape, ProvidersShape DEF RunTypeOK, PlaceInv, Installing, Stages

LEMMA SourcePlaces ==
    ASSUME RunTypeOK, PlaceInv,
           \/ SourcePrepared \/ InstallStart \/ InstallDone \/ SourceDone
           \/ SourceUnprepared \/ InstallFails \/ SourceUnverified
    PROVE  RunTypeOK' /\ PlaceInv'
<1>0. /\ pc \in Installing
      /\ src \in 1 .. Len(SourceSeq) /\ SourceSeq[src] \in Range(SourceSeq)
      /\ SourceSeq[src] \in AllUnits /\ at = 1
      /\ src + 1 \in 1 .. (Len(SourceSeq) + 1) /\ 2 \in 1 .. (Len(Providers) + 1)
    <2>1. pc \in Installing
        BY DEF SourcePrepared, InstallStart, InstallDone, SourceDone, SourceUnprepared,
               InstallFails, SourceUnverified, Installing
    <2> QED
        BY <2>1, SourceAt
<1> USE DEF RunTypeOK, PlaceInv, Front, Stages, Installing
<1>1. CASE SourcePrepared
    BY <1>0, <1>1 DEF SourcePrepared, place, result, system, permit, ending
<1>2. CASE InstallStart
    BY <1>0, <1>2 DEF InstallStart, place, result, system, cache, ending
<1>3. CASE InstallDone
    <2>1. db' \in Database
        BY <1>0, <1>3 DEF InstallDone, Database
    <2> QED
        BY <1>0, <1>3, <2>1 DEF InstallDone, place, result, permit, cache, ending
<1>4. CASE SourceDone
    <2>1. outcomes' \subseteq Range(Providers)
        BY <1>0, <1>4, ProvidersShape DEF SourceDone, SourceEnd
    <2>2. at' \in 1 .. (Len(Providers) + 1) /\ src' \in 1 .. (Len(SourceSeq) + 1)
        BY <1>0, <1>4 DEF SourceDone, SourceEnd
    <2>3. RunTypeOK'
        <3>1. /\ journal' \subseteq AllUnits /\ checkpoint' \in {db, checkpoint}
              /\ attempted' = FALSE /\ unverified' \subseteq unverified
            BY <1>0, <1>4 DEF SourceDone
        <3>2. pc' \in {"cont", "source", "ext"}
            BY <1>4 DEF SourceDone, SourceEnd
        <3>3. UNCHANGED <<flags, success, nativeOk, aurOk, hookAur, download, db, upgraded, seen,
                          permitted, artifacts, fetched, cleaned, code>>
            BY <1>4 DEF SourceDone, system, cache
        <3>4. {success, nativeOk, aurOk, seen, permitted, attempted}' \subseteq BOOLEAN
            BY <3>1, <3>3
        <3>5. checkpoint' = None \/ checkpoint' \in Database
            BY <3>1
        <3> QED
            BY <2>1, <2>2, <3>1, <3>2, <3>3, <3>4, <3>5
    <2>4. PlaceInv'
        BY <1>0, <1>4, SourcesShape DEF SourceDone, SourceEnd, system, cache
    <2> QED
        BY <2>3, <2>4
<1>5. CASE SourceUnprepared \/ InstallFails \/ SourceUnverified
    <2>1. /\ UNCHANGED <<flags, nativeOk, aurOk, outcomes, hookAur, download, upgraded, permit,
                          fetched, cleaned, code>>
          /\ \/ pc' = "cont" /\ permitted /\ success' = success /\ src' = src + 1 /\ at' = at
             \/ pc' = "finish" /\ success' = FALSE /\ UNCHANGED <<at, src>>
        BY <1>5 DEF SourceUnprepared, InstallFails, SourceUnverified, SourceFailed, place,
                    system, cache, ending
    <2>2. db' \in Database
        BY <1>0, <1>5, DatabaseGrows DEF SourceUnprepared, InstallFails, SourceUnverified, system
    <2>3. artifacts' \subseteq artifacts /\ journal' \subseteq journal \cup {SourceSeq[src]}
        BY <1>5 DEF SourceUnprepared, InstallFails, SourceUnverified, cache, ending
    <2>4. RunTypeOK'
        BY <1>0, <2>1, <2>2, <2>3, FailedTypes
    <2>5. PlaceInv'
        BY <1>0, <2>1 DEF permit
    <2> QED
        BY <2>4, <2>5
<1> QED
    BY <1>1, <1>2, <1>3, <1>4, <1>5

LEMMA BackPlaces ==
    ASSUME RunTypeOK, PlaceInv,
           \/ Finish \/ FinishStep \/ Finished \/ Clear \/ Journal \/ Hooks \/ Orphans \/ Cache
    PROVE  RunTypeOK' /\ PlaceInv'
<1> USE DEF RunTypeOK, PlaceInv, Front, Stages, Installing
<1>1. CASE Finish \/ FinishStep \/ Finished
    <2>1. /\ pc \in {"finish", "joining"} /\ pc' \in {"joining", "clear"}
          /\ UNCHANGED <<flags, place, result, download, system, permit, cache, ending>>
        BY <1>1 DEF Finish, FinishStep, Finished
    <2>2. RunTypeOK'
        BY <2>1, TypeFrame DEF Back, system, cache
    <2>3. PlaceInv'
        BY <2>1 DEF place, result, system, permit, ending
    <2> QED
        BY <2>2, <2>3
<1>2. CASE Clear
    BY <1>2 DEF Clear, place, result, system, permit, ending
<1>3. CASE Journal
    <2>1. journal' \subseteq AllUnits
        BY <1>3, UnitsShape DEF Journal
    <2> QED
        BY <1>3, <2>1 DEF Journal, place, result, system, permit, cache
<1>4. CASE Hooks
    <2>1. success' \in BOOLEAN /\ hookAur' \in {None, TRUE, FALSE} /\ (success' => success)
        BY <1>4 DEF Hooks
    <2> QED
        BY <1>4, <2>1 DEF Hooks, place, system, permit, cache, ending
<1>5. CASE Orphans
    <2>1. success' \in BOOLEAN /\ (success' => success)
        BY <1>5 DEF Orphans
    <2> QED
        BY <1>5, <2>1 DEF Orphans, place, system, permit, cache, ending
<1>6. CASE Cache
    <2>1. success' \in BOOLEAN /\ (success' => success) /\ code' \in {None, 0, 1}
        BY <1>6 DEF Cache
    <2>2. cleaned' \subseteq Range(Planned)
        BY <1>6, PlannedShape, ProvidersShape DEF Cache
    <2> QED
        BY <1>6, <2>1, <2>2 DEF Cache, place, system, permit, cache
<1> QED
    BY <1>1, <1>2, <1>3, <1>4, <1>5, <1>6

LEMMA AroundPlaces ==
    ASSUME RunTypeOK, PlaceInv,
           \/ Foreign \/ DownloadEnds \/ Windows \/ Fetch
           \/ \E p \in Range(Providers) : WorkerEnd(p)
           \/ UNCHANGED vars
    PROVE  RunTypeOK' /\ PlaceInv'
<1>1. /\ pc \in Front \cup Stages \cup Back \cup {"cont"}
      /\ download \in {"none", "running", "stray", "over"} /\ db \in Database
      /\ artifacts \subseteq Range(SourceSeq) /\ fetched \in 0..Len(SourceSeq)
    BY DEF RunTypeOK, Front, Stages, Back, Installing
<1>2. CASE Foreign
    <2>1. db.foreign + 1 \in 0..MaxForeign
        BY <1>1, <1>2, PlanAssumption DEF Foreign, Database
    <2>2. db' = [db EXCEPT !.foreign = @ + 1]
        BY <1>2 DEF Foreign
    <2>3. db' \in Database
        BY <1>1, <2>1, <2>2 DEF Database
    <2> QED
        BY <1>1, <1>2, <2>3, PlaceFrame, TypeFrame DEF Foreign, cache
<1>3. CASE DownloadEnds
    BY <1>1, <1>3, PlaceFrame, TypeFrame DEF DownloadEnds, system, cache
<1>4. CASE Windows
    BY <1>1, <1>4, PlaceFrame, TypeFrame DEF Windows, system, cache
<1>5. CASE Fetch
    <2>1. fetched' \in 0..Len(SourceSeq) /\ fetched' \in 1..Len(SourceSeq)
        BY <1>1, <1>5, SourcesShape DEF Fetch
    <2>2. artifacts' \subseteq Range(SourceSeq)
        BY <1>1, <1>5, <2>1, SourcesShape DEF Fetch
    <2> QED
        BY <1>1, <1>5, <2>1, <2>2, PlaceFrame, TypeFrame DEF Fetch, system
<1>6. CASE \E p \in Range(Providers) : WorkerEnd(p)
    BY <1>1, <1>6, PlaceFrame, TypeFrame DEF WorkerEnd, system, cache
<1>7. CASE UNCHANGED vars
    BY <1>1, <1>7, PlaceFrame, TypeFrame DEF vars, system, cache
<1> QED
    BY <1>2, <1>3, <1>4, <1>5, <1>6, <1>7

LEMMA PlaceNext == RunTypeOK /\ PlaceInv /\ [Next]_vars => RunTypeOK' /\ PlaceInv'
BY FrontPlaces, StagePlaces, SourcePlaces, BackPlaces, AroundPlaces DEF Next, Main

LEMMA PlaceAlways == Spec => [](RunTypeOK /\ PlaceInv)
BY PlaceInit, PlaceNext, PTL DEF Spec

-----------------------------------------------------------------------------
(* The run makes the calls of its preparation session as the session       *)
(* allows them (module Preparation), so what holds of any session holds of *)
(* this one.                                                               *)
LEMMA RunStepsSession == RunTypeOK /\ [Next]_vars => [Prep!Next]_(Prep!prepVars)
<1> SUFFICES ASSUME RunTypeOK, [Next]_vars PROVE Prep!Next \/ UNCHANGED prep
    BY DEF Prep!prepVars, prep
<1>1. CASE Windows
    <2>1. \E m \in Range(Planned), w \in Prep!Window : Prep!OnWindow(m, w)
        BY <1>1 DEF Windows
    <2> QED
        BY <2>1 DEF Range, Prep!Next
<1>2. CASE Foreign \/ DownloadEnds \/ Fetch \/ \E u \in AurPkg : AurInstalls(u)
    BY <1>2 DEF Foreign, DownloadEnds, Fetch, AurInstalls
<1>3. CASE \E p \in Range(Providers) : WorkerEnd(p)
    BY <1>3 DEF WorkerEnd, Prep!Next
<1>4. CASE NextProvider
    <2>1. CASE UNCHANGED prep
        BY <2>1
    <2>2. CASE ~(at > Len(Providers)) /\ Enter(Providers[at])
        <3>1. Providers[at] \in Range(Providers)
            BY <2>2, ProvidersAt, ProvidersShape DEF RunTypeOK
        <3> QED
            BY <2>2, <3>1 DEF Enter, Prep!Next
    <2> QED
        BY <1>4, <2>1, <2>2 DEF NextProvider
<1>5. CASE NextIndependent
    BY <1>5, ProvidersShape DEF NextIndependent, Enter, Prep!Next
<1>6. CASE JoinStage \/ FinishStep \/ Finish
    BY <1>6 DEF JoinStage, FinishStep, Finish, Prep!Next
<1>7. CASE Review \/ Record \/ Wait \/ Recheck \/ NativeStart \/ NativeDone \/ NativeFails
    BY <1>7 DEF Review, Record, Wait, Recheck, NativeStart, NativeDone, NativeFails
<1>8. CASE AurStart \/ AurRefused \/ AurDone \/ \E built \in BOOLEAN : AurFails(built)
    BY <1>8 DEF AurStart, AurRefused, AurDone, AurFails
<1>9. CASE PlanInvalid \/ OtherDone \/ OtherFails
    BY <1>9 DEF PlanInvalid, OtherDone, OtherFails
<1>10. CASE \/ SourcePrepared \/ InstallStart \/ InstallDone \/ SourceDone
            \/ SourceUnprepared \/ InstallFails \/ SourceUnverified
    BY <1>10 DEF SourcePrepared, InstallStart, InstallDone, SourceDone,
                 SourceUnprepared, InstallFails, SourceUnverified
<1>11. CASE Finished \/ Clear \/ Journal \/ Hooks \/ Orphans \/ Cache
    BY <1>11 DEF Finished, Clear, Journal, Hooks, Orphans, Cache
<1>12. CASE UNCHANGED vars
    BY <1>12 DEF vars
<1> QED
    BY <1>1, <1>2, <1>3, <1>4, <1>5, <1>6, <1>7, <1>8, <1>9, <1>10, <1>11, <1>12 DEF Next, Main

(* The upgrade command uses its preparation session by the rules of that   *)
(* module (Session in integrations/preparation.rs).                        *)
THEOREM RunUsesSession == Spec => Prep!Spec
<1>1. Init => Prep!Init
    BY DEF Init
<1> QED
    BY <1>1, PlaceAlways, RunStepsSession, PTL DEF Spec, Prep!Spec

LEMMA SessionInit == Prep!Init => Prep!IInv
BY DEF Prep!Init, Prep!IInv, Prep!TypeOK, Prep!NoDetachedWorker, Prep!BeforeStageIsAlone,
       Prep!Bookkeeping, Prep!Policy

LEMMA SessionNext == Prep!IInv /\ [Prep!Next]_(Prep!prepVars) => Prep!IInv'
<1> SUFFICES ASSUME Prep!IInv, [Prep!Next]_(Prep!prepVars) PROVE Prep!IInv'
    OBVIOUS
<1> DEFINE Job == Range(Providers)
<1>0. None \notin Job
    BY ProvidersShape
<1> USE DEF Prep!IInv, Prep!TypeOK, Prep!NoDetachedWorker, Prep!BeforeStageIsAlone,
            Prep!Bookkeeping, Prep!MainFree
<1>1. ASSUME NEW m, NEW w, Prep!OnWindow(m, w) PROVE Prep!IInv'
    <2>1. Prep!Eligible(m) \subseteq Job /\ \A p \in Prep!Eligible(m) : policy[p] = "Background"
        BY DEF Prep!Eligible
    <2>2. Prep!TypeOK'
        BY <1>1, <2>1 DEF Prep!OnWindow, Prep!StartJobs
    <2>3. Prep!NoDetachedWorker' /\ Prep!BeforeStageIsAlone'
        BY <1>1, <2>1 DEF Prep!OnWindow, Prep!StartJobs
    <2>4. Prep!Bookkeeping'
        BY <1>1, <2>1 DEF Prep!OnWindow, Prep!StartJobs
    <2> QED
        BY <2>2, <2>3, <2>4
<1>2. ASSUME NEW p \in Job, Prep!Before(p) PROVE Prep!IInv'
    <2>1. Prep!TypeOK' /\ Prep!Bookkeeping'
        BY <1>2 DEF Prep!Before, Prep!StartJobs
    <2>2. Prep!NoDetachedWorker' /\ Prep!BeforeStageIsAlone'
        BY <1>0, <1>2 DEF Prep!Before, Prep!StartJobs
    <2> QED
        BY <2>1, <2>2
<1>3. CASE Prep!JoinDone
    BY <1>3 DEF Prep!JoinDone
<1>4. CASE Prep!Finish
    BY <1>4 DEF Prep!Finish
<1>5. ASSUME NEW p \in Job, Prep!FinishJoin(p) PROVE Prep!IInv'
    BY <1>0, <1>5 DEF Prep!FinishJoin
<1>6. ASSUME NEW p \in Job, Prep!WorkerEnd(p) PROVE Prep!IInv'
    BY <1>6 DEF Prep!WorkerEnd
<1>7. CASE UNCHANGED Prep!prepVars
    BY <1>7 DEF Prep!prepVars
<1> QED
    BY <1>1, <1>2, <1>3, <1>4, <1>5, <1>6, <1>7 DEF Prep!Next

LEMMA SessionAlways == Spec => []Prep!IInv
<1>1. Prep!Spec => []Prep!IInv
    BY SessionInit, SessionNext, PTL DEF Prep!Spec
<1> QED
    BY <1>1, RunUsesSession

(* The variables of a run keep their types.                                *)
THEOREM TypeCorrect == Spec => []TypeOK
<1>1. Prep!IInv /\ RunTypeOK => TypeOK
    BY DEF Prep!IInv, TypeOK
<1> QED
    BY <1>1, SessionAlways, PlaceAlways, PTL

-----------------------------------------------------------------------------
(* Who may use the cache of prefetched artifacts.                          *)
Early == {"review", "record", "abandon", "wait", "recheck", "native"}
Mid == {"nativeRun", "aur", "aurRun", "ext", "cont", "other"}
Late == {"journal", "hooks", "orphans", "cache"}

CacheInv ==
    /\ pc \in Early => started = {} /\ artifacts = {}
    /\ pc \in Early \cup Mid \cup Installing \cup {"join", "finish"} => ~closed /\ finishing = {}
    /\ pc \in Early \cup Mid \cup Installing \cup Late \cup {"finish", "clear", "exit"}
           => waiting = None
    /\ pc = "join" => Providers[at] \in started \ handle /\ (permitted => at = 1)
    /\ pc \in Installing => Sources \notin handle
                              /\ (policy[Sources] = "Unsupported" \/ Sources \in started)
    /\ pc \in Late \cup {"joining", "clear"} => closed
    /\ pc \in Late \cup {"clear", "exit"} => finishing = {}
    /\ pc = "exit" => closed \/ started = {}
    /\ pc \in Late \cup {"exit"} => artifacts = {}

LEMMA CacheSuffices == Prep!IInv /\ CacheInv => ArtifactsAreOwned
<1> SUFFICES ASSUME Prep!IInv, CacheInv PROVE ArtifactsAreOwned
    OBVIOUS
<1>1. Sources \in Range(Providers) /\ None \notin Range(Providers)
    BY ProvidersShape
<1>2. NoFetchUnderInstall
    BY <1>1 DEF Prep!IInv, Prep!NoDetachedWorker, CacheInv, NoFetchUnderInstall, Installing
<1>3. pc = "exit" => artifacts = {} /\ handle = {} /\ waiting = None
    BY DEF Prep!IInv, Prep!Bookkeeping, CacheInv
<1>4. WorkspacesReleased
    BY <1>1, <1>3 DEF Prep!IInv, Prep!NoDetachedWorker, WorkspacesReleased
<1> QED
    BY <1>2, <1>4 DEF ArtifactsAreOwned

LEMMA CacheInit == Init => CacheInv
BY DEF Init, Prep!Init, CacheInv, Early, Mid, Late, Installing

(* The run moves on and leaves session and cache alone.                    *)
LEMMA CacheMoves ==
    ASSUME CacheInv, UNCHANGED <<prep, artifacts>>,
           \/ pc \in Early /\ pc' \in Early \cup {"nativeRun", "exit"}
           \/ pc \in Mid /\ pc' \in Mid \cup {"finish"}
           \/ pc \in Installing /\ pc' \in Mid \cup Installing \cup {"finish"}
           \/ pc \in Late /\ pc' \in Late \cup {"exit"}
           \/ pc' = pc /\ UNCHANGED <<at, permitted>>
    PROVE  CacheInv'
BY DEF CacheInv, prep, Early, Mid, Late, Installing

(* Only the Sources worker, which is over by then, would bring the         *)
(* artifacts back.                                                         *)
LEMMA CacheArtifacts ==
    ASSUME Prep!IInv, CacheInv, UNCHANGED <<prep, pc, at, permitted>>,
           worker[Sources] = "running"
    PROVE  CacheInv'
<1>1. Sources \in Range(Providers) /\ None \notin Range(Providers)
    BY ProvidersShape
<1>2. Sources \in started /\ (Sources \in handle \/ waiting = Sources)
    BY <1>1 DEF Prep!IInv, Prep!Bookkeeping, Prep!NoDetachedWorker
<1>3. pc \notin Early \cup Late \cup {"exit"}
    BY <1>1, <1>2 DEF Prep!IInv, Prep!Bookkeeping, CacheInv
<1> QED
    BY <1>3 DEF CacheInv, prep, Early, Mid, Late, Installing

(* A stage is entered behind its own preparation.                          *)
LEMMA CacheEnters ==
    ASSUME Prep!IInv, RunTypeOK, PlaceInv, CacheInv, NextProvider \/ NextIndependent
    PROVE  CacheInv'
<1> USE DEF CacheInv, Early, Mid, Late, Installing
<1>1. pc \in {"ext", "cont"} /\ UNCHANGED <<place, permit, cache>>
    BY DEF NextProvider, NextIndependent
<1>2. Sources \in Range(Providers) /\ Providers[1] = Sources
    BY ProvidersShape
<1>3. CASE pc' = "finish" /\ UNCHANGED prep
    BY <1>1, <1>3 DEF prep, place, permit, cache
<1>4. ASSUME NEW p \in Range(Providers), Enter(p), p = Providers[at], permitted => at = 1
      PROVE  CacheInv'
    <2>1. CASE Prep!Before(p) /\ pc' = "join"
        BY <1>1, <1>4, <2>1 DEF Prep!Before, Prep!StartJobs, Prep!MainFree, place, permit
    <2>2. CASE policy[p] = "Unsupported" /\ UNCHANGED prep
               /\ pc' = IF p = Sources THEN "source" ELSE "other"
        <3>1. p \notin handle
            BY <2>2 DEF Prep!IInv, Prep!Bookkeeping
        <3> QED
            BY <1>1, <2>2, <3>1 DEF prep, place, permit, cache
    <2> QED
        BY <1>4, <2>1, <2>2 DEF Enter
<1>5. CASE NextProvider
    <2>1. CASE ~(at > Len(Providers)) /\ Enter(Providers[at])
        <3>1. at <= Len(Providers) /\ ~permitted
            BY <1>5, <2>1, ProvidersShape DEF NextProvider, RunTypeOK, PlaceInv
        <3>2. Providers[at] \in Range(Providers)
            BY <3>1, ProvidersAt
        <3> QED
            BY <1>4, <2>1, <3>1, <3>2
    <2> QED
        BY <1>3, <1>5, <2>1 DEF NextProvider
<1>6. CASE NextIndependent
    <2>1. at = 1
        BY <1>6 DEF NextIndependent, PlaceInv
    <2>2. CASE Enter(Sources)
        BY <1>2, <1>4, <2>1, <2>2
    <2> QED
        BY <1>3, <1>6, <2>2 DEF NextIndependent
<1> QED
    BY <1>5, <1>6

LEMMA CacheJoined ==
    ASSUME Prep!IInv, RunTypeOK, PlaceInv, CacheInv, JoinStage
    PROVE  CacheInv'
<1>1. /\ pc = "join" /\ waiting' = None /\ pc' \in {"source", "other"}
      /\ UNCHANGED <<started, handle, policy, closed, finishing, place, permit, cache>>
    BY DEF JoinStage, Prep!JoinDone, prep
<1>2. pc' = "source" => Providers[at] = Sources
    BY ProvidersShape DEF JoinStage, CacheInv
<1> QED
    BY <1>1, <1>2 DEF CacheInv, Early, Mid, Late, Installing, place, permit, cache

LEMMA CacheWindows ==
    ASSUME Prep!IInv, CacheInv, Windows
    PROVE  CacheInv'
<1>1. PICK m \in Range(Planned), w \in Prep!Window : Prep!OnWindow(m, w)
    BY DEF Windows
<1>2. /\ pc \in {"nativeRun", "aurRun", "installing", "other", "hooks"} /\ ~closed
      /\ started' = started \cup (Prep!Eligible(m) \ started)
      /\ handle' = handle \cup (Prep!Eligible(m) \ started)
      /\ UNCHANGED <<policy, closed, waiting, finishing, pc, place, permit, cache>>
    BY <1>1 DEF Windows, Prep!OnWindow, Prep!StartJobs
<1>3. policy[Sources] = "Unsupported" \/ Sources \in started
          => Sources \notin Prep!Eligible(m) \ started
    BY DEF Prep!Eligible
<1> QED
    BY <1>2, <1>3 DEF CacheInv, Early, Mid, Late, Installing, place, permit, cache

LEMMA CacheNext ==
    Prep!IInv /\ RunTypeOK /\ PlaceInv /\ CacheInv /\ [Next]_vars => CacheInv'
<1> SUFFICES ASSUME Prep!IInv, RunTypeOK, PlaceInv, CacheInv, [Next]_vars PROVE CacheInv'
    OBVIOUS
<1>1. CASE Review \/ Record \/ Wait \/ Recheck \/ NativeStart
    BY <1>1, CacheMoves DEF Review, Record, Wait, Recheck, NativeStart, Early, cache
<1>2. CASE NativeDone \/ NativeFails
    BY <1>2, CacheMoves DEF NativeDone, NativeFails, Mid, cache
<1>3. CASE \/ AurStart \/ AurRefused \/ AurDone \/ \E built \in BOOLEAN : AurFails(built)
           \/ \E u \in AurPkg : AurInstalls(u)
    BY <1>3, CacheMoves DEF AurStart, AurRefused, AurDone, AurFails, AurInstalls, Mid, cache
<1>4. CASE PlanInvalid \/ OtherDone \/ OtherFails
    BY <1>4, CacheMoves DEF PlanInvalid, OtherDone, OtherFails, Mid, cache
<1>5. CASE NextProvider \/ NextIndependent
    BY <1>5, CacheEnters
<1>6. CASE JoinStage
    BY <1>6, CacheJoined
<1>7. CASE SourcePrepared \/ SourceUnprepared
    BY <1>7 DEF SourcePrepared, SourceUnprepared, SourceFailed, CacheInv, Early, Mid, Late,
                Installing, prep
<1>8. CASE InstallStart \/ InstallDone \/ SourceDone \/ InstallFails \/ SourceUnverified
    BY <1>8, CacheMoves DEF InstallStart, InstallDone, SourceDone, SourceEnd, InstallFails,
                            SourceUnverified, SourceFailed, Mid, Installing, cache
<1>9. CASE Finish
    BY <1>9 DEF Finish, Prep!Finish, CacheInv, Early, Mid, Late, Installing
<1>10. CASE FinishStep
    BY <1>10 DEF FinishStep, Prep!JoinDone, Prep!FinishJoin, CacheInv, Early, Mid, Late,
                 Installing
<1>11. CASE Finished
    BY <1>11 DEF Finished, Prep!MainFree, CacheInv, Early, Mid, Late, Installing, prep
<1>12. CASE Clear
    BY <1>12 DEF Clear, CacheInv, Early, Mid, Late, Installing, prep
<1>13. CASE Journal \/ Hooks \/ Orphans \/ Cache
    BY <1>13, CacheMoves DEF Journal, Hooks, Orphans, Cache, Late, cache
<1>14. CASE Foreign \/ DownloadEnds \/ UNCHANGED vars
    BY <1>14, CacheMoves DEF Foreign, DownloadEnds, vars, cache, place, permit
<1>15. CASE Windows
    BY <1>15, CacheWindows
<1>16. CASE Fetch
    BY <1>16, CacheArtifacts DEF Fetch, place, permit
<1>17. CASE \E p \in Range(Providers) : WorkerEnd(p)
    BY <1>17 DEF WorkerEnd, Prep!WorkerEnd, CacheInv, Early, Mid, Late, Installing,
                 place, permit, cache
<1> QED
    BY <1>1, <1>2, <1>3, <1>4, <1>5, <1>6, <1>7, <1>8, <1>9, <1>10, <1>11, <1>12, <1>13,
       <1>14, <1>15, <1>16, <1>17 DEF Next, Main

(* The worker that fills the cache of prefetched artifacts and the stage   *)
(* that takes packages from it never work at the same time, and no         *)
(* workspace outlives the run (execute_upgrades, clear_prefetched).        *)
THEOREM ArtifactsHaveOneOwner == Spec => []ArtifactsAreOwned
<1>1. Spec => []CacheInv
    BY CacheInit, CacheNext, SessionAlways, PlaceAlways, PTL DEF Spec
<1> QED
    BY <1>1, CacheSuffices, SessionAlways, PTL

-----------------------------------------------------------------------------
(* What is installed when the run believes that a stage succeeded.         *)
Past == {"aur", "aurRun", "cont"} \cup Stages
Closing == Back \ {"exit"}
Effect == db.done \cup upgraded

DoneInv ==
    /\ pc \in Past \/ nativeOk => Native \in db.done
    /\ aurOk \/ (pc \in Stages /\ ~permitted) => AurPkg \subseteq db.done
    /\ pc \in Stages /\ ~permitted =>
          /\ \A i \in 1 .. at - 1 : Units(Providers[i]) \subseteq Effect
          /\ \A i \in 1 .. src - 1 : SourceSeq[i] \in db.done
    /\ \A m \in outcomes \cup cleaned : Units(m) \subseteq Effect
    /\ (pc \in Closing /\ success) \/ hookAur # None \/ code = 0 => AllUnits \subseteq Effect

LEMMA DoneSuffices == DoneInv => OutcomeIsTruthful
BY DEF DoneInv, Effect, OutcomeIsTruthful, ExitIsTruthful, CachesOfCompleted

LEMMA DoneInit == Init => DoneInv
BY PlanAssumption DEF Init, DoneInv, Past, Stages, Installing, Closing, Back

(* Installing more takes nothing back, and a failure claims nothing.       *)
LEMMA DoneMoves ==
    ASSUME DoneInv, db.done \subseteq db'.done, upgraded \subseteq upgraded',
           UNCHANGED <<at, src, nativeOk, aurOk, outcomes, cleaned, hookAur>>,
           code' = code \/ code' \in {None, 1}, success' => success,
           pc' \in Past => pc \in Past,
           pc' \in Stages /\ ~permitted' => pc \in Stages /\ ~permitted,
           pc' \in Closing => pc \in Closing \/ ~success'
    PROVE  DoneInv'
<1>1. Effect \subseteq Effect'
    BY DEF Effect
<1>2. code' = 0 => code = 0
    BY PlanAssumption
<1>3. /\ pc' \in Past \/ nativeOk' => Native \in db'.done
      /\ aurOk' \/ (pc' \in Stages /\ ~permitted') => AurPkg \subseteq db'.done
    BY DEF DoneInv
<1>4. ASSUME pc' \in Stages, ~permitted'
      PROVE  /\ \A i \in 1 .. at' - 1 : Units(Providers[i]) \subseteq Effect'
             /\ \A i \in 1 .. src' - 1 : SourceSeq[i] \in db'.done
    BY <1>1, <1>4 DEF DoneInv
<1>5. \A m \in outcomes' \cup cleaned' : Units(m) \subseteq Effect'
    BY <1>1 DEF DoneInv
<1>6. (pc' \in Closing /\ success') \/ hookAur' # None \/ code' = 0 => AllUnits \subseteq Effect'
    BY <1>1, <1>2 DEF DoneInv
<1> QED
    BY <1>3, <1>4, <1>5, <1>6 DEF DoneInv

(* The stages before the AUR stage is done.                                *)
LEMMA DoneFront ==
    ASSUME RunTypeOK, PlaceInv, DoneInv,
           \/ Review \/ Record \/ Wait \/ Recheck \/ NativeStart \/ NativeDone \/ NativeFails
           \/ AurStart \/ AurRefused \/ AurDone \/ \E built \in BOOLEAN : AurFails(built)
           \/ \E u \in AurPkg : AurInstalls(u)
    PROVE  DoneInv'
<1> USE DEF Past, Stages, Installing, Closing, Back
<1>1. CASE Review \/ Record \/ Wait \/ Recheck \/ NativeStart
    <2>1. /\ UNCHANGED <<db, upgraded, at, src, nativeOk, aurOk, outcomes, cleaned, hookAur,
                         success>>
          /\ code' = code \/ code' \in {None, 1}
          /\ pc' \in Front \cup {"exit"} /\ pc' \notin {"aur", "aurRun"}
        BY <1>1 DEF Review, Record, Wait, Recheck, NativeStart, Front, place, result, system,
                    ending
    <2> QED
        BY <2>1, DoneMoves DEF Front
<1>2. CASE NativeDone
    <2>1. db'.done = db.done \cup {Native} /\ pc' = "aur"
        BY <1>2 DEF NativeDone, RunTypeOK, Database
    <2> QED
        BY <1>2, <2>1 DEF NativeDone, DoneInv, Effect, place, ending
<1>3. CASE NativeFails
    <2>1. db.done \subseteq db'.done
        BY <1>3, FailedKeeps DEF NativeFails, RunTypeOK
    <2> QED
        BY <1>3, <2>1, DoneMoves DEF NativeFails, place, ending
<1>4. CASE AurStart \/ AurRefused \/ \E built \in BOOLEAN : AurFails(built)
    <2>1. /\ UNCHANGED <<db, upgraded, at, src, nativeOk, aurOk, outcomes, cleaned, hookAur,
                         code>>
          /\ pc \in {"aur", "aurRun"}
          /\ \/ pc' = "aurRun" /\ success' = success
             \/ pc' \in {"cont", "finish"} /\ success' = FALSE
        BY <1>4 DEF AurStart, AurRefused, AurFails, place, result, system, ending
    <2> QED
        BY <2>1, DoneMoves
<1>5. CASE AurDone
    <2>1. /\ AurPkg \subseteq db.done /\ Native \in db.done /\ pc' = "ext" /\ pc = "aurRun"
          /\ at' = 1 /\ src' = 1
          /\ UNCHANGED <<db, upgraded, outcomes, cleaned, hookAur, code>>
        BY <1>5 DEF AurDone, DoneInv, PlaceInv, Front, place, system, ending
    <2> QED
        BY <2>1 DEF DoneInv, Effect
<1>6. CASE \E u \in AurPkg : AurInstalls(u)
    <2>1. PICK u \in AurPkg : AurInstalls(u)
        BY <1>6
    <2>2. db.done \subseteq db'.done
        BY <2>1, FailedKeeps DEF AurInstalls, RunTypeOK, Database
    <2>3. UNCHANGED <<pc, upgraded, at, src, permitted, success, nativeOk, aurOk, outcomes,
                      cleaned, hookAur, code>>
        BY <2>1 DEF AurInstalls, place, result, ending
    <2> QED
        BY <2>2, <2>3, DoneMoves
<1> QED
    BY <1>1, <1>2, <1>3, <1>4, <1>5, <1>6

(* The loops over the external managers and the independent updates.       *)
LEMMA DoneStages ==
    ASSUME RunTypeOK, PlaceInv, DoneInv,
           \/ NextProvider \/ NextIndependent \/ PlanInvalid \/ JoinStage
           \/ OtherDone \/ OtherFails
    PROVE  DoneInv'
<1> USE DEF Past, Stages, Installing, Closing, Back
<1>1. CASE NextProvider
    <2>1. /\ pc = "ext" /\ ~permitted
          /\ UNCHANGED <<db, upgraded, at, src, permitted, success, nativeOk, aurOk, outcomes,
                         cleaned, hookAur, code>>
        BY <1>1 DEF NextProvider, PlaceInv, place, result, system, permit, ending
    <2>2. CASE at > Len(Providers) /\ pc' = "finish"
        <3>1. at - 1 = Len(Providers)
            BY <2>2, ProvidersShape DEF RunTypeOK
        <3>2. \A i \in 1 .. Len(Providers) : Units(Providers[i]) \subseteq Effect
            BY <2>1, <3>1 DEF DoneInv
        <3>3. \A m \in Range(Providers) : Units(m) \subseteq Effect
            BY <3>2 DEF Range
        <3>4. Range(SourceSeq) \subseteq Effect /\ \A m \in Range(Others) : m \in Effect
            BY <3>3, ProvidersShape, UnitsShape
        <3>5. {Native} \cup AurPkg \subseteq Effect
            BY <2>1 DEF DoneInv, Effect
        <3>6. AllUnits \subseteq Effect
            BY <3>4, <3>5, UnitsShape
        <3> QED
            BY <2>1, <2>2, <3>6 DEF DoneInv, Effect
    <2>3. CASE ~(at > Len(Providers)) /\ Enter(Providers[at])
        <3>1. pc' \in {"join", "source", "other"}
            BY <2>3, EnterGoesOn
        <3> QED
            BY <2>1, <3>1, DoneMoves
    <2> QED
        BY <1>1, <2>2, <2>3 DEF NextProvider
<1>2. CASE NextIndependent
    <2>1. /\ pc = "cont" /\ permitted /\ ~success
          /\ UNCHANGED <<db, upgraded, at, src, permitted, success, nativeOk, aurOk, outcomes,
                         cleaned, hookAur, code>>
        BY <1>2 DEF NextIndependent, PlaceInv, place, result, system, permit, ending
    <2> QED
        BY <2>1, DoneMoves
<1>3. CASE PlanInvalid \/ OtherFails
    <2>1. /\ upgraded \subseteq upgraded' /\ pc' = "finish" /\ success' = FALSE
          /\ UNCHANGED <<db, at, src, nativeOk, aurOk, outcomes, cleaned, hookAur, code>>
        BY <1>3 DEF PlanInvalid, OtherFails, place, system, ending
    <2> QED
        BY <2>1, DoneMoves
<1>4. CASE JoinStage
    <2>1. /\ pc = "join" /\ pc' \in {"source", "other"}
          /\ UNCHANGED <<db, upgraded, at, src, permitted, success, nativeOk, aurOk, outcomes,
                         cleaned, hookAur, code>>
        BY <1>4 DEF JoinStage, place, result, system, permit, ending
    <2> QED
        BY <2>1, DoneMoves
<1>5. CASE OtherDone
    <2>1. /\ pc = "other" /\ pc' = "ext" /\ ~permitted /\ ~permitted' /\ at' = at + 1
          /\ upgraded' = upgraded \cup {Providers[at]}
          /\ outcomes' = outcomes \cup {Providers[at]}
          /\ UNCHANGED <<db, src, success, nativeOk, aurOk, cleaned, hookAur, code>>
        BY <1>5 DEF OtherDone, PlaceInv, permit, ending
    <2>2. Effect' = Effect \cup {Providers[at]}
        BY <2>1 DEF Effect
    <2>3. Units(Providers[at]) = {Providers[at]}
        BY <2>1, ProvidersAt, UnitsShape DEF PlaceInv
    <2>4. \A i \in 1 .. at' - 1 : i \in 1 .. at - 1 \/ i = at
        BY <2>1 DEF RunTypeOK
    <2>5. \A i \in 1 .. at' - 1 : Units(Providers[i]) \subseteq Effect'
        BY <2>1, <2>2, <2>3, <2>4 DEF DoneInv
    <2>6. \A m \in outcomes' \cup cleaned' : Units(m) \subseteq Effect'
        BY <2>1, <2>2, <2>3 DEF DoneInv
    <2> QED
        BY <2>1, <2>2, <2>5, <2>6 DEF DoneInv
<1> QED
    BY <1>1, <1>2, <1>3, <1>4, <1>5

(* Sources, one update after another.                                      *)
LEMMA DoneSources ==
    ASSUME RunTypeOK, PlaceInv, DoneInv,
           \/ SourcePrepared \/ InstallStart \/ InstallDone \/ SourceDone
           \/ SourceUnprepared \/ InstallFails \/ SourceUnverified
    PROVE  DoneInv'
<1> USE DEF Past, Stages, Installing, Closing, Back
<1>1. CASE SourcePrepared \/ InstallStart
    <2>1. /\ pc \in {"source", "install"} /\ pc' \in {"install", "installing"}
          /\ UNCHANGED <<db, upgraded, at, src, permitted, success, nativeOk, aurOk, outcomes,
                         cleaned, hookAur, code>>
        BY <1>1 DEF SourcePrepared, InstallStart, place, result, system, permit, ending
    <2> QED
        BY <2>1, DoneMoves
<1>2. CASE InstallDone
    <2>1. db.done \subseteq db'.done
        BY <1>2 DEF InstallDone, RunTypeOK, Database
    <2> QED
        BY <1>2, <2>1, DoneMoves DEF InstallDone, place, result, permit, ending
<1>3. CASE SourceDone
    <2>1. /\ pc = "verify" /\ SourceSeq[src] \in db.done
          /\ UNCHANGED <<db, upgraded, permitted, success, nativeOk, aurOk, cleaned, hookAur,
                         code>>
          /\ SourceEnd
        BY <1>3 DEF SourceDone, system
    <2>2. Effect' = Effect
        BY <2>1 DEF Effect
    <2>3. CASE permitted
        <3>1. pc' = "cont" /\ UNCHANGED outcomes
            BY <2>1, <2>3 DEF SourceEnd
        <3> QED
            BY <2>1, <2>2, <3>1 DEF DoneInv
    <2>4. CASE ~permitted
        <3>1. /\ src \in 1 .. Len(SourceSeq) /\ at = 1
            BY <2>1, SourceAt
        <3>2. \A i \in 1 .. src : SourceSeq[i] \in db.done
            <4>1. \A i \in 1 .. src : i \in 1 .. src - 1 \/ i = src
                BY <3>1
            <4> QED
                BY <2>1, <2>4, <4>1 DEF DoneInv
        <3>3. CASE src < Len(SourceSeq)
            <4>1. src' = src + 1 /\ pc' = "source" /\ UNCHANGED <<at, outcomes>>
                BY <2>1, <2>4, <3>3 DEF SourceEnd
            <4>2. 1 .. src' - 1 = 1 .. src
                BY <3>1, <4>1
            <4> QED
                BY <2>1, <2>2, <2>4, <3>2, <4>1, <4>2 DEF DoneInv
        <3>4. CASE ~(src < Len(SourceSeq))
            <4>1. at' = at + 1 /\ pc' = "ext" /\ outcomes' = outcomes \cup {Sources} /\ src' = src
                BY <2>1, <2>4, <3>4 DEF SourceEnd
            <4>2. src = Len(SourceSeq)
                BY <3>1, <3>4
            <4>3. Units(Sources) \subseteq Effect
                BY <3>2, <4>2, UnitsShape, SourcesShape DEF Effect
            <4>4. \A i \in 1 .. at' - 1 : Providers[i] = Sources
                BY <3>1, <4>1, ProvidersShape
            <4> QED
                BY <2>1, <2>2, <2>4, <4>1, <4>3, <4>4 DEF DoneInv
        <3> QED
            BY <3>3, <3>4
    <2> QED
        BY <2>3, <2>4
<1>4. CASE SourceUnprepared \/ InstallFails \/ SourceUnverified
    <2>1. /\ pc \in Installing /\ db.done \subseteq db'.done
          /\ \/ pc' = "cont" /\ UNCHANGED <<at, success>> /\ permitted /\ ~success
             \/ pc' = "finish" /\ success' = FALSE /\ UNCHANGED <<at, src>>
          /\ UNCHANGED <<upgraded, permitted, nativeOk, aurOk, outcomes, cleaned, hookAur, code>>
        BY <1>4 DEF SourceUnprepared, InstallFails, SourceUnverified, SourceFailed, place,
                    FailedTransaction, RunTypeOK, Database, PlaceInv, system, permit, ending
    <2>2. Effect \subseteq Effect'
        BY <2>1 DEF Effect
    <2> QED
        BY <2>1, <2>2 DEF DoneInv
<1> QED
    BY <1>1, <1>2, <1>3, <1>4

(* After the stages: hooks, orphans and cache cleanup.                     *)
LEMMA DoneBack ==
    ASSUME RunTypeOK, PlaceInv, DoneInv,
           \/ Finish \/ FinishStep \/ Finished \/ Clear \/ Journal \/ Hooks \/ Orphans \/ Cache
    PROVE  DoneInv'
<1> USE DEF Past, Stages, Installing, Closing, Back
<1>1. CASE Finish \/ FinishStep \/ Finished \/ Clear \/ Journal \/ Orphans
    <2>1. /\ pc \in Closing /\ pc' \in Closing /\ (success' => success)
          /\ UNCHANGED <<db, upgraded, at, src, nativeOk, aurOk, outcomes, cleaned, hookAur,
                         code>>
        <3>1. CASE Finish \/ FinishStep \/ Finished \/ Clear \/ Journal
            BY <1>1, <3>1 DEF Finish, FinishStep, Finished, Clear, Journal, place, result,
                              system, ending
        <3>2. CASE Orphans
            BY <1>1, <3>2 DEF Orphans, place, system, ending
        <3> QED
            BY <1>1, <3>1, <3>2
    <2> QED
        BY <2>1, DoneMoves
<1>2. CASE Hooks
    <2>1. /\ pc = "hooks" /\ pc' = "orphans"
          /\ UNCHANGED <<db, upgraded, nativeOk, aurOk, outcomes, cleaned, code>>
          /\ success' \/ hookAur' # None => success \/ hookAur # None
        BY <1>2 DEF Hooks, system, ending
    <2>2. Effect' = Effect
        BY <2>1 DEF Effect
    <2> QED
        BY <2>1, <2>2 DEF DoneInv
<1>3. CASE Cache
    <2>1. /\ pc = "cache" /\ pc' = "exit"
          /\ UNCHANGED <<db, upgraded, nativeOk, aurOk, outcomes, hookAur>>
          /\ code' = 0 => success
        <3>1. code' = 0 => success'
            BY <1>3 DEF Cache
        <3>2. success' => success
            BY <1>3 DEF Cache
        <3> QED
            BY <1>3, <3>1, <3>2 DEF Cache, system
    <2>2. Effect' = Effect /\ (code' = 0 => AllUnits \subseteq Effect)
        BY <2>1 DEF Effect, DoneInv
    <2>3. AurCleanup => AurPkg \subseteq Effect
        BY UnitsShape DEF AurCleanup, DoneInv, Effect
    <2>4. \A m \in outcomes' \cup cleaned' : Units(m) \subseteq Effect'
        <3>1. ASSUME NEW m \in cleaned', ~(m \in outcomes \cup cleaned)
              PROVE  (m = Native /\ nativeOk) \/ (m = Aur /\ AurCleanup)
            <4>1. flags.noCache
                BY <1>3, <3>1 DEF Cache
            <4>2. /\ cleaned' = (IF nativeOk THEN {Native} ELSE {})
                                \cup (IF AurCleanup THEN {Aur} ELSE {}) \cup outcomes
                BY <1>3, <4>1 DEF Cache
            <4> QED
                BY <3>1, <4>2
        <3> QED
            BY <2>1, <2>2, <2>3, <3>1, UnitsShape DEF DoneInv, Effect
    <2> QED
        BY <2>1, <2>2, <2>4 DEF DoneInv
<1> QED
    BY <1>1, <1>2, <1>3

LEMMA DoneAround ==
    ASSUME RunTypeOK, DoneInv,
           \/ Foreign \/ DownloadEnds \/ Windows \/ Fetch
           \/ \E p \in Range(Providers) : WorkerEnd(p)
           \/ UNCHANGED vars
    PROVE  DoneInv'
<1>1. /\ db'.done = db.done
      /\ UNCHANGED <<upgraded, at, src, permitted, success, nativeOk, aurOk, outcomes, cleaned,
                     hookAur, code, pc>>
    BY DEF Foreign, DownloadEnds, Windows, Fetch, WorkerEnd, vars, place, result, system, permit,
           ending, RunTypeOK, Database
<1> QED
    BY <1>1, DoneMoves

LEMMA DoneNext == RunTypeOK /\ PlaceInv /\ DoneInv /\ [Next]_vars => DoneInv'
BY DoneFront, DoneStages, DoneSources, DoneBack, DoneAround DEF Next, Main

(* A run exits with 0 only if everything approved is installed, and cleans *)
(* only caches of managers that have installed all of theirs (all_success, *)
(* external_outcomes and cleanup_aur_cache in commands/upgrade.rs).        *)
THEOREM OutcomeAgrees == Spec => []OutcomeIsTruthful
<1>1. Spec => []DoneInv
    BY DoneInit, DoneNext, PlaceAlways, PTL DEF Spec
<1> QED
    BY <1>1, DoneSuffices, PTL

-----------------------------------------------------------------------------
(* What the permit knows of the AUR stage and of the installs under it.    *)
Untouched(d) == AurPkg \cap (d.done \cup d.partial) = {}

PermitInv ==
    /\ pc \in Front \ {"aurRun"} \/ permitted => Untouched(db)
    /\ pc = "aurRun" /\ checkpoint # None => Untouched(checkpoint)
    /\ permitted /\ pc \in {"install", "installing", "verify"} => SourceSeq[src] \notin AurPkg
    /\ attempted => permitted
    /\ unverified \subseteq IF attempted THEN {SourceSeq[src]} ELSE {}

LEMMA PermitInit == Init => PermitInv
BY DEF Init, PermitInv, Untouched, Front

LEMMA PermitFront ==
    ASSUME RunTypeOK, PlaceInv, PermitInv,
           \/ Review \/ Record \/ Wait \/ Recheck \/ NativeStart \/ NativeDone \/ NativeFails
           \/ AurStart \/ AurRefused \/ AurDone \/ \E built \in BOOLEAN : AurFails(built)
           \/ \E u \in AurPkg : AurInstalls(u)
    PROVE  PermitInv'
<1>1. pc \in Front /\ ~permitted /\ ~attempted /\ unverified = {}
    BY DEF PlaceInv, Front, Review, Record, Wait, Recheck, NativeStart, NativeDone, NativeFails,
           AurStart, AurRefused, AurDone, AurFails, AurInstalls
<1>2. CASE Review \/ Record \/ Wait \/ Recheck \/ NativeStart
    <2>1. /\ pc \in Front \ {"aurRun"} /\ pc' # "aurRun"
          /\ UNCHANGED <<db, permitted, checkpoint, attempted, unverified, src>>
        BY <1>2 DEF Review, Record, Wait, Recheck, NativeStart, Front, place, system, permit
    <2> QED
        BY <1>1, <2>1 DEF PermitInv, Untouched
<1>3. CASE NativeDone
    <2>1. /\ db'.done = db.done \cup {Native} /\ db'.partial = db.partial
          /\ pc = "nativeRun" /\ pc' = "aur"
          /\ UNCHANGED <<permitted, checkpoint, attempted, unverified, src>>
        BY <1>3 DEF NativeDone, RunTypeOK, Database, place, permit
    <2> QED
        BY <1>1, <2>1, PlanAssumption DEF PermitInv, Untouched, Front
<1>4. CASE NativeFails \/ AurRefused \/ AurDone
    <2>1. /\ pc' \in {"finish", "ext"}
          /\ UNCHANGED <<permitted, checkpoint, attempted, unverified, src>>
        BY <1>4 DEF NativeFails, AurRefused, AurDone, place, permit
    <2> QED
        BY <1>1, <2>1 DEF PermitInv, Untouched, Front
<1>5. CASE AurStart
    <2>1. /\ pc = "aur" /\ pc' = "aurRun" /\ checkpoint' \in {db, None}
          /\ UNCHANGED <<db, permitted, attempted, unverified, src>>
        BY <1>5 DEF AurStart, place, system
    <2> QED
        BY <1>1, <2>1 DEF PermitInv, Untouched, Front
<1>6. CASE \E built \in BOOLEAN : AurFails(built)
    <2>1. /\ pc = "aurRun" /\ pc' \in {"cont", "finish"}
          /\ permitted' => checkpoint # None /\ checkpoint = db
          /\ UNCHANGED <<db, checkpoint, attempted, unverified, src>>
        <3>1. PICK built \in BOOLEAN : AurFails(built)
            BY <1>6
        <3>2. PICK granted \in {built /\ ~seen /\ checkpoint # None /\ Valid(db), FALSE} :
                  permitted' = granted /\ pc' = IF granted THEN "cont" ELSE "finish"
            BY <3>1 DEF AurFails
        <3>3. granted => checkpoint # None /\ checkpoint = db
            BY DEF Valid
        <3> QED
            BY <3>1, <3>2, <3>3 DEF AurFails, place, system
    <2> QED
        BY <1>1, <2>1 DEF PermitInv, Untouched, Front
<1>7. CASE \E u \in AurPkg : AurInstalls(u)
    <2>1. /\ pc = "aurRun" /\ pc' = "aurRun"
          /\ UNCHANGED <<permitted, checkpoint, attempted, unverified, src>>
        BY <1>7 DEF AurInstalls, place
    <2> QED
        BY <1>1, <2>1 DEF PermitInv, Untouched, Front
<1> QED
    BY <1>2, <1>3, <1>4, <1>5, <1>6, <1>7

LEMMA PermitSources ==
    ASSUME RunTypeOK, PlaceInv, PermitInv,
           \/ SourcePrepared \/ InstallStart \/ InstallDone \/ SourceDone
           \/ SourceUnprepared \/ InstallFails \/ SourceUnverified
    PROVE  PermitInv'
<1>0. pc \in Installing /\ pc' \in Installing \cup {"cont", "ext", "finish"}
    BY DEF SourcePrepared, InstallStart, InstallDone, SourceDone, SourceUnprepared, InstallFails,
           SourceUnverified, Installing, SourceEnd, SourceFailed
<1> USE DEF PermitInv, Front, Installing
<1>1. CASE SourcePrepared
    BY <1>0, <1>1 DEF SourcePrepared, Untouched, place, system, permit
<1>2. CASE InstallStart
    BY <1>0, <1>2 DEF InstallStart, Valid, Untouched, place, system
<1>3. CASE InstallDone
    <2>1. db'.done \subseteq db.done \cup {SourceSeq[src]} /\ db'.partial = db.partial
        BY <1>3 DEF InstallDone, RunTypeOK, Database
    <2> QED
        BY <1>0, <1>3, <2>1 DEF InstallDone, Untouched, place, permit
<1>4. CASE SourceDone
    <2>1. pc' \in {"source", "cont", "ext"}
        BY <1>4 DEF SourceDone, SourceEnd
    <2> QED
        BY <1>0, <1>4, <2>1 DEF SourceDone, Untouched, system
<1>5. CASE SourceUnprepared \/ InstallFails \/ SourceUnverified
    <2>1. /\ db'.done = db.done
          /\ \/ db'.partial = db.partial
             \/ pc = "installing" /\ db'.partial = db.partial \cup {SourceSeq[src]}
          /\ pc' \in {"cont", "finish"}
          /\ UNCHANGED <<permitted, checkpoint, attempted, unverified>>
        BY <1>5 DEF SourceFailed, SourceUnprepared, InstallFails, SourceUnverified, FailedTransaction,
                    RunTypeOK, Database, system, permit
    <2>2. UNCHANGED src \/ ~attempted
        BY <1>5 DEF SourceUnprepared, InstallFails, SourceUnverified, SourceFailed, Valid, place
    <2> QED
        BY <1>0, <2>1, <2>2 DEF Untouched
<1> QED
    BY <1>1, <1>2, <1>3, <1>4, <1>5

LEMMA PermitNext == RunTypeOK /\ PlaceInv /\ PermitInv /\ [Next]_vars => PermitInv'
<1> SUFFICES ASSUME RunTypeOK, PlaceInv, PermitInv, [Next]_vars PROVE PermitInv'
    OBVIOUS
<1>1. ASSUME db'.done = db.done, db'.partial = db.partial, pc' = pc \/ pc' \notin Front \cup {"install", "installing", "verify"},
             UNCHANGED <<permitted, checkpoint, attempted, unverified, src>>
      PROVE  PermitInv'
    BY <1>1 DEF PermitInv, Untouched, Front
<1>2. CASE \/ NextProvider \/ NextIndependent \/ PlanInvalid \/ JoinStage
           \/ OtherDone \/ OtherFails
    BY <1>1, <1>2 DEF NextProvider, NextIndependent, Enter, PlanInvalid, JoinStage, OtherDone,
                      OtherFails, Front, place, system, permit
<1>3. CASE Finish \/ FinishStep \/ Finished \/ Clear \/ Journal \/ Hooks \/ Orphans \/ Cache
    BY <1>1, <1>3 DEF Finish, FinishStep, Finished, Clear, Journal, Hooks, Orphans, Cache, Front,
                      place, system, permit
<1>4. CASE \/ Foreign \/ DownloadEnds \/ Windows \/ Fetch
           \/ \E p \in Range(Providers) : WorkerEnd(p)
           \/ UNCHANGED vars
    BY <1>1, <1>4 DEF Foreign, DownloadEnds, Windows, Fetch, WorkerEnd, vars, place, system,
                      permit, RunTypeOK, Database
<1> QED
    BY <1>2, <1>3, <1>4, PermitFront, PermitSources DEF Next, Main

(* Which step begins a command.                                            *)
LEMMA StartSteps ==
    ASSUME [Next]_vars, Starts
    PROVE  \/ NativeStart \/ AurStart \/ InstallStart
           \/ pc' = "other" /\ (NextProvider \/ NextIndependent \/ JoinStage)
<1> USE DEF Starts
<1>1. CASE Review \/ Record \/ Wait \/ Recheck \/ NativeDone \/ NativeFails
    BY <1>1 DEF Review, Record, Wait, Recheck, NativeDone, NativeFails
<1>2. CASE \/ AurRefused \/ AurDone \/ \E built \in BOOLEAN : AurFails(built)
           \/ \E u \in AurPkg : AurInstalls(u)
    BY <1>2 DEF AurRefused, AurDone, AurFails, AurInstalls
<1>3. CASE PlanInvalid \/ OtherDone \/ OtherFails \/ NextProvider \/ NextIndependent \/ JoinStage
    BY <1>3 DEF PlanInvalid, OtherDone, OtherFails, NextProvider, NextIndependent, JoinStage,
                Enter
<1>4. CASE \/ SourcePrepared \/ InstallDone \/ SourceDone
           \/ SourceUnprepared \/ InstallFails \/ SourceUnverified
    BY <1>4 DEF SourcePrepared, InstallDone, SourceDone, SourceEnd, SourceUnprepared,
                InstallFails, SourceUnverified, SourceFailed
<1>5. CASE Finish \/ FinishStep \/ Finished \/ Clear \/ Journal \/ Hooks \/ Orphans \/ Cache
    BY <1>5 DEF Finish, FinishStep, Finished, Clear, Journal, Hooks, Orphans, Cache
<1>6. CASE \/ Foreign \/ DownloadEnds \/ Windows \/ Fetch
           \/ \E p \in Range(Providers) : WorkerEnd(p)
           \/ UNCHANGED vars
    BY <1>6 DEF Foreign, DownloadEnds, Windows, Fetch, WorkerEnd, vars
<1> QED
    BY <1>1, <1>2, <1>3, <1>4, <1>5, <1>6 DEF Next, Main

LEMMA StartsBuildOnSuccess ==
    ASSUME RunTypeOK, PlaceInv, DoneInv, [Next]_vars, Starts
    PROVE  \/ Earlier \subseteq db.done \cup upgraded
           \/ pc' = "installing" /\ permitted
<1> USE DEF Past, Stages, Installing
<1>1. CASE NativeStart
    BY <1>1 DEF NativeStart, Earlier
<1>2. CASE AurStart
    BY <1>2 DEF AurStart, Earlier, DoneInv
<1>3. CASE InstallStart
    <2>1. pc' = "installing" /\ pc = "install"
        BY <1>3 DEF InstallStart
    <2>2. Earlier = {Native} \cup AurPkg \cup {SourceSeq[i] : i \in 1..(src - 1)}
        BY <2>1 DEF Earlier
    <2> QED
        BY <2>1, <2>2 DEF DoneInv
<1>4. CASE pc' = "other" /\ (NextProvider \/ NextIndependent \/ JoinStage)
    <2>1. pc \in {"ext", "join"} /\ ~permitted
        BY <1>4, EnterGoesOn DEF NextProvider, NextIndependent, JoinStage, PlaceInv
    <2>2. Earlier = UNION {Units(m) : m \in {Native, Aur} \cup
                                           {Providers[i] : i \in 1..(at - 1)}}
        BY <1>4 DEF Earlier
    <2>3. Units(Native) \cup Units(Aur) \subseteq db.done
        BY <2>1, UnitsShape DEF DoneInv
    <2>4. \A i \in 1..(at - 1) : Units(Providers[i]) \subseteq db.done \cup upgraded
        BY <2>1 DEF DoneInv, Effect
    <2> QED
        BY <2>2, <2>3, <2>4
<1> QED
    BY <1>1, <1>2, <1>3, <1>4, StartSteps

LEMMA StartsAreIsolated ==
    ASSUME RunTypeOK, PlaceInv, DoneInv, PermitInv, [Next]_vars, Starts, permitted
    PROVE  /\ pc' = "installing"
           /\ AurPkg \cap (db.done \cup db.partial) = {}
           /\ Native \in db.done
           /\ unverified = {} /\ ~db.broken
<1>1. ~NativeStart /\ ~AurStart
    BY DEF NativeStart, AurStart, PlaceInv, Front
<1>2. ~(pc' = "other" /\ (NextProvider \/ NextIndependent \/ JoinStage))
    BY EnterGoesOn DEF NextProvider, NextIndependent, JoinStage, PlaceInv
<1>3. InstallStart
    BY <1>1, <1>2, StartSteps
<1>4. pc = "install" /\ pc' = "installing" /\ ~attempted /\ ~db.broken
    BY <1>3 DEF InstallStart, Valid
<1> QED
    BY <1>4 DEF DoneInv, Past, Stages, Installing, PermitInv, Untouched

(* A command of the plan begins only when all before it is installed;      *)
(* under a continuation permit only a Sources install does, and only while *)
(* the failed AUR stage left no trace and no install before it is left     *)
(* unverified (execute_upgrades, execute_after_aur_failure and             *)
(* AurBuildFailurePermit).                                                 *)
THEOREM StagesGuarded == Spec => StagesAreGuarded
<1>1. Spec => [](RunTypeOK /\ PlaceInv /\ DoneInv /\ PermitInv)
    BY DoneInit, DoneNext, PermitInit, PermitNext, PlaceAlways, PTL DEF Spec
<1>2. RunTypeOK /\ PlaceInv /\ DoneInv /\ PermitInv /\ [Next]_vars
        => [Starts => \/ Earlier \subseteq db.done \cup upgraded
                      \/ pc' = "installing" /\ permitted]_vars
    BY StartsBuildOnSuccess
<1>3. RunTypeOK /\ PlaceInv /\ DoneInv /\ PermitInv /\ [Next]_vars
        => [Starts /\ permitted =>
              /\ pc' = "installing"
              /\ AurPkg \cap (db.done \cup db.partial) = {}
              /\ Native \in db.done
              /\ unverified = {} /\ ~db.broken]_vars
    BY StartsAreIsolated
<1>4. Spec => StagesBuildOnSuccess
    BY <1>1, <1>2, PTL DEF Spec, StagesBuildOnSuccess
<1>5. Spec => ContinuationIsIsolated
    BY <1>1, <1>3, PTL DEF Spec, ContinuationIsIsolated
<1> QED
    BY <1>4, <1>5 DEF StagesAreGuarded
=============================================================================
