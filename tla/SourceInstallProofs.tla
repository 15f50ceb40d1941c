------------------------- MODULE SourceInstallProofs -------------------------
(***************************************************************************)
(* What is proved of the sources for every configuration, catalog and      *)
(* course of events: type correctness, that discovery loses no update, and *)
(* that what is built, installed and recorded is what was approved.        *)
(*                                                                         *)
(* The inductive invariant IInv (SourceInstall) is kept part by part:      *)
(* DiscoverInv and DiscoveryLossless by the steps of discovery, QueueInv   *)
(* by the steps that plan, SpaceInv by those that move a workspace,        *)
(* ContentInv by those that fill one, RecordInv by those that record.      *)
(***************************************************************************)
EXTENDS SourceInstall, SubsequenceProofs

-----------------------------------------------------------------------------
(* Room.                                                                   *)

(* A chosen base will do.                                                  *)
LEMMA ChooseFits ==
    ASSUME NEW bytes, Choose(bytes) # None
    PROVE  Choose(bytes) \in Base /\ AcceptsBase(Choose(bytes)) /\ Fits(Choose(bytes), bytes)
<1> DEFINE good == { i \in DOMAIN Bases : AcceptsBase(Bases[i]) /\ Fits(Bases[i], bytes) }
           first == CHOOSE i \in good : \A j \in good : i <= j
<1>1. good # {} /\ Choose(bytes) = Bases[first]
  BY DEF Choose
<1>2. good \in SUBSET Nat
  BY CatalogAssumption
<1>3. \E i \in good : \A j \in good : i <= j
  <2> HIDE DEF good
  <2> QED
    BY <1>1, <1>2, Least
<1>4. first \in good
  <2> HIDE DEF good
  <2> QED
    BY <1>3
<1> HIDE DEF first
<1> QED
  BY <1>1, <1>4 DEF Base

(* What a workspace needs, and what it holds.                              *)
HasRoom(b, bytes) == room[b] >= bytes /\ (b \in Ram => memory >= bytes)
SpaceType == memory \in Nat /\ room \in [Base -> Nat]

LEMMA FitsHasRoom ==
    ASSUME SpaceType, NEW b \in Base, NEW bytes \in Nat, Fits(b, bytes)
    PROVE  HasRoom(b, bytes) /\ (b \in Ram => memory >= bytes + OsReserve)
  BY CatalogAssumption DEF SpaceType, Fits, HasRoom

(* ensure_capacity leaves a workspace where it is or moves it to a base    *)
(* that also holds its artifact.                                           *)
LEMMA EnsuredFits ==
    ASSUME NEW w, NEW bytes \in Nat, Ensured(w, bytes) # None
    PROVE  \/ Ensured(w, bytes) = w /\ Fits(w.base, bytes)
           \/ \E b \in Base : Ensured(w, bytes) = [w EXCEPT !.base = b] /\ Fits(b, bytes + w.bytes)
<1>1. CASE AcceptsBase(w.base) /\ Fits(w.base, bytes)
  BY <1>1 DEF Ensured
<1>2. CASE ~(AcceptsBase(w.base) /\ Fits(w.base, bytes))
  <2>1. Choose(bytes + w.bytes) # None
    BY <1>2 DEF Ensured
  <2>2. Ensured(w, bytes) = [w EXCEPT !.base = Choose(bytes + w.bytes)]
    BY <1>2, <2>1 DEF Ensured
  <2> QED
    BY <2>1, <2>2, ChooseFits
<1> QED
  BY <1>1, <1>2

(* A download that succeeds is the approved content, where it has room.    *)
LEMMA DownloadedFits ==
    ASSUME SpaceType, NEW pl, Downloaded(pl) # None
    PROVE  /\ IsWorkspace(Downloaded(pl)) /\ Downloaded(pl).content = pl.content
           /\ HasRoom(Downloaded(pl).base, Size)
<1> DEFINE base == Choose(InitialNeed(pl.recipe))
<1>1. base # None
  BY DEF Downloaded
<1>2. base \in Base
  BY <1>1, ChooseFits
<1> HIDE DEF base
<1>3. CASE pl.recipe.git
  <2>1. Downloaded(pl) = Fetched(pl, base)
    BY <1>1, <1>3 DEF Downloaded, base
  <2>2. /\ Downloaded(pl) = [base |-> base, bytes |-> Size, content |-> pl.content]
        /\ Holds(base, Size)
    BY <2>1 DEF Fetched
  <2> QED
    BY <1>2, <2>2 DEF Holds, HasRoom, IsWorkspace
<1>4. CASE ~pl.recipe.git
  <2> DEFINE v == [base |-> base, bytes |-> 0, content |-> None]
             w == Ensured(v, Size)
  <2>1. Downloaded(pl) = Transferred(pl, base)
    BY <1>1, <1>4 DEF Downloaded, base
  <2>2. /\ w # None /\ Served(pl) = pl.content
        /\ Downloaded(pl) = [w EXCEPT !.bytes = Size, !.content = Served(pl)]
    BY <2>1 DEF Transferred
  <2>3. Size \in Nat
    BY CatalogAssumption
  <2>4. \E b \in Base : w = [v EXCEPT !.base = b] /\ Fits(b, Size)
    <3> HIDE DEF v
    <3>1. \/ w = v /\ Fits(v.base, Size)
          \/ \E b \in Base : w = [v EXCEPT !.base = b] /\ Fits(b, Size + v.bytes)
      BY <2>2, <2>3, EnsuredFits
    <3>2. v.base = base /\ v.bytes = 0 /\ [v EXCEPT !.base = base] = v
      BY DEF v
    <3>3. Size + v.bytes = Size
      BY <2>3, <3>2
    <3> QED
      BY <1>2, <3>1, <3>2, <3>3
  <2>5. PICK b \in Base : w = [v EXCEPT !.base = b] /\ Fits(b, Size)
    BY <2>4
  <2>6. Downloaded(pl) = [base |-> b, bytes |-> Size, content |-> pl.content]
    BY <2>2, <2>5
  <2> QED
    BY <2>3, <2>5, <2>6, FitsHasRoom DEF IsWorkspace
<1> QED
  BY <1>3, <1>4

(* prepare_build leaves room for the build besides the artifact.           *)
LEMMA PreparedFits ==
    ASSUME SpaceType, NEW pl, NEW w, IsWorkspace(w), Prepared(pl, w) # None
    PROVE  \E b \in Base :
              /\ Prepared(pl, w) = [base |-> b, bytes |-> Size, content |-> w.content]
              /\ \/ b = w.base /\ Fits(b, BuildNeed(pl))
                 \/ Fits(b, BuildNeed(pl) + Size)
<1>1. BuildNeed(pl) \in Nat
  BY CatalogAssumption DEF BuildNeed
<1>2. CASE ~pl.recipe.git
  <2>1. Prepared(pl, w) = Ensured(w, BuildNeed(pl))
    BY <1>2 DEF Prepared
  <2>2. w.bytes = Size /\ w = [base |-> w.base, bytes |-> Size, content |-> w.content] /\ w.base \in Base
    BY DEF IsWorkspace
  <2>3. \/ Prepared(pl, w) = w /\ Fits(w.base, BuildNeed(pl))
        \/ \E b \in Base : Prepared(pl, w) = [w EXCEPT !.base = b] /\ Fits(b, BuildNeed(pl) + w.bytes)
    BY <1>1, <2>1, EnsuredFits
  <2>4. \A b : [w EXCEPT !.base = b] = [base |-> b, bytes |-> Size, content |-> w.content]
    BY <2>2
  <2> QED
    BY <2>2, <2>3, <2>4
<1>3. CASE pl.recipe.git
  BY <1>3 DEF Prepared, Headroom, BuildNeed, IsWorkspace
<1> QED
  BY <1>2, <1>3

-----------------------------------------------------------------------------
(* Counting what is held.                                                  *)

(* Counting what is held.                                                  *)
LEMMA Bytes ==
    /\ Size * 0 = 0
    /\ \A n \in Nat : Size * n \in Nat /\ Size * (n + 1) = Size * n + Size
  BY CatalogAssumption

LEMMA HeldIsFinite ==
    ASSUME NEW held, NEW b
    PROVE  IsFiniteSet(HeldOn(held, b)) /\ Cardinality(HeldOn(held, b)) \in Nat
<1>1. HeldOn(held, b) \subseteq Package
  BY DEF HeldOn
<1> QED
  BY <1>1, CatalogAssumption, FS_Subset, FS_CardinalityType

LEMMA HeldAdds ==
    ASSUME NEW held, held = [p \in Package |-> held[p]], NEW q \in Package, held[q] = None,
           NEW w, w # None, NEW b
    PROVE  Cardinality(HeldOn([held EXCEPT ![q] = w], b)) =
              Cardinality(HeldOn(held, b)) + IF w.base = b THEN 1 ELSE 0
<1> DEFINE new == [held EXCEPT ![q] = w]
<1>1. new[q] = w /\ \A p \in Package \ {q} : new[p] = held[p]
  OBVIOUS
<1> HIDE DEF new
<1>2. CASE w.base = b
  <2>1. HeldOn(new, b) = HeldOn(held, b) \cup {q} /\ q \notin HeldOn(held, b)
    BY <1>1, <1>2 DEF HeldOn
  <2> QED
    BY <1>2, <2>1, HeldIsFinite, FS_AddElement DEF new
<1>3. CASE w.base # b
  <2>1. HeldOn(new, b) = HeldOn(held, b)
    BY <1>1, <1>3 DEF HeldOn
  <2> QED
    BY <1>3, <2>1, HeldIsFinite DEF new
<1> QED
  BY <1>2, <1>3

LEMMA HeldRemoves ==
    ASSUME NEW held, held = [p \in Package |-> held[p]], NEW q \in Package, held[q] # None, NEW b
    PROVE  Cardinality(HeldOn(held, b)) =
              Cardinality(HeldOn([held EXCEPT ![q] = None], b)) + IF held[q].base = b THEN 1 ELSE 0
<1> DEFINE new == [held EXCEPT ![q] = None]
<1>1. new = [p \in Package |-> new[p]] /\ new[q] = None /\ q \in Package
  OBVIOUS
<1>2. [new EXCEPT ![q] = held[q]] = held
  OBVIOUS
<1> HIDE DEF new
<1>3. Cardinality(HeldOn([new EXCEPT ![q] = held[q]], b)) =
         Cardinality(HeldOn(new, b)) + IF held[q].base = b THEN 1 ELSE 0
  BY <1>1, HeldAdds
<1> QED
  BY <1>2, <1>3 DEF new

(* The bytes a workspace takes on a base.                                  *)
On(w, b) == IF w # None /\ w.base = b THEN 1 ELSE 0
Taken(held, w, b) == Size * (Cardinality(HeldOn(held, b)) + On(w, b))

LEMMA TakenType ==
    ASSUME NEW held, NEW w, NEW b
    PROVE  Taken(held, w, b) \in Nat
  BY HeldIsFinite, Bytes DEF Taken, On

LEMMA FreedIsTaken ==
    ASSUME NEW w, w # None => IsWorkspace(w), NEW b
    PROVE  Freed(w, b) = IF w # None /\ w.base = b THEN Size ELSE 0
  BY DEF Freed, IsWorkspace

LEMMA TakenByWork ==
    ASSUME NEW held, NEW w, NEW b
    PROVE  Taken(held, w, b) = Taken(held, None, b) + IF w # None /\ w.base = b THEN Size ELSE 0
<1>1. Cardinality(HeldOn(held, b)) \in Nat
  BY HeldIsFinite
<1> QED
  BY <1>1, Bytes DEF Taken, On

LEMMA TakenByHeld ==
    ASSUME NEW held, held = [p \in Package |-> held[p]], NEW q \in Package, held[q] = None,
           NEW w, w # None, NEW b, NEW v
    PROVE  Taken([held EXCEPT ![q] = w], v, b) = Taken(held, v, b) + IF w.base = b THEN Size ELSE 0
<1> DEFINE new == [held EXCEPT ![q] = w]
           n == Cardinality(HeldOn(held, b)) + On(v, b)
<1>1. Cardinality(HeldOn(new, b)) = Cardinality(HeldOn(held, b)) + IF w.base = b THEN 1 ELSE 0
  BY HeldAdds
<1>2. n \in Nat /\ Cardinality(HeldOn(held, b)) \in Nat /\ On(v, b) \in Nat
  BY HeldIsFinite DEF On
<1> HIDE DEF new
<1>3. Cardinality(HeldOn(new, b)) + On(v, b) = n + IF w.base = b THEN 1 ELSE 0
  BY <1>1, <1>2
<1> HIDE DEF n
<1>4. Size * (Cardinality(HeldOn(new, b)) + On(v, b)) = Size * n + IF w.base = b THEN Size ELSE 0
  BY <1>2, <1>3, Bytes
<1> QED
  BY <1>4 DEF Taken, new, n

(* The space part of the invariant, its sum folded.                        *)
LEMMA SpaceSum ==
    SpaceInv <=>
      /\ cache = [p \in Package |-> cache[p]]
      /\ \A p \in Package : cache[p] # None => IsWorkspace(cache[p])
      /\ work # None => IsWorkspace(work)
      /\ SpaceType
      /\ \A b \in Base : room[b] + Taken(cache, work, b) <= Room
  BY DEF SpaceInv, SpaceType, Taken, On

(* A workspace is taken where there is room, or released.                  *)
LEMMA SettledType ==
    ASSUME SpaceType, NEW old, old # None => IsWorkspace(old),
           NEW new, new # None => (IsWorkspace(new) /\ HasRoom(new.base, Size)) \/ new = old,
           Settled(old, new)
    PROVE  /\ SpaceType'
           /\ \A b \in Base : room'[b] = room[b] + Freed(old, b) - Freed(new, b)
<1>1. Size \in Nat
  BY CatalogAssumption
<1>2. /\ room' = [b \in Base |-> room[b] + Freed(old, b) - Freed(new, b)]
      /\ memory' = memory + (IF old # None /\ old.base \in Ram THEN old.bytes ELSE 0)
                          - (IF new # None /\ new.base \in Ram THEN new.bytes ELSE 0)
  BY DEF Settled, SpaceType
<1>3. \A b \in Base : room[b] + Freed(old, b) - Freed(new, b) \in Nat
  BY <1>1 DEF Freed, IsWorkspace, HasRoom, SpaceType
<1>4. memory' \in Nat
  <2>1. CASE new = None \/ new = old
    BY <1>1, <1>2, <2>1 DEF IsWorkspace, SpaceType
  <2>2. CASE new # None /\ IsWorkspace(new) /\ HasRoom(new.base, Size)
    BY <1>1, <1>2, <2>2 DEF IsWorkspace, SpaceType, HasRoom
  <2> QED
    BY <2>1, <2>2
<1> QED
  BY <1>2, <1>3, <1>4 DEF SpaceType

-----------------------------------------------------------------------------
(* The steps that move a workspace.                                        *)

(* Every queued plan is for a package, the first one where it is needed.   *)
LEMMA QueuedPackages ==
    ASSUME QueueInv
    PROVE  /\ DOMAIN queue = 1 .. Len(queue) /\ Len(queue) \in Nat
           /\ \A i \in DOMAIN queue : queue[i].package \in Package
           /\ queue # << >> => plan = queue[1] /\ 1 \in DOMAIN queue /\ plan.package \in Package
<1> DEFINE A == { approved[i] : i \in DOMAIN approved }
<1>1. queue \in Seq(A) /\ \A x \in A : x.package \in Package
  BY DEF QueueInv, ApprovedInv, QueuedInv
<1> HIDE DEF A
<1> QED
  BY <1>1 DEF plan

(* The steps that leave the space alone.                                   *)
LEMMA SpaceFrame ==
    ASSUME SpaceInv, UNCHANGED << cache, work, room, memory >>
    PROVE  SpaceInv'
  BY DEF SpaceInv, HeldOn, IsWorkspace

LEMMA SpaceNext ==
    ASSUME cache' = [p \in Package |-> cache'[p]],
           \A p \in Package : cache'[p] # None => IsWorkspace(cache'[p]),
           work' # None => IsWorkspace(work'),
           SpaceType',
           \A b \in Base : room'[b] + Taken(cache', work', b) <= Room
    PROVE  SpaceInv'
  BY DEF SpaceInv, SpaceType, Taken, On, IsWorkspace, HeldOn

LEMMA SpacePrefetch ==
    ASSUME SpaceInv, QueueInv, Prefetch
    PROVE  SpaceInv'
<1>1. CASE Unfetched = {}
  BY <1>1, SpaceFrame DEF Prefetch
<1>2. CASE Unfetched # {}
  <2> DEFINE first == CHOOSE i \in Unfetched : \A j \in Unfetched : i <= j
             pl == queue[first]
  <2>1. first \in Unfetched
    <3>1. Unfetched \in SUBSET Nat
      BY QueuedPackages DEF Unfetched
    <3>2. \E i \in Unfetched : \A j \in Unfetched : i <= j
      BY <1>2, <3>1, Least
    <3> QED
      BY <3>2
  <2>2. PICK w \in { Downloaded(pl), None } :
            /\ cache' = [cache EXCEPT ![pl.package] = w]
            /\ Settled(None, w)
    BY <1>2 DEF Prefetch
  <2>3. UNCHANGED work
    BY DEF Prefetch
  <2> HIDE DEF first
  <2> DEFINE q == pl.package
  <2>4. q \in Package /\ cache[q] = None
    BY <2>1, QueuedPackages DEF Unfetched
  <2> HIDE DEF pl
  <2>5. SpaceType /\ (w # None => IsWorkspace(w) /\ HasRoom(w.base, Size))
    BY <2>2, SpaceSum, DownloadedFits
  <2>6. SpaceType' /\ \A b \in Base : room'[b] = room[b] + Freed(None, b) - Freed(w, b)
    BY <2>2, <2>5, SettledType
  <2>7. cache' = [p \in Package |-> cache'[p]]
    BY <2>2, SpaceSum
  <2>8. \A p \in Package : cache'[p] = IF p = q THEN w ELSE cache[p]
    BY <2>2, <2>4, SpaceSum
  <2>9. ASSUME NEW b \in Base
        PROVE  room'[b] + Taken(cache', work, b) <= Room
    <3>1. Freed(None, b) = 0 /\ Freed(w, b) = IF w # None /\ w.base = b THEN Size ELSE 0
      BY <2>5, FreedIsTaken DEF Freed
    <3>2. Taken(cache', work, b) = Taken(cache, work, b) + IF w # None /\ w.base = b THEN Size ELSE 0
      <4>1. CASE w = None
        <5>1. cache' = cache
          BY <2>2, <2>4, <4>1, SpaceSum
        <5>2. Taken(cache, work, b) \in Nat
          BY TakenType
        <5> QED
          BY <4>1, <5>1, <5>2
      <4>2. CASE w # None
        <5>1. cache = [p \in Package |-> cache[p]]
          BY SpaceSum
        <5>2. Taken([cache EXCEPT ![q] = w], work, b) = Taken(cache, work, b) + IF w.base = b THEN Size ELSE 0
          BY <2>4, <4>2, <5>1, TakenByHeld
        <5> QED
          BY <2>2, <4>2, <5>2 DEF q
      <4> QED
        BY <4>1, <4>2
    <3>3. room[b] \in Nat /\ Taken(cache, work, b) \in Nat /\ Size \in Nat /\ Room \in Nat
      BY <2>5, TakenType, CatalogAssumption DEF SpaceType
    <3>4. room[b] + Taken(cache, work, b) <= Room
      BY SpaceSum
    <3> QED
      BY <2>6, <3>1, <3>2, <3>3, <3>4
  <2> HIDE DEF q
  <2>10. \A b \in Base : room'[b] + Taken(cache', work', b) <= Room
    BY <2>3, <2>9
  <2>11. \A p \in Package : cache'[p] # None => IsWorkspace(cache'[p])
    BY <2>5, <2>8, SpaceSum
  <2>12. work' # None => IsWorkspace(work')
    BY <2>3, SpaceSum
  <2> QED
    BY <2>6, <2>7, <2>10, <2>11, <2>12, SpaceNext
<1> QED
  BY <1>1, <1>2

(* What the lemmas below need of the constants and of the state before.    *)
LEMMA SpaceFacts ==
    ASSUME SpaceInv
    PROVE  /\ Size \in Nat /\ Room \in Nat /\ SpaceType
           /\ cache = [p \in Package |-> cache[p]]
           /\ \A p \in Package : cache[p] # None => IsWorkspace(cache[p])
           /\ work # None => IsWorkspace(work)
           /\ \A b \in Base : /\ room[b] + Taken(cache, work, b) <= Room
                              /\ room[b] \in Nat
                              /\ Taken(cache, work, b) \in Nat /\ Taken(cache, None, b) \in Nat
  BY SpaceSum, TakenType, CatalogAssumption DEF SpaceType

LEMMA SpaceFetch ==
    ASSUME SpaceInv, QueueInv, Fetch
    PROVE  SpaceInv'
<1> DEFINE q == plan.package
<1>1. q \in Package
  BY QueuedPackages DEF Fetch, QueueInv, PhaseInv, Installing
<1>2. CASE cache[q] # None
  <2>1. /\ work' = cache[q] /\ cache' = [cache EXCEPT ![q] = None]
        /\ UNCHANGED << room, memory >>
    BY <1>2 DEF Fetch
  <2> HIDE DEF q
  <2>2. cache' = [p \in Package |-> cache'[p]] /\ cache'[q] = None
    BY <1>1, <2>1, SpaceFacts
  <2>3. /\ \A p \in Package : cache'[p] # None => IsWorkspace(cache'[p])
        /\ IsWorkspace(work')
    BY <1>1, <1>2, <2>1, SpaceFacts
  <2>4. SpaceType'
    BY <2>1, SpaceFacts DEF SpaceType
  <2>5. ASSUME NEW b \in Base
        PROVE  room'[b] + Taken(cache', work', b) <= Room
    <3>1. [cache' EXCEPT ![q] = cache[q]] = cache
      BY <1>1, <2>1, SpaceFacts
    <3>2. Taken(cache, None, b) = Taken(cache', None, b) + IF cache[q].base = b THEN Size ELSE 0
      BY <1>1, <1>2, <2>2, <3>1, TakenByHeld
    <3>3. Taken(cache', work', b) = Taken(cache', None, b) + IF work'.base = b THEN Size ELSE 0
      BY <1>2, <2>1, TakenByWork
    <3>4. Taken(cache, work, b) = Taken(cache, None, b) + IF work # None /\ work.base = b THEN Size ELSE 0
      BY TakenByWork
    <3>5. Taken(cache', None, b) \in Nat /\ Taken(cache', work', b) \in Nat
      BY TakenType
    <3> QED
      BY <2>1, <3>2, <3>3, <3>4, <3>5, SpaceFacts
  <2> QED
    BY <2>2, <2>3, <2>4, <2>5, SpaceNext
<1>3. CASE cache[q] = None
  <2>1. PICK w \in { Downloaded(plan), None } : work' = w /\ Settled(None, w)
    BY <1>3 DEF Fetch
  <2>2. UNCHANGED cache
    BY <1>3 DEF Fetch
  <2>3. SpaceType /\ (w # None => IsWorkspace(w) /\ HasRoom(w.base, Size))
    BY <2>1, SpaceFacts, DownloadedFits
  <2>4. SpaceType' /\ \A b \in Base : room'[b] = room[b] + Freed(None, b) - Freed(w, b)
    BY <2>1, <2>3, SettledType
  <2>5. ASSUME NEW b \in Base
        PROVE  room'[b] + Taken(cache', work', b) <= Room
    <3>1. Freed(None, b) = 0 /\ Freed(w, b) = IF w # None /\ w.base = b THEN Size ELSE 0
      BY <2>3, FreedIsTaken DEF Freed
    <3>2. Taken(cache, w, b) = Taken(cache, None, b) + IF w # None /\ w.base = b THEN Size ELSE 0
      BY TakenByWork
    <3>3. Taken(cache, work, b) = Taken(cache, None, b) + IF work # None /\ work.base = b THEN Size ELSE 0
      BY TakenByWork
    <3>4. Taken(cache, w, b) \in Nat
      BY TakenType
    <3> QED
      BY <2>1, <2>2, <2>4, <3>1, <3>2, <3>3, <3>4, SpaceFacts
  <2> QED
    BY <2>1, <2>2, <2>3, <2>4, <2>5, SpaceFacts, SpaceNext
<1> QED
  BY <1>2, <1>3

(* A workspace that changes its place, or goes, in one settlement.         *)
LEMMA SpaceSettles ==
    ASSUME SpaceInv, NEW w, w # None => (IsWorkspace(w) /\ HasRoom(w.base, Size)) \/ w = work,
           work' = w, Settled(work, w), UNCHANGED cache
    PROVE  SpaceInv'
<1>1. SpaceType' /\ \A b \in Base : room'[b] = room[b] + Freed(work, b) - Freed(w, b)
  BY SpaceFacts, SettledType
<1>2. w # None => IsWorkspace(w)
  BY SpaceFacts
<1>3. ASSUME NEW b \in Base
      PROVE  room'[b] + Taken(cache', work', b) <= Room
  <2>1. /\ Freed(work, b) = IF work # None /\ work.base = b THEN Size ELSE 0
        /\ Freed(w, b) = IF w # None /\ w.base = b THEN Size ELSE 0
    BY <1>2, SpaceFacts, FreedIsTaken
  <2>2. Taken(cache, w, b) = Taken(cache, None, b) + IF w # None /\ w.base = b THEN Size ELSE 0
    BY TakenByWork
  <2>3. Taken(cache, work, b) = Taken(cache, None, b) + IF work # None /\ work.base = b THEN Size ELSE 0
    BY TakenByWork
  <2>4. Taken(cache, w, b) \in Nat
    BY TakenType
  <2> QED
    BY <1>1, <2>1, <2>2, <2>3, <2>4, SpaceFacts
<1> QED
  BY <1>1, <1>2, <1>3, SpaceFacts, SpaceNext

LEMMA SpacePrepare ==
    ASSUME SpaceInv, ContentInv, Prepare
    PROVE  SpaceInv'
<1>1. CASE plan.recipe.format = "native"
  BY <1>1, SpaceFrame DEF Prepare
<1>2. CASE plan.recipe.format # "native"
  <2> DEFINE w == Prepared(plan, work)
  <2>1. /\ work' = IF w = None THEN work ELSE w
        /\ Settled(work, work') /\ UNCHANGED cache
    BY <1>2 DEF Prepare
  <2>2. CASE w = None
    BY <2>1, <2>2, SpaceSettles
  <2>3. CASE w # None
    <3>1. work # None /\ IsWorkspace(work) /\ SpaceType
      BY SpaceFacts DEF ContentInv, WorkInv, Prepare
    <3>2. PICK b \in Base :
              /\ w = [base |-> b, bytes |-> Size, content |-> work.content]
              /\ \/ b = work.base /\ Fits(b, BuildNeed(plan))
                 \/ Fits(b, BuildNeed(plan) + Size)
      BY <2>3, <3>1, PreparedFits
    <3>3. BuildNeed(plan) \in Nat /\ Size \in Nat
      BY CatalogAssumption DEF BuildNeed
    <3>4. CASE b = work.base
      <4>1. w = work
        BY <3>1, <3>2, <3>4 DEF IsWorkspace
      <4> QED
        BY <2>1, <2>3, <4>1, SpaceSettles
    <3>5. CASE b # work.base
      <4>1. HasRoom(b, BuildNeed(plan) + Size)
        BY <3>1, <3>2, <3>3, <3>5, FitsHasRoom
      <4>2. HasRoom(b, Size)
        BY <3>1, <3>3, <4>1 DEF HasRoom, SpaceType
      <4>3. IsWorkspace(w) /\ HasRoom(w.base, Size)
        BY <3>2, <4>2 DEF IsWorkspace
      <4> HIDE DEF w
      <4> QED
        BY <2>1, <2>3, <4>3, SpaceSettles
    <3> QED
      BY <3>4, <3>5
  <2> QED
    BY <2>2, <2>3
<1> QED
  BY <1>1, <1>2

LEMMA SpaceAdvance ==
    ASSUME SpaceInv, Advance
    PROVE  SpaceInv'
  BY SpaceSettles DEF Advance

(* The command ends and gives back everything.                             *)
LEMMA SpaceFinish ==
    ASSUME SpaceInv, Finish
    PROVE  SpaceInv'
<1> DEFINE n(b) == Cardinality({ p \in Held : cache[p].base = b }) + IF work # None /\ work.base = b THEN 1 ELSE 0
           r == Cardinality({ p \in Held : cache[p].base \in Ram }) + IF work # None /\ work.base \in Ram THEN 1 ELSE 0
<1>1. /\ work' = None /\ cache' = [p \in Package |-> None]
      /\ room' = [b \in DOMAIN room |-> room[b] + Size * n(b)]
      /\ memory' = memory + Size * r
  BY DEF Finish
<1>2. \A b \in Base : Size * n(b) = Taken(cache, work, b)
  <2>1. \A b : { p \in Held : cache[p].base = b } = HeldOn(cache, b)
    BY DEF Held, HeldOn
  <2> QED
    BY <2>1 DEF Taken, On
<1>3. Size * r \in Nat
  <2>1. { p \in Held : cache[p].base \in Ram } \subseteq Package
    BY DEF Held
  <2>2. r \in Nat
    BY <2>1, CatalogAssumption, FS_Subset, FS_CardinalityType
  <2> QED
    BY <2>2, Bytes
<1> HIDE DEF n, r
<1>4. \A b \in Base : room'[b] = room[b] + Taken(cache, work, b)
  BY <1>1, <1>2, SpaceFacts DEF SpaceType
<1>5. SpaceType'
  BY <1>1, <1>2, <1>3, SpaceFacts DEF SpaceType
<1>6. ASSUME NEW b \in Base
      PROVE  Taken(cache', work', b) = 0
  <2>1. HeldOn(cache', b) = {}
    BY <1>1 DEF HeldOn
  <2>2. Cardinality(HeldOn(cache', b)) = 0 /\ On(work', b) = 0
    BY <1>1, <2>1, FS_EmptySet DEF On
  <2>3. Cardinality(HeldOn(cache', b)) + On(work', b) = 0
    BY <2>2
  <2> QED
    BY <2>3, Bytes DEF Taken
<1> QED
  BY <1>1, <1>4, <1>5, <1>6, SpaceFacts, SpaceNext

LEMMA SpaceOthers ==
    ASSUME SpaceInv, NEW b \in DOMAIN room, OthersUseSpace(b)
    PROVE  SpaceInv'
<1>1. PICK n \in 1 .. room[b] :
        /\ room' = [room EXCEPT ![b] = @ - n]
        /\ memory' = IF b \in Ram THEN IF memory > n THEN memory - n ELSE 0 ELSE memory
  BY DEF OthersUseSpace
<1>2. UNCHANGED << cache, work >>
  BY DEF OthersUseSpace, Ours
<1>3. SpaceType' /\ \A c \in Base : room'[c] <= room[c] /\ room'[c] \in Nat
  BY <1>1, SpaceFacts DEF SpaceType
<1>4. \A c \in Base : room'[c] + Taken(cache', work', c) <= Room
  BY <1>2, <1>3, SpaceFacts
<1> QED
  BY <1>2, <1>3, <1>4, SpaceFacts, SpaceNext

LEMMA SpaceInit == Init => SpaceInv
<1> SUFFICES ASSUME Init
             PROVE  SpaceInv
  OBVIOUS
<1>1. /\ cache = [p \in Package |-> None] /\ work = None
      /\ room \in [Base -> {Room \div 2, Room}] /\ memory = Room + OsReserve
  BY Zenon DEF Init
<1>2. Room \in Nat /\ OsReserve \in Nat /\ Room \div 2 \in Nat /\ Room \div 2 <= Room
  BY CatalogAssumption
<1>3. SpaceType /\ \A b \in Base : room[b] \in Nat /\ room[b] <= Room
  BY <1>1, <1>2 DEF SpaceType
<1>4. ASSUME NEW b \in Base
      PROVE  Taken(cache, work, b) = 0
  <2>1. HeldOn(cache, b) = {}
    BY <1>1 DEF HeldOn
  <2>2. Cardinality(HeldOn(cache, b)) = 0 /\ On(work, b) = 0
    BY <1>1, <2>1, FS_EmptySet DEF On
  <2>3. Cardinality(HeldOn(cache, b)) + On(work, b) = 0
    BY <2>2
  <2> QED
    BY <2>3, Bytes DEF Taken
<1>5. \A b \in Base : room[b] + Taken(cache, work, b) <= Room
  BY <1>3, <1>4
<1> QED
  BY <1>1, <1>3, <1>5, SpaceSum

LEMMA SpaceStep ==
    ASSUME SpaceInv, QueueInv, ContentInv, [Next]_vars
    PROVE  SpaceInv'
<1>1. ASSUME NEW k \in Worker, Claim(k) \/ Check(k)
      PROVE  SpaceInv'
  BY <1>1, SpaceFrame DEF Claim, Check
<1>2. CASE Report \/ Plan \/ Approve
  BY <1>2, SpaceFrame DEF Report, Plan, Approve
<1>3. CASE Prefetch
  BY <1>3, SpacePrefetch
<1>4. CASE Start \/ Load \/ Pacman \/ Verify \/ Persist
  BY <1>4, SpaceFrame DEF Start, Load, Pacman, Verify, Persist
<1>5. CASE Fetch
  BY <1>5, SpaceFetch
<1>6. CASE Prepare
  BY <1>6, SpacePrepare
<1>7. CASE Build \/ Compile
  BY <1>7, SpaceFrame DEF Build, Compile
<1>8. CASE Advance
  BY <1>8, SpaceAdvance
<1>9. CASE Finish
  BY <1>9, SpaceFinish
<1>10. ASSUME NEW p \in Package, Republish(p) \/ OtherPacman(p)
       PROVE  SpaceInv'
  BY <1>10, SpaceFrame DEF Republish, OtherPacman, Ours
<1>11. CASE EditConfig
  BY <1>11, SpaceFrame DEF EditConfig, Ours
<1>12. ASSUME NEW b \in DOMAIN room, OthersUseSpace(b)
       PROVE  SpaceInv'
  BY <1>12, SpaceOthers
<1>13. CASE UNCHANGED vars
  BY <1>13, SpaceFrame DEF vars
<1> QED
  BY <1>1, <1>2, <1>3, <1>4, <1>5, <1>6, <1>7, <1>8, <1>9, <1>10, <1>11, <1>12, <1>13
     DEF Next, Step, Around, Ended

-----------------------------------------------------------------------------
(* Discovery.                                                              *)

(* The targets of a run are listed once each.                              *)
LEMMA TargetsInit ==
    ASSUME Init
    PROVE  TargetInv
<1> DEFINE listed == Asked(mem, installed, ignored)
           n == Cardinality(listed)
           f == [i \in 1 .. n |-> targets[i].package]
<1>1. /\ targets \in [1 .. n -> [package : listed, version : { installed[p].version : p \in listed }]]
      /\ { targets[i].package : i \in DOMAIN targets } = listed
  BY DEF Init
<1>2. listed \subseteq Package /\ IsFiniteSet(listed) /\ n \in Nat
  <2>1. listed \subseteq Package
    BY DEF Asked
  <2> HIDE DEF listed
  <2> QED
    BY <2>1, CatalogAssumption, FS_Subset, FS_CardinalityType DEF n
<1> HIDE DEF listed, n
<1>3. DOMAIN targets = 1 .. n /\ Len(targets) = n
  BY <1>1, <1>2
<1>4. \A i \in 1 .. n : targets[i].package \in listed
  BY <1>1
<1>5. f \in [1 .. n -> listed] /\ \A i \in 1 .. n : f[i] = targets[i].package
  BY <1>4
<1>6. \A p \in listed : \E i \in 1 .. n : f[i] = p
  BY <1>1, <1>3
<1>7. IsFiniteSet(1 .. n) /\ Cardinality(1 .. n) = Cardinality(listed)
  <2>1. IsFiniteSet(1 .. n) /\ Cardinality(1 .. n) = n
    BY <1>2, FS_Interval
  <2> QED
    BY <2>1 DEF n
<1> HIDE DEF f
<1>8. f \in Injection(1 .. n, listed)
  <2>1. f \in Surjection(1 .. n, listed)
    BY <1>5, <1>6, Fun_IsSurj
  <2> QED
    BY <1>2, <1>7, <2>1, FS_SurjSameCardinalityImpliesInj
<1>9. \A i, j \in 1 .. n : f[i] = f[j] => i = j
  BY <1>8 DEF Injection, IsInjective
<1> QED
  BY <1>2, <1>3, <1>4, <1>5, <1>9 DEF TargetInv

LEMMA DiscoverInit == Init => DiscoverInv
<1> SUFFICES ASSUME Init
             PROVE  DiscoverInv
  OBVIOUS
<1>1. next = 1 /\ checking = [k \in Worker |-> 0] /\ results = << >>
  BY DEF Init
<1>2. 1 .. next - 1 = {} /\ DOMAIN results = {} /\ Len(results) = 0
  BY <1>1
<1>3. next \in 1 .. Len(targets) + 1
  BY <1>1, TargetsInit DEF TargetInv
<1>4. checking \in [Worker -> 0 .. next - 1] /\ \A k \in Worker : checking[k] = 0
  BY <1>1
<1>5. DOMAIN results = 1 .. Len(results)
  BY <1>2
<1> QED
  BY <1>2, <1>3, <1>4, <1>5, TargetsInit DEF DiscoverInv, ClaimInv, ResultInv, CoverInv

LEMMA DiscoverFrame ==
    ASSUME DiscoverInv, UNCHANGED finding
    PROVE  DiscoverInv'
  BY DEF DiscoverInv, TargetInv, ClaimInv, ResultInv, ResultOf, CoverInv, finding

LEMMA DiscoverClaim ==
    ASSUME DiscoverInv, NEW k \in Worker, Claim(k)
    PROVE  DiscoverInv'
<1> USE DEF DiscoverInv
<1>1. /\ checking[k] = 0 /\ next <= Len(targets) /\ next' = next + 1
      /\ UNCHANGED << targets, results >>
  BY DEF Claim
<1>2. /\ next \in 1 .. Len(targets) /\ 1 .. next' - 1 = (1 .. next - 1) \cup {next}
      /\ next' \in 1 .. Len(targets') + 1
  BY <1>1 DEF ClaimInv, TargetInv
<1>3. \A l \in Worker : checking[l] \in 0 .. next - 1 /\ checking[l] # next
  BY <1>2 DEF ClaimInv
<1>4. \A l \in Worker : checking'[l] = IF l = k THEN next ELSE checking[l]
  BY DEF Claim, ClaimInv
<1>5. checking' = [l \in Worker |-> checking'[l]]
  BY DEF Claim, ClaimInv
<1>6. TargetInv'
  BY <1>1 DEF TargetInv
<1>7. ClaimInv'
  <2>1. checking' \in [Worker -> 0 .. next' - 1]
    BY <1>1, <1>2, <1>3, <1>4, <1>5
  <2>2. \A l, m \in Worker : checking'[l] = checking'[m] /\ checking'[l] # 0 => l = m
    BY <1>3, <1>4 DEF ClaimInv
  <2> QED
    BY <1>2, <2>1, <2>2 DEF ClaimInv
<1>8. ResultInv'
  <2>1. ASSUME NEW j \in DOMAIN results, NEW i \in 1 .. next - 1, ResultOf(j, i)
        PROVE  i \in 1 .. next' - 1 /\ ResultOf(j, i)'
    BY <1>1, <1>2, <1>4, <2>1 DEF ResultOf
  <2> QED
    BY <1>1, <2>1 DEF ResultInv
<1>9. CoverInv'
  BY <1>1, <1>2, <1>4 DEF CoverInv
<1> QED
  BY <1>6, <1>7, <1>8, <1>9

(* What a check finds is a plan for the package of its target.             *)
LEMMA FindingIsOfTarget ==
    ASSUME NEW t, IsPlan(Finding(t))
    PROVE  Finding(t).package = t.package
  BY DEF IsPlan, Finding, PlanOf

LEMMA DiscoverCheck ==
    ASSUME DiscoverInv, NEW k \in Worker, Check(k)
    PROVE  DiscoverInv'
<1> USE DEF DiscoverInv
<1>c. PICK c : c = checking[k]
  OBVIOUS
<1>n. PICK n : n = Len(results) + 1
  OBVIOUS
<1>1. PICK found \in { Finding(targets[c]), Error } :
          results' = Append(results, [index |-> c, found |-> found])
  BY <1>c DEF Check
<1>2. c # 0 /\ checking' = [checking EXCEPT ![k] = 0] /\ UNCHANGED << targets, next >>
  BY <1>c DEF Check
<1>3. c \in 1 .. next - 1 /\ next \in Nat
  BY <1>c, <1>2 DEF ClaimInv, TargetInv
<1>4. IsPlan(found) => found.package = targets[c].package
  BY <1>1, FindingIsOfTarget DEF IsPlan
<1>5. \A l \in Worker : checking'[l] = IF l = k THEN 0 ELSE checking[l]
  BY <1>2 DEF ClaimInv
<1>6. \A l \in Worker : checking[l] = c => l = k
  BY <1>c, <1>2 DEF ClaimInv
<1>8. /\ n \in Nat \ {0} /\ Len(results') = n /\ DOMAIN results' = 1 .. n
      /\ DOMAIN results = 1 .. n - 1 /\ n \notin DOMAIN results
      /\ results'[n] = [index |-> c, found |-> found]
      /\ \A j \in DOMAIN results : results'[j] = results[j]
  <2>1. DOMAIN results = 1 .. Len(results) /\ Len(results) \in Nat
    BY DEF ResultInv
  <2> QED
    BY <1>n, <1>1, <2>1
<1>9. \A j \in DOMAIN results' : j = n \/ j \in DOMAIN results
  BY <1>8
<1>10. TargetInv'
  BY <1>2 DEF TargetInv
<1>11. ClaimInv'
  <2>1. checking' \in [Worker -> 0 .. next' - 1]
    BY <1>2, <1>3 DEF ClaimInv
  <2>2. \A l, m \in Worker : checking'[l] = checking'[m] /\ checking'[l] # 0 => l = m
    BY <1>5 DEF ClaimInv
  <2> QED
    BY <1>2, <2>1, <2>2 DEF ClaimInv
<1>12. \A j \in DOMAIN results : results[j].index # c
  BY <1>c DEF ResultInv, ResultOf
<1>13. ResultInv'
  <2>1. ResultOf(n, c)'
    <3>1. results'[n].index = c /\ results'[n].found = found /\ targets'[c] = targets[c]
      BY <1>2, <1>8
    <3>2. \A l \in Worker : checking'[l] # c
      BY <1>3, <1>5, <1>6
    <3> QED
      BY <1>4, <3>1, <3>2 DEF ResultOf
  <2>2. ASSUME NEW j \in DOMAIN results, NEW i \in 1 .. next - 1, ResultOf(j, i)
        PROVE  ResultOf(j, i)'
    <3>1. results'[j] = results[j]
      BY <1>8
    <3>2. \A l \in Worker : checking'[l] # i
      BY <1>5, <2>2 DEF ResultOf
    <3> QED
      <4>1. results[j].index = i /\ (IsPlan(results[j].found) => results[j].found.package = targets[i].package)
        BY <2>2 DEF ResultOf
      <4> QED
        BY <1>2, <3>1, <3>2, <4>1 DEF ResultOf, IsPlan
  <2>3. \A j \in DOMAIN results' : \E i \in 1 .. next' - 1 : ResultOf(j, i)'
    <3> SUFFICES ASSUME NEW j \in DOMAIN results'
                 PROVE  \E i \in 1 .. next' - 1 : ResultOf(j, i)'
      OBVIOUS
    <3>1. CASE j = n
      BY <1>2, <1>3, <2>1, <3>1
    <3>2. CASE j \in DOMAIN results
      <4>1. PICK i \in 1 .. next - 1 : ResultOf(j, i)
        BY <3>2 DEF ResultInv
      <4> QED
        BY <1>2, <2>2, <3>2, <4>1
    <3> QED
      BY <1>9, <3>1, <3>2
  <2>4. \A i, j \in DOMAIN results' : results'[i].index = results'[j].index => i = j
    <3>1. \A i, j \in DOMAIN results : results[i].index = results[j].index => i = j
      BY DEF ResultInv
    <3>2. results'[n].index = c /\ \A i \in DOMAIN results : results'[i].index = results[i].index
      BY <1>8
    <3> QED
      BY <1>9, <1>12, <3>1, <3>2
  <2> QED
    BY <1>8, <2>3, <2>4 DEF ResultInv
<1>14. CoverInv'
  <2> SUFFICES ASSUME NEW i \in 1 .. next' - 1
               PROVE  \/ \E l \in Worker : checking'[l] = i
                      \/ \E j \in DOMAIN results' : results'[j].index = i
    BY DEF CoverInv
  <2>1. CASE i = c
    <3>1. n \in DOMAIN results' /\ results'[n].index = c
      BY <1>8
    <3> QED
      BY <2>1, <3>1
  <2>2. CASE i # c
    <3>1. \/ \E l \in Worker : checking[l] = i
          \/ \E j \in DOMAIN results : results[j].index = i
      BY <1>2 DEF CoverInv
    <3>2. \A j \in DOMAIN results : j \in DOMAIN results' /\ results'[j] = results[j]
      BY <1>8
    <3>3. \A l \in Worker : checking[l] = i => checking'[l] = i
      BY <1>5, <1>c, <2>2
    <3> QED
      BY <3>1, <3>2, <3>3
  <2> QED
    BY <2>1, <2>2
<1> QED
  BY <1>10, <1>11, <1>13, <1>14

LEMMA DiscoverStep ==
    ASSUME DiscoverInv, [Next]_vars
    PROVE  DiscoverInv'
<1>1. ASSUME NEW k \in Worker, Claim(k)
      PROVE  DiscoverInv'
  BY <1>1, DiscoverClaim
<1>2. ASSUME NEW k \in Worker, Check(k)
      PROVE  DiscoverInv'
  BY <1>2, DiscoverCheck
<1>3. CASE Report
  BY <1>3, DiscoverFrame DEF Report, finding
<1>4. CASE Plan \/ Approve \/ Prefetch \/ Start \/ Fetch \/ Prepare \/ Build \/ Compile
  BY <1>4, DiscoverFrame DEF Plan, Approve, Prefetch, Start, Fetch, Prepare, Build, Compile
<1>5. CASE Load \/ Pacman \/ Verify \/ Persist \/ Advance \/ Finish
  BY <1>5, DiscoverFrame DEF Load, Pacman, Verify, Persist, Advance, Finish
<1>6. CASE Around
  BY <1>6, DiscoverFrame DEF Around, Republish, OtherPacman, EditConfig, OthersUseSpace
<1>7. CASE UNCHANGED vars
  BY <1>7, DiscoverFrame DEF vars, finding
<1> QED
  BY <1>1, <1>2, <1>3, <1>4, <1>5, <1>6, <1>7 DEF Next, Step, Ended

(* When a run of checks is over every target has one result, and InOrder   *)
(* is the results by target.                                               *)
LEMMA ChecksAreOver ==
    ASSUME DiscoverInv, next > Len(targets), \A k \in Worker : checking[k] = 0
    PROVE  /\ DOMAIN targets = 1 .. Len(targets) /\ Len(targets) \in Nat
           /\ \A i \in DOMAIN targets :
                 \E j \in DOMAIN results :
                    /\ { l \in DOMAIN results : results[l].index = i } = {j}
                    /\ InOrder[i] = results[j].found
                    /\ IsPlan(InOrder[i]) => InOrder[i].package = targets[i].package
           /\ \A j \in DOMAIN results :
                 results[j].index \in DOMAIN targets /\ InOrder[results[j].index] = results[j].found
<1> USE DEF DiscoverInv
<1>1. /\ DOMAIN targets = 1 .. Len(targets) /\ Len(targets) \in Nat
      /\ DOMAIN targets = 1 .. next - 1
  BY DEF TargetInv, ClaimInv
<1>2. ASSUME NEW i \in DOMAIN targets, NEW j \in DOMAIN results, results[j].index = i
      PROVE  /\ { l \in DOMAIN results : results[l].index = i } = {j}
             /\ InOrder[i] = results[j].found
             /\ IsPlan(InOrder[i]) => InOrder[i].package = targets[i].package
  <2>1. \A l \in DOMAIN results : results[l].index = i => l = j
    BY <1>2 DEF ResultInv
  <2>2. { l \in DOMAIN results : results[l].index = i } = {j}
    BY <1>2, <2>1
  <2>3. (CHOOSE l \in DOMAIN results : results[l].index = i) = j
    BY <1>2, <2>1
  <2>4. InOrder[i] = results[j].found
    BY <1>1, <2>3 DEF InOrder
  <2>5. IsPlan(results[j].found) => results[j].found.package = targets[i].package
    BY <1>2 DEF ResultInv, ResultOf
  <2> QED
    BY <2>2, <2>4, <2>5
<1>3. ASSUME NEW i \in DOMAIN targets
      PROVE  \E j \in DOMAIN results : results[j].index = i
  <2>1. i \in 1 .. next - 1
    BY <1>1
  <2>0. i # 0
    <3>1. i \in 1 .. Len(targets) /\ Len(targets) \in Nat
      BY <1>1
    <3> QED
      BY <3>1
  <2>2. \A k \in Worker : checking[k] # i
    BY <2>0
  <2> QED
    BY <2>1, <2>2 DEF CoverInv
<1>4. \A j \in DOMAIN results : results[j].index \in DOMAIN targets
  BY <1>1 DEF ResultInv, ResultOf
<1>5. ASSUME NEW i \in DOMAIN targets
      PROVE  \E j \in DOMAIN results :
                /\ { l \in DOMAIN results : results[l].index = i } = {j}
                /\ InOrder[i] = results[j].found
                /\ IsPlan(InOrder[i]) => InOrder[i].package = targets[i].package
  <2>1. PICK j \in DOMAIN results : results[j].index = i
    BY <1>3
  <2> QED
    BY <1>2, <2>1
<1>6. ASSUME NEW j \in DOMAIN results
      PROVE  results[j].index \in DOMAIN targets /\ InOrder[results[j].index] = results[j].found
  BY <1>2, <1>4
<1> QED
  BY <1>1, <1>5, <1>6

(* A sequence is one over what occurs in it.                               *)
LEMMA InItsRange ==
    ASSUME NEW S, NEW s \in Seq(S)
    PROVE  s \in Seq({ s[i] : i \in DOMAIN s })
<1>1. DOMAIN s = 1 .. Len(s) /\ Len(s) \in Nat /\ s = [i \in 1 .. Len(s) |-> s[i]]
  OBVIOUS
<1> DEFINE R == { s[i] : i \in DOMAIN s }
<1>2. \A i \in 1 .. Len(s) : s[i] \in R
  BY <1>1
<1> HIDE DEF R
<1>3. s \in [1 .. Len(s) -> R]
  BY <1>1, <1>2
<1>4. s \in Seq(R)
  BY <1>1, <1>3
<1> QED
  BY <1>4 DEF R

(* What is approved is the plans among the results, in their order.        *)
LEMMA ReportSelects ==
    ASSUME DiscoverInv, Report
    PROVE  \E f : /\ approved' \in Seq({ approved'[i] : i \in DOMAIN approved' })
                  /\ DOMAIN approved' = 1 .. Len(approved') /\ Len(approved') \in Nat
                  /\ f \in [DOMAIN approved' -> DOMAIN targets]
                  /\ \A i \in DOMAIN approved' : /\ approved'[i] = InOrder[f[i]]
                                                 /\ approved'[i].package = targets[f[i]].package
                  /\ \A i, j \in DOMAIN approved' : i < j => f[i] < f[j]
                  /\ \A k \in DOMAIN targets : IsPlan(InOrder[k]) => \E i \in DOMAIN approved' : f[i] = k
<1> DEFINE s == InOrder
           S == { s[i] : i \in DOMAIN targets }
           I == { i \in DOMAIN targets : IsPlan(s[i]) }
<1>1. /\ next > Len(targets) /\ \A k \in Worker : checking[k] = 0
      /\ approved' = Kept(s, I)
  BY DEF Report
<1>2. /\ DOMAIN targets = 1 .. Len(targets) /\ Len(targets) \in Nat
      /\ \A i \in I : s[i].package = targets[i].package
  BY <1>1, ChecksAreOver
<1>3. s \in Seq(S) /\ Len(s) = Len(targets) /\ (1 .. Len(s)) \cap I = I
  <2>1. DOMAIN s = 1 .. Len(targets) /\ s = [i \in 1 .. Len(targets) |-> s[i]]
    BY DEF InOrder
  <2> HIDE DEF s
  <2> QED
    BY <1>2, <2>1
<1> HIDE DEF s, S
<1>4. PICK f : Selects(S, s, I, Kept(s, I), f)
  <2>1. \E f : Selects(S, s, (1 .. Len(s)) \cap I, Kept(s, I), f)
    BY <1>3, KeptSelects
  <2> QED
    BY <1>3, <2>1
<1>5. /\ approved' \in Seq(S)
      /\ DOMAIN approved' = 1 .. Len(approved') /\ Len(approved') \in Nat
      /\ f \in [DOMAIN approved' -> I]
      /\ \A i \in DOMAIN approved' : approved'[i] = s[f[i]]
      /\ \A i, j \in DOMAIN approved' : i < j => f[i] < f[j]
      /\ \A k \in I : \E i \in DOMAIN approved' : f[i] = k
  <2>1. approved' \in Seq(S)
    BY <1>1, <1>4 DEF Selects
  <2>2. DOMAIN approved' = 1 .. Len(approved') /\ Len(approved') \in Nat
    BY <2>1
  <2> QED
    BY <1>1, <1>4, <2>1, <2>2 DEF Selects
<1>6. \A i \in DOMAIN approved' : f[i] \in DOMAIN targets /\ approved'[i].package = targets[f[i]].package
  BY <1>2, <1>5
<1>7. f \in [DOMAIN approved' -> DOMAIN targets]
  BY <1>5, <1>6
<1>8. \A k \in DOMAIN targets : IsPlan(s[k]) => k \in I
  OBVIOUS
<1> HIDE DEF I
<1>0. approved' \in Seq({ approved'[i] : i \in DOMAIN approved' })
  BY <1>5, InItsRange
<1>9. /\ approved' \in Seq({ approved'[i] : i \in DOMAIN approved' })
      /\ DOMAIN approved' = 1 .. Len(approved') /\ Len(approved') \in Nat
      /\ f \in [DOMAIN approved' -> DOMAIN targets]
      /\ \A i \in DOMAIN approved' : approved'[i] = s[f[i]] /\ approved'[i].package = targets[f[i]].package
      /\ \A i, j \in DOMAIN approved' : i < j => f[i] < f[j]
      /\ \A k \in DOMAIN targets : IsPlan(s[k]) => \E i \in DOMAIN approved' : f[i] = k
  BY <1>0, <1>5, <1>6, <1>7, <1>8
<1> QED
  BY <1>9, Zenon DEF s

LEMMA LosslessReport ==
    ASSUME DiscoverInv, Report
    PROVE  DiscoveryLossless'
<1>1. PICK f : /\ approved' \in Seq({ approved'[i] : i \in DOMAIN approved' })
               /\ DOMAIN approved' = 1 .. Len(approved') /\ Len(approved') \in Nat
               /\ f \in [DOMAIN approved' -> DOMAIN targets]
               /\ \A i \in DOMAIN approved' : /\ approved'[i] = InOrder[f[i]]
                                              /\ approved'[i].package = targets[f[i]].package
               /\ \A i, j \in DOMAIN approved' : i < j => f[i] < f[j]
               /\ \A k \in DOMAIN targets : IsPlan(InOrder[k]) => \E i \in DOMAIN approved' : f[i] = k
  BY ReportSelects
<1>2. next > Len(targets) /\ (\A k \in Worker : checking[k] = 0) /\ UNCHANGED << targets, results >>
  BY DEF Report
<1>3. ASSUME NEW i \in DOMAIN targets
      PROVE  Cardinality({ j \in DOMAIN results : results[j].index = i }) = 1
  BY <1>2, ChecksAreOver, FS_Singleton
<1>4. ASSUME NEW j \in DOMAIN results, IsPlan(results[j].found)
      PROVE  \E i \in DOMAIN approved' : approved'[i] = results[j].found
  <2>1. results[j].index \in DOMAIN targets /\ InOrder[results[j].index] = results[j].found
    BY <1>2, ChecksAreOver
  <2>2. PICK i \in DOMAIN approved' : f[i] = results[j].index
    BY <1>1, <1>4, <2>1
  <2> QED
    BY <1>1, <2>1, <2>2
<1>5. ASSUME NEW i \in DOMAIN approved', NEW j \in DOMAIN approved', i < j
      PROVE  \E k, l \in DOMAIN targets :
                   /\ k < l
                   /\ approved'[i].package = targets[k].package
                   /\ approved'[j].package = targets[l].package
  BY <1>1, <1>5
<1> QED
  BY <1>2, <1>3, <1>4, <1>5 DEF DiscoveryLossless, IsPlan

LEMMA LosslessFrame ==
    ASSUME DiscoveryLossless, pc # "discover", UNCHANGED << mode, targets, results, approved >>
    PROVE  DiscoveryLossless'
  BY DEF DiscoveryLossless, IsPlan

LEMMA LosslessStep ==
    ASSUME DiscoveryLossless, DiscoverInv, QueueInv, [Next]_vars
    PROVE  DiscoveryLossless'
<1>1. ASSUME NEW k \in Worker, Claim(k) \/ Check(k)
      PROVE  DiscoveryLossless'
  BY <1>1 DEF Claim, Check, DiscoveryLossless
<1>2. CASE Report
  BY <1>2, LosslessReport
<1>3. CASE Plan
  BY <1>3 DEF Plan, DiscoveryLossless, QueueInv, PhaseInv, Checks
<1>4. CASE Approve \/ Prefetch \/ Start \/ Fetch \/ Prepare \/ Build \/ Compile
  BY <1>4, LosslessFrame
     DEF Approve, Prefetch, Start, Fetch, Prepare, Build, Compile, finding
<1>5. CASE Load \/ Pacman \/ Verify \/ Persist \/ Advance \/ Finish
  BY <1>5, LosslessFrame DEF Load, Pacman, Verify, Persist, Advance, Finish, finding
<1>6. CASE Around
  <2>1. UNCHANGED << mode, pc, targets, results, approved >>
    BY <1>6 DEF Around, Republish, OtherPacman, EditConfig, OthersUseSpace, Ours, finding
  <2> QED
    BY <2>1, LosslessFrame DEF DiscoveryLossless
<1>7. CASE UNCHANGED vars
  <2>1. UNCHANGED << mode, pc, targets, results, approved >>
    BY <1>7 DEF vars
  <2> QED
    BY <2>1, LosslessFrame DEF DiscoveryLossless
<1> QED
  BY <1>1, <1>2, <1>3, <1>4, <1>5, <1>6, <1>7 DEF Next, Step, Ended

LEMMA LosslessInit == Init => DiscoveryLossless
  BY DEF Init, DiscoveryLossless

-----------------------------------------------------------------------------
(* Plans and the queue.                                                    *)

(* A planned package is one there is.                                      *)
LEMMA PlanOfPackage ==
    ASSUME NEW alias, NEW source, NEW p, PlanOf(alias, source, p) # None
    PROVE  PlanOf(alias, source, p).package = p
  BY DEF PlanOf

LEMMA DirectPlanPackage ==
    ASSUME NEW d \in Direct, DirectPlan(d) # None
    PROVE  DirectPlan(d).package \in Package
<1> DEFINE pl == PlanOf(DirectAlias(d), d.source, d.package)
           t == mem.sources[DirectAlias(d)] = None
<1>1. pl # None /\ DirectPlan(d) = [pl EXCEPT !.persist = t]
  BY DEF DirectPlan
<1>2. pl.package = d.package /\ d.package \in Package
  BY <1>1, PlanOfPackage, StartAssumption
<1>3. pl = [package |-> d.package, alias |-> pl.alias, source |-> pl.source, recipe |-> pl.recipe,
            tag |-> pl.tag, version |-> pl.version, content |-> pl.content, persist |-> FALSE]
  BY <1>1 DEF PlanOf
<1> HIDE DEF pl, t
<1> QED
  BY <1>1, <1>2, <1>3

LEMMA QueueInit == Init => QueueInv
<1> SUFFICES ASSUME Init
             PROVE  QueueInv
  OBVIOUS
<1>1. approved = << >> /\ queue = << >>
  BY DEF Init
<1>2. /\ mode \in Modes
      /\ pc = (IF mode \in {"upgrade", "continue"} THEN "discover" ELSE "plan")
  BY DEF Init
<1> QED
  BY <1>1, <1>2, StartAssumption
     DEF QueueInv, ApprovedInv, QueuedInv, PhaseInv, Installing, Checks

LEMMA QueueFrame ==
    ASSUME QueueInv, UNCHANGED << mode, approved, queue >>,
           pc' \in Installing => queue # << >>,
           pc' \in {"discover", "plan"} => pc' = pc
    PROVE  QueueInv'
  BY DEF QueueInv, ApprovedInv, QueuedInv, PhaseInv, Checks

(* Before the approval nothing is queued.                                  *)
LEMMA NothingQueued ==
    ASSUME QueueInv, pc \in {"discover", "plan"}
    PROVE  queue = << >> /\ \A S : queue \in Seq(S)
<1>1. approved = << >>
  BY DEF QueueInv, PhaseInv
<1>2. { approved[i] : i \in DOMAIN approved } = {}
  BY <1>1
<1>3. queue \in Seq({})
  BY <1>2 DEF QueueInv, QueuedInv
<1> QED
  BY <1>3

LEMMA QueueReport ==
    ASSUME QueueInv, DiscoverInv, Report
    PROVE  QueueInv'
<1>1. pc = "discover" /\ pc' = "review" /\ UNCHANGED << mode, queue >>
  BY DEF Report
<1>2. PICK f : /\ approved' \in Seq({ approved'[i] : i \in DOMAIN approved' })
               /\ DOMAIN approved' = 1 .. Len(approved') /\ Len(approved') \in Nat
               /\ f \in [DOMAIN approved' -> DOMAIN targets]
               /\ \A i \in DOMAIN approved' : /\ approved'[i] = InOrder[f[i]]
                                              /\ approved'[i].package = targets[f[i]].package
               /\ \A i, j \in DOMAIN approved' : i < j => f[i] < f[j]
               /\ \A k \in DOMAIN targets : IsPlan(InOrder[k]) => \E i \in DOMAIN approved' : f[i] = k
  BY ReportSelects
<1>3. /\ \A k \in DOMAIN targets : k \in Nat /\ targets[k].package \in Package
      /\ \A k, l \in DOMAIN targets : targets[k].package = targets[l].package => k = l
  BY DEF DiscoverInv, TargetInv
<1>4. ASSUME NEW i \in DOMAIN approved', NEW j \in DOMAIN approved',
             approved'[i].package = approved'[j].package
      PROVE  i = j
  <2>1. f[i] = f[j] /\ f[i] \in Nat
    BY <1>2, <1>3, <1>4
  <2>2. ~(i < j) /\ ~(j < i)
    BY <1>2, <2>1
  <2>3. i \in Nat /\ j \in Nat
    BY <1>2
  <2> QED
    BY <2>2, <2>3
<1>5. ApprovedInv'
  BY <1>2, <1>3, <1>4 DEF ApprovedInv
<1>6. queue' = << >> /\ QueuedInv'
  BY <1>1, NothingQueued DEF QueuedInv
<1> QED
  BY <1>1, <1>5, <1>6 DEF QueueInv, PhaseInv, Installing

LEMMA QueuePlan ==
    ASSUME QueueInv, Plan
    PROVE  QueueInv'
<1>1. pc = "plan" /\ UNCHANGED << mode, queue >>
  BY DEF Plan
<1>2. \/ pc' = "failed" /\ UNCHANGED approved
      \/ \E pl : pl.package \in Package /\ pc' = "review" /\ approved' = << pl >>
  <2>1. PICK pl \in IF mode = "direct" THEN { DirectPlan(d) : d \in Direct }
                    ELSE IF ~ValidConfig(mem) THEN {None}
                    ELSE {None} \cup { PlanOf(a, mem.sources[a], p) :
                              a \in { b \in Alias : mem.sources[b] # None }, p \in Package } :
               IF pl = None THEN pc' = "failed" /\ UNCHANGED approved
                            ELSE pc' = "review" /\ approved' = << pl >>
    BY DEF Plan
  <2>2. pl # None => pl.package \in Package
    BY <2>1, PlanOfPackage, DirectPlanPackage
  <2> QED
    BY <2>1, <2>2
<1>3. CASE pc' = "failed" /\ UNCHANGED approved
  BY <1>1, <1>3, QueueFrame DEF Installing
<1>4. CASE \E pl : pl.package \in Package /\ pc' = "review" /\ approved' = << pl >>
  <2>1. ApprovedInv'
    BY <1>4 DEF ApprovedInv
  <2>2. queue' = << >> /\ QueuedInv'
    BY <1>1, NothingQueued DEF QueuedInv
  <2> QED
    BY <1>1, <1>4, <2>1, <2>2 DEF QueueInv, PhaseInv, Installing
<1> QED
  BY <1>2, <1>3, <1>4

LEMMA QueueApprove ==
    ASSUME QueueInv, Approve
    PROVE  QueueInv'
<1> DEFINE S == { approved[i] : i \in DOMAIN approved }
<1>1. PICK taken \in SUBSET DOMAIN approved :
         /\ queue' = Kept(approved, taken)
         /\ pc' = IF taken = {} THEN "done"
                  ELSE IF mode \in {"upgrade", "continue"} THEN "prefetch" ELSE "start"
  BY DEF Approve
<1>2. UNCHANGED << mode, approved >>
  BY DEF Approve
<1>3. DOMAIN approved = 1 .. Len(approved) /\ Len(approved) \in Nat
  <2>1. approved \in Seq(S)
    BY DEF QueueInv, ApprovedInv
  <2> HIDE DEF S
  <2> QED
    BY <2>1
<1>4. \A i, j \in DOMAIN approved : approved[i].package = approved[j].package => i = j
  BY DEF QueueInv, ApprovedInv
<1>5. approved \in Seq(S)
  BY DEF QueueInv, ApprovedInv
<1> HIDE DEF S
<1>6. PICK f : Selects(S, approved, taken, queue', f)
  <2>1. \E f : Selects(S, approved, (1 .. Len(approved)) \cap taken, Kept(approved, taken), f)
    BY <1>5, KeptSelects
  <2>2. (1 .. Len(approved)) \cap taken = taken
    BY <1>3
  <2> QED
    BY <1>1, <2>1, <2>2
<1>7. /\ queue' \in Seq(S) /\ f \in [DOMAIN queue' -> taken] /\ DOMAIN queue' \subseteq Nat
      /\ \A i \in DOMAIN queue' : queue'[i] = approved[f[i]]
      /\ \A i, j \in DOMAIN queue' : i < j => f[i] < f[j]
      /\ \A k \in taken : \E i \in DOMAIN queue' : f[i] = k
  <2>1. queue' \in Seq(S)
    BY <1>6 DEF Selects
  <2>2. DOMAIN queue' = 1 .. Len(queue') /\ Len(queue') \in Nat
    BY <2>1
  <2> QED
    BY <1>6, <2>2 DEF Selects
<1>8. ASSUME NEW i \in DOMAIN queue', NEW j \in DOMAIN queue',
             queue'[i].package = queue'[j].package
      PROVE  i = j
  <2>1. f[i] = f[j] /\ f[i] \in Nat
    BY <1>3, <1>4, <1>7, <1>8
  <2>2. ~(i < j) /\ ~(j < i)
    BY <1>7, <2>1
  <2> QED
    BY <1>7, <2>2
<1>9. QueuedInv'
  BY <1>2, <1>7, <1>8 DEF QueuedInv, S
<1>10. taken # {} => queue' # << >>
  BY <1>7
<1>11. pc' \notin {"discover", "plan"} /\ (pc' \in Installing => taken # {})
  BY <1>1 DEF Installing
<1>12. ApprovedInv'
  BY <1>2 DEF QueueInv, ApprovedInv
<1>13. PhaseInv'
  BY <1>2, <1>10, <1>11 DEF QueueInv, PhaseInv, Checks
<1> QED
  BY <1>9, <1>12, <1>13 DEF QueueInv

LEMMA QueueAdvance ==
    ASSUME QueueInv, Advance
    PROVE  QueueInv'
<1> DEFINE S == { approved[i] : i \in DOMAIN approved }
<1>1. /\ pc = "next" /\ queue' = Tail(queue) /\ UNCHANGED << mode, approved >>
      /\ pc' \in {"done", "start", "failed"} /\ (pc' = "start" => Len(queue) # 1)
  BY DEF Advance
<1>2. queue \in Seq(S) /\ queue # << >>
  BY <1>1 DEF QueueInv, QueuedInv, PhaseInv, Installing
<1>3. \A i, j \in DOMAIN queue : queue[i].package = queue[j].package => i = j
  BY DEF QueueInv, QueuedInv
<1> HIDE DEF S
<1>4. /\ queue' \in Seq(S) /\ DOMAIN queue' = 1 .. Len(queue) - 1 /\ DOMAIN queue = 1 .. Len(queue)
      /\ \A i \in DOMAIN queue' : queue'[i] = queue[i + 1]
      /\ Len(queue) \in Nat /\ (Len(queue) # 1 => queue' # << >>)
  <2>1. Len(queue) \in Nat /\ Len(queue) # 0 /\ DOMAIN queue = 1 .. Len(queue)
    BY <1>2
  <2>2. queue' \in Seq(S) /\ Len(queue') = Len(queue) - 1
    BY <1>1, <1>2, <2>1
  <2>3. \A i \in 1 .. Len(queue) - 1 : queue'[i] = queue[i + 1]
    BY <1>1, <1>2, <2>1
  <2>4. DOMAIN queue' = 1 .. Len(queue')
    BY <2>2
  <2> QED
    BY <2>1, <2>2, <2>3, <2>4
<1>5. \A i, j \in DOMAIN queue' : queue'[i].package = queue'[j].package => i = j
  BY <1>3, <1>4
<1>6. QueuedInv'
  BY <1>1, <1>4, <1>5 DEF QueuedInv, S
<1> QED
  BY <1>1, <1>4, <1>6 DEF QueueInv, ApprovedInv, PhaseInv, Installing

LEMMA QueueStep ==
    ASSUME QueueInv, DiscoverInv, [Next]_vars
    PROVE  QueueInv'
<1>1. ASSUME NEW k \in Worker, Claim(k) \/ Check(k)
      PROVE  QueueInv'
  BY <1>1, QueueFrame DEF Claim, Check, Installing
<1>2. CASE Report
  BY <1>2, QueueReport
<1>3. CASE Plan
  BY <1>3, QueuePlan
<1>4. CASE Approve
  BY <1>4, QueueApprove
<1>5. CASE Prefetch \/ Start \/ Fetch \/ Prepare
  <2>1. UNCHANGED << mode, approved, queue >> /\ pc' \notin {"discover", "plan"} /\ pc \in Installing
    BY <1>5 DEF Prefetch, Start, Goto, Fetch, Prepare, Installing
  <2> QED
    BY <2>1, QueueFrame DEF QueueInv, PhaseInv
<1>6. CASE Build \/ Compile \/ Load \/ Pacman \/ Verify \/ Persist
  <2>1. UNCHANGED << mode, approved, queue >> /\ pc' \notin {"discover", "plan"} /\ pc \in Installing
    BY <1>6 DEF Build, Compile, Load, Goto, Pacman, Verify, Persist, Installing
  <2> QED
    BY <2>1, QueueFrame DEF QueueInv, PhaseInv
<1>7. CASE Advance
  BY <1>7, QueueAdvance
<1>8. CASE Finish
  BY <1>8, QueueFrame DEF Finish, Installing
<1>9. CASE Around
  <2>1. UNCHANGED << mode, approved, queue, pc >>
    BY <1>9 DEF Around, Republish, OtherPacman, EditConfig, OthersUseSpace, Ours
  <2> QED
    BY <2>1, QueueFrame DEF QueueInv, PhaseInv
<1>10. CASE UNCHANGED vars
  <2>1. UNCHANGED << mode, approved, queue, pc >>
    BY <1>10 DEF vars
  <2> QED
    BY <2>1, QueueFrame DEF QueueInv, PhaseInv
<1> QED
  BY <1>1, <1>2, <1>3, <1>4, <1>5, <1>6, <1>7, <1>8, <1>9, <1>10 DEF Next, Step, Ended

-----------------------------------------------------------------------------
(* Contents: the prefetched and the current workspace.                     *)

LEMMA CacheFrame ==
    ASSUME CacheInv, UNCHANGED << cache, queue >>,
           pc' \in {"discover", "plan", "review"} => pc \in {"discover", "plan", "review"}
    PROVE  CacheInv'
  BY DEF CacheInv

LEMMA CacheApprove ==
    ASSUME CacheInv, QueueInv', Approve
    PROVE  CacheInv'
<1>1. (\A p \in Package : cache[p] = None) /\ UNCHANGED cache
  BY DEF Approve, CacheInv
<1>2. \A i \in DOMAIN queue' : queue'[i].package \in Package
  <2> DEFINE A == { approved'[i] : i \in DOMAIN approved' }
  <2>1. queue' \in Seq(A) /\ \A x \in A : x.package \in Package
    BY DEF QueueInv, ApprovedInv, QueuedInv
  <2> HIDE DEF A
  <2> QED
    BY <2>1
<1> QED
  BY <1>1, <1>2 DEF CacheInv

LEMMA CachePrefetch ==
    ASSUME CacheInv, QueueInv, SpaceInv, Prefetch
    PROVE  CacheInv'
<1>1. CASE Unfetched = {}
  BY <1>1, CacheFrame DEF Prefetch
<1>2. CASE Unfetched # {}
  <2> DEFINE first == CHOOSE i \in Unfetched : \A j \in Unfetched : i <= j
  <2>1. first \in Unfetched
    <3>1. Unfetched \in SUBSET Nat
      BY QueuedPackages DEF Unfetched
    <3>2. \E i \in Unfetched : \A j \in Unfetched : i <= j
      BY <1>2, <3>1, Least
    <3> QED
      BY <3>2
  <2>2. PICK w \in { Downloaded(queue[first]), None } :
            cache' = [cache EXCEPT ![queue[first].package] = w]
    BY <1>2 DEF Prefetch
  <2>3. UNCHANGED queue /\ pc' \in {"failed", "prefetch"}
    BY <1>2 DEF Prefetch
  <2> HIDE DEF first
  <2>4. first \in DOMAIN queue
    BY <2>1 DEF Unfetched
  <2>5. w # None => w.content = queue[first].content
    BY <2>2, SpaceFacts, DownloadedFits
  <2>6. ASSUME NEW i \in DOMAIN queue, cache'[queue[i].package] # None
        PROVE  cache'[queue[i].package].content = queue[i].content
    <3>1. queue[i].package \in Package
      BY QueuedPackages
    <3>2. CASE queue[i].package = queue[first].package
      <4>1. i = first
        BY <2>4, <3>2 DEF QueueInv, QueuedInv
      <4>2. cache'[queue[i].package] = w
        BY <2>2, <3>1, <3>2, SpaceFacts
      <4> QED
        BY <2>5, <2>6, <4>1, <4>2
    <3>3. CASE queue[i].package # queue[first].package
      <4>1. cache'[queue[i].package] = cache[queue[i].package]
        BY <2>2, <3>1, <3>3, SpaceFacts
      <4> QED
        BY <2>6, <4>1 DEF CacheInv
    <3> QED
      BY <3>2, <3>3
  <2> QED
    BY <2>3, <2>6 DEF CacheInv
<1> QED
  BY <1>1, <1>2

LEMMA CacheFetch ==
    ASSUME CacheInv, QueueInv, SpaceInv, Fetch
    PROVE  CacheInv'
<1>1. UNCHANGED queue /\ pc' \in {"failed", "prepare"}
  BY DEF Fetch
<1>2. \A p \in Package : cache'[p] = cache[p] \/ cache'[p] = None
  BY SpaceFacts DEF Fetch
<1>3. \A i \in DOMAIN queue : queue[i].package \in Package
  BY QueuedPackages
<1> QED
  BY <1>1, <1>2, <1>3 DEF CacheInv

LEMMA CacheAdvance ==
    ASSUME CacheInv, QueueInv, Advance
    PROVE  CacheInv'
<1>1. UNCHANGED cache /\ queue' = Tail(queue) /\ pc' \in {"done", "start", "failed"} /\ pc = "next"
  BY DEF Advance
<1>2. \A i \in DOMAIN queue' : i + 1 \in DOMAIN queue /\ queue'[i] = queue[i + 1]
  <2> DEFINE S == { approved[i] : i \in DOMAIN approved }
  <2>1. queue \in Seq(S) /\ queue # << >>
    BY <1>1 DEF QueueInv, QueuedInv, PhaseInv, Installing
  <2> HIDE DEF S
  <2>2. Len(queue) \in Nat /\ Len(queue) # 0 /\ DOMAIN queue = 1 .. Len(queue)
    BY <2>1
  <2>3. DOMAIN queue' = 1 .. Len(queue) - 1
    BY <1>1, <2>1, <2>2
  <2>4. \A i \in 1 .. Len(queue) - 1 : queue'[i] = queue[i + 1]
    BY <1>1, <2>1, <2>2
  <2> QED
    BY <2>2, <2>3, <2>4
<1> QED
  BY <1>1, <1>2 DEF CacheInv

LEMMA CacheStep ==
    ASSUME CacheInv, QueueInv, QueueInv', SpaceInv, [Next]_vars
    PROVE  CacheInv'
<1>1. ASSUME NEW k \in Worker, Claim(k) \/ Check(k)
      PROVE  CacheInv'
  BY <1>1, CacheFrame DEF Claim, Check
<1>2. CASE Report \/ Plan
  BY <1>2, CacheFrame DEF Report, Plan
<1>3. CASE Approve
  BY <1>3, CacheApprove
<1>4. CASE Prefetch
  BY <1>4, CachePrefetch
<1>5. CASE Fetch
  BY <1>5, CacheFetch
<1>6. CASE Start \/ Prepare \/ Build \/ Compile \/ Load \/ Pacman \/ Verify \/ Persist
  <2>1. UNCHANGED << cache, queue >> /\ pc' \notin {"discover", "plan", "review"}
    BY <1>6 DEF Start, Prepare, Build, Compile, Load, Pacman, Verify, Persist, Goto
  <2> QED
    BY <2>1, CacheFrame
<1>7. CASE Advance
  BY <1>7, CacheAdvance
<1>8. CASE Finish
  <2>1. UNCHANGED queue /\ pc' = "done" /\ cache' = [p \in Package |-> None]
    BY <1>8 DEF Finish
  <2>2. \A i \in DOMAIN queue : cache'[queue[i].package] = None
    BY <2>1, QueuedPackages
  <2> QED
    BY <2>1, <2>2 DEF CacheInv
<1>9. CASE Around
  <2>1. UNCHANGED << cache, queue, pc >>
    BY <1>9 DEF Around, Republish, OtherPacman, EditConfig, OthersUseSpace, Ours
  <2> QED
    BY <2>1, CacheFrame
<1>10. CASE UNCHANGED vars
  BY <1>10, CacheFrame DEF vars
<1> QED
  BY <1>1, <1>2, <1>3, <1>4, <1>5, <1>6, <1>7, <1>8, <1>9, <1>10 DEF Next, Step, Ended

-----------------------------------------------------------------------------
LEMMA WorkFetch ==
    ASSUME WorkInv, CacheInv, QueueInv, SpaceInv, Fetch
    PROVE  WorkInv'
<1>1. UNCHANGED queue /\ pc' \in {"failed", "prepare"}
  BY DEF Fetch
<1>2. plan = queue[1] /\ 1 \in DOMAIN queue /\ plan' = plan
  BY <1>1, QueuedPackages DEF Fetch, QueueInv, PhaseInv, Installing, plan
<1>3. pc' = "prepare" => work' # None /\ work'.content = plan.content
  <2>1. CASE cache[plan.package] # None
    BY <1>2, <2>1 DEF Fetch, CacheInv
  <2>2. CASE cache[plan.package] = None
    <3>1. PICK w \in { Downloaded(plan), None } :
             work' = w /\ pc' = IF w = None THEN "failed" ELSE "prepare"
      BY <2>2 DEF Fetch
    <3> QED
      BY <3>1, SpaceFacts, DownloadedFits
  <2> QED
    BY <2>1, <2>2
<1> QED
  BY <1>1, <1>2, <1>3 DEF WorkInv

LEMMA WorkPrepare ==
    ASSUME WorkInv, SpaceInv, Prepare
    PROVE  WorkInv'
<1>1. pc = "prepare" /\ UNCHANGED queue /\ plan' = plan
  BY DEF Prepare, plan
<1>2. work # None /\ work.content = plan.content
  BY <1>1 DEF WorkInv
<1>3. CASE plan.recipe.format = "native"
  <2>1. /\ archive' = [version |-> Inside[work.content], content |-> work.content]
        /\ pc' = "load" /\ UNCHANGED work
    BY <1>3 DEF Prepare
  <2> QED
    BY <1>1, <1>2, <2>1 DEF WorkInv
<1>4. CASE plan.recipe.format # "native"
  <2> DEFINE w == Prepared(plan, work)
  <2>1. /\ work' = IF w = None THEN work ELSE w
        /\ pc' = IF w = None THEN "failed" ELSE "build"
    BY <1>4 DEF Prepare
  <2>2. w # None => w.content = work.content
    BY <1>2, SpaceFacts, PreparedFits
  <2> HIDE DEF w
  <2>3. pc' = "build" => work' # None /\ work'.content = plan.content
    BY <1>2, <2>1, <2>2
  <2> QED
    BY <1>1, <2>1, <2>3 DEF WorkInv
<1> QED
  BY <1>3, <1>4

LEMMA WorkStep ==
    ASSUME WorkInv, CacheInv, QueueInv, SpaceInv, [Next]_vars
    PROVE  WorkInv'
<1> DEFINE Late == {"prepare", "build", "load", "pacman", "verify", "persist", "next"}
<1>0. ASSUME pc' \notin Late
      PROVE  WorkInv'
  BY <1>0 DEF WorkInv
<1>1. ASSUME NEW k \in Worker, Claim(k) \/ Check(k)
      PROVE  WorkInv'
  <2>1. pc' \notin Late
    BY <1>1 DEF Claim, Check
  <2> QED
    BY <2>1, <1>0
<1>2. CASE Report \/ Plan \/ Approve \/ Prefetch \/ Start
  <2>1. pc' \notin Late
    BY <1>2 DEF Report, Plan, Approve, Prefetch, Start, Goto
  <2> QED
    BY <2>1, <1>0
<1>3. CASE Fetch
  BY <1>3, WorkFetch
<1>4. CASE Prepare
  BY <1>4, WorkPrepare
<1>5. CASE Build \/ Compile
  <2>1. /\ pc = "build" /\ UNCHANGED << queue, work >> /\ plan' = plan
        /\ \/ archive' = [version |-> plan.version, content |-> work.content] /\ pc' = "load"
           \/ pc' = "failed"
    BY <1>5 DEF Build, Compile, plan
  <2> QED
    BY <2>1 DEF WorkInv
<1>6. CASE Load
  <2>1. /\ pc = "load" /\ UNCHANGED << queue, work, archive >> /\ plan' = plan
        /\ pc' \in {"pacman", "failed"} /\ (pc' = "pacman" => archive.version = plan.version)
    BY <1>6 DEF Load, Goto, Acceptable, plan
  <2> QED
    BY <2>1 DEF WorkInv
<1>7. CASE Pacman
  <2>1. pc = "pacman" /\ pc' \in {"verify", "failed"} /\ UNCHANGED << queue, work, archive >> /\ plan' = plan
    BY <1>7 DEF Pacman, plan
  <2> QED
    BY <2>1 DEF WorkInv
<1>8. CASE Verify
  <2>1. pc = "verify" /\ pc' \in {"persist", "failed"} /\ UNCHANGED << queue, work, archive >> /\ plan' = plan
    BY <1>8 DEF Verify, Goto, plan
  <2> QED
    BY <2>1 DEF WorkInv
<1>9. CASE Persist
  <2>1. pc = "persist" /\ pc' \in {"next", "failed"} /\ UNCHANGED << queue, work, archive >> /\ plan' = plan
    BY <1>9 DEF Persist, plan
  <2> QED
    BY <2>1 DEF WorkInv
<1>10. CASE Advance \/ Finish
  <2>1. pc' \notin Late
    BY <1>10 DEF Advance, Finish
  <2> QED
    BY <2>1, <1>0
<1>11. CASE Around
  <2>1. UNCHANGED << queue, work, archive, pc >> /\ plan' = plan
    BY <1>11 DEF Around, Republish, OtherPacman, EditConfig, OthersUseSpace, Ours, plan
  <2> QED
    BY <2>1 DEF WorkInv
<1>12. CASE UNCHANGED vars
  <2>1. UNCHANGED << queue, work, archive, pc >> /\ plan' = plan
    BY <1>12 DEF vars, plan
  <2> QED
    BY <2>1 DEF WorkInv
<1> QED
  BY <1>1, <1>2, <1>3, <1>4, <1>5, <1>6, <1>7, <1>8, <1>9, <1>10, <1>11, <1>12 DEF Next, Step, Ended

(* The records.                                                            *)
LEMMA RecordInit == Init => RecordInv
<1> SUFFICES ASSUME Init
             PROVE  RecordInv
  OBVIOUS
<1>1. disk \in Configs /\ installed \in Databases /\ pc \in {"discover", "plan"}
  BY DEF Init
<1>2. pacmanLog = { << p, installed[p].version >> : p \in Package }
  BY DEF Init
<1> QED
  BY <1>1, <1>2, StartAssumption DEF RecordInv

(* Where neither records nor plan change, and nothing new is verified.     *)
LEMMA RecordFrame ==
    ASSUME RecordInv, UNCHANGED << installed, disk, pacmanLog >>,
           pc' = "persist" => pc = "persist" /\ UNCHANGED queue
    PROVE  RecordInv'
  BY DEF RecordInv, plan

LEMMA RecordPacman ==
    ASSUME RecordInv, QueueInv, Pacman
    PROVE  RecordInv'
<1>1. plan.package \in Package
  BY QueuedPackages DEF Pacman, QueueInv, PhaseInv, Installing
<1>2. UNCHANGED disk /\ pc' \in {"verify", "failed"}
  BY DEF Pacman
<1>3. CASE UNCHANGED << installed, pacmanLog >>
  BY <1>2, <1>3, RecordFrame
<1>4. CASE /\ installed' = [installed EXCEPT ![plan.package] = archive]
           /\ pacmanLog' = pacmanLog \cup {<< plan.package, archive.version >>}
  BY <1>1, <1>2, <1>4 DEF RecordInv
<1> QED
  BY <1>3, <1>4 DEF Pacman

LEMMA RecordOtherPacman ==
    ASSUME RecordInv, NEW p \in Package, OtherPacman(p)
    PROVE  RecordInv'
<1>1. PICK new : /\ installed' = [installed EXCEPT ![p] = new]
                 /\ pacmanLog' = pacmanLog \cup {<< p, new.version >>}
  BY DEF OtherPacman
<1>2. UNCHANGED << disk, pc >> /\ plan' = plan
  BY DEF OtherPacman, Ours, plan
<1> QED
  BY <1>1, <1>2 DEF RecordInv

(* What the saved file is.                                                 *)
LEMMA SavedIs ==
    ASSUME RecordInv, Saved(disk) # None
    PROVE  /\ Saved(disk) = [sources |-> [a \in Alias |-> Saved(disk).sources[a]],
                             pins |-> [p \in Package |-> Saved(disk).pins[p]]]
           /\ Saved(disk).sources[plan.alias] = plan.source
           /\ \A a \in Alias : disk.sources[a] # None => Saved(disk).sources[a] = disk.sources[a]
<1> DEFINE added == IF plan.persist /\ disk.sources[plan.alias] = None
                    THEN [disk EXCEPT !.sources[plan.alias] = plan.source] ELSE disk
<1>1. /\ Saved(disk) = [added EXCEPT !.pins[plan.package] = plan.alias]
      /\ added.sources[plan.alias] = plan.source
  BY DEF Saved
<1>2. disk = [sources |-> [a \in Alias |-> disk.sources[a]], pins |-> [p \in Package |-> disk.pins[p]]]
  BY DEF RecordInv
<1>3. /\ added = [sources |-> [a \in Alias |-> added.sources[a]], pins |-> [p \in Package |-> added.pins[p]]]
      /\ \A a \in Alias : disk.sources[a] # None => added.sources[a] = disk.sources[a]
  <2>1. CASE plan.persist /\ disk.sources[plan.alias] = None
    <3>1. /\ added = [sources |-> [disk.sources EXCEPT ![plan.alias] = plan.source], pins |-> disk.pins]
      BY <1>2, <2>1
    <3> HIDE DEF added
    <3>2. disk.sources = [a \in Alias |-> disk.sources[a]] /\ disk.pins = [p \in Package |-> disk.pins[p]]
      BY <1>2
    <3> QED
      BY <2>1, <3>1, <3>2
  <2>2. CASE ~(plan.persist /\ disk.sources[plan.alias] = None)
    BY <1>2, <2>2
  <2> QED
    BY <2>1, <2>2
<1> HIDE DEF added
<1>4. Saved(disk) = [sources |-> added.sources, pins |-> [added.pins EXCEPT ![plan.package] = plan.alias]]
  BY <1>1, <1>3
<1> QED
  BY <1>1, <1>3, <1>4

LEMMA RecordPersist ==
    ASSUME RecordInv, Persist
    PROVE  RecordInv'
<1>1. UNCHANGED << installed, pacmanLog >> /\ pc' \in {"failed", "next"}
  BY DEF Persist
<1>2. disk' = disk \/ (Saved(disk) # None /\ disk' = Saved(disk))
  <2>1. IF Saved(disk) = None THEN pc' = "failed" /\ UNCHANGED disk
        ELSE disk' = Saved(disk) /\ pc' = "next"
    BY Zenon DEF Persist
  <2> QED
    BY <2>1
<1>3. disk' = [sources |-> [a \in Alias |-> disk'.sources[a]], pins |-> [p \in Package |-> disk'.pins[p]]]
  BY <1>2, SavedIs DEF RecordInv
<1> QED
  BY <1>1, <1>3 DEF RecordInv

LEMMA RecordEditConfig ==
    ASSUME RecordInv, EditConfig
    PROVE  RecordInv'
<1>1. UNCHANGED << installed, pacmanLog, pc >> /\ plan' = plan
  BY DEF EditConfig, Ours, plan
<1>2. /\ disk = [sources |-> disk.sources, pins |-> disk.pins]
      /\ disk.sources = [a \in Alias |-> disk.sources[a]] /\ disk.pins = [p \in Package |-> disk.pins[p]]
  BY DEF RecordInv
<1>3. disk' = [sources |-> [a \in Alias |-> disk'.sources[a]], pins |-> [p \in Package |-> disk'.pins[p]]]
  <2>1. CASE \E a \in Alias, s \in Source \cup {None} : disk' = [disk EXCEPT !.sources[a] = s]
    <3>1. PICK a \in Alias, s \in Source \cup {None} : disk' = [disk EXCEPT !.sources[a] = s]
      BY <2>1
    <3>2. disk' = [sources |-> [disk.sources EXCEPT ![a] = s], pins |-> disk.pins]
      BY <1>2, <3>1
    <3> QED
      BY <1>2, <3>2
  <2>2. CASE \E p \in Package : disk' = [disk EXCEPT !.pins[p] = None]
    <3>1. PICK p \in Package : disk' = [disk EXCEPT !.pins[p] = None]
      BY <2>2
    <3>2. disk' = [sources |-> disk.sources, pins |-> [disk.pins EXCEPT ![p] = None]]
      BY <1>2, <3>1
    <3> QED
      BY <1>2, <3>2
  <2> QED
    BY <2>1, <2>2 DEF EditConfig
<1> QED
  BY <1>1, <1>3 DEF RecordInv

LEMMA RecordStep ==
    ASSUME RecordInv, QueueInv, [Next]_vars
    PROVE  RecordInv'
<1>1. ASSUME NEW k \in Worker, Claim(k) \/ Check(k)
      PROVE  RecordInv'
  BY <1>1, RecordFrame DEF Claim, Check, world
<1>2. CASE Report \/ Plan \/ Approve \/ Prefetch \/ Start \/ Fetch
  BY <1>2, RecordFrame DEF Report, Plan, Approve, Prefetch, Start, Goto, Fetch, world
<1>3. CASE Prepare \/ Build \/ Compile \/ Load \/ Advance \/ Finish
  BY <1>3, RecordFrame DEF Prepare, Build, Compile, Load, Goto, Advance, Finish, world
<1>4. CASE Pacman
  BY <1>4, RecordPacman
<1>5. CASE Verify
  <2>1. /\ pc = "verify" /\ UNCHANGED << installed, disk, pacmanLog >> /\ plan' = plan
        /\ pc' = "persist" => installed[plan.package].version = plan.version
    BY <1>5 DEF Verify, Goto, world, plan
  <2>2. plan.package \in Package
    BY <2>1, QueuedPackages DEF QueueInv, PhaseInv, Installing
  <2> QED
    BY <2>1, <2>2 DEF RecordInv
<1>6. CASE Persist
  BY <1>6, RecordPersist
<1>7. ASSUME NEW p \in Package, Republish(p)
      PROVE  RecordInv'
  BY <1>7, RecordFrame DEF Republish, Ours
<1>8. ASSUME NEW p \in Package, OtherPacman(p)
      PROVE  RecordInv'
  BY <1>8, RecordOtherPacman
<1>9. CASE EditConfig
  BY <1>9, RecordEditConfig
<1>10. ASSUME NEW b \in DOMAIN room, OthersUseSpace(b)
       PROVE  RecordInv'
  BY <1>10, RecordFrame DEF OthersUseSpace, Ours
<1>11. CASE UNCHANGED vars
  BY <1>11, RecordFrame DEF vars
<1> QED
  BY <1>1, <1>2, <1>3, <1>4, <1>5, <1>6, <1>7, <1>8, <1>9, <1>10, <1>11
     DEF Next, Step, Around, Ended

-----------------------------------------------------------------------------
(* Types.                                                                  *)
Phases == Installing \cup {"discover", "plan", "review", "failed", "done"}
Bounded == pc \in Phases /\ events \in 0 .. MaxEvents

LEMMA TypeFollows == DiscoverInv /\ SpaceInv /\ ContentInv /\ Bounded => TypeOK
<1> SUFFICES ASSUME DiscoverInv, SpaceInv, ContentInv, Bounded
             PROVE  TypeOK
  OBVIOUS
<1>1. next \in 1 .. Len(targets) + 1 /\ checking \in [Worker -> 0 .. Len(targets)]
  <2>1. next \in 1 .. Len(targets) + 1 /\ Len(targets) \in Nat /\ checking \in [Worker -> 0 .. next - 1]
    BY DEF DiscoverInv, TargetInv, ClaimInv
  <2>2. 0 .. next - 1 \subseteq 0 .. Len(targets)
    BY <2>1
  <2> QED
    BY <2>1, <2>2
<1>2. memory \in Nat /\ room \in [DOMAIN room -> 0 .. Room]
  <2>1. memory \in Nat /\ room \in [Base -> Nat] /\ Room \in Nat
    BY SpaceFacts DEF SpaceType
  <2>2. ASSUME NEW b \in Base
        PROVE  room[b] \in 0 .. Room
    BY <2>1, SpaceFacts
  <2> QED
    BY <2>1, <2>2
<1>3. /\ pc \in { "prepare", "build", "load", "pacman", "verify", "persist", "next" } => work # None
      /\ pc \in { "load", "pacman", "verify", "persist", "next" } => archive.content = work.content
  <2>1. ASSUME pc \in { "load", "pacman", "verify", "persist", "next" }
        PROVE  archive.content = work.content
    <3>1. archive = [version |-> archive.version, content |-> work.content]
      BY <2>1 DEF ContentInv, WorkInv
    <3> QED
      BY <3>1
  <2> QED
    BY <2>1 DEF ContentInv, WorkInv
<1> QED
  BY <1>1, <1>2, <1>3 DEF TypeOK, Bounded, Phases, Installing

LEMMA PhaseStep ==
    ASSUME Bounded, [Next]_vars
    PROVE  Bounded'
<1> USE DEF Bounded
<1>1. MaxEvents \in Nat
  BY CatalogAssumption
<1>2. ASSUME NEW k \in Worker, Claim(k) \/ Check(k)
      PROVE  pc' = pc /\ events' = events
  BY <1>2 DEF Claim, Check, world
<1>3. CASE Report \/ Plan \/ Approve \/ Prefetch \/ Start \/ Fetch
  BY <1>3 DEF Report, Plan, Approve, Prefetch, Start, Goto, Fetch, world, Phases, Installing
<1>4. CASE Prepare \/ Build \/ Compile \/ Load \/ Pacman \/ Verify
  BY <1>4 DEF Prepare, Build, Compile, Load, Goto, Pacman, Verify, world, Phases, Installing
<1>5. CASE Persist \/ Advance \/ Finish
  BY <1>5 DEF Persist, Advance, Finish, world, Phases, Installing
<1>6. CASE Around
  <2>1. pc' = pc /\ events < MaxEvents /\ events' = events + 1
    BY <1>6 DEF Around, Republish, OtherPacman, EditConfig, OthersUseSpace, Ours, Event
  <2> QED
    BY <1>1, <2>1
<1>7. CASE UNCHANGED vars
  BY <1>7 DEF vars
<1> QED
  BY <1>2, <1>3, <1>4, <1>5, <1>6, <1>7 DEF Next, Step, Ended

-----------------------------------------------------------------------------
(* The inductive invariant holds initially and every step keeps it.        *)
LEMMA IInvInit == Init => IInv
<1> SUFFICES ASSUME Init
             PROVE  IInv
  OBVIOUS
<1>1. ContentInv
  BY DEF Init, ContentInv, CacheInv, WorkInv
<1>2. Bounded
  <2>1. pc = (IF mode \in {"upgrade", "continue"} THEN "discover" ELSE "plan") /\ events = 0
    BY DEF Init
  <2> QED
    BY <2>1, CatalogAssumption DEF Bounded, Phases
<1> QED
  BY <1>1, <1>2, TypeFollows, DiscoverInit, LosslessInit, QueueInit, SpaceInit, RecordInit DEF IInv

LEMMA IInvStep == IInv /\ [Next]_vars => IInv'
<1> SUFFICES ASSUME IInv, [Next]_vars
             PROVE  IInv'
  OBVIOUS
<1>1. Bounded
  BY DEF IInv, TypeOK, Bounded, Phases, Installing
<1>2. DiscoverInv /\ DiscoveryLossless /\ QueueInv /\ SpaceInv /\ ContentInv /\ RecordInv
  BY DEF IInv
<1>3. CacheInv /\ WorkInv
  BY <1>2 DEF ContentInv
<1>4. QueueInv'
  BY <1>2, QueueStep
<1>5. ContentInv'
  BY <1>2, <1>3, <1>4, CacheStep, WorkStep DEF ContentInv
<1>6. DiscoverInv' /\ DiscoveryLossless' /\ SpaceInv' /\ RecordInv'
  BY <1>2, DiscoverStep, LosslessStep, SpaceStep, RecordStep
<1>7. Bounded'
  BY <1>1, PhaseStep
<1>8. TypeOK'
  BY <1>5, <1>6, <1>7, TypeFollows, PTL
<1> QED
  BY <1>4, <1>5, <1>6, <1>8 DEF IInv

LEMMA IInvAlways == Spec => []IInv
  BY IInvInit, IInvStep, PTL DEF Spec

-----------------------------------------------------------------------------
(* The theorems.                                                           *)

(* Discovery, its checks and the plans: the types of every variable the    *)
(* steps read, in particular that no more is free than there is room and   *)
(* that from the packaging on there is a workspace and a package of it.    *)
THEOREM TypeCorrect == Spec => []TypeOK
  BY IInvAlways, PTL DEF IInv

(* Every target has one outcome, and every plan that was found is offered, *)
(* in the order of the targets, however many workers there are.            *)
THEOREM DiscoveryIsLossless == Spec => []DiscoveryLossless
  BY IInvAlways, PTL DEF IInv

(* Room.                                                                   *)
LEMMA PreparedHasRoom ==
    ASSUME IInv, Prepare, pc' = "build"
    PROVE  /\ room'[work'.base] >= BuildNeed(plan)
           /\ work'.base \in Ram => memory' >= BuildNeed(plan) + OsReserve
           /\ work'.content = work.content
<1> DEFINE w == Prepared(plan, work)
<1>1. /\ w # None /\ work' = w /\ Settled(work, w)
  BY DEF Prepare
<1>2. work # None /\ IsWorkspace(work) /\ SpaceType
  BY SpaceFacts DEF IInv, ContentInv, WorkInv, Prepare
<1>3. PICK b \in Base :
          /\ w = [base |-> b, bytes |-> Size, content |-> work.content]
          /\ \/ b = work.base /\ Fits(b, BuildNeed(plan))
             \/ Fits(b, BuildNeed(plan) + Size)
  BY <1>1, <1>2, PreparedFits
<1>4. PICK need : need = BuildNeed(plan)
  OBVIOUS
<1>5. need \in Nat /\ Size \in Nat /\ OsReserve \in Nat
  BY <1>4, CatalogAssumption DEF BuildNeed
<1> HIDE DEF w
<1>6. /\ room' = [c \in Base |-> room[c] + Freed(work, c) - Freed(w, c)]
      /\ memory' = memory + (IF work # None /\ work.base \in Ram THEN work.bytes ELSE 0)
                          - (IF w # None /\ w.base \in Ram THEN w.bytes ELSE 0)
  BY <1>1, <1>2 DEF Settled, SpaceType
<1>7. room'[b] = room[b] + Freed(work, b) - Size
  <2>1. Freed(w, b) = Size
    BY <1>1, <1>3 DEF Freed
  <2> QED
    BY <1>6, <2>1
<1>8. Freed(work, b) = IF work.base = b THEN Size ELSE 0
  BY <1>2, FreedIsTaken
<1>9. work.bytes = Size /\ w.bytes = Size /\ w.base = b /\ w.content = work.content
  BY <1>2, <1>3 DEF IsWorkspace
<1>0. /\ room[b] \in Nat /\ memory \in Nat
      /\ \/ b = work.base /\ Fits(b, need)
         \/ Fits(b, need + Size)
  BY <1>2, <1>3, <1>4 DEF SpaceType
<1>10. room'[b] >= need
  <2>1. room[b] >= IF b = work.base THEN need ELSE need + Size
    BY <1>0, <1>5 DEF Fits
  <2>2. room[b] \in Nat
    BY <1>0
  <2>3. CASE b = work.base
    BY <1>5, <1>7, <1>8, <2>1, <2>2, <2>3
  <2>4. CASE b # work.base
    BY <1>5, <1>7, <1>8, <2>1, <2>2, <2>4
  <2> QED
    BY <2>3, <2>4
<1>11. ASSUME b \in Ram
       PROVE  memory' >= need + OsReserve
  <2>1. memory >= IF b = work.base THEN need + OsReserve ELSE need + Size + OsReserve
    BY <1>0, <1>5, <1>11 DEF Fits
  <2>2. memory' = memory + (IF work.base \in Ram THEN Size ELSE 0) - Size
    BY <1>1, <1>2, <1>6, <1>9, <1>11
  <2>3. memory \in Nat
    BY <1>2 DEF SpaceType
  <2>4. CASE b = work.base
    BY <1>5, <1>11, <2>1, <2>2, <2>3, <2>4
  <2>5. CASE b # work.base
    BY <1>5, <1>11, <2>1, <2>2, <2>3, <2>5
  <2> QED
    BY <2>4, <2>5
<1> QED
  BY <1>1, <1>4, <1>9, <1>10, <1>11

LEMMA BuildHasRoomStep ==
    ASSUME IInv, [Next]_vars, pc = "prepare", pc' = "build"
    PROVE  /\ room'[work'.base] >= BuildNeed(plan)
           /\ work'.base \in Ram => memory' >= BuildNeed(plan) + OsReserve
           /\ work'.content = work.content
<1>1. ASSUME NEW k \in Worker
      PROVE  ~(Claim(k) \/ Check(k))
  BY DEF Claim, Check
<1>2. ~(Report \/ Plan \/ Approve \/ Prefetch \/ Start \/ Fetch)
  BY DEF Report, Plan, Approve, Prefetch, Start, Fetch
<1>3. ~(Build \/ Compile \/ Load \/ Pacman \/ Verify \/ Persist \/ Advance \/ Finish)
  BY DEF Build, Compile, Load, Pacman, Verify, Persist, Advance, Finish
<1>4. ~Around /\ ~UNCHANGED vars
  BY DEF Around, Republish, OtherPacman, EditConfig, OthersUseSpace, Ours, vars
<1>5. Prepare
  BY <1>1, <1>2, <1>3, <1>4 DEF Next, Step, Ended
<1> QED
  BY <1>5, PreparedHasRoom

(* What a step of the process may change of the records.                   *)
LEMMA OnlyPacmanInstalls ==
    ASSUME IInv, [Next]_vars, installed' # installed, events' = events
    PROVE  Pacman
<1>0. events \in Nat
  BY CatalogAssumption DEF IInv, TypeOK
<1>1. ASSUME NEW k \in Worker
      PROVE  ~(Claim(k) \/ Check(k))
  BY DEF Claim, Check, world
<1>2. ~(Report \/ Plan \/ Approve \/ Prefetch \/ Start \/ Fetch)
  BY DEF Report, Plan, Approve, Prefetch, Start, Fetch, world
<1>3. ~(Prepare \/ Build \/ Compile \/ Load \/ Verify \/ Persist \/ Advance \/ Finish)
  BY DEF Prepare, Build, Compile, Load, Verify, Persist, Advance, Finish, world
<1>4. ~Around /\ ~UNCHANGED vars
  BY <1>0 DEF Around, Republish, OtherPacman, EditConfig, OthersUseSpace, Event, vars
<1> QED
  BY <1>1, <1>2, <1>3, <1>4 DEF Next, Step, Ended

LEMMA OnlyPersistRecords ==
    ASSUME IInv, [Next]_vars, disk' # disk, events' = events
    PROVE  Persist
<1>0. events \in Nat
  BY CatalogAssumption DEF IInv, TypeOK
<1>1. ASSUME NEW k \in Worker
      PROVE  ~(Claim(k) \/ Check(k))
  BY DEF Claim, Check, world
<1>2. ~(Report \/ Plan \/ Approve \/ Prefetch \/ Start \/ Fetch)
  BY DEF Report, Plan, Approve, Prefetch, Start, Fetch, world
<1>3. ~(Prepare \/ Build \/ Compile \/ Load \/ Pacman \/ Verify \/ Advance \/ Finish)
  BY DEF Prepare, Build, Compile, Load, Pacman, Verify, Advance, Finish, world
<1>4. ~Around /\ ~UNCHANGED vars
  BY <1>0 DEF Around, Republish, OtherPacman, EditConfig, OthersUseSpace, Event, vars
<1> QED
  BY <1>1, <1>2, <1>3, <1>4 DEF Next, Step, Ended

LEMMA ApprovedStep ==
    ASSUME IInv, [Next]_vars, installed' # installed, events' = events
    PROVE  /\ \E i \in DOMAIN approved : approved[i] = plan
           /\ installed'[plan.package] = [version |-> plan.version, content |-> plan.content]
           /\ \A p \in Package \ {plan.package} : installed'[p] = installed[p]
<1>1. Pacman
  BY OnlyPacmanInstalls
<1>2. pc = "pacman" /\ installed' = [installed EXCEPT ![plan.package] = archive]
  BY <1>1 DEF Pacman
<1>3. plan.package \in Package /\ plan = queue[1] /\ 1 \in DOMAIN queue
  BY <1>2, QueuedPackages DEF IInv, QueueInv, PhaseInv, Installing
<1>4. archive = [version |-> plan.version, content |-> plan.content]
  BY <1>2 DEF IInv, ContentInv, WorkInv
<1>5. installed = [p \in Package |-> installed[p]]
  BY DEF IInv, RecordInv
<1>6. \E i \in DOMAIN approved : approved[i] = plan
  <2> DEFINE A == { approved[i] : i \in DOMAIN approved }
  <2>1. queue \in Seq(A)
    BY DEF IInv, QueueInv, QueuedInv
  <2> HIDE DEF A
  <2>2. plan \in A
    BY <1>3, <2>1
  <2> QED
    BY <2>2 DEF A
<1>7. installed'[plan.package] = archive /\ \A p \in Package \ {plan.package} : installed'[p] = installed[p]
  BY <1>2, <1>3, <1>5
<1> QED
  BY <1>4, <1>6, <1>7

LEMMA OwnershipStep ==
    ASSUME IInv, [Next]_vars, disk' # disk, events' = events
    PROVE  /\ << plan.package, plan.version >> \in pacmanLog
           /\ disk'.sources[plan.alias] = plan.source
           /\ \A a \in Alias : disk.sources[a] # None => disk'.sources[a] = disk.sources[a]
<1>1. Persist
  BY OnlyPersistRecords
<1>2. pc = "persist" /\ Saved(disk) # None /\ disk' = Saved(disk)
  <2>1. IF Saved(disk) = None THEN pc' = "failed" /\ UNCHANGED disk
        ELSE disk' = Saved(disk) /\ pc' = "next"
    BY <1>1, Zenon DEF Persist
  <2> QED
    BY <1>1, <2>1 DEF Persist
<1>3. RecordInv
  BY DEF IInv
<1> QED
  BY <1>2, <1>3, SavedIs DEF RecordInv

(* From the approval to the record, for every instance: there is room for  *)
(* what is packaged, what is installed was approved, and what becomes      *)
(* owned was installed from the source it is pinned to.                    *)
THEOREM UpgradeIsFaithful == Spec => UpgradesAreFaithful
<1>1. IInv /\ [Next]_vars =>
         [pc = "prepare" /\ pc' = "build" =>
            /\ room'[work'.base] >= BuildNeed(plan)
            /\ work'.base \in Ram => memory' >= BuildNeed(plan) + OsReserve
            /\ work'.content = work.content]_vars
  BY BuildHasRoomStep
<1>2. IInv /\ [Next]_vars =>
         [pc = "pacman" /\ installed' # installed /\ events' = events =>
            /\ \E i \in DOMAIN approved : approved[i] = plan
            /\ installed'[plan.package] = [version |-> plan.version, content |-> plan.content]
            /\ \A p \in Package \ {plan.package} : installed'[p] = installed[p]]_vars
  BY ApprovedStep
<1>3. IInv /\ [Next]_vars =>
         [disk' # disk /\ events' = events =>
            /\ << plan.package, plan.version >> \in pacmanLog
            /\ disk'.sources[plan.alias] = plan.source
            /\ \A a \in Alias : disk.sources[a] # None => disk'.sources[a] = disk.sources[a]]_vars
  BY OwnershipStep
<1> QED
  BY <1>1, <1>2, <1>3, IInvAlways, PTL
     DEF Spec, UpgradesAreFaithful, BuildHasRoom, ApprovedIsInstalled, OwnershipIsEarned
=============================================================================
