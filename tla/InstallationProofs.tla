-------------------------- MODULE InstallationProofs --------------------------
(***************************************************************************)
(* What is proved of installations and the commands around them, for every  *)
(* set of packages, repositories and requests and any number of other       *)
(* managers: type correctness, that no cleanup touches what is in use or     *)
(* was not asked for, that what an installation reports is true, that the   *)
(* pins it saves are those that were asked for, that a rebuild that stopped  *)
(* can be run again for the rest, and that a captured manifest describes    *)
(* the system.                                                             *)
(*                                                                         *)
(* The inductive invariant is IInv. Its parts follow the steps: HolderInv    *)
(* and PathInv those of the managers and of a cleanup, ScopeInv the start    *)
(* of one, RouteInv, OriginInv and WarnInv the routing of the targets,      *)
(* StageInv and RecordIsTruthful the transaction, PlanInv, CallInv and       *)
(* LeftInv a rebuild from its plan to its end.                             *)
(***************************************************************************)
EXTENDS ManifestRebuild, SubsequenceProofs, SequenceTheorems


(* The command's place in its sequence of steps.                               *)
CommandInv ==
    /\ step = "call" \/ pc = "end"
    /\ step = "next" => command = "rebuild"
    /\ step = "commit" => command = "capture"
    /\ step = "clean" => command = "clean"
    /\ command = "rebuild" /\ step \in {"next", "call"} => plan \in Plan
    /\ step = "commit" => plan \in Manifest

(* Only the holder of the lock works in its directory, and the paths about to   *)
(* be removed belonged to managers that are gone since the look at the lock.    *)
HolderInv == \A m \in Manager : status[m] = "holding" => lock # None /\ lock.by = m
PathInv ==
    /\ \A m \in Manager : dirs[m] # None => status[m] \in {"holding", "gone"}
    /\ \A m \in cleaning.empty \cup cleaning.stale : status[m] \in {"holding", "gone"}
    /\ cleaning.step = "rmdir" => \A m \in cleaning.empty : status[m] = "gone"
    /\ cleaning.step = "rm" => \A m \in cleaning.stale : status[m] = "gone"

(* The cleanup after a transaction has only caches of stages that succeeded left. *)
ScopeInv ==
    pc = "return" /\ cleaning.step # "off" =>
        /\ cleaning.full /\ request.noCache
        /\ \A i \in DOMAIN cleaning.queue : /\ cleaning.queue[i] \in {"native", "aur"}
                                            /\ outcome[cleaning.queue[i]] = TRUE

(* What is routed where.                                                     *)
Before == {"admit", "source", "lock", "locked", "question", "refresh"}
After == {"save", "record", "clean", "return"}
WaitInv == pc = "locked" => request.wait # None
SourceInv ==
    pc = "source" => \A i \in DOMAIN request.targets :
        request.targets[i].repo = "direct" \/ SourceTarget(mem, request.targets[i]) # None
RouteInv ==
    /\ pc \in Before => routed = 0 /\ native = << >> /\ aur = << >> /\ ~partial
    /\ \A i \in 1 .. routed : \E t \in Range(native) \cup Range(aur) : t.pkg = request.targets[i].pkg
    /\ pc \in {"native", "aur"} \cup After => routed = Len(request.targets)

(* Where every entry of the lists and of the pins to save comes from.          *)
Requested(p, r) ==
    \/ << r, p >> \in chosen
    \/ \E i \in DOMAIN request.targets :
           request.targets[i].pkg = p /\ request.targets[i].repo # None /\ Fold(request.targets[i].repo) = r
Bare(p) == \E i \in DOMAIN request.targets : request.targets[i] = [repo |-> None, pkg |-> p]
OriginInv ==
    pc # "end" =>
        /\ \A t \in Range(native) :
               \/ t.repo = None /\ Bare(t.pkg)
               \/ t.repo # None /\ Fold(t.repo) # "aur" /\ Requested(t.pkg, Fold(t.repo))
        /\ \A t \in Range(aur) : Bare(t.pkg) \/ Requested(t.pkg, "aur")
        /\ \A p \in Package : wanted[p] # None => Requested(p, wanted[p])

(* What has been shown of every entry.                                         *)
Shown(t) ==
    \A n \in Needs(t) :
        /\ ~Satisfied(installed, n.pkg)
        /\ << SyncPackage(n.repo, n.pkg), Real(n) >> \in Young
        => {Real(n)} \in told
WarnInv ==
    pc \in {"route", "native"} =>
        \A t \in Range(native) : \/ SyncPackage(t.repo, t.pkg) = None
                                 \/ \E c \in chosen : c[2] = t.pkg
                                 \/ Shown(t)

(* What a stage that is over has left.                                          *)
NativeOver ==
    /\ (native = << >>) = (outcome["native"] = None)
    /\ outcome["native"] = TRUE => Range(native) \subseteq done /\ (upgrade => ~partial)
AurOver ==
    /\ aur # << >> => outcome["aur"] # None \/ outcome["native"] = FALSE
    /\ outcome["aur"] = TRUE => Range(aur) \subseteq done
DoneBy == \A t \in done : \/ outcome["native"] = TRUE /\ t \in Range(native)
                          \/ outcome["aur"] = TRUE /\ t \in Range(aur)
StageInv ==
    /\ pc \in Before \cup {"route", "native"} =>
           outcome["native"] = None /\ outcome["aur"] = None /\ done = {}
    /\ pc = "aur" => NativeOver /\ outcome["aur"] = None
    /\ pc \in After => NativeOver /\ AurOver
    /\ pc \in {"aur"} \cup After => DoneBy
    /\ \A t \in done : Satisfied(installed, t.pkg)
    /\ result # None => pc = "end"

(* What the manifest asks of an installation, with the pins of a configuration.  *)
Natives(config, m) == { PinnedTarget(config, m.pacman[i]) : i \in DOMAIN m.pacman }
Declared(config, m) ==
    Range(m.sources) \cup Natives(config, m) \cup { [repo |-> "aur", pkg |-> m.aur[i].pkg] : i \in DOMAIN m.aur }

(* What makes a manifest plannable: of its targets, of its applications.         *)
TargetsPlannable(config, m) ==
    /\ m # EmptyManifest
    /\ ~Repeats(m.sources \o m.pacman \o m.aur)
    /\ \A i \in DOMAIN m.sources : /\ m.sources[i].repo \in DOMAIN Recipes
                                   /\ m.sources[i].pkg \in Recipes[m.sources[i].repo]
    /\ \A i \in DOMAIN m.pacman : ~PacmanRefused(config, m.pacman[i])
AppsPlannable(m) ==
    /\ \A s \in Scope : ~Repeats(m[s])
    /\ \/ m.user \o m.system = << >>
       \/ Flatpak \in installed
       \/ \E i \in DOMAIN m.pacman : m.pacman[i].pkg = Flatpak

Planned == command = "rebuild" /\ step # "start" /\ plan # Error
(* The plan is of the manifest as it was read, whatever pins are saved on the    *)
(* way: it stays plannable, and everything declared is installed or planned.   *)
PlanInv == Planned =>
    /\ plan \in Plan
    /\ TargetsPlannable(mem, read) /\ AppsPlannable(read)
    /\ { t \in Declared(mem, read) : t.pkg \notin installed } = { t \in Range(plan.install) : t.pkg \notin installed }
    /\ \A s \in Scope : \A i \in DOMAIN read[s] :
           apps[s][read[s][i].pkg] # None \/ read[s][i] \in Range(plan.flatpaks[s])
(* What a call of an installation asks for, and what it has brought.           *)
CallInv == Planned =>
    /\ step \in {"next", "call"} => \A c \in Range(calls) : Range(c) \subseteq Declared(mem, read)
    /\ step = "call" =>
         /\ request.noconfirm /\ ~request.dry
         /\ Range(request.targets) \subseteq Declared(mem, read)
         /\ chosen = {} /\ (pc # "end" => Range(native) \subseteq Range(request.targets))
         /\ \A t \in done : t.pkg \in installed
         /\ pc = "end" /\ result \in {"ok", "cleanup"} =>
              \A i \in DOMAIN request.targets : request.targets[i].pkg \in installed
(* What is planned is there, or is still to be called for.                     *)
LeftInv == Planned =>
    /\ step \in {"next", "call"} => \A t \in Range(plan.install) :
           \/ t.pkg \in installed
           \/ \E c \in Range(calls) : t \in Range(c)
           \/ step = "call" /\ t \in Range(request.targets)
    /\ step = "end" /\ ~options.dry =>
         /\ \A t \in Declared(mem, read) : t.pkg \in installed
         /\ \A s \in Scope : \A i \in DOMAIN read[s] : apps[s][read[s][i].pkg] # None
(* The manifest about to be written is of the state it is written in.          *)
CaptureInv == step = "commit" => plan = Captured

IInv == /\ TypeOK /\ CommandInv /\ HolderInv /\ PathInv /\ ScopeInv /\ WaitInv /\ SourceInv
        /\ RouteInv /\ OriginInv /\ WarnInv /\ WarningsAreComplete /\ StageInv /\ RecordIsTruthful
        /\ PlanInv /\ CallInv /\ LeftInv /\ CaptureInv

-----------------------------------------------------------------------------
(* Constants and cases.                                                    *)

LEMMA NoneFacts ==
    /\ None \notin BOOLEAN /\ None \notin Nat /\ None \notin Spelling
    /\ None \notin Repo /\ None \notin DOMAIN Recipes /\ None \notin DOMAIN Offers
    /\ None # "aur" /\ None # "direct" /\ None \notin Lock /\ None \notin Directory
    /\ None # TRUE /\ None # FALSE /\ None \notin {"ok", "cleanup", "failed"}
  BY InstallationAssumption, CacheAssumption, LockAssumption DEF Repo, Spelling

(* What the steps of the commands around an installation leave alone.       *)
Quiet == UNCHANGED << pc, asking, planning, stages, result, mem, history, installed >>

LEMMA StepCases ==
    ASSUME TypeOK, CommandInv, [Next]_vars
    PROVE  \/ Quiet
           \/ pc = "end" /\ UNCHANGED cacheVars /\ \E r \in Request : Call(r)
           \/ step = "call" /\ (Admit \/ SourceStage \/ LookAtLock \/ KeepWaiting)
           \/ step = "call" /\ (PartialUpgradeQuestion \/ Refresh \/ Route \/ Preflight)
           \/ step = "call" /\ (NativeStage \/ AurStage \/ SavePins \/ RecordInstall)
           \/ step = "call" /\ (StartCleanup \/ Return)
<1>1. CASE InstallCommand
  BY <1>1 DEF InstallCommand, TypeOK, OptionsOf, CommandInv
<1>2. CASE NextCall
  <2>1. Head(calls) \in Seq(Target)
    BY <1>2 DEF NextCall, TypeOK
  <2>2. options \in [{"dry", "noconfirm", "enforce", "noCache", "tty"} -> BOOLEAN]
    BY <1>2 DEF NextCall, TypeOK, OptionsOf, CommandInv
  <2> DEFINE r == [targets |-> Head(calls), noconfirm |-> TRUE, refresh |-> FALSE, sysupgrade |-> FALSE,
             dry |-> FALSE, wait |-> None, noCache |-> options.noCache, tty |-> options.tty]
  <2>3. r \in Request
    BY <2>1, <2>2 DEF Request
  <2>4. pc = "end" /\ UNCHANGED cacheVars /\ Call(r)
    BY <1>2 DEF NextCall, CommandInv
  <2> HIDE DEF r
  <2> QED
    BY <2>3, <2>4
<1>3. CASE CleanCommand \/ CleanEnds \/ MakePlan \/ CallReturns \/ InstallFlatpak \/ Capture \/ CommitCapture
  BY <1>3 DEF Quiet, CleanCommand, CleanEnds, MakePlan, CallReturns, InstallFlatpak, Capture, CommitCapture,
     installVars, records, stages
<1>4. CASE step = "call" /\ InstallStep /\ UNCHANGED rebuildVars
  BY <1>4 DEF InstallStep, Quiet, installVars, records, stages
<1>5. CASE \/ step = "clean" /\ CacheStep /\ UNCHANGED << installVars, rebuildVars >>
           \/ LockMatters /\ AroundCache /\ UNCHANGED << installVars, rebuildVars >>
           \/ Ended \/ UNCHANGED vars
  BY <1>5 DEF Ended, vars, Quiet, installVars, records, stages
<1>6. CASE \/ \E e \in PinEdits : EditPins(e[1], e[2])
           \/ \E m \in Manifests : EditManifest(m)
  BY <1>6 DEF EditPins, EditManifest, Quiet, records, stages
<1> QED
  BY <1>1, <1>2, <1>3, <1>4, <1>5, <1>6 DEF Next

(* The same for the caches.                                                 *)
LEMMA CacheCases ==
    ASSUME [Next]_vars
    PROVE  \/ UNCHANGED cacheVars
           \/ StartCleanup
           \/ CleanCommand
           \/ CacheStep /\ UNCHANGED installVars
           \/ AroundCache /\ UNCHANGED installVars
<1>1. CASE InstallCommand \/ NextCall \/ CleanEnds \/ MakePlan \/ CallReturns \/ InstallFlatpak \/ Capture \/ CommitCapture
  BY <1>1 DEF InstallCommand, NextCall, CleanEnds, MakePlan, CallReturns, InstallFlatpak, Capture, CommitCapture
<1>2. CASE step = "call" /\ InstallStep
  BY <1>2 DEF InstallStep, Admit, SourceStage, LookAtLock, KeepWaiting, PartialUpgradeQuestion, Refresh,
     Route, Preflight, NativeStage, AurStage, SavePins, RecordInstall, Return
<1>3. CASE \/ CleanCommand
           \/ step = "clean" /\ CacheStep /\ UNCHANGED << installVars, rebuildVars >>
           \/ LockMatters /\ AroundCache /\ UNCHANGED << installVars, rebuildVars >>
           \/ Ended \/ UNCHANGED vars
  BY <1>3 DEF Ended, vars
<1>4. CASE \/ \E e \in PinEdits : EditPins(e[1], e[2])
           \/ \E m \in Manifests : EditManifest(m)
  BY <1>4 DEF EditPins, EditManifest
<1> QED
  BY <1>1, <1>2, <1>3, <1>4 DEF Next

-----------------------------------------------------------------------------
(* The caches.                                                             *)

LEMMA QueueLaw ==
    ASSUME NEW S, NEW q \in Seq(S), q # << >>
    PROVE  /\ Head(q) \in S /\ Tail(q) \in Seq(S)
           /\ (Len(q) = 1) = (Tail(q) = << >>)
           /\ \A i \in DOMAIN Tail(q) : i + 1 \in DOMAIN q /\ Tail(q)[i] = q[i + 1]
<1>1. Len(q) \in Nat \ {0} /\ DOMAIN q = 1 .. Len(q)
  BY EmptySeq
<1>2. Head(q) \in S /\ Tail(q) \in Seq(S) /\ Len(Tail(q)) = Len(q) - 1
  BY HeadTailProperties
<1>3. DOMAIN Tail(q) = 1 .. Len(q) - 1 /\ \A i \in 1 .. Len(q) - 1 : Tail(q)[i] = q[i + 1]
  BY <1>1, <1>2, HeadTailProperties
<1>4. (Len(q) = 1) = (Tail(q) = << >>)
  BY <1>1, <1>2, EmptySeq
<1> QED
  BY <1>1, <1>2, <1>3, <1>4

LEMMA ScopeEndsType ==
    ASSUME CacheTypeOK, cleaning.step # "off", NEW ok \in BOOLEAN, ScopeEnds(ok)
    PROVE  /\ cleaning' \in Cleaning
           /\ (cleaning'.step = "off") = (cleaning'.queue = << >>)
<1>1. cleaning.queue # << >> /\ cleaning.queue \in Seq({"native", "aur", "all"})
  BY DEF CacheTypeOK, Cleaning
<1>2. /\ Tail(cleaning.queue) \in Seq({"native", "aur", "all"})
      /\ (Len(cleaning.queue) = 1) = (Tail(cleaning.queue) = << >>)
  BY <1>1, QueueLaw
<1>3. cleaning \in Cleaning
  BY DEF CacheTypeOK
<1>4. cleaning' = [cleaning EXCEPT !.queue = Tail(cleaning.queue), !.ok = cleaning.ok /\ ok,
                       !.empty = {}, !.stale = {},
                       !.step = IF Len(cleaning.queue) = 1 THEN "off" ELSE "check"]
  BY DEF ScopeEnds
<1> QED
  BY <1>2, <1>3, <1>4 DEF Cleaning

LEMMA CacheTypeStep ==
    ASSUME TypeOK, [Next]_vars
    PROVE  CacheTypeOK'
<1>0. CacheTypeOK
  BY DEF TypeOK, InstallTypeOK
<1> USE DEF CacheTypeOK, LockTypeOK
<1>1. CASE UNCHANGED cacheVars
  BY <1>0, <1>1 DEF cacheVars, lockVars
<1>2. CASE StartCleanup
  <2>1. AfterTransaction(outcome["native"], outcome["aur"]) \in Seq({"native", "aur", "all"})
    <3>0. /\ << "native" >> \in Seq({"native", "aur", "all"}) /\ << "aur" >> \in Seq({"native", "aur", "all"})
          /\ << >> \in Seq({"native", "aur", "all"})
      OBVIOUS
    <3>1. PICK a \in Seq({"native", "aur", "all"}) :
              a = IF outcome["native"] = TRUE THEN << "native" >> ELSE << >>
      BY <3>0, Zenon
    <3>2. PICK b \in Seq({"native", "aur", "all"}) :
              b = IF outcome["aur"] = TRUE THEN << "aur" >> ELSE << >>
      BY <3>0, Zenon
    <3>3. AfterTransaction(outcome["native"], outcome["aur"]) = a \o b
      BY <3>1, <3>2, Zenon DEF AfterTransaction
    <3> QED
      BY <3>3
  <2> DEFINE q == IF request.noCache THEN AfterTransaction(outcome["native"], outcome["aur"]) ELSE << >>
  <2>2. q \in Seq({"native", "aur", "all"})
    BY <2>1
  <2>3. cleaning' = [NoCleaning EXCEPT !.queue = q, !.full = TRUE,
                                         !.step = IF q = << >> THEN "off" ELSE "check"]
    BY <1>2 DEF StartCleanup
  <2> HIDE DEF q
  <2>4. cleaning' \in Cleaning /\ (cleaning'.step = "off") = (cleaning'.queue = << >>)
    BY <2>2, <2>3 DEF NoCleaning, Cleaning
  <2> QED
    BY <1>0, <1>2, <2>4 DEF StartCleanup, lockVars
<1>3. CASE CleanCommand
  <2>1. CASE CacheScope(options.args) = None
    BY <1>0, <1>3, <2>1 DEF CleanCommand, lockVars
  <2>2. CASE CacheScope(options.args) # None
    <3>1. options.args \in SUBSET {"repo", "aur"} /\ options.full \in BOOLEAN
      BY <1>3 DEF CleanCommand, TypeOK, OptionsOf
    <3>2. \/ {"repo", "aur"} \subseteq options.args \/ options.args = {"repo"}
          \/ options.args = {"aur"} \/ options.args = {}
      BY <3>1
    <3>3. CacheScope(options.args) \in {"native", "aur", "all"}
      BY <2>2, <3>2 DEF CacheScope
    <3>4. cleaning' = [NoCleaning EXCEPT !.queue = << CacheScope(options.args) >>,
                                !.step = "check", !.full = options.full, !.helper = TRUE]
      BY <1>3, <2>2 DEF CleanCommand
    <3>5. cleaning' \in Cleaning /\ (cleaning'.step = "off") = (cleaning'.queue = << >>)
      <4>0. PICK s \in {"native", "aur", "all"} : s = CacheScope(options.args)
        BY <3>3
      <4>5. << s >> \in Seq({"native", "aur", "all"}) /\ Len(<< s >>) = 1
        OBVIOUS
      <4>1. PICK q \in Seq({"native", "aur", "all"}) : q = << s >> /\ Len(q) = 1
        BY <4>5, Zenon
      <4>2. cleaning' = [NoCleaning EXCEPT !.queue = q, !.step = "check", !.full = options.full, !.helper = TRUE]
        BY <3>4, <4>0, <4>1
      <4>3. q # << >>
        BY <4>1
      <4> QED
        BY <3>1, <4>2, <4>3 DEF NoCleaning, Cleaning
    <3> QED
      BY <1>0, <1>3, <3>5 DEF CleanCommand, lockVars
  <2> QED
    BY <2>1, <2>2
<1>4. CASE CacheStep
  <2>0. cleaning \in Cleaning
    BY <1>0
  <2>1. CASE CleanCheck
    <3>1. CASE ScopeEnds(FALSE)
      BY <1>0, <2>1, <3>1, ScopeEndsType DEF CleanCheck, lockVars
    <3>2. CASE ~ScopeEnds(FALSE)
      BY <1>0, <2>1, <3>2 DEF CleanCheck, lockVars, Cleaning
    <3> QED
      BY <3>1, <3>2
  <2>2. CASE Scan
    <3>1. PICK found, stale : /\ found \subseteq Manager /\ stale \subseteq found
                              /\ cleaning' = [cleaning EXCEPT !.empty = found \ stale, !.stale = stale,
                                                              !.step = "rmdirCheck"]
      BY <2>2 DEF Scan
    <3>2. cleaning' \in Cleaning /\ cleaning'.step # "off" /\ cleaning'.queue = cleaning.queue
      BY <2>0, <3>1 DEF Cleaning
    <3> QED
      BY <1>0, <2>2, <3>2 DEF Scan, lockVars
  <2>3. ASSUME NEW s, NEW paths, NEW next \in {"rmdir", "rm"}, NEW after \in {"rmCheck", "run"},
               s # "off", Recheck(s, paths, next, after)
        PROVE  CacheTypeOK'
    <3>1. CASE ScopeEnds(FALSE)
      BY <1>0, <2>3, <3>1, ScopeEndsType DEF Recheck, lockVars
    <3>2. CASE \/ cleaning' = [cleaning EXCEPT !.step = after]
               \/ cleaning' = [cleaning EXCEPT !.step = next]
      <4>1. cleaning' \in Cleaning /\ cleaning'.step # "off" /\ cleaning'.queue = cleaning.queue
        BY <2>0, <2>3, <3>2 DEF Cleaning
      <4> QED
        BY <1>0, <2>3, <4>1 DEF Recheck, lockVars
    <3> QED
      BY <2>3, <3>1, <3>2 DEF Recheck
  <2>4. CASE RmdirCheck \/ RmCheck
    BY <2>3, <2>4 DEF RmdirCheck, RmCheck
  <2>5. CASE Rmdir \/ RemoveStale
    <3>1. dirs' \in [Manager -> {None} \cup Directory]
      BY <1>0, <2>5 DEF Rmdir, RemoveStale
    <3>2. UNCHANGED << lockVars, caches >> /\ cleaning.step # "off"
      BY <2>5 DEF Rmdir, RemoveStale
    <3>3. CASE ScopeEnds(FALSE)
      BY <1>0, <3>1, <3>2, <3>3, ScopeEndsType DEF lockVars
    <3>4. CASE \/ cleaning' = [cleaning EXCEPT !.step = "rmCheck"]
               \/ cleaning' = [cleaning EXCEPT !.step = "run"]
      <4>1. cleaning' \in Cleaning /\ cleaning'.step # "off" /\ cleaning'.queue = cleaning.queue
        BY <2>0, <3>4 DEF Cleaning
      <4> QED
        BY <1>0, <3>1, <3>2, <4>1 DEF lockVars
    <3> QED
      BY <2>5, <3>3, <3>4 DEF Rmdir, RemoveStale
  <2>6. CASE CleanRun
    <3>1. UNCHANGED << lockVars, dirs >> /\ cleaning.step # "off"
      BY <2>6 DEF CleanRun
    <3>2. /\ cleaning' \in Cleaning
          /\ (cleaning'.step = "off") = (cleaning'.queue = << >>)
      BY <1>0, <2>6, <3>1, ScopeEndsType DEF CleanRun
    <3>3. caches' \in [{"native", "aur", "sync"} -> {"kept", "trimmed", "purged"}]
      <4>1. CASE UNCHANGED caches
        BY <1>0, <4>1
      <4>2. CASE ~UNCHANGED caches
        <5>1. PICK cleaned, now : now \in {"purged", "trimmed"} /\
                  caches' = [c \in DOMAIN caches |-> IF c \in cleaned THEN now ELSE caches[c]]
          BY <2>6, <4>2 DEF CleanRun
        <5> QED
          BY <1>0, <5>1
      <4> QED
        BY <4>1, <4>2
    <3> QED
      BY <1>0, <3>1, <3>2, <3>3 DEF lockVars
  <2> QED
    BY <1>4, <2>1, <2>2, <2>4, <2>5, <2>6 DEF CacheStep
<1>5. CASE AroundCache
  <2>1. CASE CleanLock
    BY <1>0, <2>1 DEF CleanLock, StaleLockRemoved
  <2>2. ASSUME NEW m \in Manager, ManagerStep(m)
        PROVE  CacheTypeOK'
    BY <1>0, <2>2 DEF ManagerStep, ManagerStarts, ManagerLocks, ManagerDies, ManagerEnds, Lock
  <2>3. ASSUME NEW m \in Manager, ManagerDownloads(m) \/ DirectoryAges(m)
        PROVE  CacheTypeOK'
    <3>1. dirs[m] \in {None} \cup Directory
      BY <1>0
    <3>2. ASSUME NEW d \in Directory, dirs' = [dirs EXCEPT ![m] = d], UNCHANGED << lockVars, caches, cleaning >>
          PROVE  CacheTypeOK'
      BY <1>0, <3>2 DEF lockVars
    <3>3. CASE ManagerDownloads(m)
      <4>1. CASE dirs[m] = None
        <5>1. [old |-> FALSE, files |-> FALSE] \in Directory
          BY DEF Directory
        <5>2. dirs' = [dirs EXCEPT ![m] = [old |-> FALSE, files |-> FALSE]]
          BY <3>3, <4>1 DEF ManagerDownloads
        <5> QED
          BY <3>2, <3>3, <5>1, <5>2 DEF ManagerDownloads
      <4>2. CASE dirs[m] # None
        <5>1. [dirs[m] EXCEPT !.files = TRUE] \in Directory
          BY <3>1, <4>2 DEF Directory
        <5>2. dirs' = [dirs EXCEPT ![m] = [dirs[m] EXCEPT !.files = TRUE]]
          BY <3>3, <4>2 DEF ManagerDownloads
        <5> QED
          BY <3>2, <3>3, <5>1, <5>2 DEF ManagerDownloads
      <4> QED
        BY <4>1, <4>2
    <3>4. CASE DirectoryAges(m)
      <4>1. PICK d : d = [dirs[m] EXCEPT !.old = TRUE]
        OBVIOUS
      <4>2. d \in Directory
        BY <3>1, <3>4, <4>1 DEF Directory, DirectoryAges
      <4>3. dirs' = [dirs EXCEPT ![m] = d]
        BY <3>4, <4>1 DEF DirectoryAges
      <4> QED
        BY <3>2, <3>4, <4>2, <4>3 DEF DirectoryAges
    <3> QED
      BY <2>3, <3>3, <3>4
  <2> QED
    BY <1>5, <2>1, <2>2, <2>3 DEF AroundCache
<1> QED
  BY <1>1, <1>2, <1>3, <1>4, <1>5, CacheCases

(* The lock names the manager that works under it, whatever the others do.   *)
LEMMA HolderStep ==
    ASSUME TypeOK, HolderInv, [Next]_vars
    PROVE  HolderInv'
<1>0. /\ status \in [Manager -> {"absent", "running", "holding", "gone"}]
      /\ lock \in {None} \cup Lock
  BY DEF TypeOK, InstallTypeOK, CacheTypeOK, LockTypeOK
<1>1. CASE UNCHANGED lockVars
  BY <1>1 DEF HolderInv, lockVars
<1>2. CASE AroundCache
  <2>1. CASE CleanLock
    <3>1. \A m \in Manager : status[m] # "holding"
      <4>1. SUFFICES ASSUME NEW m \in Manager, status[m] = "holding"
                     PROVE  FALSE
        OBVIOUS
      <4>2. lock # None /\ lock.by = m /\ m \in Running
        BY <4>1 DEF HolderInv, Running
      <4> QED
        BY <2>1, <4>2 DEF CleanLock, StaleLockRemoved, StaleLock, HolderLives
    <3> QED
      BY <2>1, <3>1 DEF CleanLock, StaleLockRemoved, HolderInv
  <2>2. ASSUME NEW m \in Manager, ManagerLocks(m)
        PROVE  HolderInv'
    <3>1. lock' # None /\ lock'.by = m
      BY <2>2, NoneFacts DEF ManagerLocks, Lock
    <3>2. \A k \in Manager \ {m} : status'[k] # "holding"
      BY <1>0, <2>2 DEF ManagerLocks, HolderInv
    <3> QED
      BY <3>1, <3>2 DEF HolderInv
  <2>3. ASSUME NEW m \in Manager, ManagerStarts(m) \/ ManagerDies(m)
        PROVE  HolderInv'
    BY <1>0, <2>3 DEF ManagerStarts, ManagerDies, HolderInv
  <2>4. ASSUME NEW m \in Manager, ManagerEnds(m)
        PROVE  HolderInv'
    <3>1. \A k \in Manager : status'[k] = "holding" => k # m /\ status[k] = "holding"
      BY <1>0, <2>4 DEF ManagerEnds
    <3>2. (\E k \in Manager : status'[k] = "holding") => UNCHANGED lock
      BY <2>4, <3>1 DEF ManagerEnds, HolderInv
    <3> QED
      BY <3>1, <3>2 DEF HolderInv
  <2>5. ASSUME NEW m \in Manager, ManagerDownloads(m) \/ DirectoryAges(m)
        PROVE  HolderInv'
    BY <2>5 DEF ManagerDownloads, DirectoryAges, lockVars, HolderInv
  <2> QED
    BY <1>2, <2>1, <2>2, <2>3, <2>4, <2>5 DEF AroundCache, ManagerStep
<1> QED
  BY <1>1, <1>2, CacheCases DEF cacheVars, StartCleanup, CleanCommand, CacheStep, CleanCheck, Scan,
     RmdirCheck, RmCheck, Recheck, Rmdir, RemoveStale, CleanRun

(* A manager that is gone does not come back; one that has a directory has     *)
(* held the lock; and what passed the look at the lock belongs to the gone.   *)
LEMMA PathStep ==
    ASSUME TypeOK, HolderInv, PathInv, [Next]_vars
    PROVE  PathInv'
<1>0. /\ status \in [Manager -> {"absent", "running", "holding", "gone"}]
      /\ dirs \in [Manager -> {None} \cup Directory]
      /\ cleaning \in Cleaning /\ cleaning.empty \subseteq Manager /\ cleaning.stale \subseteq Manager
  BY DEF TypeOK, InstallTypeOK, CacheTypeOK, LockTypeOK, Cleaning
<1>1. CASE UNCHANGED cacheVars
  BY <1>1 DEF PathInv, cacheVars, lockVars
<1>2. CASE StartCleanup \/ CleanCommand
  <2>1. UNCHANGED << status, dirs >>
    BY <1>2 DEF StartCleanup, CleanCommand, lockVars
  <2>2. \/ UNCHANGED cleaning
        \/ /\ cleaning'.empty = {} /\ cleaning'.stale = {}
           /\ cleaning'.step \in {"off", "check"}
    BY <1>2 DEF StartCleanup, CleanCommand, NoCleaning
  <2> QED
    BY <2>1, <2>2 DEF PathInv
<1>3. CASE CacheStep
  <2>0. UNCHANGED status /\ \A m \in Manager : dirs'[m] # None => dirs[m] # None
    BY <1>0, <1>3 DEF CacheStep, CleanCheck, Scan, RmdirCheck, RmCheck, Recheck, Rmdir, RemoveStale,
       CleanRun, lockVars
  <2>1. ASSUME NEW ok, ScopeEnds(ok)
        PROVE  PathInv'
    <3>1. /\ cleaning'.empty = {} /\ cleaning'.stale = {}
          /\ cleaning'.step \in {"off", "check"}
      BY <1>0, <2>1 DEF ScopeEnds, Cleaning
    <3> QED
      BY <2>0, <3>1 DEF PathInv
  <2>2. ASSUME NEW s \in {"scan", "run", "rmCheck"}, cleaning' = [cleaning EXCEPT !.step = s]
        PROVE  PathInv'
    <3>1. cleaning'.empty = cleaning.empty /\ cleaning'.stale = cleaning.stale /\ cleaning'.step = s
      BY <1>0, <2>2 DEF Cleaning
    <3> QED
      BY <2>0, <2>2, <3>1 DEF PathInv
  <2>3. CASE CleanCheck
    BY <2>1, <2>2, <2>3 DEF CleanCheck
  <2>4. CASE Scan
    <3>1. /\ \A m \in cleaning'.empty \cup cleaning'.stale : m \in Manager /\ dirs[m] # None
          /\ cleaning'.step = "rmdirCheck"
      BY <1>0, <2>4 DEF Scan, Cleaning
    <3> QED
      BY <2>0, <3>1 DEF PathInv
  <2>5. ASSUME Unlocked, NEW s \in {"rmdir", "rm"}, cleaning' = [cleaning EXCEPT !.step = s]
        PROVE  PathInv'
    <3>1. cleaning'.empty = cleaning.empty /\ cleaning'.stale = cleaning.stale
      BY <1>0, <2>5 DEF Cleaning
    <3>2. \A m \in Manager : status[m] # "holding"
      BY <2>5 DEF HolderInv, Unlocked
    <3> QED
      BY <1>0, <2>0, <3>1, <3>2 DEF PathInv
  <2>6. CASE RmdirCheck \/ RmCheck
    BY <2>1, <2>2, <2>5, <2>6 DEF RmdirCheck, RmCheck, Recheck
  <2>7. CASE Rmdir \/ RemoveStale \/ CleanRun
    BY <2>1, <2>2, <2>7 DEF Rmdir, RemoveStale, CleanRun
  <2> QED
    BY <1>3, <2>3, <2>4, <2>6, <2>7 DEF CacheStep
<1>4. CASE AroundCache
  <2>1. CASE CleanLock
    BY <2>1 DEF CleanLock, StaleLockRemoved, PathInv
  <2>2. ASSUME NEW m \in Manager, ManagerStep(m)
        PROVE  PathInv'
    <3>1. UNCHANGED cleaning
      BY <2>2 DEF ManagerStep
    <3>2. \A k \in Manager : /\ status[k] = "gone" => status'[k] = "gone"
                             /\ status[k] = "holding" => status'[k] \in {"holding", "gone"}
      BY <1>0, <2>2 DEF ManagerStep, ManagerStarts, ManagerLocks, ManagerDies, ManagerEnds
    <3>3. \A k \in Manager : dirs'[k] # None => dirs[k] # None
      BY <1>0, <2>2 DEF ManagerStep
    <3> QED
      BY <1>0, <3>1, <3>2, <3>3 DEF PathInv
  <2>3. ASSUME NEW m \in Manager, ManagerDownloads(m) \/ DirectoryAges(m)
        PROVE  PathInv'
    <3>1. UNCHANGED << status, cleaning >> /\ \A k \in Manager : dirs'[k] # None => dirs[k] # None \/ status[k] = "holding"
      BY <1>0, <2>3 DEF ManagerDownloads, DirectoryAges, lockVars
    <3> QED
      BY <3>1 DEF PathInv
  <2> QED
    BY <1>4, <2>1, <2>2, <2>3 DEF AroundCache
<1> QED
  BY <1>1, <1>2, <1>3, <1>4, CacheCases

(* The step that removes a directory removes none that is in use.            *)
LEMMA SurvivalStep ==
    ASSUME TypeOK, HolderInv, PathInv, [Next]_vars
    PROVE  [\A m \in Manager : status[m] = "holding" /\ dirs[m] # None => dirs'[m] # None
                               \/ status'[m] # "holding"]_cacheVars
<1>0. /\ status \in [Manager -> {"absent", "running", "holding", "gone"}]
      /\ dirs \in [Manager -> {None} \cup Directory]
      /\ cleaning \in Cleaning /\ cleaning.empty \subseteq Manager /\ cleaning.stale \subseteq Manager
  BY DEF TypeOK, InstallTypeOK, CacheTypeOK, LockTypeOK, Cleaning
<1>1. SUFFICES ASSUME NEW m \in Manager, status[m] = "holding", dirs[m] # None, ~UNCHANGED cacheVars
               PROVE  dirs'[m] # None \/ status'[m] # "holding"
  OBVIOUS
<1>2. CASE StartCleanup \/ CleanCommand
  BY <1>1, <1>2 DEF StartCleanup, CleanCommand, lockVars
<1>3. CASE CleanCheck \/ Scan \/ RmdirCheck \/ RmCheck \/ CleanRun
  BY <1>1, <1>3 DEF CleanCheck, Scan, RmdirCheck, RmCheck, Recheck, CleanRun
<1>4. CASE Rmdir
  <2>1. m \notin cleaning.empty
    BY <1>1, <1>4 DEF Rmdir, PathInv
  <2> QED
    BY <1>1, <1>4, <2>1 DEF Rmdir
<1>5. CASE RemoveStale
  <2>1. m \notin cleaning.stale
    BY <1>1, <1>5 DEF RemoveStale, PathInv
  <2> QED
    BY <1>1, <1>5, <2>1 DEF RemoveStale
<1>6. CASE AroundCache
  <2>1. CASE CleanLock
    BY <1>1, <2>1 DEF CleanLock
  <2>2. ASSUME NEW k \in Manager, ManagerStep(k)
        PROVE  dirs'[m] # None \/ status'[m] # "holding"
    BY <1>0, <1>1, <2>2 DEF ManagerStep, ManagerStarts, ManagerLocks, ManagerDies, ManagerEnds
  <2>3. ASSUME NEW k \in Manager, ManagerDownloads(k)
        PROVE  dirs'[m] # None
    <3>1. CASE k = m
      <4>1. dirs[m] \in Directory
        BY <1>0, <1>1
      <4>2. [dirs[m] EXCEPT !.files = TRUE] \in Directory
        BY <4>1 DEF Directory
      <4>3. dirs'[m] = [dirs[m] EXCEPT !.files = TRUE]
        BY <1>0, <1>1, <2>3, <3>1 DEF ManagerDownloads
      <4> QED
        BY <4>2, <4>3, NoneFacts
    <3>2. CASE k # m
      BY <1>0, <1>1, <2>3, <3>2 DEF ManagerDownloads
    <3> QED
      BY <3>1, <3>2
  <2>4. ASSUME NEW k \in Manager, DirectoryAges(k)
        PROVE  dirs'[m] # None
    <3>1. CASE k = m
      <4>1. dirs[m] \in Directory
        BY <1>0, <1>1
      <4>2. [dirs[m] EXCEPT !.old = TRUE] \in Directory
        BY <4>1 DEF Directory
      <4>3. dirs'[m] = [dirs[m] EXCEPT !.old = TRUE]
        BY <1>0, <1>1, <2>4, <3>1 DEF DirectoryAges
      <4> QED
        BY <4>2, <4>3, NoneFacts
    <3>2. CASE k # m
      BY <1>0, <1>1, <2>4, <3>2 DEF DirectoryAges
    <3> QED
      BY <3>1, <3>2
  <2> QED
    BY <1>6, <2>1, <2>2, <2>3, <2>4 DEF AroundCache
<1> QED
  BY <1>1, <1>2, <1>3, <1>4, <1>5, <1>6, CacheCases DEF CacheStep

LEMMA ConcatLaw ==
    ASSUME NEW S, NEW a \in Seq(S), NEW b \in Seq(S), NEW n, Len(a) = n, NEW c, c = a \o b
    PROVE  /\ n \in Nat /\ Len(b) \in Nat
           /\ c \in Seq(S) /\ Len(c) = n + Len(b) /\ DOMAIN c = 1 .. n + Len(b)
           /\ \A i \in 1 .. n : c[i] = a[i]
           /\ \A j \in 1 .. Len(b) : c[n + j] = b[j]
<1>1. n \in Nat /\ Len(b) \in Nat
  OBVIOUS
<1>2. /\ c \in Seq(S) /\ Len(c) = n + Len(b)
      /\ \A i \in 1 .. n + Len(b) : c[i] = IF i <= n THEN a[i] ELSE b[i - n]
  BY ConcatProperties
<1>3. DOMAIN c = 1 .. n + Len(b)
  BY <1>2
<1>4. \A i \in 1 .. n : c[i] = a[i]
  BY <1>1, <1>2
<1>5. ASSUME NEW j \in 1 .. Len(b)
      PROVE  c[n + j] = b[j]
  <2>1. n + j \in 1 .. n + Len(b) /\ ~(n + j <= n) /\ (n + j) - n = j
    BY <1>1
  <2> QED
    BY <1>2, <2>1
<1> QED
  BY <1>1, <1>2, <1>3, <1>4, <1>5

LEMMA MarkedLaw ==
    ASSUME NEW S, NEW a \in Seq(S), NEW n \in Nat, Len(a) = n, NEW e \in S, NEW c, c = a \o << e >>
    PROVE  c \in Seq(S) /\ Len(c) = n + 1 /\ c[n + 1] = e /\ \A i \in 1 .. n : c[i] = a[i]
<1>0. << e >> \in Seq(S) /\ Len(<< e >>) = 1 /\ << e >>[1] = e
  OBVIOUS
<1>1. PICK b : b = << e >> /\ b \in Seq(S) /\ Len(b) = 1 /\ b[1] = e
  BY <1>0, Zenon
<1>2. c = a \o b
  BY <1>1
<1>3. /\ c \in Seq(S) /\ Len(c) = n + Len(b) /\ \A i \in 1 .. n : c[i] = a[i]
      /\ \A j \in 1 .. Len(b) : c[n + j] = b[j]
  BY <1>1, <1>2, ConcatLaw
<1>4. 1 \in 1 .. Len(b) /\ Len(b) = 1
  BY <1>1
<1>5. c[n + 1] = e
  BY <1>1, <1>3, <1>4
<1> QED
  BY <1>3, <1>4, <1>5

(* The prepared answers: y for every package cache that is asked about, n for  *)
(* the sync databases, whatever the number of cache directories.            *)
LEMMA AnswersLaw ==
    ASSUME NEW scope \in {"native", "aur", "all"}
    PROVE  /\ "sync" \notin Answered(scope)
           /\ scope \in {"native", "aur"} => Answered(scope) \subseteq {scope}
<1>0. NativeDirs \in Nat
  BY CacheAssumption
<1>1. \A a, n : n \in Nat => /\ Repeat(a, n) \in Seq({a}) /\ Len(Repeat(a, n)) = n
                             /\ \A i \in 1 .. n : Repeat(a, n)[i] = a
  BY DEF Repeat
<1>2. CASE scope = "aur"
  <2>1. Questions(scope) = << "aur" >>
    BY <1>2 DEF Questions
  <2>2. \A i \in DOMAIN Questions(scope) : Questions(scope)[i] = "aur"
    BY <2>1
  <2> QED
    BY <1>2, <2>2 DEF Answered
<1>3. CASE scope # "aur"
  <2> DEFINE S == {"native", "sync", "aur", "y", "n"}
             x == Repeat("native", NativeDirs)
             y == Repeat("y", NativeDirs)
             z == Repeat("y", 64)
             w == IF scope = "all" THEN << "aur" >> ELSE << >>
  <2>1. /\ x \in Seq({"native"}) /\ Len(x) = NativeDirs /\ \A i \in 1 .. NativeDirs : x[i] = "native"
        /\ y \in Seq({"y"}) /\ Len(y) = NativeDirs
        /\ z \in Seq({"y"})
    BY <1>0, <1>1
  <2>2. /\ w \in Seq({"aur"}) /\ Len(w) <= 1 /\ (Len(w) = 1 => w[1] = "aur")
        /\ scope = "native" => Len(w) = 0
    <3>1. CASE scope = "all"
      BY <3>1
    <3>2. CASE scope # "all"
      BY <3>2
    <3> QED
      BY <3>1, <3>2
  <2>3. Questions(scope) = (x \o << "sync" >>) \o w /\ CacheAnswers(scope) = (y \o << "n" >>) \o z
    BY <1>3 DEF Questions, CacheAnswers
  <2> HIDE DEF x, y, z, w
  <2>4. x \in Seq(S) /\ y \in Seq(S) /\ z \in Seq(S) /\ w \in Seq(S)
    BY <2>1, <2>2
  <2> DEFINE u == << "sync" >>
             v == << "n" >>
  <2>5. u \in Seq(S) /\ v \in Seq(S) /\ Len(u) = 1 /\ Len(v) = 1 /\ u[1] = "sync" /\ v[1] = "n"
    OBVIOUS
  <2> HIDE DEF S, u, v
  <2> DEFINE q == x \o u
             r == y \o v
             Q == q \o w
             A == r \o z
  <2>6. /\ q \in Seq(S) /\ Len(q) = NativeDirs + 1
        /\ \A i \in 1 .. NativeDirs : q[i] = "native"
        /\ r \in Seq(S) /\ Len(r) = NativeDirs + 1 /\ r[NativeDirs + 1] = "n"
    <3>1. /\ \E n : n = NativeDirs /\ n \in Nat /\ Len(x) = n /\ Len(y) = n
          /\ u = << "sync" >> /\ v = << "n" >> /\ "sync" \in S /\ "n" \in S
      BY <1>0, <2>1 DEF u, v, S
    <3>2. PICK n : n = NativeDirs /\ n \in Nat /\ Len(x) = n /\ Len(y) = n
      BY <3>1
    <3>3. PICK c : c = x \o u
      OBVIOUS
    <3>4. c \in Seq(S) /\ Len(c) = n + 1 /\ \A i \in 1 .. n : c[i] = x[i]
      <4>1. c = x \o << "sync" >>
        BY <3>1, <3>3
      <4>2. Len(x) = n /\ n \in Nat /\ x \in Seq(S) /\ "sync" \in S
        BY <2>4, <3>1, <3>2
      <4> QED
        BY <4>1, <4>2, MarkedLaw
    <3>5. PICK d : d = y \o v
      OBVIOUS
    <3>6. d \in Seq(S) /\ Len(d) = n + 1 /\ d[n + 1] = "n"
      <4>1. d = y \o << "n" >>
        BY <3>1, <3>5
      <4>2. Len(y) = n /\ n \in Nat /\ y \in Seq(S) /\ "n" \in S
        BY <2>4, <3>1, <3>2
      <4> QED
        BY <4>1, <4>2, MarkedLaw
    <3>7. q = c /\ r = d
      BY <3>3, <3>5
    <3> HIDE DEF q, r, Q, A
    <3> QED
      BY <2>1, <3>2, <3>4, <3>6, <3>7
  <2> HIDE DEF q, r
  <2>7. /\ DOMAIN Q = 1 .. NativeDirs + 1 + Len(w)
        /\ \A i \in 1 .. NativeDirs : Q[i] = "native"
        /\ \A i \in NativeDirs + 2 .. NativeDirs + 1 + Len(w) : Q[i] = "aur" /\ scope # "native"
    <3>1. Q = q \o w /\ Len(q) = NativeDirs + 1
      BY <2>6
    <3> HIDE DEF Q
    <3>2. /\ Len(w) \in Nat /\ DOMAIN Q = 1 .. NativeDirs + 1 + Len(w)
          /\ \A i \in 1 .. NativeDirs + 1 : Q[i] = q[i]
          /\ \A j \in 1 .. Len(w) : Q[NativeDirs + 1 + j] = w[j]
      BY <2>4, <2>6, <3>1, ConcatLaw
    <3>3. ASSUME NEW i \in 1 .. NativeDirs
          PROVE  Q[i] = "native"
      <4>1. i \in 1 .. NativeDirs + 1
        BY <1>0
      <4> QED
        BY <2>6, <3>2, <4>1
    <3>4. ASSUME NEW i \in NativeDirs + 2 .. NativeDirs + 1 + Len(w)
          PROVE  Q[i] = "aur" /\ scope # "native"
      <4>0. PICK l \in Nat : l = Len(w)
        BY <3>2
      <4>2. l <= 1 /\ i \in NativeDirs + 2 .. NativeDirs + 1 + l
        BY <2>2, <3>4, <4>0
      <4>3. l = 1 /\ i = NativeDirs + 1 + 1 /\ 1 \in 1 .. l
        BY <1>0, <4>2
      <4>1. Len(w) = 1 /\ i = NativeDirs + 1 + 1 /\ 1 \in 1 .. Len(w)
        BY <4>0, <4>3
      <4> QED
        BY <2>2, <3>2, <4>1
    <3> QED
      BY <3>2, <3>3, <3>4
  <2>8. A[NativeDirs + 1] = "n"
    <3>1. A = r \o z /\ Len(r) = NativeDirs + 1
      BY <2>6
    <3> HIDE DEF A
    <3>2. \A i \in 1 .. NativeDirs + 1 : A[i] = r[i]
      BY <2>4, <2>6, <3>1, ConcatLaw
    <3>3. NativeDirs + 1 \in 1 .. NativeDirs + 1
      BY <1>0
    <3> QED
      BY <2>6, <3>2, <3>3
  <2> HIDE DEF Q, A
  <2>9. ASSUME NEW i \in DOMAIN Q, A[i] = "y"
        PROVE  Q[i] = "native" \/ (Q[i] = "aur" /\ scope # "native")
    <3>1. i # NativeDirs + 1
      BY <2>8, <2>9
    <3>2. i \in 1 .. NativeDirs \/ i \in NativeDirs + 2 .. NativeDirs + 1 + Len(w)
      BY <1>0, <2>2, <2>4, <2>7, <3>1
    <3> QED
      BY <2>7, <3>2
  <2>10. Questions(scope) = Q /\ CacheAnswers(scope) = A
    BY <2>3 DEF q, r, u, v, Q, A
  <2> QED
    BY <1>3, <2>9, <2>10 DEF Answered
<1> QED
  BY <1>2, <1>3

(* After a transaction what is left to clean are caches of stages that        *)
(* succeeded, and nothing else sets the cleanup to work meanwhile.          *)
LEMMA ScopeStep ==
    ASSUME TypeOK, CommandInv, ScopeInv, [Next]_vars
    PROVE  ScopeInv'
<1>0. /\ cleaning \in Cleaning /\ (cleaning.step = "off") = (cleaning.queue = << >>)
      /\ cleaning.queue \in Seq({"native", "aur", "all"})
  BY DEF TypeOK, InstallTypeOK, CacheTypeOK, Cleaning
<1>1. CASE UNCHANGED << cacheVars, pc, request, outcome >>
  BY <1>1 DEF ScopeInv, cacheVars
<1>2. CASE pc' # "return"
  BY <1>2 DEF ScopeInv
<1>3. CASE StartCleanup
  <2>1. UNCHANGED << request, outcome >>
    BY <1>3 DEF StartCleanup, asking, stages
  <2> DEFINE q == AfterTransaction(outcome["native"], outcome["aur"])
  <2>2. \A i \in DOMAIN q : q[i] \in {"native", "aur"} /\ outcome[q[i]] = TRUE
    <3>1. CASE outcome["native"] = TRUE /\ outcome["aur"] = TRUE
      <4>1. q = << "native" >> \o << "aur" >>
        BY <3>1 DEF AfterTransaction
      <4> QED
        BY <3>1, <4>1
    <3>2. CASE outcome["native"] = TRUE /\ outcome["aur"] # TRUE
      <4>1. q = << "native" >> \o << >>
        BY <3>2 DEF AfterTransaction
      <4> QED
        BY <3>2, <4>1
    <3>3. CASE outcome["native"] # TRUE /\ outcome["aur"] = TRUE
      <4>1. q = << >> \o << "aur" >>
        BY <3>3 DEF AfterTransaction
      <4> QED
        BY <3>3, <4>1
    <3>4. CASE outcome["native"] # TRUE /\ outcome["aur"] # TRUE
      <4>1. q = << >> \o << >>
        BY <3>4 DEF AfterTransaction
      <4> QED
        BY <4>1
    <3> QED
      BY <3>1, <3>2, <3>3, <3>4
  <2> HIDE DEF q
  <2>3. CASE request.noCache
    <3>1. cleaning' = [NoCleaning EXCEPT !.queue = q, !.full = TRUE,
                                         !.step = IF q = << >> THEN "off" ELSE "check"]
      BY <1>3, <2>3 DEF StartCleanup, q
    <3>2. cleaning'.queue = q /\ cleaning'.full = TRUE
      BY <3>1 DEF NoCleaning
    <3> QED
      BY <2>1, <2>2, <2>3, <3>2 DEF ScopeInv
  <2>4. CASE ~request.noCache
    <3>1. cleaning'.step = "off"
      BY <1>3, <2>4 DEF StartCleanup, NoCleaning
    <3> QED
      BY <3>1 DEF ScopeInv
  <2> QED
    BY <2>3, <2>4
<1>4. CASE CacheStep /\ UNCHANGED << pc, request, outcome >> /\ pc = "return"
  <2>1. cleaning.step # "off"
    BY <1>4 DEF CacheStep, CleanCheck, Scan, RmdirCheck, RmCheck, Recheck, Rmdir, RemoveStale, CleanRun
  <2>2. ASSUME NEW ok, ScopeEnds(ok)
        PROVE  ScopeInv'
    <3>1. cleaning'.queue = Tail(cleaning.queue) /\ cleaning'.full = cleaning.full
      BY <1>0, <2>2 DEF ScopeEnds, Cleaning
    <3>2. \A i \in DOMAIN Tail(cleaning.queue) :
              i + 1 \in DOMAIN cleaning.queue /\ Tail(cleaning.queue)[i] = cleaning.queue[i + 1]
      BY <1>0, <2>1, QueueLaw
    <3> QED
      BY <1>4, <2>1, <3>1, <3>2 DEF ScopeInv
  <2>3. ASSUME cleaning'.queue = cleaning.queue /\ cleaning'.full = cleaning.full
        PROVE  ScopeInv'
    BY <1>4, <2>1, <2>3 DEF ScopeInv
  <2>4. \/ \E ok \in BOOLEAN : ScopeEnds(ok)
        \/ cleaning'.queue = cleaning.queue /\ cleaning'.full = cleaning.full
    <3>1. CASE CleanCheck
      BY <1>0, <3>1 DEF CleanCheck, Cleaning
    <3>2. CASE Scan
      BY <1>0, <3>2 DEF Scan, Cleaning
    <3>3. CASE RmdirCheck \/ RmCheck
      BY <1>0, <3>3 DEF RmdirCheck, RmCheck, Recheck, Cleaning
    <3>4. CASE Rmdir \/ RemoveStale \/ CleanRun
      BY <1>0, <3>4 DEF Rmdir, RemoveStale, CleanRun, Cleaning
    <3> QED
      BY <1>4, <3>1, <3>2, <3>3, <3>4 DEF CacheStep
  <2> QED
    BY <2>2, <2>3, <2>4
<1>5. CASE AroundCache /\ UNCHANGED << pc, request, outcome >>
  <2>1. UNCHANGED cleaning
    BY <1>5 DEF AroundCache, CleanLock, ManagerStep, ManagerDownloads, DirectoryAges
  <2> QED
    BY <1>5, <2>1 DEF ScopeInv
<1>6. CASE CleanCommand
  BY <1>2, <1>6 DEF CleanCommand, CommandInv, installVars
<1>7. CASE UNCHANGED cacheVars
  <2>1. SUFFICES ASSUME pc' = "return", ~StartCleanup
                 PROVE  UNCHANGED << pc, request, outcome >>
    BY <1>1, <1>2, <1>3, <1>7
  <2>2. CASE Quiet
    BY <2>2 DEF Quiet, asking, stages
  <2>3. CASE \E r \in Request : Call(r)
    BY <2>1, <2>3 DEF Call
  <2>4. CASE Admit \/ SourceStage \/ LookAtLock \/ KeepWaiting \/ PartialUpgradeQuestion \/ Refresh
    BY <2>1, <2>4 DEF Admit, SourceStage, LookAtLock, KeepWaiting, PartialUpgradeQuestion, Refresh, Fails
  <2>5. CASE Route \/ Preflight \/ NativeStage \/ AurStage \/ SavePins \/ RecordInstall \/ Return
    BY <2>1, <2>5 DEF Route, Preflight, NativeStage, AurStage, SavePins, RecordInstall, Return, Fails
  <2> QED
    BY <2>1, <2>2, <2>3, <2>4, <2>5, StepCases
<1> QED
  BY <1>2, <1>3, <1>4, <1>5, <1>6, <1>7, CacheCases DEF installVars, asking, stages

LEMMA ScopedStep ==
    ASSUME TypeOK, CommandInv, ScopeInv, [Next]_vars
    PROVE  [/\ \A c \in {"native", "aur"} :
                  pc = "return" /\ caches'[c] # caches[c] => request.noCache /\ outcome[c] = TRUE
            /\ caches'["sync"] # caches["sync"] => pc # "return" /\ caches'["sync"] = "trimmed"]_<< pc, caches >>
<1>0. /\ cleaning.queue \in Seq({"native", "aur", "all"}) /\ cleaning.full \in BOOLEAN
      /\ (cleaning.step = "off") = (cleaning.queue = << >>)
      /\ caches \in [{"native", "aur", "sync"} -> {"kept", "trimmed", "purged"}]
  BY DEF TypeOK, InstallTypeOK, CacheTypeOK, Cleaning
<1>1. CASE UNCHANGED caches
  BY <1>1
<1>2. CASE CleanRun /\ ~UNCHANGED caches
  <2>1. cleaning.queue # << >> /\ cleaning.step = "run"
    BY <1>0, <1>2 DEF CleanRun
  <2>2. Head(cleaning.queue) = cleaning.queue[1] /\ 1 \in DOMAIN cleaning.queue
        /\ Head(cleaning.queue) \in {"native", "aur", "all"}
    BY <1>0, <2>1, QueueLaw
  <2>3. RunScope \in {"native", "aur", "all"}
    BY <2>2 DEF RunScope
  <2>4. PICK asked : caches' = [c \in DOMAIN caches |->
                         IF c \in (IF cleaning.full THEN Answered(RunScope) ELSE asked)
                         THEN (IF cleaning.full THEN "purged" ELSE "trimmed") ELSE caches[c]]
    BY <1>2, Zenon DEF CleanRun
  <2>5. CASE cleaning.full
    <3>1. caches' = [c \in DOMAIN caches |-> IF c \in Answered(RunScope) THEN "purged" ELSE caches[c]]
      BY <2>4, <2>5
    <3>2. caches'["sync"] = caches["sync"]
      BY <1>0, <2>3, <3>1, AnswersLaw
    <3>3. ASSUME NEW c \in {"native", "aur"}, pc = "return", caches'[c] # caches[c]
          PROVE  request.noCache /\ outcome[c] = TRUE
      <4>1. /\ request.noCache /\ Head(cleaning.queue) \in {"native", "aur"}
            /\ outcome[Head(cleaning.queue)] = TRUE
        BY <2>1, <2>2, <3>3 DEF ScopeInv
      <4>2. RunScope = Head(cleaning.queue)
        BY <4>1 DEF RunScope
      <4>3. c \in Answered(RunScope)
        BY <1>0, <3>1, <3>3
      <4>4. c = RunScope
        BY <2>3, <4>1, <4>2, <4>3, AnswersLaw
      <4> QED
        BY <4>1, <4>2, <4>4
    <3> QED
      BY <3>2, <3>3
  <2>6. CASE ~cleaning.full
    <3>1. pc # "return"
      BY <2>1, <2>6 DEF ScopeInv
    <3>2. caches'["sync"] \in {"trimmed", caches["sync"]}
      BY <1>0, <2>4, <2>6
    <3> QED
      BY <3>1, <3>2
  <2> QED
    BY <1>0, <2>5, <2>6
<1>3. CASE ~CleanRun
  <2>1. UNCHANGED caches
    BY <1>3, CacheCases DEF cacheVars, StartCleanup, CleanCommand, CacheStep, CleanCheck, Scan, RmdirCheck,
       RmCheck, Recheck, Rmdir, RemoveStale, AroundCache, CleanLock, ManagerStep, ManagerDownloads, DirectoryAges
  <2> QED
    BY <2>1
<1> QED
  BY <1>1, <1>2, <1>3

-----------------------------------------------------------------------------
(* Lookups and lists.                                                      *)

LEMMA SyncLaw ==
    ASSUME NEW r, NEW p, SyncPackage(r, p) # None
    PROVE  /\ SyncPackage(r, p) \in Repo /\ SyncPackage(r, p) \in DOMAIN Offers
           /\ Satisfied(Offers[SyncPackage(r, p)], p)
           /\ r # None => SyncPackage(r, p) = r
<1>1. Repo \subseteq DOMAIN Offers
  BY InstallationAssumption
<1>2. CASE r # None
  BY <1>1, <1>2 DEF SyncPackage
<1>3. CASE r = None
  <2> DEFINE named == { i \in DOMAIN Order : p \in Offers[Order[i]] }
             provided == { i \in DOMAIN Order : Satisfied(Offers[Order[i]], p) }
             T == IF named = {} THEN provided ELSE named
  <2>1. provided # {} /\ SyncPackage(r, p) = Order[Earliest(T)]
    BY <1>3 DEF SyncPackage
  <2>2. T \in SUBSET Nat /\ T # {} /\ T \subseteq DOMAIN Order
    BY <2>1, InstallationAssumption
  <2>3. \A i \in T : Satisfied(Offers[Order[i]], p)
    BY DEF Satisfied
  <2> HIDE DEF T
  <2>4. Earliest(T) \in T
    BY <2>2, Least DEF Earliest
  <2> QED
    BY <1>1, <1>3, <2>1, <2>2, <2>3, <2>4 DEF Repo
<1> QED
  BY <1>2, <1>3

LEMMA RealLaw ==
    ASSUME NEW t, t.pkg \in Package
    PROVE  /\ Real(t) \in Package
           /\ SyncPackage(t.repo, t.pkg) # None => Satisfied({Real(t)}, t.pkg)
<1> DEFINE r == SyncPackage(t.repo, t.pkg)
<1>1. CASE r = None \/ t.pkg \in Offers[r]
  BY <1>1 DEF Real, Satisfied
<1>2. CASE r # None /\ t.pkg \notin Offers[r]
  <2>1. r \in DOMAIN Offers /\ Satisfied(Offers[r], t.pkg)
    BY <1>2, SyncLaw
  <2>2. \E q \in Offers[r] : t.pkg \in Provides[q]
    BY <1>2, <2>1 DEF Satisfied
  <2>3. Real(t) = CHOOSE q \in Offers[r] : t.pkg \in Provides[q]
    BY <1>2 DEF Real
  <2>4. Real(t) \in Offers[r] /\ t.pkg \in Provides[Real(t)]
    BY <2>2, <2>3
  <2>5. Real(t) \in Package
    BY <2>1, <2>4, InstallationAssumption
  <2> QED
    BY <2>4, <2>5 DEF Satisfied
<1> QED
  BY <1>1, <1>2

LEMMA RangeLaw ==
    ASSUME NEW S, NEW s \in Seq(S)
    PROVE  /\ Range(s) \subseteq S
           /\ \A x : x \in Range(s) <=> \E i \in DOMAIN s : x = s[i]
  BY DEF Range

LEMMA RangeOfConcat ==
    ASSUME NEW S, NEW a \in Seq(S), NEW b \in Seq(S)
    PROVE  /\ a \o b \in Seq(S)
           /\ Range(a \o b) = Range(a) \cup Range(b)
<1>1. PICK c : c = a \o b
  OBVIOUS
<1>2. PICK n : n = Len(a) /\ n \in Nat
  OBVIOUS
<1>3. /\ c \in Seq(S) /\ DOMAIN c = 1 .. n + Len(b) /\ Len(b) \in Nat
      /\ \A i \in 1 .. n : c[i] = a[i]
      /\ \A j \in 1 .. Len(b) : c[n + j] = b[j]
  BY <1>1, <1>2, ConcatLaw
<1>4. DOMAIN a = 1 .. n /\ DOMAIN b = 1 .. Len(b)
  BY <1>2
<1>5. ASSUME NEW x
      PROVE  x \in Range(c) <=> x \in Range(a) \/ x \in Range(b)
  <2>1. ASSUME NEW i \in 1 .. n + Len(b), x = c[i]
        PROVE  x \in Range(a) \/ x \in Range(b)
    <3>1. CASE i <= n
      BY <1>2, <1>3, <1>4, <2>1, <3>1 DEF Range
    <3>2. CASE ~(i <= n)
      <4>1. i - n \in 1 .. Len(b) /\ n + (i - n) = i
        BY <1>2, <1>3, <3>2
      <4>2. c[i] = b[i - n]
        BY <1>3, <4>1
      <4> QED
        BY <1>4, <2>1, <4>1, <4>2 DEF Range
    <3> QED
      BY <3>1, <3>2
  <2>2. ASSUME NEW i \in 1 .. n, x = a[i]
        PROVE  x \in Range(c)
    <3>1. i \in 1 .. n + Len(b) /\ c[i] = a[i]
      BY <1>2, <1>3
    <3> QED
      BY <1>3, <2>2, <3>1 DEF Range
  <2>3. ASSUME NEW j \in 1 .. Len(b), x = b[j]
        PROVE  x \in Range(c)
    <3>1. n + j \in 1 .. n + Len(b) /\ c[n + j] = b[j]
      BY <1>2, <1>3
    <3> QED
      BY <1>3, <2>3, <3>1 DEF Range
  <2>4. /\ x \in Range(c) <=> \E i \in 1 .. n + Len(b) : x = c[i]
        /\ x \in Range(a) <=> \E i \in 1 .. n : x = a[i]
        /\ x \in Range(b) <=> \E j \in 1 .. Len(b) : x = b[j]
    BY <1>3, <1>4 DEF Range
  <2> QED
    BY <2>1, <2>2, <2>3, <2>4
<1> QED
  BY <1>1, <1>3, <1>5

(* The names of a target and of the companions selected with it.              *)
LEMMA NamesLaw ==
    ASSUME NEW p \in Package, NEW more \in SUBSET Package, NEW names, names = << p >> \o SetToSeq(more)
    PROVE  names \in Seq(Package) /\ Range(names) = {p} \cup more
<1>1. IsFiniteSet(more)
  BY RebuildAssumption, FS_Subset
<1>2. PICK b : b = SetToSeq(more) /\ b \in Seq(more) /\ more = { b[i] : i \in DOMAIN b }
  BY <1>1, SetToSeqLists
<1>3. b \in Seq(Package) /\ Range(b) = more
  <2>1. Range(b) = more
    BY <1>2, Zenon DEF Range
  <2>2. b \in Seq(Package)
    BY <1>2
  <2> QED
    BY <2>1, <2>2
<1>4. PICK a : a = << p >>
  OBVIOUS
<1>5. a \in Seq(Package) /\ Range(a) = {p}
  BY <1>4 DEF Range
<1>6. a \o b \in Seq(Package) /\ Range(a \o b) = Range(a) \cup Range(b)
  BY <1>3, <1>5, RangeOfConcat
<1>7. names = a \o b
  BY <1>2, <1>4
<1> QED
  BY <1>3, <1>5, <1>6, <1>7

Entries(r, names) == [i \in DOMAIN names |-> [repo |-> r, pkg |-> names[i]]]

LEMMA EntriesType ==
    ASSUME NEW S, NEW names \in Seq(Package), NEW r \in S
    PROVE  Entries(r, names) \in Seq([repo : S, pkg : Package])
<1>0. PICK ts : ts = Entries(r, names)
  OBVIOUS
<1>1. DOMAIN names = 1 .. Len(names) /\ Len(names) \in Nat /\ \A i \in 1 .. Len(names) : names[i] \in Package
  OBVIOUS
<1>2. ts \in [1 .. Len(names) -> [repo : S, pkg : Package]]
  BY <1>0, <1>1 DEF Entries
<1>3. ts \in Seq([repo : S, pkg : Package])
  <2>1. PICK P : P = [repo : S, pkg : Package]
    OBVIOUS
  <2>2. ts \in [1 .. Len(names) -> P]
    BY <1>2, <2>1
  <2>3. ts \in Seq(P)
    BY <1>1, <2>2, SeqDef
  <2> QED
    BY <2>1, <2>3
<1> QED
  BY <1>0, <1>3

LEMMA EntriesRange ==
    ASSUME NEW names, NEW r, NEW t
    PROVE  t \in Range(Entries(r, names)) <=> \E p \in Range(names) : t = [repo |-> r, pkg |-> p]
<1>0. PICK ts : ts = Entries(r, names)
  OBVIOUS
<1>4. DOMAIN ts = DOMAIN names /\ \A i \in DOMAIN names : ts[i] = [repo |-> r, pkg |-> names[i]]
  BY <1>0 DEF Entries
<1>5. t \in Range(ts) <=> \E p \in Range(names) : t = [repo |-> r, pkg |-> p]
  BY <1>4, Zenon DEF Range
<1> QED
  BY <1>0, <1>5


-----------------------------------------------------------------------------
(* What the steps that build the lists do.                                 *)

LEMMA SourceTargetLaw ==
    ASSUME NEW config \in [Package -> TargetRepo], NEW t \in Target, SourceTarget(config, t) # None
    PROVE  /\ SourceTarget(config, t) \in [repo : DOMAIN Recipes, pkg : Package]
           /\ SourceTarget(config, t).pkg = t.pkg
<1>1. t.pkg \in Package /\ t.repo \in TargetRepo /\ t = [repo |-> t.repo, pkg |-> t.pkg]
  BY DEF Target
<1>2. None \notin DOMAIN Recipes
  BY NoneFacts
<1>3. CASE t.repo \in DOMAIN Recipes
  <2>1. SourceTarget(config, t) = t
    BY <1>2, <1>3 DEF SourceTarget
  <2> QED
    BY <1>1, <1>3, <2>1
<1>4. CASE t.repo = None /\ SourceOwner(config, t.pkg) # None
  <2>1. SourceTarget(config, t) = [repo |-> SourceOwner(config, t.pkg), pkg |-> t.pkg]
    BY <1>2, <1>4 DEF SourceTarget
  <2>2. SourceOwner(config, t.pkg) \in DOMAIN Recipes
    BY <1>4 DEF SourceOwner
  <2> QED
    BY <1>1, <2>1, <2>2
<1>5. CASE t.repo \notin DOMAIN Recipes /\ ~(t.repo = None /\ SourceOwner(config, t.pkg) # None)
  BY <1>5 DEF SourceTarget
<1> QED
  BY <1>3, <1>4, <1>5

(* Where Route sends a target, and what it shows of it.                       *)
RouteRepo(t) ==
    IF t.repo = None /\ SyncPackage(None, t.pkg) = None /\ t.pkg \in Offers["aur"] THEN "aur" ELSE t.repo
RouteWarned(t) ==
    IF t.repo = None /\ RouteRepo(t) = None /\ SyncPackage(None, t.pkg) = None THEN {}
    ELSE DelayWarnings(t, RouteRepo(t))
ToHelper(r) == r # None /\ Fold(r) = "aur"
Appended(list, new, r, packages) ==
    \A x : x \in Range(new) <=> x \in Range(list) \/ \E p \in packages : x = [repo |-> r, pkg |-> p]
Routed(t, r, more) ==
    /\ t = request.targets[routed + 1] /\ routed + 1 \in DOMAIN request.targets /\ routed' = routed + 1
    /\ t \in Target /\ r = RouteRepo(t) /\ r \in TargetRepo /\ more \in SUBSET Package
    /\ t.repo = None \/ ~Interactive => more = {}
    /\ t.repo # None => Fold(r) \in DOMAIN Offers
    /\ wanted' = [p \in Package |-> IF p \in more THEN Fold(r) ELSE wanted[p]]
    /\ chosen' = chosen \cup { << Fold(r), p >> : p \in more }
    /\ told' = told \cup { {p} : p \in RouteWarned(t) }
    /\ ToHelper(r) => /\ UNCHANGED native /\ aur' \in Seq([repo : {None}, pkg : Package])
                      /\ Appended(aur, aur', None, {t.pkg} \cup more)
    /\ ~ToHelper(r) => /\ UNCHANGED aur /\ native' \in Seq(Target)
                       /\ Appended(native, native', r, {t.pkg} \cup more)
    /\ UNCHANGED << pc, result >>

LEMMA FoldType ==
    ASSUME NEW r \in TargetRepo
    PROVE  Fold(r) \in TargetRepo
  BY DEF Fold, TargetRepo, Spelling

LEMMA WarnedType ==
    ASSUME NEW t \in Target
    PROVE  RouteWarned(t) \subseteq Package
<1>1. t.pkg \in Package
  BY DEF Target
<1>2. ASSUME NEW r
      PROVE  DelayWarnings(t, r) \subseteq Package
  <2>1. Described(t, r) \in Package
    <3>1. [t EXCEPT !.repo = r].pkg \in Package
      BY <1>1 DEF Target
    <3> QED
      BY <1>1, <3>1, RealLaw DEF Described
  <2>2. DependsOn[Described(t, r)] \subseteq Package
    BY <2>1, InstallationAssumption
  <2>3. \A d \in Package : Real([repo |-> None, pkg |-> d]) \in Package
    BY RealLaw
  <2> QED
    BY <2>1, <2>2, <2>3 DEF DelayWarnings
<1> QED
  BY <1>2 DEF RouteWarned

LEMMA RouteShape ==
    ASSUME TypeOK, Route
    PROVE  /\ UNCHANGED << asking, stages, records, installed, edits, cacheVars >> /\ pc = "route"
           /\ \/ Fails /\ UNCHANGED planning
              \/ \E t, r, more : Routed(t, r, more)
<1>1. /\ request \in Request /\ routed \in Nat /\ routed < Len(request.targets)
      /\ native \in Seq(Target) /\ aur \in Seq([repo : {None}, pkg : Package])
  BY DEF TypeOK, InstallTypeOK, Route
<1>2. routed + 1 \in DOMAIN request.targets /\ request.targets \in Seq(Target)
  BY <1>1 DEF Request
<1> DEFINE t == request.targets[routed + 1]
           r == RouteRepo(t)
           offered == IF t.repo = None THEN {} ELSE Companions(Fold(r), t.pkg)
<1>3. t \in Target /\ t.pkg \in Package /\ t.repo \in TargetRepo
  <2>1. t \in Target
    BY <1>2
  <2> HIDE DEF t
  <2> QED
    BY <2>1 DEF Target
<1>4. r \in TargetRepo
  BY <1>3 DEF RouteRepo, TargetRepo, Spelling
<1>5. offered \subseteq Package
  BY DEF Companions
<1>6. CASE Fails /\ UNCHANGED planning
  BY <1>6 DEF Route
<1>7. CASE ~(Fails /\ UNCHANGED planning)
  <2>1. t.repo # None => Fold(r) \in DOMAIN Offers
    BY <1>7 DEF Route, RouteRepo
  <2>2. PICK more \in SUBSET offered :
            /\ wanted' = [p \in Package |-> IF p \in more THEN Fold(r) ELSE wanted[p]]
            /\ chosen' = chosen \cup { << Fold(r), p >> : p \in more }
            /\ LET names == << t.pkg >> \o SetToSeq(more) IN
               IF r # None /\ Fold(r) = "aur"
               THEN /\ aur' = aur \o [i \in DOMAIN names |-> [repo |-> None, pkg |-> names[i]]]
                    /\ UNCHANGED native
               ELSE /\ native' = native \o [i \in DOMAIN names |-> [repo |-> r, pkg |-> names[i]]]
                    /\ UNCHANGED aur
            /\ told' = told \cup { {p} : p \in RouteWarned(t) }
            /\ routed' = routed + 1
            /\ UNCHANGED << pc, result >>
    BY <1>7 DEF Route, RouteRepo, RouteWarned
  <2> HIDE DEF t, r, offered
  <2>3. more \in SUBSET Package
    BY <1>5
  <2>4. PICK names : names = << t.pkg >> \o SetToSeq(more)
    OBVIOUS
  <2>5. names \in Seq(Package) /\ Range(names) = {t.pkg} \cup more
    BY <1>3, <2>3, <2>4, NamesLaw
  <2>6. ASSUME ToHelper(r)
        PROVE  /\ UNCHANGED native /\ aur' \in Seq([repo : {None}, pkg : Package])
               /\ Appended(aur, aur', None, {t.pkg} \cup more)
    <3>1. PICK ts : ts = Entries(None, names)
      OBVIOUS
    <3>2. /\ ts \in Seq([repo : {None}, pkg : Package])
          /\ \A x : x \in Range(ts) <=> \E p \in Range(names) : x = [repo |-> None, pkg |-> p]
      <4>1. None \in {None}
        OBVIOUS
      <4>2. ts \in Seq([repo : {None}, pkg : Package])
        BY <2>5, <3>1, <4>1, EntriesType, Zenon
      <4> QED
        BY <3>1, <4>2, EntriesRange
    <3>3. aur' = aur \o ts /\ UNCHANGED native
      BY <2>2, <2>4, <2>6, <3>1 DEF ToHelper, Entries
    <3>4. aur \o ts \in Seq([repo : {None}, pkg : Package]) /\ Range(aur \o ts) = Range(aur) \cup Range(ts)
      BY <1>1, <3>2, RangeOfConcat
    <3> QED
      BY <2>5, <3>2, <3>3, <3>4, Zenon DEF Appended
  <2>7. ASSUME ~ToHelper(r)
        PROVE  /\ UNCHANGED aur /\ native' \in Seq(Target)
               /\ Appended(native, native', r, {t.pkg} \cup more)
    <3>1. PICK ts : ts = Entries(r, names)
      OBVIOUS
    <3>2. /\ ts \in Seq(Target)
          /\ \A x : x \in Range(ts) <=> \E p \in Range(names) : x = [repo |-> r, pkg |-> p]
      <4>2. ts \in Seq(Target)
        BY <1>4, <2>5, <3>1, EntriesType, Zenon DEF Target
      <4> QED
        BY <3>1, <4>2, EntriesRange
    <3>3. native' = native \o ts /\ UNCHANGED aur
      BY <2>2, <2>4, <2>7, <3>1 DEF ToHelper, Entries
    <3>4. native \o ts \in Seq(Target) /\ Range(native \o ts) = Range(native) \cup Range(ts)
      BY <1>1, <3>2, RangeOfConcat
    <3> QED
      BY <2>5, <3>2, <3>3, <3>4, Zenon DEF Appended
  <2>8. t.repo = None \/ ~Interactive => more = {}
    BY DEF offered, Companions
  <2>9. t = request.targets[routed + 1] /\ r = RouteRepo(t)
    BY DEF t, r
  <2>10. Routed(t, r, more)
    BY <1>2, <1>3, <1>4, <2>1, <2>2, <2>3, <2>6, <2>7, <2>8, <2>9 DEF Routed
  <2>11. UNCHANGED << asking, stages, records, installed, edits, cacheVars >> /\ pc = "route"
    BY DEF Route
  <2> QED
    BY <2>10, <2>11, Zenon
<1> QED
  BY <1>6, <1>7


LEMMA SourceShape ==
    ASSUME TypeOK, SourceInv, SourceStage
    PROVE  /\ UNCHANGED << asking, planning, outcome, partial, edits, cacheVars >>
           /\ pc = "source" /\ pc' = "end" /\ result' \in {"ok", "failed"}
           /\ mem' \in [Package -> TargetRepo] /\ pins' \in [Package -> TargetRepo]
           /\ done' \subseteq [repo : DOMAIN Recipes, pkg : Package]
           /\ installed' = installed \cup Names(done')
           /\ history' \in Seq(SUBSET Package)
           /\ \A i \in DOMAIN history' : \/ i \in DOMAIN history /\ history'[i] = history[i]
                                         \/ \E p \in Names(done') : history'[i] = {p}
           /\ result' = "ok" /\ ~request.dry =>
                  \A i \in DOMAIN request.targets : request.targets[i].pkg \in Names(done')
           /\ \A p \in Package : mem'[p] # mem[p] =>
                  \E i \in DOMAIN request.targets :
                      /\ request.targets[i].pkg = p
                      /\ \/ request.targets[i].repo = "direct"
                         \/ mem'[p] = SourceTarget(mem, request.targets[i]).repo
<1>1. /\ request \in Request /\ mem \in [Package -> TargetRepo] /\ pins \in [Package -> TargetRepo]
      /\ history \in Seq(SUBSET Package) /\ pc = "source"
  BY DEF TypeOK, InstallTypeOK, SourceStage
<1>2. request.targets \in Seq(Target)
  BY <1>1 DEF Request
<1> DEFINE ts == request.targets
           owned == [i \in DOMAIN request.targets |->
                IF request.targets[i].repo = "direct"
                THEN [repo |-> CHOOSE a \in DOMAIN Recipes : TRUE, pkg |-> request.targets[i].pkg]
                ELSE SourceTarget(mem, request.targets[i])]
           got(n) == { owned[i] : i \in 1 .. n }
           alias(n, p) == (CHOOSE t \in got(n) : t.pkg = p).repo
           after(n, config) == [p \in Package |-> IF p \in Names(got(n)) THEN alias(n, p) ELSE config[p]]
           flags == request.refresh \/ request.sysupgrade \/ request.wait # None
<1>3. PICK n \in 0 .. Len(ts) :
          /\ installed' = installed \cup Names(got(n))
          /\ mem' = after(n, mem) /\ pins' = after(n, pins)
          /\ history' = history \o [i \in 1 .. n |-> {owned[i].pkg}]
          /\ done' = got(n)
          /\ result' \in IF n = Len(owned) THEN {"ok"}
                         ELSE IF request.dry /\ ~flags THEN {"ok", "failed"} ELSE {"failed"}
  BY DEF SourceStage
<1>4. ASSUME NEW i \in DOMAIN ts
      PROVE  owned[i] \in [repo : DOMAIN Recipes, pkg : Package] /\ owned[i].pkg = ts[i].pkg
  <2>1. PICK t \in Target : t = ts[i]
    BY <1>2
  <2>2. t.pkg \in Package
    BY DEF Target
  <2>3. CASE t.repo = "direct"
    <3>1. owned[i] = [repo |-> CHOOSE a \in DOMAIN Recipes : TRUE, pkg |-> t.pkg]
      BY <2>1, <2>3
    <3>2. (CHOOSE a \in DOMAIN Recipes : TRUE) \in DOMAIN Recipes
      BY InstallationAssumption
    <3> QED
      BY <2>1, <2>2, <3>1, <3>2
  <2>4. CASE t.repo # "direct"
    <3>1. owned[i] = SourceTarget(mem, t) /\ SourceTarget(mem, t) # None
      BY <1>1, <2>1, <2>4 DEF SourceInv
    <3> QED
      BY <1>1, <2>1, <3>1, SourceTargetLaw
  <2> QED
    BY <2>3, <2>4
<1>5. DOMAIN ts = 1 .. Len(ts) /\ DOMAIN owned = 1 .. Len(ts) /\ Len(owned) = Len(ts) /\ Len(ts) \in Nat
  BY <1>2
<1> HIDE DEF ts, owned
<1>6. 1 .. n \subseteq DOMAIN ts /\ n \in Nat
  BY <1>5
<1>7. got(n) \subseteq [repo : DOMAIN Recipes, pkg : Package]
  BY <1>4, <1>6
<1>8. ASSUME NEW config \in [Package -> TargetRepo]
      PROVE  after(n, config) \in [Package -> TargetRepo]
  <2>1. ASSUME NEW p \in Package, p \in Names(got(n))
        PROVE  alias(n, p) \in TargetRepo
    <3>1. \E t \in got(n) : t.pkg = p
      BY <2>1 DEF Names
    <3>2. (CHOOSE t \in got(n) : t.pkg = p) \in got(n)
      BY <3>1
    <3> HIDE DEF got
    <3> QED
      BY <1>7, <3>2 DEF TargetRepo
  <2> HIDE DEF got, alias
  <2> QED
    BY <2>1
<1>9. PICK h : h = [i \in 1 .. n |-> {owned[i].pkg}]
  OBVIOUS
<1>10. h \in Seq(SUBSET Package) /\ Len(h) = n /\ \A i \in 1 .. n : h[i] = {owned[i].pkg}
  <2>1. \A i \in 1 .. n : owned[i].pkg \in Package
    BY <1>4, <1>6
  <2>2. h \in [1 .. n -> SUBSET Package]
    BY <1>9, <2>1
  <2>3. h \in Seq(SUBSET Package)
    BY <1>6, <2>2, SeqDef
  <2>4. Len(h) = n
    BY <1>6, <2>2, <2>3
  <2> QED
    BY <1>9, <2>3, <2>4
<1>11. PICK k : k = Len(history) /\ k \in Nat /\ DOMAIN history = 1 .. k
  BY <1>1
<1>12. history' = history \o h
  BY <1>3, <1>9
<1>13. /\ history' \in Seq(SUBSET Package) /\ DOMAIN history' = 1 .. k + n
       /\ \A i \in 1 .. k : history'[i] = history[i]
       /\ \A j \in 1 .. n : history'[k + j] = h[j]
  <2>1. PICK c : c = history \o h
    OBVIOUS
  <2>2. PICK m : m = Len(history) /\ m = k
    BY <1>11
  <2>3. /\ history \in Seq(SUBSET Package) /\ h \in Seq(SUBSET Package) /\ Len(history) = m
    BY <1>1, <1>10, <2>2
  <2>4. /\ c \in Seq(SUBSET Package) /\ DOMAIN c = 1 .. m + Len(h)
        /\ \A i \in 1 .. m : c[i] = history[i]
        /\ \A j \in 1 .. Len(h) : c[m + j] = h[j]
    BY <2>1, <2>3, ConcatLaw
  <2> QED
    BY <1>10, <1>12, <2>1, <2>2, <2>4
<1>14. ASSUME NEW i \in DOMAIN history'
       PROVE  \/ i \in DOMAIN history /\ history'[i] = history[i]
              \/ \E p \in Names(got(n)) : history'[i] = {p}
  <2>1. CASE i <= k
    BY <1>11, <1>13, <2>1
  <2>2. CASE ~(i <= k)
    <3>1. i - k \in 1 .. n /\ k + (i - k) = i
      BY <1>6, <1>11, <1>13, <2>2
    <3>2. history'[i] = {owned[i - k].pkg}
      BY <1>10, <1>13, <3>1
    <3>3. owned[i - k].pkg \in Names(got(n))
      BY <3>1 DEF Names
    <3> QED
      BY <3>2, <3>3
  <2> QED
    BY <1>6, <1>11, <1>13, <2>1, <2>2
<1>15. ASSUME result' = "ok", ~request.dry, NEW i \in DOMAIN ts
       PROVE  ts[i].pkg \in Names(got(n))
  <2>1. n = Len(ts)
    BY <1>3, <1>5, <1>15
  <2>2. owned[i] \in got(n) /\ owned[i].pkg = ts[i].pkg
    BY <1>4, <1>5, <2>1
  <2> HIDE DEF got
  <2> QED
    BY <2>2 DEF Names
<1>16. result' \in {"ok", "failed"}
  BY <1>3
<1>17. pc' = "end" /\ UNCHANGED << asking, planning, outcome, partial, edits, cacheVars >>
  BY DEF SourceStage
<1>22. ASSUME NEW p \in Package, mem'[p] # mem[p]
       PROVE  \E i \in DOMAIN ts : /\ ts[i].pkg = p
                                   /\ ts[i].repo = "direct" \/ mem'[p] = SourceTarget(mem, ts[i]).repo
  <2>1. p \in Names(got(n)) /\ mem'[p] = alias(n, p)
    <3> HIDE DEF got, alias
    <3> QED
      BY <1>1, <1>3, <1>22
  <2>2. PICK t \in got(n) : t.pkg = p /\ mem'[p] = t.repo
    <3>1. \E t \in got(n) : t.pkg = p
      BY <2>1 DEF Names
    <3>2. (CHOOSE t \in got(n) : t.pkg = p) \in got(n) /\ (CHOOSE t \in got(n) : t.pkg = p).pkg = p
      BY <3>1
    <3> HIDE DEF got
    <3> QED
      BY <2>1, <3>2
  <2>3. PICK i \in 1 .. n : t = owned[i]
    BY <2>2
  <2>4. i \in DOMAIN ts /\ ts[i].pkg = p
    BY <1>4, <1>6, <2>2, <2>3
  <2>5. ts[i].repo = "direct" \/ owned[i] = SourceTarget(mem, ts[i])
    BY <2>4 DEF owned, ts
  <2> QED
    BY <2>2, <2>3, <2>4, <2>5
<1>18. mem' \in [Package -> TargetRepo] /\ pins' \in [Package -> TargetRepo]
  <2> HIDE DEF after
  <2> QED
    BY <1>1, <1>3, <1>8
<1>19. done' = got(n) /\ installed' = installed \cup Names(done')
  BY <1>3
<1> HIDE DEF got
<1>20. done' \subseteq [repo : DOMAIN Recipes, pkg : Package]
  BY <1>7, <1>19
<1>21. /\ \A i \in DOMAIN history' : \/ i \in DOMAIN history /\ history'[i] = history[i]
                                     \/ \E p \in Names(done') : history'[i] = {p}
       /\ result' = "ok" /\ ~request.dry =>
              \A i \in DOMAIN request.targets : request.targets[i].pkg \in Names(done')
  BY <1>14, <1>15, <1>19 DEF ts
<1> QED
  BY <1>1, <1>13, <1>16, <1>17, <1>18, <1>19, <1>20, <1>21, <1>22 DEF ts


LEMMA DependenciesType ==
    ASSUME NEW S \in SUBSET Package
    PROVE  WithDependencies(S) \subseteq Package /\ S \subseteq WithDependencies(S)
  BY InstallationAssumption DEF WithDependencies

LEMMA NativeShape ==
    ASSUME TypeOK, NativeStage
    PROVE  /\ UNCHANGED << asking, planning, result, records, edits, cacheVars >>
           /\ pc = "native" /\ pc' = "aur"
           /\ \/ native = << >> /\ UNCHANGED << installed, stages >>
              \/ /\ native # << >> /\ outcome' = [outcome EXCEPT !["native"] = FALSE]
                 /\ UNCHANGED << installed, done, partial >>
              \/ /\ native # << >> /\ outcome' = [outcome EXCEPT !["native"] = TRUE]
                 /\ \A t \in Range(native) : SyncPackage(t.repo, t.pkg) # None /\ Real(t) \in installed'
                 /\ installed \subseteq installed' /\ installed' \subseteq Package
                 /\ done' = done \cup Range(native)
                 /\ partial' = (partial /\ ~upgrade)
<1>1. native \in Seq(Target) /\ Range(native) \subseteq Target
  <2>1. native \in Seq(Target)
    BY DEF TypeOK, InstallTypeOK
  <2> QED
    BY <2>1, RangeLaw
<1>2. CASE native = << >>
  BY <1>2 DEF NativeStage
<1>3. CASE native # << >> /\ outcome' = [outcome EXCEPT !["native"] = FALSE] /\ UNCHANGED << installed, done, partial >>
  BY <1>3 DEF NativeStage
<1>4. CASE /\ native # << >>
           /\ ~(outcome' = [outcome EXCEPT !["native"] = FALSE] /\ UNCHANGED << installed, done, partial >>)
  <2>1. /\ \A i \in DOMAIN native : SyncPackage(native[i].repo, native[i].pkg) # None
        /\ installed' = installed \cup WithDependencies({ Real(t) : t \in Range(native) })
        /\ outcome' = [outcome EXCEPT !["native"] = TRUE]
        /\ done' = done \cup Range(native)
        /\ partial' = (partial /\ PacmanOp = "-S")
    BY <1>4 DEF NativeStage
  <2>2. \A t \in Target : Real(t) \in Package
    BY RealLaw DEF Target
  <2> DEFINE R == { Real(t) : t \in Range(native) }
  <2>3. R \in SUBSET Package /\ \A t \in Range(native) : Real(t) \in R
    BY <1>1, <2>2
  <2> HIDE DEF R
  <2>4. WithDependencies(R) \subseteq Package /\ R \subseteq WithDependencies(R)
    BY <2>3, DependenciesType
  <2>5. installed' = installed \cup WithDependencies(R)
    BY <2>1 DEF R
  <2>6. \A t \in Range(native) : SyncPackage(t.repo, t.pkg) # None
    BY <1>1, <2>1 DEF Range
  <2>7. installed \subseteq Package /\ upgrade \in BOOLEAN /\ partial \in BOOLEAN
    BY DEF TypeOK, InstallTypeOK
  <2>8. PacmanOp = "-S" <=> ~upgrade
    BY <2>7 DEF PacmanOp, Operation
  <2>9. partial' = (partial /\ ~upgrade)
    BY <2>1, <2>7, <2>8
  <2>10. UNCHANGED << asking, planning, result, records, edits, cacheVars >> /\ pc = "native" /\ pc' = "aur"
    BY DEF NativeStage
  <2> QED
    BY <1>4, <2>1, <2>3, <2>4, <2>5, <2>6, <2>7, <2>9, <2>10
<1> QED
  BY <1>2, <1>3, <1>4

LEMMA AurShape ==
    ASSUME TypeOK, AurStage
    PROVE  /\ UNCHANGED << asking, planning, result, records, edits, cacheVars >>
           /\ pc = "aur" /\ pc' = "save"
           /\ installed \subseteq installed' /\ installed' \subseteq Package
           /\ \/ (aur = << >> \/ outcome["native"] = FALSE) /\ UNCHANGED << installed, stages >>
              \/ /\ aur # << >> /\ outcome["native"] # FALSE
                 /\ outcome' = [outcome EXCEPT !["aur"] = FALSE] /\ UNCHANGED << done, partial >>
              \/ /\ aur # << >> /\ outcome["native"] # FALSE
                 /\ outcome' = [outcome EXCEPT !["aur"] = TRUE]
                 /\ \A t \in Range(aur) : t.pkg \in installed'
                 /\ done' = done \cup Range(aur)
                 /\ native # << >> => UNCHANGED partial
                 /\ partial' \in BOOLEAN
<1>1. /\ aur \in Seq([repo : {None}, pkg : Package])
      /\ installed \subseteq Package /\ upgrade \in BOOLEAN /\ partial \in BOOLEAN
  BY DEF TypeOK, InstallTypeOK
<1>2. Range(aur) \subseteq [repo : {None}, pkg : Package]
  BY <1>1, RangeLaw
<1>3. Names(Range(aur)) \in SUBSET Package /\ \A t \in Range(aur) : t.pkg \in Names(Range(aur))
  BY <1>2 DEF Names
<1>4. \A S \in SUBSET Names(Range(aur)) : WithDependencies(S) \subseteq Package /\ S \subseteq WithDependencies(S)
  BY <1>3, DependenciesType
<1>5. UNCHANGED << asking, planning, result, records, edits, cacheVars >> /\ pc = "aur" /\ pc' = "save"
  BY DEF AurStage
<1>6. CASE aur = << >> \/ outcome["native"] = FALSE
  BY <1>1, <1>5, <1>6 DEF AurStage, stages
<1>7. CASE aur # << >> /\ outcome["native"] # FALSE
  <2>1. CASE outcome' = [outcome EXCEPT !["aur"] = FALSE] /\ UNCHANGED << done, partial >> /\
             \E some \in SUBSET Names(Range(aur)) : installed' = installed \cup WithDependencies(some)
    BY <1>1, <1>4, <1>5, <1>7, <2>1
  <2>2. CASE /\ installed' = installed \cup WithDependencies(Names(Range(aur)))
             /\ outcome' = [outcome EXCEPT !["aur"] = TRUE]
             /\ done' = done \cup Range(aur)
             /\ partial' = (partial \/ AurOp = "-Syu")
    <3>1. native # << >> => AurOp = "-S"
      BY DEF AurOp, Operation
    <3>2. partial' \in BOOLEAN /\ (native # << >> => partial' = partial)
      BY <1>1, <2>2, <3>1
    <3>3. \A t \in Range(aur) : t.pkg \in installed'
      BY <1>3, <1>4, <2>2
    <3>4. installed \subseteq installed' /\ installed' \subseteq Package
      BY <1>1, <1>4, <2>2
    <3> QED
      BY <1>5, <1>7, <2>2, <3>2, <3>3, <3>4
  <2> QED
    BY <1>7, <2>1, <2>2, Zenon DEF AurStage
<1> QED
  BY <1>6, <1>7

LEMMA PinRequestsLaw ==
    ASSUME NEW targets \in Seq(Target)
    PROVE  /\ PinRequests(targets) \in [Package -> TargetRepo]
           /\ \A p \in Package : PinRequests(targets)[p] # None =>
                  \E i \in DOMAIN targets : /\ targets[i].pkg = p /\ targets[i].repo # None
                                            /\ Fold(targets[i].repo) = PinRequests(targets)[p]
<1> DEFINE asked(p) == { i \in DOMAIN targets : targets[i].pkg = p /\ targets[i].repo # None }
           last(p) == CHOOSE i \in asked(p) : \A j \in asked(p) : j <= i
<1>1. PinRequests(targets) = [p \in Package |-> IF asked(p) = {} THEN None ELSE Fold(targets[last(p)].repo)]
  BY DEF PinRequests
<1>2. ASSUME NEW p \in Package, asked(p) # {}
      PROVE  last(p) \in asked(p)
  <2>1. asked(p) \in SUBSET (1 .. Len(targets)) /\ Len(targets) \in Nat
    OBVIOUS
  <2> HIDE DEF asked
  <2>2. \E i \in asked(p) : \A j \in asked(p) : j <= i
    BY <1>2, <2>1, Largest
  <2> QED
    BY <2>2
<1> HIDE DEF last
<1>3. ASSUME NEW i \in DOMAIN targets
      PROVE  Fold(targets[i].repo) \in TargetRepo
  <2>0. PICK t \in Target : t = targets[i]
    OBVIOUS
  <2>1. targets[i].repo \in TargetRepo
    BY <2>0 DEF Target
  <2> QED
    BY <2>1, FoldType
<1>4. ASSUME NEW p \in Package
      PROVE  /\ PinRequests(targets)[p] \in TargetRepo
             /\ PinRequests(targets)[p] # None =>
                  \E i \in DOMAIN targets : /\ targets[i].pkg = p /\ targets[i].repo # None
                                            /\ Fold(targets[i].repo) = PinRequests(targets)[p]
  <2>1. CASE asked(p) = {}
    <3>1. PinRequests(targets)[p] = None
      BY <1>1, <2>1
    <3> QED
      BY <3>1 DEF TargetRepo
  <2>2. CASE asked(p) # {}
    <3>1. PinRequests(targets)[p] = Fold(targets[last(p)].repo)
      <4> HIDE DEF asked
      <4> QED
        BY <1>1, <2>2
    <3>2. last(p) \in asked(p)
      BY <1>2, <2>2
    <3>3. last(p) \in DOMAIN targets /\ targets[last(p)].pkg = p /\ targets[last(p)].repo # None
      BY <3>2
    <3> QED
      BY <1>3, <3>1, <3>3
  <2> QED
    BY <2>1, <2>2
<1>5. DOMAIN PinRequests(targets) = Package /\ PinRequests(targets) = [p \in Package |-> PinRequests(targets)[p]]
  <2> HIDE DEF asked
  <2> QED
    BY <1>1
<1> HIDE DEF asked
<1> QED
  BY <1>4, <1>5


-----------------------------------------------------------------------------
(* Types.                                                                  *)

LEMMA PinsCases ==
    ASSUME TypeOK, [Next]_vars
    PROVE  \/ UNCHANGED << pins, edits >>
           \/ SourceStage \/ SavePins
           \/ /\ edits < MaxEdits /\ edits' = edits + 1
              /\ pins' \in [Package -> TargetRepo]
<1>1. CASE InstallCommand \/ NextCall \/ CleanCommand \/ CleanEnds \/ MakePlan \/ CallReturns \/ InstallFlatpak
  BY <1>1 DEF InstallCommand, NextCall, Call, CleanCommand, CleanEnds, MakePlan, CallReturns, InstallFlatpak,
     records, installVars
<1>2. CASE Capture \/ CommitCapture \/ Ended \/ UNCHANGED vars
  BY <1>2 DEF Capture, CommitCapture, Ended, vars, records, installVars
<1>3. CASE InstallStep
  BY <1>3 DEF InstallStep, Admit, LookAtLock, KeepWaiting, PartialUpgradeQuestion, Refresh,
     Route, Preflight, NativeStage, AurStage, RecordInstall, StartCleanup, Return, records, installVars
<1>4. CASE UNCHANGED << installVars, rebuildVars >>
  BY <1>4 DEF installVars, records
<1>5. CASE \E e \in PinEdits : EditPins(e[1], e[2])
  <2>1. PICK e \in PinEdits : EditPins(e[1], e[2])
    BY <1>5
  <2>2. pins \in [Package -> TargetRepo]
    BY DEF TypeOK, InstallTypeOK
  <2>3. e[1] \in Package /\ e[2] \in TargetRepo
    BY RebuildAssumption
  <2>4. pins' \in [Package -> TargetRepo]
    BY <2>1, <2>2, <2>3 DEF EditPins
  <2> QED
    BY <2>1, <2>4 DEF EditPins
<1>6. CASE \E m \in Manifests : EditManifest(m)
  <2>1. pins \in [Package -> TargetRepo]
    BY DEF TypeOK, InstallTypeOK
  <2> QED
    BY <1>6, <2>1 DEF EditManifest, records
<1> QED
  BY <1>1, <1>2, <1>3, <1>4, <1>5, <1>6 DEF Next

LEMMA SaveShape ==
    ASSUME TypeOK, SavePins
    PROVE  /\ UNCHANGED << asking, planning, stages, result, history, installed, edits, cacheVars >>
           /\ pc = "save" /\ pc' = "record"
           /\ mem' \in [Package -> TargetRepo] /\ pins' \in [Package -> TargetRepo]
           /\ \A p \in Package : pins'[p] # pins[p] => p \in Confirmed /\ pins'[p] = wanted[p]
           /\ \A p \in Package : mem'[p] # mem[p] => p \in Confirmed /\ mem'[p] = wanted[p]
<1>0. /\ mem \in [Package -> TargetRepo] /\ pins \in [Package -> TargetRepo]
      /\ wanted \in [Package -> TargetRepo]
  BY DEF TypeOK, InstallTypeOK
<1> DEFINE add(config) == [p \in Package |-> IF p \in Confirmed THEN wanted[p] ELSE config[p]]
<1>1. mem' = add(mem) /\ (pins' = pins \/ pins' = add(pins))
  BY DEF SavePins
<1>2. \A config \in [Package -> TargetRepo] : add(config) \in [Package -> TargetRepo]
  BY <1>0
<1>3. \A config : \A p \in Package : add(config)[p] # config[p] => p \in Confirmed /\ add(config)[p] = wanted[p]
  OBVIOUS
<1>4. /\ UNCHANGED << asking, planning, stages, result, history, installed, edits, cacheVars >>
      /\ pc = "save" /\ pc' = "record"
  BY DEF SavePins
<1> HIDE DEF add
<1> QED
  BY <1>0, <1>1, <1>2, <1>3, <1>4

(* InstallTypeOK without the caches, in three parts.                           *)
ControlType ==
    /\ pc \in {"admit", "source", "lock", "locked", "question", "refresh", "route", "native", "aur",
               "save", "record", "clean", "return", "end"}
    /\ request \in {None} \cup Request /\ (request = None => pc = "end")
    /\ polls \in 0 .. MaxPolls /\ edits \in 0 .. MaxEdits /\ upgrade \in BOOLEAN
    /\ partial \in BOOLEAN
    /\ result \in {None, "ok", "cleanup", "failed"}
PlanningType ==
    /\ routed \in Nat /\ (routed = 0 \/ routed \in DOMAIN request.targets)
    /\ native \in Seq(Target) /\ aur \in Seq([repo : {None}, pkg : Package])
    /\ wanted \in [Package -> TargetRepo] /\ chosen \subseteq TargetRepo \X Package
    /\ told \subseteq SUBSET Package
RecordsType ==
    /\ outcome \in [{"native", "aur"} -> {None, TRUE, FALSE}]
    /\ done \subseteq [repo : Repo \cup DOMAIN Recipes \cup {None}, pkg : Package]
    /\ installed \subseteq Package /\ history \in Seq(SUBSET Package)
    /\ mem \in [Package -> TargetRepo] /\ pins \in [Package -> TargetRepo]

LEMMA InstallTypeParts == InstallTypeOK <=> CacheTypeOK /\ ControlType /\ PlanningType /\ RecordsType
  BY DEF InstallTypeOK, ControlType, PlanningType, RecordsType

LEMMA CallShape ==
    ASSUME TypeOK, NEW r \in Request, Call(r)
    PROVE  /\ request' \in Request /\ request' = r /\ pc' = "admit" /\ polls' = 0 /\ result' = None
           /\ upgrade' \in BOOLEAN /\ partial' = FALSE
           /\ routed' = 0 /\ native' = << >> /\ aur' = << >> /\ chosen' = {} /\ told' = {} /\ done' = {}
           /\ wanted' \in [Package -> TargetRepo]
           /\ \A p \in Package : wanted'[p] # None =>
                  \E i \in DOMAIN request'.targets : /\ request'.targets[i].pkg = p
                                                     /\ request'.targets[i].repo # None
                                                     /\ Fold(request'.targets[i].repo) = wanted'[p]
           /\ outcome' \in [{"native", "aur"} -> {None, TRUE, FALSE}]
           /\ outcome'["native"] = None /\ outcome'["aur"] = None
           /\ UNCHANGED << records, installed, edits >>
<1>1. r.targets \in Seq(Target) /\ r.sysupgrade \in BOOLEAN
  BY DEF Request
<1>2. wanted' = PinRequests(r.targets) /\ request' = r
  BY DEF Call
<1>3. /\ wanted' \in [Package -> TargetRepo]
      /\ \A p \in Package : wanted'[p] # None =>
                  \E i \in DOMAIN r.targets : /\ r.targets[i].pkg = p
                                              /\ r.targets[i].repo # None
                                              /\ Fold(r.targets[i].repo) = wanted'[p]
  BY <1>1, <1>2, PinRequestsLaw, Zenon
<1>4. outcome' = [m \in {"native", "aur"} |-> None]
  BY DEF Call
<1>5. /\ request' \in Request /\ request' = r /\ pc' = "admit" /\ polls' = 0 /\ result' = None
      /\ upgrade' \in BOOLEAN /\ partial' = FALSE
      /\ routed' = 0 /\ native' = << >> /\ aur' = << >> /\ chosen' = {} /\ told' = {} /\ done' = {}
      /\ UNCHANGED << records, installed, edits >>
  BY <1>1 DEF Call
<1> QED
  BY <1>2, <1>3, <1>4, <1>5


LEMMA ControlTypeStep ==
    ASSUME TypeOK, CommandInv, SourceInv, WaitInv, [Next]_vars
    PROVE  ControlType'
<1>0. ControlType /\ MaxPolls \in Nat /\ MaxEdits \in Nat
  BY InstallTypeParts, InstallationAssumption DEF TypeOK
<1>1. edits' \in 0 .. MaxEdits
  <2>1. CASE UNCHANGED edits
    BY <1>0, <2>1 DEF ControlType
  <2>2. CASE SourceStage \/ SavePins
    BY <1>0, <2>2 DEF ControlType, SourceStage, SavePins
  <2>3. CASE edits < MaxEdits /\ edits' = edits + 1
    BY <1>0, <2>3 DEF ControlType
  <2> QED
    BY <2>1, <2>2, <2>3, PinsCases
<1>2. CASE Quiet
  BY <1>0, <1>1, <1>2 DEF Quiet, asking, stages, ControlType
<1>3. CASE \E r \in Request : Call(r)
  <2>1. PICK r \in Request : Call(r)
    BY <1>3
  <2>2. /\ request' \in Request /\ pc' = "admit" /\ polls' = 0 /\ result' = None
        /\ upgrade' \in BOOLEAN /\ partial' = FALSE
    BY <2>1, CallShape
  <2>3. request' # None /\ 0 \in 0 .. MaxPolls
    BY <1>0, <2>2, InstallationAssumption
  <2> QED
    BY <1>1, <2>2, <2>3 DEF ControlType
<1>4. CASE Admit \/ LookAtLock \/ PartialUpgradeQuestion \/ Refresh
  BY <1>0, <1>1, <1>4 DEF ControlType, Admit, LookAtLock, PartialUpgradeQuestion, Refresh, Fails,
     asking, stages
<1>5. CASE KeepWaiting
  <2>1. UNCHANGED << request, upgrade, partial >> /\ pc = "locked" /\ request \in Request
    BY <1>0, <1>5 DEF KeepWaiting, stages, ControlType
  <2>2. request.wait \in {None} \cup 0 .. MaxPolls /\ request.wait # None
    BY <2>1 DEF Request, WaitInv
  <2>3. CASE Fails /\ UNCHANGED polls
    BY <1>0, <1>1, <2>1, <2>3 DEF ControlType, Fails
  <2>4. CASE ~(polls >= request.wait) /\ pc' = "lock" /\ polls' = polls + 1 /\ UNCHANGED result
    BY <1>0, <1>1, <2>1, <2>2, <2>4 DEF ControlType
  <2> QED
    BY <1>5, <2>3, <2>4 DEF KeepWaiting
<1>6. CASE SourceStage
  BY <1>0, <1>1, <1>6, SourceShape DEF ControlType, asking
<1>7. CASE Route
  <2>1. UNCHANGED << asking, stages >>
    BY <1>7, RouteShape
  <2>2. CASE Fails
    BY <1>0, <1>1, <2>1, <2>2 DEF ControlType, Fails, asking, stages
  <2>3. CASE UNCHANGED << pc, result >>
    BY <1>0, <1>1, <2>1, <2>3 DEF ControlType, asking, stages
  <2> QED
    BY <1>7, <2>2, <2>3, RouteShape DEF Routed
<1>8. CASE Preflight
  BY <1>0, <1>1, <1>8 DEF ControlType, Preflight, Fails, asking, stages
<1>9. CASE NativeStage
  <2>1. partial' \in BOOLEAN
    BY <1>0, <1>9, NativeShape DEF stages, ControlType
  <2>2. UNCHANGED << asking, result >> /\ pc = "native" /\ pc' = "aur"
    BY <1>9 DEF NativeStage
  <2> QED
    BY <1>0, <1>1, <2>1, <2>2 DEF ControlType, asking
<1>10. CASE AurStage
  <2>1. partial' \in BOOLEAN
    BY <1>0, <1>10, AurShape DEF stages, ControlType
  <2>2. UNCHANGED << asking, result >> /\ pc = "aur" /\ pc' = "save"
    BY <1>10 DEF AurStage
  <2> QED
    BY <1>0, <1>1, <2>1, <2>2 DEF ControlType, asking
<1>11. CASE SavePins \/ RecordInstall \/ StartCleanup
  BY <1>0, <1>1, <1>11 DEF ControlType, SavePins, RecordInstall, StartCleanup, asking, stages
<1>12. CASE Return
  BY <1>0, <1>1, <1>12 DEF ControlType, Return, asking, stages
<1> QED
  BY <1>2, <1>3, <1>4, <1>5, <1>6, <1>7, <1>8, <1>9, <1>10, <1>11, <1>12, StepCases

LEMMA ConflictNotesType ==
    ASSUME NEW S \in SUBSET Package, TypeOK
    PROVE  ConflictNotes(S) \subseteq SUBSET Package
<1>1. installed \subseteq Package
  BY DEF TypeOK, InstallTypeOK
<1>2. \A p : PairsByIndex(p, S \cup installed) \subseteq S \cup installed
  BY DEF PairsByIndex
<1> QED
  BY <1>1, <1>2 DEF ConflictNotes

LEMMA PreflightShape ==
    ASSUME TypeOK, Preflight
    PROVE  \E S : /\ S = { Real(t) : t \in { t \in Range(native) : SyncPackage(t.repo, t.pkg) # None } }
                  /\ S \in SUBSET Package
                  /\ told' = told \cup ConflictNotes(S) /\ told' \subseteq SUBSET Package
<1>1. native \in Seq(Target) /\ told \subseteq SUBSET Package
  BY DEF TypeOK, InstallTypeOK
<1>2. \A t \in Range(native) : t.pkg \in Package
  <2>1. Range(native) \subseteq Target
    BY <1>1, RangeLaw
  <2> QED
    BY <2>1 DEF Target
<1>3. \A t \in Range(native) : Real(t) \in Package
  BY <1>2, RealLaw
<1>4. PICK S : S = { Real(t) : t \in { t \in Range(native) : SyncPackage(t.repo, t.pkg) # None } }
  OBVIOUS
<1>5. S \in SUBSET Package
  BY <1>3, <1>4
<1>6. told' = told \cup ConflictNotes(S)
  BY <1>4 DEF Preflight
<1> QED
  BY <1>1, <1>4, <1>5, <1>6, ConflictNotesType

LEMMA PlanningTypeStep ==
    ASSUME TypeOK, CommandInv, SourceInv, [Next]_vars
    PROVE  PlanningType'
<1>0. PlanningType /\ ControlType
  BY InstallTypeParts DEF TypeOK
<1>1. CASE UNCHANGED << planning, request >>
  BY <1>0, <1>1 DEF planning, PlanningType
<1>2. CASE \E r \in Request : Call(r)
  <2>1. /\ routed' = 0 /\ native' = << >> /\ aur' = << >> /\ chosen' = {} /\ told' = {}
        /\ wanted' \in [Package -> TargetRepo]
    BY <1>2, CallShape
  <2> QED
    BY <2>1 DEF PlanningType
<1>3. CASE Route
  <2>1. CASE UNCHANGED planning
    BY <1>1, <1>3, <2>1, RouteShape DEF asking
  <2>2. CASE \E t, r, more : Routed(t, r, more)
    <3>1. PICK t, r, more : Routed(t, r, more)
      BY <2>2
    <3>2. UNCHANGED request
      BY <1>3, RouteShape DEF asking
    <3>3. routed' \in Nat /\ routed' \in DOMAIN request'.targets
      BY <1>0, <3>1, <3>2 DEF Routed, PlanningType
    <3>4. native' \in Seq(Target) /\ aur' \in Seq([repo : {None}, pkg : Package])
      BY <1>0, <3>1 DEF Routed, PlanningType
    <3>5. Fold(r) \in TargetRepo /\ more \in SUBSET Package
      BY <3>1, FoldType DEF Routed
    <3>6. wanted' \in [Package -> TargetRepo]
      BY <1>0, <3>1, <3>5 DEF Routed, PlanningType
    <3>7. chosen' \subseteq TargetRepo \X Package
      BY <1>0, <3>1, <3>5 DEF Routed, PlanningType
    <3>8. RouteWarned(t) \subseteq Package
      BY <3>1, WarnedType DEF Routed
    <3>9. told' \subseteq SUBSET Package
      BY <1>0, <3>1, <3>8 DEF Routed, PlanningType
    <3> QED
      BY <3>3, <3>4, <3>6, <3>7, <3>9 DEF PlanningType
  <2> QED
    BY <1>3, <2>1, <2>2, RouteShape
<1>4. CASE Preflight
  <2>1. told' \subseteq SUBSET Package
    BY <1>4, PreflightShape
  <2>2. UNCHANGED << request, routed, native, aur, wanted, chosen >>
    BY <1>4 DEF Preflight, asking
  <2> QED
    BY <1>0, <2>1, <2>2 DEF PlanningType
<1>5. CASE Quiet
  BY <1>1, <1>5 DEF Quiet, asking
<1>6. CASE Admit \/ LookAtLock \/ PartialUpgradeQuestion \/ Refresh \/ KeepWaiting
  BY <1>1, <1>6 DEF Admit, LookAtLock, PartialUpgradeQuestion, Refresh, KeepWaiting, asking
<1>7. CASE SourceStage
  BY <1>1, <1>7, SourceShape DEF asking
<1>8. CASE NativeStage \/ AurStage \/ SavePins \/ RecordInstall \/ StartCleanup \/ Return
  BY <1>1, <1>8 DEF NativeStage, AurStage, SavePins, RecordInstall, StartCleanup, Return, asking
<1> QED
  BY <1>2, <1>3, <1>4, <1>5, <1>6, <1>7, <1>8, StepCases

LEMMA RecordsTypeStep ==
    ASSUME TypeOK, CommandInv, SourceInv, [Next]_vars
    PROVE  RecordsType'
<1>0. RecordsType /\ ControlType /\ PlanningType
  BY InstallTypeParts DEF TypeOK
<1>1. pins' \in [Package -> TargetRepo]
  <2>1. CASE UNCHANGED pins
    BY <1>0, <2>1 DEF RecordsType
  <2> QED
    BY <2>1, PinsCases, SourceShape, SaveShape
<1>2. CASE UNCHANGED << outcome, done, installed, history, mem >>
  BY <1>0, <1>1, <1>2 DEF RecordsType
<1>3. CASE Quiet
  BY <1>2, <1>3 DEF Quiet, stages
<1>4. CASE \E r \in Request : Call(r)
  BY <1>0, <1>1, <1>4, CallShape DEF RecordsType, records
<1>5. CASE Admit \/ LookAtLock \/ PartialUpgradeQuestion \/ Refresh \/ KeepWaiting \/ Preflight
  BY <1>2, <1>5 DEF Admit, LookAtLock, PartialUpgradeQuestion, Refresh, KeepWaiting, Preflight, stages, records
<1>6. CASE Route
  BY <1>2, <1>6, RouteShape DEF stages, records
<1>7. CASE SourceStage
  <2>1. /\ mem' \in [Package -> TargetRepo] /\ UNCHANGED outcome
        /\ done' \subseteq [repo : DOMAIN Recipes, pkg : Package]
        /\ installed' = installed \cup Names(done')
        /\ history' \in Seq(SUBSET Package)
    BY <1>7, SourceShape
  <2>2. Names(done') \subseteq Package
    BY <2>1 DEF Names
  <2>3. done' \subseteq [repo : Repo \cup DOMAIN Recipes \cup {None}, pkg : Package]
    BY <2>1
  <2> QED
    BY <1>0, <1>1, <2>1, <2>2, <2>3 DEF RecordsType
<1>8. CASE NativeStage
  <2>1. UNCHANGED << history, mem >>
    BY <1>8, NativeShape DEF records
  <2>2. CASE UNCHANGED << installed, stages >>
    BY <1>2, <2>1, <2>2 DEF stages
  <2>3. CASE outcome' = [outcome EXCEPT !["native"] = FALSE] /\ UNCHANGED << installed, done >>
    BY <1>0, <1>1, <2>1, <2>3 DEF RecordsType
  <2>4. CASE /\ outcome' = [outcome EXCEPT !["native"] = TRUE]
             /\ \A t \in Range(native) : SyncPackage(t.repo, t.pkg) # None
             /\ installed' \subseteq Package /\ done' = done \cup Range(native)
    <3>1. ASSUME NEW t \in Range(native)
          PROVE  t \in [repo : Repo \cup DOMAIN Recipes \cup {None}, pkg : Package]
      <4>1. t \in Target
        BY <1>0, RangeLaw DEF PlanningType
      <4>2. t.repo \in Repo \cup {None}
        BY <2>4, SyncLaw
      <4> QED
        BY <4>1, <4>2 DEF Target
    <3>2. done' \subseteq [repo : Repo \cup DOMAIN Recipes \cup {None}, pkg : Package]
      BY <1>0, <2>4, <3>1 DEF RecordsType
    <3> QED
      BY <1>0, <1>1, <2>1, <2>4, <3>2 DEF RecordsType
  <2> QED
    BY <1>8, <2>2, <2>3, <2>4, NativeShape
<1>9. CASE AurStage
  <2>1. UNCHANGED << history, mem >> /\ installed' \subseteq Package
    BY <1>9, AurShape DEF records
  <2>2. CASE UNCHANGED << installed, stages >>
    BY <1>2, <2>1, <2>2 DEF stages
  <2>3. CASE outcome' = [outcome EXCEPT !["aur"] = FALSE] /\ UNCHANGED done
    BY <1>0, <1>1, <2>1, <2>3 DEF RecordsType
  <2>4. CASE outcome' = [outcome EXCEPT !["aur"] = TRUE] /\ done' = done \cup Range(aur)
    <3>1. Range(aur) \subseteq [repo : {None}, pkg : Package]
      BY <1>0, RangeLaw DEF PlanningType
    <3>2. done' \subseteq [repo : Repo \cup DOMAIN Recipes \cup {None}, pkg : Package]
      BY <1>0, <2>4, <3>1 DEF RecordsType
    <3> QED
      BY <1>0, <1>1, <2>1, <2>4, <3>2 DEF RecordsType
  <2> QED
    BY <1>9, <2>2, <2>3, <2>4, AurShape
<1>10. CASE SavePins
  <2>1. mem' \in [Package -> TargetRepo] /\ UNCHANGED << stages, history, installed >>
    BY <1>10, SaveShape
  <2> QED
    BY <1>0, <1>1, <2>1 DEF RecordsType, stages
<1>11. CASE RecordInstall
  <2>1. UNCHANGED << stages, installed, mem >>
    BY <1>11 DEF RecordInstall
  <2>2. Names(done) \in SUBSET Package
    BY <1>0 DEF RecordsType, Names
  <2>3. history' \in Seq(SUBSET Package)
    BY <1>0, <1>11, <2>2 DEF RecordInstall, RecordsType
  <2> QED
    BY <1>0, <1>1, <2>1, <2>3 DEF RecordsType, stages
<1>12. CASE StartCleanup \/ Return
  BY <1>2, <1>12 DEF StartCleanup, Return, stages, records
<1> QED
  BY <1>3, <1>4, <1>5, <1>6, <1>7, <1>8, <1>9, <1>10, <1>11, <1>12, StepCases


(* The commands around an installation.                                      *)

LEMMA PinnedTargetType ==
    ASSUME NEW config \in [Package -> TargetRepo], NEW t \in Target
    PROVE  PinnedTarget(config, t) \in Target
<1>1. t.repo \in TargetRepo /\ t.pkg \in Package
  BY DEF Target
<1>2. config[t.pkg] \in TargetRepo
  BY <1>1
<1>3. [t EXCEPT !.repo = config[t.pkg]] \in Target
  BY <1>2 DEF Target
<1> QED
  BY <1>3 DEF PinnedTarget

LEMMA MappedSeq ==
    ASSUME NEW S, NEW T, NEW s \in Seq(S), NEW u, DOMAIN u = DOMAIN s, u = [i \in DOMAIN u |-> u[i]],
           \A i \in DOMAIN s : u[i] \in T
    PROVE  u \in Seq(T)
<1>1. DOMAIN s = 1 .. Len(s) /\ Len(s) \in Nat
  OBVIOUS
<1>2. u \in [1 .. Len(s) -> T]
  BY <1>1
<1> QED
  BY <1>1, <1>2, SeqDef

LEMMA PlanType ==
    ASSUME NEW config \in [Package -> TargetRepo], NEW m \in Manifest, NEW enforce
    PROVE  PlanOf(config, m, enforce) \in {Error} \cup Plan
<1> DEFINE aurs == [i \in DOMAIN m.aur |-> [m.aur[i] EXCEPT !.repo = "aur"]]
           natives == [i \in DOMAIN m.pacman |-> PinnedTarget(config, m.pacman[i])]
           missing(s) == Kept(s, { i \in DOMAIN s : s[i].pkg \notin installed })
           present(s) == { i \in DOMAIN s : enforce /\ s[i].pkg \in installed }
           install == missing(m.sources \o natives \o aurs)
           forced == Kept(m.sources, { i \in present(m.sources) :
                                  SourceOwner(config, m.sources[i].pkg) # m.sources[i].repo })
                             \o Kept(natives, { i \in present(natives) : natives[i].repo # None })
           flatpaks == [user |-> MissingFlatpaks("user", m.user),
                           system |-> MissingFlatpaks("system", m.system)]
<1>1. /\ m.sources \in Seq(Target) /\ m.pacman \in Seq(Target) /\ m.aur \in Seq(Target)
      /\ m.user \in Seq(AppTarget) /\ m.system \in Seq(AppTarget)
  BY DEF Manifest
<1>2. aurs \in Seq(Target)
  <2>1. ASSUME NEW i \in DOMAIN m.aur
        PROVE  aurs[i] \in Target
    <3>1. PICK t \in Target : t = m.aur[i]
      BY <1>1
    <3>2. aurs[i] = [t EXCEPT !.repo = "aur"]
      BY <3>1
    <3>3. "aur" \in TargetRepo
      BY DEF TargetRepo, Spelling
    <3> HIDE DEF aurs
    <3> QED
      BY <3>2, <3>3 DEF Target
  <2>2. DOMAIN aurs = DOMAIN m.aur /\ aurs = [i \in DOMAIN aurs |-> aurs[i]]
    OBVIOUS
  <2> HIDE DEF aurs
  <2> QED
    BY <1>1, <2>1, <2>2, MappedSeq
<1>3. natives \in Seq(Target)
  <2>1. ASSUME NEW i \in DOMAIN m.pacman
        PROVE  natives[i] \in Target
    <3>1. m.pacman[i] \in Target
      BY <1>1
    <3> QED
      BY <3>1, PinnedTargetType
  <2>2. DOMAIN natives = DOMAIN m.pacman /\ natives = [i \in DOMAIN natives |-> natives[i]]
    OBVIOUS
  <2> HIDE DEF natives
  <2> QED
    BY <1>1, <2>1, <2>2, MappedSeq
<1> HIDE DEF aurs, natives
<1>4. m.sources \o natives \o aurs \in Seq(Target)
  BY <1>1, <1>2, <1>3
<1>5. install \in Seq(Target)
  BY <1>4, KeptInSeq, Zenon
<1>6. forced \in Seq(Target)
  <2> DEFINE a == Kept(m.sources, { i \in present(m.sources) :
                                  SourceOwner(config, m.sources[i].pkg) # m.sources[i].repo })
             b == Kept(natives, { i \in present(natives) : natives[i].repo # None })
  <2>1. a \in Seq(Target) /\ b \in Seq(Target)
    BY <1>1, <1>3, KeptInSeq, Zenon
  <2> HIDE DEF a, b
  <2>2. a \o b \in Seq(Target)
    BY <2>1
  <2> QED
    BY <2>2 DEF a, b
<1>7. flatpaks \in [Scope -> Seq(AppTarget)]
  <2>1. MissingFlatpaks("user", m.user) \in Seq(AppTarget) /\ MissingFlatpaks("system", m.system) \in Seq(AppTarget)
    BY <1>1, KeptInSeq, Zenon DEF MissingFlatpaks
  <2> QED
    BY <2>1 DEF Scope
<1>8. \/ PlanOf(config, m, enforce) = Error
      \/ PlanOf(config, m, enforce) = [install |-> install, enforce |-> forced, flatpaks |-> flatpaks]
  BY Zenon DEF PlanOf, aurs, natives
<1> HIDE DEF install, forced, flatpaks
<1> QED
  BY <1>5, <1>6, <1>7, <1>8 DEF Plan

LEMMA PartsType ==
    ASSUME NEW targets \in Seq(Target)
    PROVE  Parts(targets) \in Seq(Seq(Target))
<1> DEFINE sources == { i \in DOMAIN targets : SourceTarget(mem, targets[i]) # None }
           a == Kept(targets, DOMAIN targets \ sources)
           b == Kept(targets, sources)
           parts == << a, b >>
<1>1. a \in Seq(Target) /\ b \in Seq(Target)
  BY KeptInSeq, Zenon
<1> HIDE DEF a, b
<1>2. parts \in Seq(Seq(Target))
  BY <1>1
<1> HIDE DEF parts
<1>3. Kept(parts, { i \in DOMAIN parts : parts[i] # << >> }) \in Seq(Seq(Target))
  BY <1>2, KeptInSeq, Zenon
<1>4. Parts(targets) = Kept(parts, { i \in DOMAIN parts : parts[i] # << >> })
  BY Zenon DEF Parts, parts, a, b
<1> QED
  BY <1>3, <1>4

LEMMA CapturedTargetType ==
    ASSUME TypeOK, NEW p \in Package
    PROVE  CapturedTarget(p) \in Target
<1> DEFINE matches == { r \in Repo : p \in Offers[r] }
           repo == IF SourceOwner(mem, p) # None THEN SourceOwner(mem, p)
              ELSE IF mem[p] = "aur" \/ matches = {} THEN "aur"
              ELSE IF mem[p] \in matches THEN mem[p]
              ELSE IF Cardinality(matches) = 1 THEN CHOOSE r \in matches : TRUE ELSE None
<1>1. SourceOwner(mem, p) # None => SourceOwner(mem, p) \in TargetRepo
  BY DEF SourceOwner, TargetRepo
<1>2. matches # {} => (CHOOSE r \in matches : TRUE) \in matches
  OBVIOUS
<1>3. matches \subseteq TargetRepo /\ "aur" \in TargetRepo /\ None \in TargetRepo
  BY DEF TargetRepo, Spelling
<1> HIDE DEF matches
<1>4. repo \in TargetRepo
  BY <1>1, <1>2, <1>3
<1>5. CapturedTarget(p) = [pkg |-> p, repo |-> repo]
  BY DEF CapturedTarget, matches
<1> HIDE DEF repo
<1> QED
  BY <1>4, <1>5 DEF Target

LEMMA ImageIsFinite ==
    ASSUME NEW S, IsFiniteSet(S), NEW f, DOMAIN f = S
    PROVE  IsFiniteSet({ f[x] : x \in S })
<1> DEFINE T == { f[x] : x \in S }
           g == [x \in S |-> f[x]]
<1>1. g \in Surjection(S, T)
  BY DEF Surjection
<1> HIDE DEF T
<1> QED
  BY <1>1, FS_Surjection DEF T


LEMMA CapturedType ==
    ASSUME TypeOK
    PROVE  Captured \in Manifest
<1> DEFINE P == installed \ Implied
           f == [p \in P |-> CapturedTarget(p)]
           targets == SetToSeq({ f[p] : p \in P })
           of(repos) == Kept(targets, { i \in DOMAIN targets : targets[i].repo \in repos })
<1>1. P \subseteq Package
  BY DEF TypeOK, InstallTypeOK
<1>2. IsFiniteSet(P) /\ DOMAIN f = P
  BY <1>1, RebuildAssumption, FS_Subset
<1>3. \A p \in P : f[p] \in Target
  BY <1>1, CapturedTargetType
<1> HIDE DEF P, f
<1>4. targets \in Seq(Target)
  <2> DEFINE T == { f[p] : p \in P }
  <2>1. IsFiniteSet(T) /\ T \subseteq Target
    BY <1>2, <1>3, ImageIsFinite
  <2> HIDE DEF T
  <2>2. SetToSeq(T) \in Seq(T)
    BY <2>1, SetToSeqLists
  <2>3. SetToSeq(T) \in Seq(Target)
    BY <2>1, <2>2
  <2> QED
    BY <2>3 DEF T
<1>5. { f[p] : p \in P } = { CapturedTarget(p) : p \in installed \ Implied }
  BY DEF f, P
<1>6. targets = SetToSeq({ CapturedTarget(p) : p \in installed \ Implied })
  BY <1>5
<1> HIDE DEF targets
<1>7. \A repos : of(repos) \in Seq(Target)
  BY <1>4, KeptInSeq, Zenon
<1> DEFINE A(s) == { a \in App : AppsSeen[s][a] # None }
           found(s) == SetToSeq({ [repo |-> AppsSeen[s][a], pkg |-> a] : a \in A(s) })
<1>8. ASSUME NEW s \in Scope
      PROVE  found(s) \in Seq(AppTarget)
  <2> DEFINE g == [a \in A(s) |-> [repo |-> AppsSeen[s][a], pkg |-> a]]
             T == { g[a] : a \in A(s) }
  <2>1. A(s) \subseteq App /\ DOMAIN g = A(s)
    OBVIOUS
  <2>2. IsFiniteSet(A(s))
    BY <2>1, RebuildAssumption, FS_Subset
  <2>3. \A a \in App : AppsSeen[s][a] \in {None} \cup Remote
    <3>1. apps[s] \in [App -> {None} \cup Remote]
      BY <1>8 DEF TypeOK
    <3> QED
      BY <1>8, <3>1 DEF AppsSeen
  <2>4. \A a \in A(s) : g[a] \in AppTarget
    BY <2>3 DEF AppTarget
  <2>5. T = { [repo |-> AppsSeen[s][a], pkg |-> a] : a \in A(s) }
    OBVIOUS
  <2> HIDE DEF g, A
  <2>6. IsFiniteSet(T) /\ T \subseteq AppTarget
    BY <2>1, <2>2, <2>4, ImageIsFinite
  <2> HIDE DEF T
  <2>7. SetToSeq(T) \in Seq(T)
    BY <2>6, SetToSeqLists
  <2>8. SetToSeq(T) \in Seq(AppTarget)
    BY <2>6, <2>7
  <2> QED
    BY <2>5, <2>8
<1>9. Captured = [sources |-> of(DOMAIN Recipes), aur |-> of({"aur"}), pacman |-> of(Repo \cup {None}),
                   user |-> found("user"), system |-> found("system")]
  BY <1>6, Zenon DEF Captured
<1>10. PICK a, b, c, d, e : /\ a = of(DOMAIN Recipes) /\ b = of({"aur"}) /\ c = of(Repo \cup {None})
                            /\ d = found("user") /\ e = found("system")
  OBVIOUS
<1>11. a \in Seq(Target) /\ b \in Seq(Target) /\ c \in Seq(Target)
  BY <1>7, <1>10, Zenon
<1>12. d \in Seq(AppTarget) /\ e \in Seq(AppTarget)
  <2>1. "user" \in Scope /\ "system" \in Scope
    BY DEF Scope
  <2> QED
    BY <1>8, <1>10, <2>1, Zenon
<1>13. Captured = [sources |-> a, aur |-> b, pacman |-> c, user |-> d, system |-> e]
  BY <1>9, <1>10, Zenon
<1> QED
  BY <1>11, <1>12, <1>13 DEF Manifest

(* TypeOK's part for the commands around an installation.                      *)
RebuildType ==
    /\ step \in {"start", "next", "call", "clean", "commit", "failed", "end"}
    /\ command \in {"install", "rebuild", "capture", "clean"}
    /\ options \in OptionsOf(command)
    /\ manifest \in Manifest /\ read \in Manifest
    /\ plan \in {None, Error} \cup Plan \cup Manifest /\ calls \in Seq(Seq(Target))
    /\ apps \in [Scope -> [App -> {None} \cup Remote]]

LEMMA RebuildCases ==
    ASSUME [Next]_vars
    PROVE  \/ UNCHANGED rebuildVars
           \/ InstallCommand \/ CleanCommand \/ CleanEnds \/ MakePlan \/ NextCall \/ CallReturns
           \/ InstallFlatpak \/ Capture \/ CommitCapture
           \/ step = "commit" /\ \E m \in Manifests : EditManifest(m)
  BY DEF Next, vars, Ended

LEMMA RebuildTypeStep ==
    ASSUME TypeOK, CommandInv, [Next]_vars
    PROVE  RebuildType'
<1>0. RebuildType /\ mem \in [Package -> TargetRepo]
  BY DEF TypeOK, RebuildType, InstallTypeOK
<1>1. CASE UNCHANGED rebuildVars
  BY <1>0, <1>1 DEF RebuildType, rebuildVars
<1>2. CASE InstallCommand \/ CleanCommand \/ CleanEnds \/ CallReturns
  <2>1. UNCHANGED << command, options, manifest, read, plan, calls, apps >>
    BY <1>2 DEF InstallCommand, CleanCommand, CleanEnds, CallReturns
  <2>2. step' \in {"call", "clean", "end", "failed", "next"}
    BY <1>2 DEF InstallCommand, CleanCommand, CleanEnds, CallReturns, Ends
  <2> QED
    BY <1>0, <2>1, <2>2 DEF RebuildType
<1>3. CASE MakePlan
  <2>1. PlanOf(mem, read, options.enforce) \in {Error} \cup Plan
    BY <1>0, PlanType DEF RebuildType
  <2>2. plan' \in {Error} \cup Plan
    BY <1>3, <2>1 DEF MakePlan
  <2>3. calls' \in Seq(Seq(Target))
    <3>1. CASE UNCHANGED calls
      BY <1>0, <3>1 DEF RebuildType
    <3>2. CASE plan' # Error /\ calls' = Parts(plan'.install) \o Parts(plan'.enforce)
      <4>1. plan'.install \in Seq(Target) /\ plan'.enforce \in Seq(Target)
        BY <2>2, <3>2 DEF Plan
      <4>2. Parts(plan'.install) \in Seq(Seq(Target)) /\ Parts(plan'.enforce) \in Seq(Seq(Target))
        BY <4>1, PartsType
      <4> QED
        BY <3>2, <4>2
    <3> QED
      BY <1>3, <3>1, <3>2 DEF MakePlan
  <2>4. step' \in {"failed", "end", "next"}
    BY <1>3 DEF MakePlan, Ends
  <2>5. UNCHANGED << command, options, manifest, read, apps >>
    BY <1>3 DEF MakePlan
  <2> QED
    BY <1>0, <2>2, <2>3, <2>4, <2>5 DEF RebuildType
<1>4. CASE NextCall
  <2>1. Tail(calls) \in Seq(Seq(Target))
    BY <1>0, <1>4 DEF RebuildType, NextCall
  <2> QED
    BY <1>0, <1>4, <2>1 DEF RebuildType, NextCall
<1>5. CASE InstallFlatpak
  <2>1. plan \in Plan
    BY <1>5 DEF InstallFlatpak, CommandInv
  <2>2. UNCHANGED << command, options, manifest, read, plan, calls >>
    BY <1>5 DEF InstallFlatpak
  <2>3. step' \in {"next", "end", "failed"}
    BY <1>5 DEF InstallFlatpak, Ends
  <2>4. CASE UNCHANGED apps
    BY <1>0, <2>2, <2>3, <2>4 DEF RebuildType
  <2>5. CASE ~UNCHANGED apps
    <3> DEFINE left(s) == LET listed == plan.flatpaks[s]
                          IN Kept(listed, { i \in DOMAIN listed : apps[s][listed[i].pkg] = None })
               s == IF left("user") # << >> THEN "user" ELSE "system"
    <3>1. s \in Scope /\ "user" \in Scope /\ "system" \in Scope
      BY DEF Scope
    <3>2. \A x \in Scope : left(x) \in Seq(AppTarget)
      <4>1. \A x \in Scope : plan.flatpaks[x] \in Seq(AppTarget)
        BY <2>1 DEF Plan
      <4> QED
        BY <4>1, KeptInSeq, Zenon
    <3>3. /\ left(s) # << >>
          /\ \E from \in (IF Head(left(s)).repo = None THEN Remote ELSE {Head(left(s)).repo}) :
                        apps' = [apps EXCEPT ![s][Head(left(s)).pkg] = from]
      <4> HIDE DEF left
      <4> QED
        BY <1>5, <2>5, Zenon DEF InstallFlatpak, left
    <3> HIDE DEF left, s
    <3>4. PICK t : t = Head(left(s))
      OBVIOUS
    <3>5. t \in AppTarget
      BY <3>1, <3>2, <3>3, <3>4
    <3>6. PICK from : /\ from \in (IF t.repo = None THEN Remote ELSE {t.repo})
                      /\ apps' = [apps EXCEPT ![s][t.pkg] = from]
      BY <3>3, <3>4
    <3>7. from \in {None} \cup Remote /\ t.pkg \in App
      BY <3>5, <3>6 DEF AppTarget
    <3>8. apps' \in [Scope -> [App -> {None} \cup Remote]]
      BY <1>0, <3>1, <3>6, <3>7 DEF RebuildType
    <3> QED
      BY <1>0, <2>2, <2>3, <3>8 DEF RebuildType
  <2> QED
    BY <2>4, <2>5
<1>6. CASE Capture
  <2>1. plan' = plan \/ plan' \in Manifest
    BY <1>6, CapturedType DEF Capture
  <2>2. step' \in {"end", "commit"}
    BY <1>6 DEF Capture, Ends
  <2>3. UNCHANGED << command, options, manifest, read, calls, apps >>
    BY <1>6 DEF Capture
  <2> QED
    BY <1>0, <2>1, <2>2, <2>3 DEF RebuildType
<1>7. CASE CommitCapture
  <2>1. plan \in Manifest
    BY <1>7 DEF CommitCapture, CommandInv
  <2>2. manifest' \in Manifest
    BY <1>0, <1>7, <2>1 DEF RebuildType, CommitCapture
  <2> QED
    BY <1>0, <1>7, <2>2 DEF RebuildType, CommitCapture, Ends
<1>8. CASE \E m \in Manifests : EditManifest(m)
  BY <1>0, <1>8, RebuildAssumption DEF RebuildType, EditManifest
<1> QED
  BY <1>1, <1>2, <1>3, <1>4, <1>5, <1>6, <1>7, <1>8, RebuildCases

LEMMA TypeStep ==
    ASSUME TypeOK, CommandInv, SourceInv, WaitInv, [Next]_vars
    PROVE  TypeOK'
<1>1. RebuildType'
  BY RebuildTypeStep
<1>2. CacheTypeOK' /\ ControlType' /\ PlanningType' /\ RecordsType'
  BY CacheTypeStep, ControlTypeStep, PlanningTypeStep, RecordsTypeStep
<1>3. InstallTypeOK'
  BY <1>2 DEF InstallTypeOK, ControlType, PlanningType, RecordsType
<1> QED
  BY <1>1, <1>3 DEF TypeOK, RebuildType

LEMMA CommandStep ==
    ASSUME TypeOK, CommandInv, SourceInv, [Next]_vars
    PROVE  CommandInv'
<1>1. CASE UNCHANGED rebuildVars
  <2>1. pc' = "end" \/ step = "call"
    <3>1. CASE step = "call"
      BY <3>1
    <3>2. CASE step # "call"
      <4>1. pc = "end"
        BY <3>2 DEF CommandInv
      <4>2. CASE Quiet
        BY <4>1, <4>2 DEF Quiet
      <4>3. CASE \E r \in Request : Call(r)
        <5>1. \/ UNCHANGED << installVars, rebuildVars >> \/ UNCHANGED vars \/ UNCHANGED pc
              \/ InstallCommand \/ NextCall
          BY <3>2, <1>1 DEF Next, Ended, CleanCommand, CleanEnds, MakePlan, CallReturns, InstallFlatpak, Capture,
             CommitCapture, EditManifest, EditPins, installVars
        <5>2. CASE InstallCommand \/ NextCall
          BY <1>1, <3>2, <5>2 DEF InstallCommand, NextCall, rebuildVars
        <5> QED
          BY <4>1, <5>1, <5>2 DEF installVars, vars
      <4> QED
        BY <3>2, <4>2, <4>3, StepCases
    <3> QED
      BY <3>1, <3>2
  <2> QED
    BY <1>1, <2>1 DEF CommandInv, rebuildVars
<1>2. CASE InstallCommand \/ CleanCommand \/ CleanEnds
  BY <1>2 DEF InstallCommand, CleanCommand, CleanEnds, CommandInv, Ends, installVars
<1>3. CASE MakePlan
  <2>1. mem \in [Package -> TargetRepo] /\ read \in Manifest
    BY DEF TypeOK, InstallTypeOK
  <2>2. plan' \in {Error} \cup Plan
    BY <1>3, <2>1, PlanType DEF MakePlan
  <2>3. UNCHANGED << pc, command >> /\ command = "rebuild" /\ step = "start"
    BY <1>3 DEF MakePlan, installVars
  <2>4. step' \in {"failed", "end", "next"} /\ (step' = "next" => plan' # Error)
    BY <1>3 DEF MakePlan, Ends
  <2> QED
    BY <2>2, <2>3, <2>4 DEF CommandInv
<1>4. CASE NextCall \/ InstallFlatpak
  BY <1>4 DEF NextCall, InstallFlatpak, CommandInv, Ends, installVars
<1>5. CASE CallReturns
  BY <1>5 DEF CallReturns, CommandInv, installVars
<1>6. CASE Capture
  BY <1>6, CapturedType DEF Capture, CommandInv, Ends, installVars
<1>7. CASE CommitCapture \/ \E m \in Manifests : EditManifest(m)
  BY <1>7 DEF CommitCapture, EditManifest, CommandInv, Ends, installVars
<1> QED
  BY <1>1, <1>2, <1>3, <1>4, <1>5, <1>6, <1>7, RebuildCases


-----------------------------------------------------------------------------
(* From the call to the lists.                                             *)

LEMMA EmptyRange == Range(<< >>) = {}
  BY DEF Range

LEMMA WaitStep ==
    ASSUME TypeOK, CommandInv, WaitInv, [Next]_vars
    PROVE  WaitInv'
<1>1. CASE UNCHANGED << pc, request >>
  BY <1>1 DEF WaitInv
<1>2. CASE Quiet
  BY <1>1, <1>2 DEF Quiet, asking
<1>3. CASE \E r \in Request : Call(r)
  BY <1>3, CallShape DEF WaitInv
<1>4. CASE LookAtLock
  <2>1. UNCHANGED request
    BY <1>4 DEF LookAtLock, asking
  <2>2. pc' = "locked" => request.wait # None
    BY <1>4 DEF LookAtLock, Fails
  <2> QED
    BY <2>1, <2>2 DEF WaitInv
<1>5. CASE Route
  BY <1>1, <1>5, RouteShape DEF WaitInv, Fails, Routed, asking
<1>6. CASE SourceStage
  BY <1>6 DEF WaitInv, SourceStage
<1>7. CASE Admit \/ KeepWaiting \/ PartialUpgradeQuestion \/ Refresh \/ Preflight
  BY <1>7 DEF WaitInv, Admit, KeepWaiting, PartialUpgradeQuestion, Refresh, Preflight, Fails, asking
<1>8. CASE NativeStage \/ AurStage \/ SavePins \/ RecordInstall \/ StartCleanup \/ Return
  BY <1>8 DEF WaitInv, NativeStage, AurStage, SavePins, RecordInstall, StartCleanup, Return
<1> QED
  BY <1>2, <1>3, <1>4, <1>5, <1>6, <1>7, <1>8, StepCases

LEMMA SourceStep ==
    ASSUME TypeOK, CommandInv, SourceInv, [Next]_vars
    PROVE  SourceInv'
<1>1. CASE pc' # "source"
  BY <1>1 DEF SourceInv
<1>2. CASE Quiet
  BY <1>2 DEF Quiet, asking, SourceInv, SourceTarget, SourceOwner
<1>3. CASE \E r \in Request : Call(r)
  BY <1>1, <1>3, CallShape
<1>4. CASE Admit /\ pc' = "source"
  <2>1. UNCHANGED << request, mem >>
    BY <1>4 DEF Admit, asking, records
  <2> DEFINE targets == request.targets
             D == \E i \in DOMAIN targets : targets[i].repo = "direct"
             S == \E i \in DOMAIN targets : SourceTarget(mem, targets[i]) # None
             A == \A i \in DOMAIN targets : SourceTarget(mem, targets[i]) # None
  <2>2. (D \/ S) /\ ~(D /\ Len(targets) > 1) /\ ~(S /\ ~A)
    BY <1>4 DEF Admit, Fails
  <2>3. targets \in Seq(Target)
    <3>1. request \in Request
      BY <1>4 DEF Admit, TypeOK, InstallTypeOK
    <3> QED
      BY <3>1 DEF Request
  <2>4. \A i \in DOMAIN targets : targets[i].repo = "direct" \/ SourceTarget(mem, targets[i]) # None
    <3>1. CASE S
      BY <2>2, <3>1
    <3>2. CASE D
      <4>1. DOMAIN targets = 1 .. Len(targets) /\ Len(targets) \in Nat /\ ~(Len(targets) > 1)
        BY <2>2, <2>3, <3>2
      <4>2. \A i, j \in DOMAIN targets : i = j
        <5> HIDE DEF targets
        <5> QED
          BY <4>1
      <4> QED
        BY <3>2, <4>2
    <3> QED
      BY <2>2, <3>1, <3>2
  <2> QED
    BY <2>1, <2>4 DEF SourceInv, SourceTarget, SourceOwner
<1>5. CASE Route
  <2>1. pc = "route" /\ (Fails \/ UNCHANGED pc)
    BY <1>5, RouteShape DEF Routed
  <2> QED
    BY <1>1, <2>1 DEF Fails
<1>6. CASE SourceStage \/ LookAtLock \/ KeepWaiting \/ PartialUpgradeQuestion \/ Refresh \/ Preflight
  BY <1>1, <1>6 DEF SourceStage, LookAtLock, KeepWaiting, PartialUpgradeQuestion, Refresh, Preflight, Fails
<1>7. CASE NativeStage \/ AurStage \/ SavePins \/ RecordInstall \/ StartCleanup \/ Return
  BY <1>1, <1>7 DEF NativeStage, AurStage, SavePins, RecordInstall, StartCleanup, Return
<1> QED
  BY <1>1, <1>2, <1>3, <1>4, <1>5, <1>6, <1>7, StepCases

LEMMA RouteStep ==
    ASSUME TypeOK, CommandInv, SourceInv, RouteInv, [Next]_vars
    PROVE  RouteInv'
<1>0. routed \in Nat
  BY DEF TypeOK, InstallTypeOK
<1>1. CASE UNCHANGED << planning, request >> /\ pc' \notin {"native", "aur"} \cup After /\
           (pc' \in Before => pc \in Before /\ UNCHANGED partial)
  BY <1>1 DEF planning, RouteInv, After
<1>2. CASE Quiet
  BY <1>2 DEF Quiet, planning, stages, asking, RouteInv
<1>3. CASE \E r \in Request : Call(r)
  <2>1. /\ pc' = "admit" /\ routed' = 0 /\ native' = << >> /\ aur' = << >> /\ partial' = FALSE
    BY <1>3, CallShape
  <2> QED
    BY <2>1 DEF RouteInv, After
<1>4. CASE Admit \/ LookAtLock \/ PartialUpgradeQuestion \/ KeepWaiting \/ Refresh
  <2>1. UNCHANGED << planning, request >>
    BY <1>4 DEF Admit, LookAtLock, PartialUpgradeQuestion, KeepWaiting, Refresh, asking
  <2>2. pc \in Before /\ pc' \in Before \cup {"route", "end"}
    BY <1>4 DEF Admit, LookAtLock, PartialUpgradeQuestion, KeepWaiting, Refresh, Fails, Before
  <2>3. pc' \in Before => UNCHANGED partial
    BY <1>4 DEF Admit, LookAtLock, PartialUpgradeQuestion, KeepWaiting, Refresh, Fails, Before, stages
  <2> QED
    BY <1>1, <2>1, <2>2, <2>3 DEF Before, After
<1>5. CASE SourceStage
  BY <1>1, <1>5 DEF SourceStage, Before, After, asking
<1>6. CASE Route
  <2>1. UNCHANGED request /\ pc = "route"
    BY <1>6, RouteShape DEF asking
  <2>2. CASE Fails /\ UNCHANGED planning
    BY <1>1, <2>1, <2>2 DEF Fails, Before, After
  <2>3. CASE \E t, r, more : Routed(t, r, more)
    <3>1. PICK t, r, more : Routed(t, r, more)
      BY <2>3
    <3>2. t = request.targets[routed + 1] /\ routed' = routed + 1 /\ UNCHANGED pc
      BY <3>1 DEF Routed
    <3>3. Range(native) \subseteq Range(native') /\ Range(aur) \subseteq Range(aur')
      BY <3>1, Zenon DEF Routed, Appended
    <3>4. \E x \in Range(native') \cup Range(aur') : x.pkg = t.pkg
      <4>1. CASE ToHelper(r)
        <5>1. [repo |-> None, pkg |-> t.pkg] \in Range(aur')
          BY <3>1, <4>1 DEF Routed, Appended
        <5> QED
          BY <5>1
      <4>2. CASE ~ToHelper(r)
        <5>1. [repo |-> r, pkg |-> t.pkg] \in Range(native')
          BY <3>1, <4>2 DEF Routed, Appended
        <5> QED
          BY <5>1
      <4> QED
        BY <4>1, <4>2
    <3>5. ASSUME NEW i \in 1 .. routed'
          PROVE  \E x \in Range(native') \cup Range(aur') : x.pkg = request'.targets[i].pkg
      <4>1. CASE i \in 1 .. routed
        BY <2>1, <3>3, <4>1 DEF RouteInv
      <4>2. CASE i = routed + 1
        BY <2>1, <3>2, <3>4, <4>2
      <4> QED
        BY <1>0, <3>2, <4>1, <4>2
    <3> QED
      BY <2>1, <3>2, <3>5 DEF RouteInv, Before, After
  <2> QED
    BY <1>6, <2>2, <2>3, RouteShape
<1>7. CASE Preflight
  BY <1>7 DEF Preflight, RouteInv, Before, After, Fails, asking, stages
<1>8. CASE NativeStage \/ AurStage \/ SavePins \/ RecordInstall \/ StartCleanup \/ Return
  <2>1. UNCHANGED << planning, request >>
    BY <1>8 DEF NativeStage, AurStage, SavePins, RecordInstall, StartCleanup, Return, asking
  <2>2. pc \in {"native", "aur"} \cup After /\ pc' \notin Before
    BY <1>8 DEF NativeStage, AurStage, SavePins, RecordInstall, StartCleanup, Return, Before, After
  <2> QED
    BY <2>1, <2>2 DEF planning, RouteInv
<1> QED
  BY <1>2, <1>3, <1>4, <1>5, <1>6, <1>7, <1>8, StepCases

LEMMA OriginStep ==
    ASSUME TypeOK, CommandInv, SourceInv, OriginInv, [Next]_vars
    PROVE  OriginInv'
<1>1. CASE pc' = "end"
  BY <1>1 DEF OriginInv
<1>2. CASE UNCHANGED << request, native, aur, wanted, chosen >> /\ (pc' = pc \/ pc # "end")
  BY <1>2 DEF OriginInv, Bare, Requested
<1>3. CASE Quiet
  BY <1>2, <1>3 DEF Quiet, asking, planning
<1>4. CASE \E r \in Request : Call(r)
  <2>1. native' = << >> /\ aur' = << >>
    BY <1>4, CallShape
  <2>2. \A p \in Package : wanted'[p] # None => Requested(p, wanted[p])'
    BY <1>4, CallShape DEF Requested
  <2> QED
    BY <2>1, <2>2, EmptyRange DEF OriginInv
<1>5. CASE Route /\ pc' # "end"
  <2>1. UNCHANGED request /\ pc = "route"
    BY <1>5, RouteShape DEF asking
  <2>2. PICK t, r, more : Routed(t, r, more)
    BY <1>5, RouteShape DEF Fails
  <2>3. /\ t \in Target /\ r = RouteRepo(t) /\ t = request.targets[routed + 1] /\ routed + 1 \in DOMAIN request.targets
        /\ more \in SUBSET Package /\ (t.repo = None => more = {})
        /\ wanted' = [p \in Package |-> IF p \in more THEN Fold(r) ELSE wanted[p]]
        /\ chosen' = chosen \cup { << Fold(r), p >> : p \in more }
    BY <2>2 DEF Routed
  <2>4. \A p, s : Requested(p, s) => Requested(p, s)'
    BY <2>1, <2>3 DEF Requested
  <2>5. \A p : Bare(p) <=> Bare(p)'
    BY <2>1 DEF Bare
  <2>6. t.repo = None => Bare(t.pkg)' /\ (~ToHelper(r) => r = None)
    <3>1. t.repo = None => t = [repo |-> None, pkg |-> t.pkg]
      BY <2>3 DEF Target
    <3>2. Fold("aur") = "aur" /\ "aur" # None
      BY NoneFacts DEF Fold
    <3> QED
      BY <2>1, <2>3, <3>1, <3>2 DEF Bare, RouteRepo, ToHelper
  <2>7. t.repo # None => /\ r = t.repo /\ Requested(t.pkg, Fold(r))'
                         /\ \A p \in more : Requested(p, Fold(r))'
    BY <2>1, <2>3 DEF RouteRepo, Requested
  <2>8. \A x \in Range(native') : \/ x.repo = None /\ Bare(x.pkg)'
                                  \/ x.repo # None /\ Fold(x.repo) # "aur" /\ Requested(x.pkg, Fold(x.repo))'
    <3>1. CASE ToHelper(r)
      <4>1. UNCHANGED native
        BY <2>2, <3>1 DEF Routed
      <4> QED
        BY <2>1, <2>4, <2>5, <4>1 DEF OriginInv
    <3>2. CASE ~ToHelper(r)
      <4>1. SUFFICES ASSUME NEW x \in Range(native')
                     PROVE  \/ x.repo = None /\ Bare(x.pkg)'
                            \/ x.repo # None /\ Fold(x.repo) # "aur" /\ Requested(x.pkg, Fold(x.repo))'
        OBVIOUS
      <4>2. CASE x \in Range(native)
        BY <2>1, <2>4, <2>5, <4>2 DEF OriginInv
      <4>3. CASE x \notin Range(native)
        <5>1. PICK p \in {t.pkg} \cup more : x = [repo |-> r, pkg |-> p]
          BY <2>2, <3>2, <4>3 DEF Routed, Appended
        <5>2. x.repo = r /\ x.pkg = p
          BY <5>1
        <5>3. t.repo # None => Fold(r) # "aur"
          BY <2>7, <3>2 DEF ToHelper
        <5>4. CASE t.repo = None
          BY <2>3, <2>6, <3>2, <5>1, <5>2, <5>4
        <5>5. CASE t.repo # None
          BY <2>7, <5>1, <5>2, <5>3, <5>5
        <5> QED
          BY <5>4, <5>5
      <4> QED
        BY <4>2, <4>3
    <3> QED
      BY <3>1, <3>2
  <2>9. \A x \in Range(aur') : Bare(x.pkg)' \/ Requested(x.pkg, "aur")'
    <3>1. CASE ~ToHelper(r)
      <4>1. UNCHANGED aur
        BY <2>2, <3>1 DEF Routed
      <4> QED
        BY <2>1, <2>4, <2>5, <4>1 DEF OriginInv
    <3>2. CASE ToHelper(r)
      <4>1. SUFFICES ASSUME NEW x \in Range(aur')
                     PROVE  Bare(x.pkg)' \/ Requested(x.pkg, "aur")'
        OBVIOUS
      <4>2. CASE x \in Range(aur)
        BY <2>1, <2>4, <2>5, <4>2 DEF OriginInv
      <4>3. CASE x \notin Range(aur)
        <5>1. PICK p \in {t.pkg} \cup more : x = [repo |-> None, pkg |-> p]
          BY <2>2, <3>2, <4>3 DEF Routed, Appended
        <5>2. x.pkg = p /\ Fold(r) = "aur"
          BY <3>2, <5>1 DEF ToHelper
        <5>4. CASE t.repo = None
          BY <2>3, <2>6, <5>1, <5>2, <5>4
        <5>5. CASE t.repo # None
          BY <2>7, <5>1, <5>2, <5>5
        <5> QED
          BY <5>4, <5>5
      <4> QED
        BY <4>2, <4>3
    <3> QED
      BY <3>1, <3>2
  <2>10. ASSUME NEW p \in Package, wanted'[p] # None
         PROVE  Requested(p, wanted[p])'
    <3>1. CASE p \in more
      BY <2>3, <3>1 DEF Requested
    <3>2. CASE p \notin more
      BY <2>1, <2>3, <2>4, <2>10, <3>2 DEF OriginInv
    <3> QED
      BY <3>1, <3>2
  <2> QED
    BY <2>8, <2>9, <2>10 DEF OriginInv
<1>6. CASE Preflight
  BY <1>2, <1>6 DEF Preflight, asking
<1>7. CASE Admit \/ LookAtLock \/ PartialUpgradeQuestion \/ KeepWaiting \/ Refresh
  BY <1>2, <1>7 DEF Admit, LookAtLock, PartialUpgradeQuestion, KeepWaiting, Refresh, asking, planning
<1>8. CASE NativeStage \/ AurStage \/ SavePins \/ RecordInstall \/ StartCleanup \/ Return
  BY <1>2, <1>8 DEF NativeStage, AurStage, SavePins, RecordInstall, StartCleanup, Return, asking, planning
<1>9. CASE SourceStage
  BY <1>1, <1>9 DEF SourceStage
<1> QED
  BY <1>1, <1>3, <1>4, <1>5, <1>6, <1>7, <1>8, <1>9, StepCases


-----------------------------------------------------------------------------
(* What was shown.                                                         *)

LEMMA ShownIsMonotonic ==
    ASSUME NEW t, Shown(t), told \subseteq told', UNCHANGED installed
    PROVE  Shown(t)'
  BY DEF Shown, Needs

(* A target of a sync repository is shown when it is routed.                   *)
LEMMA RoutedIsShown ==
    ASSUME TypeOK, NEW t \in Target, ~ToHelper(RouteRepo(t)), SyncPackage(RouteRepo(t), t.pkg) # None,
           t.repo # None => Fold(RouteRepo(t)) \in DOMAIN Offers,
           UNCHANGED installed, told' = told \cup { {p} : p \in RouteWarned(t) }
    PROVE  Shown([repo |-> RouteRepo(t), pkg |-> t.pkg])'
<1>1. PICK r : r = RouteRepo(t)
  OBVIOUS
<1>2. t.pkg \in Package
  BY DEF Target
<1>3. r = t.repo /\ Fold(r) # "aur"
  <2>1. Fold("aur") = "aur" /\ "aur" # None
    BY NoneFacts DEF Fold
  <2>2. "aur" # Fold(None)
    BY NoneFacts DEF Fold
  <2> QED
    BY <1>1, <2>1, <2>2 DEF RouteRepo, ToHelper
<1>4. [repo |-> r, pkg |-> t.pkg] = t /\ [t EXCEPT !.repo = r] = t
  BY <1>3 DEF Target
<1>5. RouteWarned(t) = DelayWarnings(t, r)
  BY <1>1, <1>3 DEF RouteWarned
<1>6. Described(t, r) = Real(t)
  BY <1>3, <1>4 DEF Described
<1>7. ASSUME NEW n \in Needs(t), ~Satisfied(installed, n.pkg),
             << SyncPackage(n.repo, n.pkg), Real(n) >> \in Young
      PROVE  Real(n) \in RouteWarned(t)
  <2>1. CASE n = t
    <3>1. TooYoung(r, t.pkg)
      BY <1>3, <1>4, <1>7, <2>1 DEF TooYoung
    <3> QED
      BY <1>5, <1>6, <2>1, <3>1 DEF DelayWarnings
  <2>2. CASE n # t
    <3>1. PICK d \in DependsOn[Real(t)] : n = [repo |-> None, pkg |-> d]
      <4>1. n \in [repo : {None}, pkg : DependsOn[Real(t)]]
        BY <1>7, <2>2 DEF Needs
      <4>2. n = [repo |-> None, pkg |-> n.pkg] /\ n.pkg \in DependsOn[Real(t)]
        BY <4>1
      <4> QED
        BY <4>2
    <3>2. Fold(None) = None /\ None # "aur" /\ n.repo = None /\ n.pkg = d
      BY <3>1, NoneFacts DEF Fold
    <3>3. TooYoung(None, d)
      BY <1>7, <3>1, <3>2 DEF TooYoung
    <3> QED
      BY <1>5, <1>6, <3>1, <3>3 DEF DelayWarnings
  <2> QED
    BY <2>1, <2>2
<1>8. ASSUME NEW n \in Needs(t), ~Satisfied(installed', n.pkg),
             << SyncPackage(n.repo, n.pkg), Real(n) >> \in Young
      PROVE  {Real(n)} \in told'
  BY <1>7, <1>8
<1>9. Shown(t)'
  BY <1>8, Zenon DEF Shown, Needs
<1> QED
  BY <1>1, <1>4, <1>9

LEMMA WarnStep ==
    ASSUME TypeOK, CommandInv, SourceInv, RouteInv, WarnInv, [Next]_vars
    PROVE  WarnInv'
<1>1. CASE pc' \notin {"route", "native"}
  BY <1>1 DEF WarnInv
<1>2. CASE UNCHANGED << native, chosen, told, installed >> /\ (pc' = pc \/ pc \in {"route", "native"})
  BY <1>2 DEF WarnInv, Shown, Needs
<1>3. CASE Quiet
  BY <1>2, <1>3 DEF Quiet, planning
<1>4. CASE \E r \in Request : Call(r)
  BY <1>1, <1>4, CallShape
<1>5. CASE Admit \/ LookAtLock \/ PartialUpgradeQuestion \/ KeepWaiting
  BY <1>1, <1>5 DEF Admit, LookAtLock, PartialUpgradeQuestion, KeepWaiting, Fails
<1>6. CASE Refresh
  <2>1. UNCHANGED native /\ native = << >>
    BY <1>6 DEF Refresh, planning, RouteInv, Before
  <2> QED
    BY <2>1, EmptyRange DEF WarnInv
<1>7. CASE SourceStage
  BY <1>1, <1>7 DEF SourceStage
<1>8. CASE Route
  <2>1. UNCHANGED installed /\ pc = "route"
    BY <1>8, RouteShape
  <2>2. CASE Fails
    BY <1>1, <2>2 DEF Fails
  <2>3. CASE \E t, r, more : Routed(t, r, more)
    <3>1. PICK t, r, more : Routed(t, r, more)
      BY <2>3
    <3>2. /\ t \in Target /\ r = RouteRepo(t) /\ (t.repo # None => Fold(r) \in DOMAIN Offers)
          /\ chosen' = chosen \cup { << Fold(r), p >> : p \in more }
          /\ told' = told \cup { {p} : p \in RouteWarned(t) }
      BY <3>1 DEF Routed
    <3>3. ASSUME NEW x \in Range(native')
          PROVE  \/ SyncPackage(x.repo, x.pkg) = None
                 \/ \E c \in chosen' : c[2] = x.pkg
                 \/ Shown(x)'
      <4>1. CASE x \in Range(native)
        <5>1. told \subseteq told' /\ chosen \subseteq chosen'
          BY <3>2
        <5> QED
          BY <2>1, <4>1, <5>1, ShownIsMonotonic DEF WarnInv
      <4>2. CASE x \notin Range(native)
        <5>1. ~ToHelper(r)
          BY <3>1, <3>3, <4>2 DEF Routed
        <5>2. PICK p \in {t.pkg} \cup more : x = [repo |-> r, pkg |-> p]
          BY <3>1, <3>3, <4>2, <5>1 DEF Routed, Appended
        <5>3. CASE p \in more
          <6>1. << Fold(r), p >> \in chosen' /\ << Fold(r), p >>[2] = p /\ x.pkg = p
            BY <3>2, <5>2, <5>3
          <6> QED
            BY <6>1
        <5>4. CASE p = t.pkg
          BY <2>1, <3>2, <5>1, <5>2, <5>4, RoutedIsShown
        <5> QED
          BY <5>3, <5>4
      <4> QED
        BY <4>1, <4>2
    <3> QED
      BY <3>3 DEF WarnInv
  <2> QED
    BY <1>8, <2>2, <2>3, RouteShape
<1>9. CASE Preflight
  <2>1. told \subseteq told' /\ UNCHANGED << native, chosen, installed >> /\ pc = "route"
    BY <1>9 DEF Preflight
  <2> QED
    BY <2>1, ShownIsMonotonic DEF WarnInv
<1>10. CASE NativeStage \/ AurStage \/ SavePins \/ RecordInstall \/ StartCleanup \/ Return
  BY <1>1, <1>10 DEF NativeStage, AurStage, SavePins, RecordInstall, StartCleanup, Return
<1> QED
  BY <1>3, <1>4, <1>5, <1>6, <1>7, <1>8, <1>9, <1>10, StepCases

(* By whatever name two packages conflict, the indexes lead from the candidate *)
(* to the other one.                                                       *)
LEMMA IndexesFindConflicts ==
    ASSUME NEW p, NEW packages, NEW q \in packages, Conflicting(p, q)
    PROVE  q \in PairsByIndex(p, packages)
  BY DEF Conflicting, PairsByIndex, Satisfied

LEMMA WarningsStep ==
    ASSUME TypeOK, CommandInv, SourceInv, RouteInv, WarnInv, WarningsAreComplete, [Next]_vars
    PROVE  WarningsAreComplete'
<1>1. CASE pc' # "native"
  BY <1>1 DEF WarningsAreComplete
<1>2. CASE Quiet
  BY <1>2 DEF Quiet, asking, planning, WarningsAreComplete, Needs
<1>3. CASE \E r \in Request : Call(r)
  BY <1>1, <1>3, CallShape
<1>4. CASE Admit \/ LookAtLock \/ PartialUpgradeQuestion \/ KeepWaiting \/ Refresh \/ SourceStage
  BY <1>1, <1>4 DEF Admit, LookAtLock, PartialUpgradeQuestion, KeepWaiting, Refresh, SourceStage, Fails
<1>5. CASE Route
  <2>1. pc = "route" /\ (Fails \/ UNCHANGED pc)
    BY <1>5, RouteShape DEF Routed
  <2> QED
    BY <1>1, <2>1 DEF Fails
<1>6. CASE Preflight /\ pc' = "native" /\ native # << >> /\ ~upgrade
  <2>1. \A i \in DOMAIN native : SyncPackage(native[i].repo, native[i].pkg) # None
    BY <1>6 DEF Preflight, Fails
  <2>2. \A t \in Range(native) : SyncPackage(t.repo, t.pkg) # None
    BY <2>1 DEF Range
  <2>3. PICK S : /\ S = { Real(t) : t \in { t \in Range(native) : SyncPackage(t.repo, t.pkg) # None } }
                 /\ told' = told \cup ConflictNotes(S)
    BY <1>6, PreflightShape
  <2>4. S = { Real(t) : t \in Range(native) }
    BY <2>2, <2>3
  <2>5. UNCHANGED << native, chosen, installed, upgrade >>
    BY <1>6 DEF Preflight, asking
  <2>6. ASSUME NEW p \in S, NEW q \in S \cup installed, p # q, Conflicting(p, q)
        PROVE  {p, q} \in ConflictNotes(S)
    <3>1. q \in PairsByIndex(p, S \cup installed)
      BY <2>6, IndexesFindConflicts
    <3> QED
      BY <2>6, <3>1 DEF ConflictNotes
  <2>7. ASSUME NEW t \in Range(native), \A c \in chosen : c[2] # t.pkg
        PROVE  Shown(t)'
    <3>1. Shown(t)
      BY <1>6, <2>2, <2>7 DEF WarnInv, Preflight
    <3>2. told \subseteq told'
      BY <2>3
    <3> QED
      BY <2>5, <3>1, <3>2, ShownIsMonotonic
  <2>8. \A p \in S, q \in S \cup installed : p # q /\ Conflicting(p, q) => {p, q} \in told'
    BY <2>3, <2>6
  <2> QED
    BY <2>4, <2>5, <2>7, <2>8, Zenon DEF WarningsAreComplete, Shown
<1>7. CASE Preflight /\ ~(pc' = "native" /\ native # << >> /\ ~upgrade)
  BY <1>7 DEF Preflight, WarningsAreComplete, asking
<1>8. CASE NativeStage \/ AurStage \/ SavePins \/ RecordInstall \/ StartCleanup \/ Return
  BY <1>1, <1>8 DEF NativeStage, AurStage, SavePins, RecordInstall, StartCleanup, Return
<1> QED
  BY <1>2, <1>3, <1>4, <1>5, <1>6, <1>7, <1>8, StepCases


-----------------------------------------------------------------------------
(* The transaction.                                                        *)

LEMMA SatisfiedIsMonotonic ==
    ASSUME NEW S, NEW T, S \subseteq T, NEW p, Satisfied(S, p)
    PROVE  Satisfied(T, p)
  BY DEF Satisfied

LEMMA StageStep ==
    ASSUME TypeOK, CommandInv, SourceInv, RouteInv, StageInv, [Next]_vars
    PROVE  StageInv'
<1>0. /\ DOMAIN outcome = {"native", "aur"} /\ result \in {None, "ok", "cleanup", "failed"}
      /\ outcome \in [{"native", "aur"} -> {None, TRUE, FALSE}]
  BY DEF TypeOK, InstallTypeOK
<1>a. None # TRUE /\ None # FALSE
  BY NoneFacts
<1>1. CASE UNCHANGED << outcome, done, installed >> /\ pc' \in Before \cup {"route", "native", "end"}
           /\ (pc' = "end" \/ UNCHANGED result) /\ (pc' = "end" \/ pc \in Before \cup {"route", "native"})
  BY <1>1 DEF StageInv, Before, After
<1>2. CASE Quiet
  BY <1>2 DEF Quiet, planning, stages, asking, StageInv, NativeOver, AurOver, DoneBy
<1>3. CASE \E r \in Request : Call(r)
  <2>1. /\ pc' = "admit" /\ outcome'["native"] = None /\ outcome'["aur"] = None /\ done' = {} /\ result' = None
    BY <1>3, CallShape
  <2> QED
    BY <2>1 DEF StageInv, Before, After
<1>4. CASE Admit \/ LookAtLock \/ PartialUpgradeQuestion \/ KeepWaiting \/ Refresh
  <2>1. UNCHANGED << outcome, done, installed >>
    BY <1>4 DEF Admit, LookAtLock, PartialUpgradeQuestion, KeepWaiting, Refresh, stages
  <2>2. pc \in Before /\ pc' \in Before \cup {"route", "end"} /\ (pc' = "end" \/ UNCHANGED result)
    BY <1>4 DEF Admit, LookAtLock, PartialUpgradeQuestion, KeepWaiting, Refresh, Fails, Before
  <2> QED
    BY <1>1, <2>1, <2>2
<1>5. CASE SourceStage
  <2>1. pc' = "end" /\ installed' = installed \cup Names(done')
    BY <1>5, SourceShape
  <2>2. \A t \in done' : Satisfied(installed', t.pkg)
    BY <2>1 DEF Names, Satisfied
  <2> QED
    BY <2>1, <2>2 DEF StageInv, Before, After
<1>6. CASE Route
  <2>1. UNCHANGED << outcome, done, installed >> /\ pc = "route"
    BY <1>6, RouteShape DEF stages
  <2>2. (pc' = "end" \/ UNCHANGED result) /\ pc' \in {"route", "end"}
    BY <1>6, <2>1, RouteShape DEF Routed, Fails
  <2> QED
    BY <1>1, <2>1, <2>2
<1>7. CASE Preflight
  BY <1>1, <1>7 DEF Preflight, stages, Fails
<1>8. CASE NativeStage
  <2>1. /\ UNCHANGED << upgrade, native, aur, result >> /\ pc = "native" /\ pc' = "aur"
    BY <1>8, NativeShape DEF asking, planning
  <2>2. outcome["native"] = None /\ outcome["aur"] = None /\ done = {} /\ result = None
    BY <2>1 DEF StageInv
  <2>3. CASE native = << >> /\ UNCHANGED << installed, stages >>
    BY <1>a, <2>1, <2>2, <2>3 DEF StageInv, stages, NativeOver, DoneBy, Before, After
  <2>4. CASE native # << >> /\ outcome' = [outcome EXCEPT !["native"] = FALSE] /\ UNCHANGED << installed, done, partial >>
    BY <1>0, <1>a, <2>1, <2>2, <2>4 DEF StageInv, stages, NativeOver, DoneBy, Before, After
  <2>5. CASE /\ native # << >> /\ outcome' = [outcome EXCEPT !["native"] = TRUE]
             /\ \A t \in Range(native) : SyncPackage(t.repo, t.pkg) # None /\ Real(t) \in installed'
             /\ done' = done \cup Range(native)
             /\ partial' = (partial /\ ~upgrade)
    <3>1. outcome'["native"] = TRUE /\ outcome'["aur"] = None /\ done' = Range(native)
      BY <1>0, <2>2, <2>5
    <3>2. ASSUME NEW t \in Range(native)
          PROVE  Satisfied(installed', t.pkg)
      <4>1. t \in Target
        BY RangeLaw DEF TypeOK, InstallTypeOK
      <4>2. t.pkg \in Package
        BY <4>1 DEF Target
      <4>3. Satisfied({Real(t)}, t.pkg) /\ {Real(t)} \subseteq installed'
        BY <2>5, <4>2, RealLaw
      <4> QED
        BY <4>3, SatisfiedIsMonotonic
    <3>3. NativeOver'
      BY <1>a, <2>1, <2>5, <3>1 DEF NativeOver
    <3>4. DoneBy'
      BY <2>1, <3>1 DEF DoneBy
    <3> QED
      BY <2>1, <2>2, <3>1, <3>2, <3>3, <3>4 DEF StageInv, Before, After
  <2> QED
    BY <1>8, <2>3, <2>4, <2>5, NativeShape
<1>9. CASE AurStage
  <2>1. /\ UNCHANGED << upgrade, native, aur, result >> /\ pc = "aur" /\ pc' = "save" /\ installed \subseteq installed'
    BY <1>9, AurShape DEF asking, planning
  <2>2. NativeOver /\ DoneBy /\ outcome["aur"] = None /\ result = None
    BY <2>1 DEF StageInv
  <2>3. \A t \in done : Satisfied(installed', t.pkg)
    BY <2>1, SatisfiedIsMonotonic DEF StageInv
  <2>4. CASE (aur = << >> \/ outcome["native"] = FALSE) /\ UNCHANGED << installed, stages >>
    <3>1. NativeOver' /\ DoneBy' /\ AurOver'
      BY <1>a, <2>1, <2>2, <2>4 DEF stages, NativeOver, DoneBy, AurOver
    <3> QED
      BY <2>1, <2>2, <2>3, <2>4, <3>1 DEF StageInv, Before, After, stages
  <2>5. CASE aur # << >> /\ outcome' = [outcome EXCEPT !["aur"] = FALSE] /\ UNCHANGED << done, partial >>
    <3>1. outcome'["native"] = outcome["native"] /\ outcome'["aur"] = FALSE
      BY <1>0, <2>5
    <3>2. NativeOver' /\ DoneBy' /\ AurOver'
      BY <1>a, <2>1, <2>2, <2>5, <3>1 DEF NativeOver, DoneBy, AurOver
    <3> QED
      BY <2>1, <2>2, <2>3, <2>5, <3>2 DEF StageInv, Before, After
  <2>6. CASE /\ aur # << >> /\ outcome' = [outcome EXCEPT !["aur"] = TRUE]
             /\ \A t \in Range(aur) : t.pkg \in installed'
             /\ done' = done \cup Range(aur)
             /\ native # << >> => UNCHANGED partial
    <3>1. outcome'["native"] = outcome["native"] /\ outcome'["aur"] = TRUE
      BY <1>0, <2>6
    <3>2. NativeOver'
      <4>1. CASE native # << >>
        BY <2>1, <2>2, <2>6, <3>1, <4>1 DEF NativeOver
      <4>2. CASE native = << >>
        <5>1. outcome["native"] = None /\ outcome'["native"] # TRUE
          BY <1>a, <2>2, <3>1, <4>2 DEF NativeOver
        <5> QED
          BY <2>1, <3>1, <4>2, <5>1 DEF NativeOver
      <4> QED
        BY <4>1, <4>2
    <3>3. AurOver' /\ DoneBy'
      BY <1>a, <2>1, <2>2, <2>6, <3>1 DEF AurOver, DoneBy
    <3>4. \A t \in done' : Satisfied(installed', t.pkg)
      BY <2>3, <2>6 DEF Satisfied
    <3> QED
      BY <2>1, <2>2, <3>2, <3>3, <3>4 DEF StageInv, Before, After
  <2> QED
    BY <1>9, <2>4, <2>5, <2>6, AurShape
<1>10. CASE SavePins \/ RecordInstall \/ StartCleanup \/ Return
  <2>1. UNCHANGED << upgrade, native, aur, outcome, done, partial, installed >>
    BY <1>10 DEF SavePins, RecordInstall, StartCleanup, Return, asking, planning, stages
  <2>2. pc \in After /\ pc' \in After \cup {"end"} /\ (pc' = "end" \/ UNCHANGED result)
    BY <1>10 DEF SavePins, RecordInstall, StartCleanup, Return, After
  <2> QED
    BY <2>1, <2>2 DEF StageInv, NativeOver, AurOver, DoneBy, Before, After
<1> QED
  BY <1>2, <1>3, <1>4, <1>5, <1>6, <1>7, <1>8, <1>9, <1>10, StepCases

LEMMA RecordStep ==
    ASSUME TypeOK, CommandInv, SourceInv, RouteInv, StageInv, RecordIsTruthful, [Next]_vars
    PROVE  RecordIsTruthful'
<1>0. /\ outcome \in [{"native", "aur"} -> {None, TRUE, FALSE}]
      /\ history \in Seq(SUBSET Package)
  BY DEF TypeOK, InstallTypeOK
<1>a. None # TRUE /\ None # FALSE /\ None \notin {"ok", "cleanup", "failed"}
  BY NoneFacts
<1>1. ASSUME result' \notin {"ok", "cleanup"}, UNCHANGED history, installed \subseteq installed',
             outcome'["native"] = FALSE => outcome'["aur"] = None
      PROVE  RecordIsTruthful'
  <2>1. \A p : Satisfied(installed, p) => Satisfied(installed', p)
    BY <1>1, SatisfiedIsMonotonic
  <2> QED
    BY <1>1, <2>1 DEF RecordIsTruthful
<1>2. CASE Quiet
  BY <1>2 DEF Quiet, planning, stages, asking, RecordIsTruthful
<1>3. CASE \E r \in Request : Call(r)
  <2>1. result' = None /\ outcome'["native"] = None /\ UNCHANGED << history, installed >>
    BY <1>3, CallShape DEF records
  <2> QED
    BY <1>1, <1>a, <2>1
<1>4. CASE Admit \/ LookAtLock \/ PartialUpgradeQuestion \/ KeepWaiting \/ Refresh
  <2>1. UNCHANGED << outcome, history, installed >> /\ pc # "end" /\ result' \in {result, "failed"}
    BY <1>4 DEF Admit, LookAtLock, PartialUpgradeQuestion, KeepWaiting, Refresh, stages, records, Fails
  <2>2. result = None
    BY <2>1 DEF StageInv
  <2> QED
    BY <1>1, <1>a, <2>1, <2>2 DEF RecordIsTruthful
<1>5. CASE SourceStage
  <2>1. /\ UNCHANGED << asking, planning, outcome, partial >> /\ pc = "source" /\ pc' = "end"
        /\ installed' = installed \cup Names(done')
        /\ \A i \in DOMAIN history' : \/ i \in DOMAIN history /\ history'[i] = history[i]
                                      \/ \E p \in Names(done') : history'[i] = {p}
        /\ result' \in {"ok", "failed"}
        /\ result' = "ok" /\ ~request.dry =>
               \A i \in DOMAIN request.targets : request.targets[i].pkg \in Names(done')
    BY <1>5, SourceShape
  <2>2. native = << >>
    BY <2>1 DEF RouteInv, Before
  <2>3. \A p : Satisfied(installed, p) => Satisfied(installed', p)
    BY <2>1, SatisfiedIsMonotonic
  <2>4. \A p \in Names(done') : Satisfied(installed', p)
    BY <2>1 DEF Satisfied
  <2>5. \A i \in DOMAIN history' : \A p \in history'[i] : Satisfied(installed', p)
    BY <2>1, <2>3, <2>4 DEF RecordIsTruthful
  <2>6. result' = "ok" /\ ~request.dry =>
               \A i \in DOMAIN request.targets : Satisfied(installed', request.targets[i].pkg)
    BY <2>1, <2>4
  <2>7. UNCHANGED << request, native, outcome >>
    BY <2>1 DEF asking, planning
  <2> QED
    BY <2>1, <2>2, <2>5, <2>6, <2>7 DEF RecordIsTruthful
<1>6. CASE Route
  <2>1. UNCHANGED << outcome, history, installed >> /\ pc = "route"
    BY <1>6, RouteShape DEF stages, records
  <2>2. result = None
    BY <2>1 DEF StageInv
  <2>3. result' \in {result, "failed"}
    BY <1>6, RouteShape DEF Routed, Fails
  <2> QED
    BY <1>1, <1>a, <2>1, <2>2, <2>3 DEF RecordIsTruthful
<1>7. CASE Preflight
  <2>1. /\ UNCHANGED << request, outcome, history, installed >> /\ result = None
        /\ result' \in {result, "failed"} \/ (result' = "ok" /\ request.dry)
    BY <1>7 DEF Preflight, stages, records, asking, Fails, StageInv
  <2>2. CASE result' \notin {"ok", "cleanup"}
    BY <1>1, <2>1, <2>2 DEF RecordIsTruthful
  <2>3. CASE request.dry
    BY <2>1, <2>3 DEF RecordIsTruthful
  <2> QED
    BY <1>a, <2>1, <2>2, <2>3
<1>8. CASE NativeStage
  <2>1. UNCHANGED << history, result >> /\ pc = "native"
    BY <1>8, NativeShape DEF records
  <2>2. result = None /\ outcome["aur"] = None
    BY <2>1 DEF StageInv
  <2>3. installed \subseteq installed' /\ outcome'["aur"] = None
    BY <1>0, <1>8, <2>2, NativeShape DEF stages
  <2> QED
    BY <1>1, <1>a, <2>1, <2>2, <2>3
<1>9. CASE AurStage
  <2>1. UNCHANGED << history, result >> /\ pc = "aur" /\ installed \subseteq installed'
    BY <1>9, AurShape DEF records
  <2>2. result = None
    BY <2>1 DEF StageInv
  <2>3. outcome'["native"] = FALSE => outcome'["aur"] = None
    <3>1. CASE UNCHANGED outcome
      BY <3>1 DEF RecordIsTruthful
    <3>2. CASE outcome["native"] # FALSE /\ outcome'["native"] = outcome["native"]
      BY <3>2
    <3> QED
      BY <1>0, <1>9, <3>1, <3>2, AurShape DEF stages
  <2> QED
    BY <1>1, <1>a, <2>1, <2>2, <2>3
<1>10. CASE SavePins \/ StartCleanup
  <2>1. UNCHANGED << outcome, history, installed, result >> /\ pc # "end"
    BY <1>10 DEF SavePins, StartCleanup, stages, records
  <2>2. result = None
    BY <2>1 DEF StageInv
  <2> QED
    BY <1>1, <1>a, <2>1, <2>2 DEF RecordIsTruthful
<1>11. CASE RecordInstall
  <2>1. UNCHANGED << outcome, installed, result >> /\ pc # "end"
    BY <1>11 DEF RecordInstall, stages
  <2>2. result = None
    BY <2>1 DEF StageInv
  <2>3. \A i \in DOMAIN history' : \A p \in history'[i] : Satisfied(installed, p)
    <3>1. CASE UNCHANGED history
      BY <3>1 DEF RecordIsTruthful
    <3>2. CASE history' = Append(history, Names(done))
      <4>1. \A p \in Names(done) : Satisfied(installed, p)
        BY DEF StageInv, Names
      <4>2. /\ DOMAIN history = 1 .. Len(history) /\ Len(history) \in Nat
            /\ DOMAIN Append(history, Names(done)) = 1 .. Len(history) + 1
            /\ \A i \in 1 .. Len(history) : Append(history, Names(done))[i] = history[i]
            /\ Append(history, Names(done))[Len(history) + 1] = Names(done)
        BY <1>0
      <4>3. ASSUME NEW i \in DOMAIN history', NEW p \in history'[i]
            PROVE  Satisfied(installed, p)
        <5>1. CASE i \in 1 .. Len(history)
          BY <3>2, <4>2, <4>3, <5>1 DEF RecordIsTruthful
        <5>2. CASE i = Len(history) + 1
          BY <3>2, <4>1, <4>2, <4>3, <5>2
        <5> QED
          BY <3>2, <4>2, <5>1, <5>2
      <4> QED
        BY <4>3
    <3> QED
      BY <1>11, <3>1, <3>2 DEF RecordInstall
  <2> QED
    BY <1>a, <2>1, <2>2, <2>3 DEF RecordIsTruthful
<1>12. CASE Return
  <2>1. /\ UNCHANGED << asking, planning, stages, history, installed >> /\ pc = "return"
        /\ result' \in {"ok", "cleanup"} => FALSE \notin Range(outcome)
    BY <1>12 DEF Return, records
  <2>2. NativeOver /\ AurOver /\ routed = Len(request.targets)
    BY <2>1 DEF StageInv, RouteInv, After
  <2>3. ASSUME result' \in {"ok", "cleanup"}
        PROVE  outcome["native"] \in {None, TRUE} /\ outcome["aur"] \in {None, TRUE}
    BY <1>0, <2>1, <2>3 DEF Range
  <2>4. ASSUME result' \in {"ok", "cleanup"}
        PROVE  Range(native) \cup Range(aur) \subseteq done
    <3>1. Range(native) \subseteq done
      BY <2>2, <2>3, <2>4, EmptyRange DEF NativeOver
    <3>2. Range(aur) \subseteq done
      BY <1>a, <2>2, <2>3, <2>4, EmptyRange DEF AurOver
    <3> QED
      BY <3>1, <3>2
  <2>5. ASSUME result' \in {"ok", "cleanup"}, NEW i \in DOMAIN request.targets
        PROVE  Satisfied(installed, request.targets[i].pkg)
    <3>1. i \in 1 .. routed
      <4>1. request \in Request
        BY <2>1 DEF TypeOK, InstallTypeOK
      <4> QED
        BY <2>2, <2>5, <4>1 DEF Request
    <3>2. PICK t \in Range(native) \cup Range(aur) : t.pkg = request.targets[i].pkg
      BY <3>1 DEF RouteInv
    <3> QED
      BY <2>4, <2>5, <3>2 DEF StageInv
  <2>6. result' \in {"ok", "cleanup"} /\ upgrade /\ native # << >> => ~partial
    BY <2>2, <2>3 DEF NativeOver
  <2> QED
    BY <2>1, <2>5, <2>6 DEF RecordIsTruthful, asking, planning, stages
<1> QED
  BY <1>2, <1>3, <1>4, <1>5, <1>6, <1>7, <1>8, <1>9, <1>10, <1>11, <1>12, StepCases


-----------------------------------------------------------------------------
(* Plans.                                                                  *)

LEMMA KeptRange ==
    ASSUME NEW S, NEW s \in Seq(S), NEW I
    PROVE  /\ Range(Kept(s, I)) = { s[i] : i \in DOMAIN s \cap I }
           /\ (Kept(s, I) = << >>) <=> (DOMAIN s \cap I = {})
<1>1. PICK k : k = Kept(s, I)
  OBVIOUS
<1>2. /\ k \in Seq(S)
      /\ \A i \in DOMAIN k : \E j \in DOMAIN s : j \in I /\ k[i] = s[j]
      /\ \A j \in DOMAIN s : j \in I => \E i \in DOMAIN k : k[i] = s[j]
  BY <1>1, KeptInSeq
<1>3. Range(k) = { s[i] : i \in DOMAIN s \cap I }
  BY <1>2 DEF Range
<1>4. (k = << >>) <=> (DOMAIN k = {})
  BY <1>2
<1> QED
  BY <1>1, <1>2, <1>3, <1>4

(* The three lists of targets of a manifest, as a plan takes them.             *)
NativeList(config, m) == [i \in DOMAIN m.pacman |-> PinnedTarget(config, m.pacman[i])]
AurList(m) == [i \in DOMAIN m.aur |-> [m.aur[i] EXCEPT !.repo = "aur"]]
WholeList(config, m) == m.sources \o NativeList(config, m) \o AurList(m)

LEMMA ListsLaw ==
    ASSUME NEW config \in [Package -> TargetRepo], NEW m \in Manifest
    PROVE  /\ m.sources \in Seq(Target) /\ m.pacman \in Seq(Target) /\ m.aur \in Seq(Target)
           /\ m.user \in Seq(AppTarget) /\ m.system \in Seq(AppTarget)
           /\ NativeList(config, m) \in Seq(Target) /\ AurList(m) \in Seq(Target)
           /\ WholeList(config, m) \in Seq(Target) /\ Range(WholeList(config, m)) = Declared(config, m)
<1>1. /\ m.sources \in Seq(Target) /\ m.pacman \in Seq(Target) /\ m.aur \in Seq(Target)
      /\ m.user \in Seq(AppTarget) /\ m.system \in Seq(AppTarget)
  BY DEF Manifest
<1>2. \A i \in DOMAIN m.aur : /\ AurList(m)[i] = [repo |-> "aur", pkg |-> m.aur[i].pkg]
                              /\ AurList(m)[i] \in Target
  <2>1. ASSUME NEW i \in DOMAIN m.aur
        PROVE  AurList(m)[i] = [repo |-> "aur", pkg |-> m.aur[i].pkg] /\ AurList(m)[i] \in Target
    <3>1. PICK t \in Target : t = m.aur[i]
      BY <1>1
    <3>2. AurList(m)[i] = [t EXCEPT !.repo = "aur"]
      BY <3>1 DEF AurList
    <3>3. "aur" \in TargetRepo
      BY DEF TargetRepo, Spelling
    <3> QED
      BY <3>1, <3>2, <3>3 DEF Target
  <2> QED
    BY <2>1
<1>3. DOMAIN AurList(m) = DOMAIN m.aur /\ AurList(m) = [i \in DOMAIN AurList(m) |-> AurList(m)[i]]
  BY DEF AurList
<1>4. AurList(m) \in Seq(Target)
  BY <1>1, <1>2, <1>3, MappedSeq
<1>5. \A i \in DOMAIN m.pacman : /\ NativeList(config, m)[i] = PinnedTarget(config, m.pacman[i])
                                 /\ NativeList(config, m)[i] \in Target
  <2>1. ASSUME NEW i \in DOMAIN m.pacman
        PROVE  /\ NativeList(config, m)[i] = PinnedTarget(config, m.pacman[i])
               /\ NativeList(config, m)[i] \in Target
    <3>1. m.pacman[i] \in Target
      BY <1>1
    <3>2. NativeList(config, m)[i] = PinnedTarget(config, m.pacman[i])
      BY DEF NativeList
    <3> QED
      BY <3>1, <3>2, PinnedTargetType
  <2> QED
    BY <2>1
<1>6. /\ DOMAIN NativeList(config, m) = DOMAIN m.pacman
      /\ NativeList(config, m) = [i \in DOMAIN NativeList(config, m) |-> NativeList(config, m)[i]]
  BY DEF NativeList
<1>7. NativeList(config, m) \in Seq(Target)
  BY <1>1, <1>5, <1>6, MappedSeq
<1>8. PICK a, b, c : a = m.sources /\ b = NativeList(config, m) /\ c = AurList(m)
  OBVIOUS
<1>9. a \o b \in Seq(Target) /\ Range(a \o b) = Range(a) \cup Range(b)
  BY <1>1, <1>7, <1>8, RangeOfConcat
<1>10. (a \o b) \o c \in Seq(Target) /\ Range((a \o b) \o c) = Range(a \o b) \cup Range(c)
  <2>1. PICK d : d = a \o b
    OBVIOUS
  <2>2. d \in Seq(Target) /\ c \in Seq(Target)
    BY <1>4, <1>8, <1>9, <2>1
  <2>3. d \o c \in Seq(Target) /\ Range(d \o c) = Range(d) \cup Range(c)
    BY <2>2, RangeOfConcat
  <2> QED
    BY <2>1, <2>3
<1>11. WholeList(config, m) = (a \o b) \o c
  BY <1>8 DEF WholeList
<1>12. Range(b) = Natives(config, m)
  BY <1>5, <1>6, <1>8 DEF Range, Natives
<1>13. Range(c) = { [repo |-> "aur", pkg |-> m.aur[i].pkg] : i \in DOMAIN m.aur }
  BY <1>2, <1>3, <1>8 DEF Range
<1>14. Range(WholeList(config, m)) = Declared(config, m)
  BY <1>8, <1>9, <1>10, <1>11, <1>12, <1>13 DEF Declared
<1> QED
  BY <1>1, <1>4, <1>7, <1>10, <1>11, <1>14

(* When a plan is refused, and what is in one that is not.                     *)
Clash(m) == FlatpaksRefused("user", m.user) \/ FlatpaksRefused("system", m.system)
Refusal(config, m) ==
    \/ m = EmptyManifest
    \/ Repeats(m.sources \o m.pacman \o m.aur)
    \/ \E i \in DOMAIN m.sources : \/ m.sources[i].repo \notin DOMAIN Recipes
                                   \/ m.sources[i].pkg \notin Recipes[m.sources[i].repo]
    \/ \E i \in DOMAIN m.pacman : PacmanRefused(config, m.pacman[i])
    \/ FlatpaksRefused("user", m.user) \/ FlatpaksRefused("system", m.system)
    \/ (m.user \o m.system # << >> /\ Flatpak \notin installed
           /\ ~\E i \in DOMAIN m.pacman : m.pacman[i].pkg = Flatpak)
MissingOf(s) == Kept(s, { i \in DOMAIN s : s[i].pkg \notin installed })
PresentOf(enforce, s) == { i \in DOMAIN s : enforce /\ s[i].pkg \in installed }
ForcedOf(config, m, enforce) ==
    Kept(m.sources, { i \in PresentOf(enforce, m.sources) : SourceOwner(config, m.sources[i].pkg) # m.sources[i].repo })
    \o Kept(NativeList(config, m), { i \in PresentOf(enforce, NativeList(config, m)) : NativeList(config, m)[i].repo # None })

LEMMA PlanShape ==
    ASSUME NEW config, NEW m, NEW enforce
    PROVE  /\ Refusal(config, m) => PlanOf(config, m, enforce) = Error
           /\ ~Refusal(config, m) =>
                 PlanOf(config, m, enforce) =
                    [install |-> MissingOf(WholeList(config, m)),
                     enforce |-> ForcedOf(config, m, enforce),
                     flatpaks |-> [user |-> MissingFlatpaks("user", m.user),
                                   system |-> MissingFlatpaks("system", m.system)]]
<1> DEFINE P == PlanOf(config, m, enforce)
<1>1. P = IF Refusal(config, m) THEN Error
          ELSE [install |-> MissingOf(WholeList(config, m)),
                enforce |-> ForcedOf(config, m, enforce),
                flatpaks |-> [user |-> MissingFlatpaks("user", m.user),
                              system |-> MissingFlatpaks("system", m.system)]]
  BY Zenon DEF PlanOf, Refusal, WholeList, NativeList, AurList, MissingOf, ForcedOf, PresentOf
<1> HIDE DEF P
<1> QED
  BY <1>1 DEF P

LEMMA RefusalLaw ==
    ASSUME NEW config, NEW m
    PROVE  /\ ~Refusal(config, m) => TargetsPlannable(config, m) /\ AppsPlannable(m)
           /\ TargetsPlannable(config, m) /\ AppsPlannable(m) /\ ~Clash(m) => ~Refusal(config, m)
<1>1. m["user"] = m.user /\ m["system"] = m.system
  OBVIOUS
<1>2. \A s : ~FlatpaksRefused(s, m[s]) => ~Repeats(m[s])
  BY DEF FlatpaksRefused
<1>3. (~FlatpaksRefused("user", m.user) /\ ~FlatpaksRefused("system", m.system)) => \A s \in Scope : ~Repeats(m[s])
  BY <1>1, <1>2 DEF Scope
<1> QED
  BY <1>3, Zenon DEF Refusal, TargetsPlannable, AppsPlannable, Clash

LEMMA FlatpaksLaw ==
    ASSUME NEW config, NEW m, NEW enforce, ~Refusal(config, m), NEW p, p = PlanOf(config, m, enforce)
    PROVE  \A s \in Scope : p.flatpaks[s] = MissingFlatpaks(s, m[s])
<1>1. p.flatpaks = [user |-> MissingFlatpaks("user", m.user), system |-> MissingFlatpaks("system", m.system)]
  BY PlanShape
<1> QED
  BY <1>1 DEF Scope

LEMMA PlanLaw ==
    ASSUME NEW config \in [Package -> TargetRepo], NEW m \in Manifest, NEW enforce, ~Refusal(config, m),
           NEW p, p = PlanOf(config, m, enforce)
    PROVE  /\ p \in Plan /\ p # Error
           /\ Range(p.install) = { t \in Declared(config, m) : t.pkg \notin installed }
           /\ Range(p.enforce) \subseteq Declared(config, m)
           /\ enforce = FALSE => p.enforce = << >>
<1>1. /\ p.install = MissingOf(WholeList(config, m)) /\ p.enforce = ForcedOf(config, m, enforce)
      /\ p.flatpaks = [user |-> MissingFlatpaks("user", m.user), system |-> MissingFlatpaks("system", m.system)]
      /\ p = [install |-> p.install, enforce |-> p.enforce, flatpaks |-> p.flatpaks]
  BY PlanShape
<1>2. PICK whole \in Seq(Target) : whole = WholeList(config, m) /\ Range(whole) = Declared(config, m)
  BY ListsLaw
<1>3. Range(p.install) = { t \in Declared(config, m) : t.pkg \notin installed }
  <2> DEFINE I == { i \in DOMAIN whole : whole[i].pkg \notin installed }
  <2>1. Range(Kept(whole, I)) = { whole[i] : i \in DOMAIN whole \cap I }
    BY KeptRange
  <2>2. p.install = Kept(whole, I)
    BY <1>1, <1>2 DEF MissingOf
  <2>3. { whole[i] : i \in DOMAIN whole \cap I } = { t \in Range(whole) : t.pkg \notin installed }
    BY DEF Range
  <2> QED
    BY <1>2, <2>1, <2>2, <2>3
<1>4. PICK a \in Seq(Target), b \in Seq(Target) : a = m.sources /\ b = NativeList(config, m)
  BY ListsLaw
<1> DEFINE I == { i \in PresentOf(enforce, a) : SourceOwner(config, a[i].pkg) # a[i].repo }
           J == { i \in PresentOf(enforce, b) : b[i].repo # None }
<1>5. p.enforce = Kept(a, I) \o Kept(b, J)
  BY <1>1, <1>4 DEF ForcedOf
<1>6. I \subseteq DOMAIN a /\ J \subseteq DOMAIN b /\ (enforce = FALSE => I = {} /\ J = {})
  BY DEF PresentOf
<1> HIDE DEF I, J
<1>7. /\ Kept(a, I) \in Seq(Target) /\ Range(Kept(a, I)) \subseteq Range(a) /\ (I = {} => Kept(a, I) = << >>)
      /\ Kept(b, J) \in Seq(Target) /\ Range(Kept(b, J)) \subseteq Range(b) /\ (J = {} => Kept(b, J) = << >>)
  <2>1. /\ Range(Kept(a, I)) = { a[i] : i \in DOMAIN a \cap I }
        /\ (Kept(a, I) = << >>) <=> (DOMAIN a \cap I = {})
    BY KeptRange
  <2>2. /\ Range(Kept(b, J)) = { b[i] : i \in DOMAIN b \cap J }
        /\ (Kept(b, J) = << >>) <=> (DOMAIN b \cap J = {})
    BY KeptRange
  <2>3. Kept(a, I) \in Seq(Target) /\ Kept(b, J) \in Seq(Target)
    BY KeptInSeq, Zenon
  <2> QED
    BY <2>1, <2>2, <2>3 DEF Range
<1>8. PICK x \in Seq(Target), y \in Seq(Target) : x = Kept(a, I) /\ y = Kept(b, J)
  BY <1>7
<1>9. x \o y \in Seq(Target) /\ Range(x \o y) = Range(x) \cup Range(y) /\ (x = << >> /\ y = << >> => x \o y = << >>)
  BY RangeOfConcat
<1>10. Range(a) \subseteq Declared(config, m) /\ Range(b) \subseteq Declared(config, m)
  <2>1. Range(b) \subseteq Natives(config, m)
    BY <1>4 DEF Range, Natives, NativeList
  <2> QED
    BY <1>4, <2>1 DEF Declared
<1>11. Range(p.enforce) \subseteq Declared(config, m) /\ (enforce = FALSE => p.enforce = << >>)
  BY <1>5, <1>6, <1>7, <1>8, <1>9, <1>10
<1>13. p.install \in Seq(Target) /\ p.enforce \in Seq(Target) /\ p.flatpaks \in [Scope -> Seq(AppTarget)]
  <2>1. p.install \in Seq(Target)
    <3>1. MissingOf(whole) \in Seq(Target)
      BY KeptInSeq, Zenon DEF MissingOf
    <3> QED
      BY <1>1, <1>2, <3>1
  <2>2. p.enforce \in Seq(Target)
    BY <1>5, <1>8, <1>9
  <2>3. MissingFlatpaks("user", m.user) \in Seq(AppTarget) /\ MissingFlatpaks("system", m.system) \in Seq(AppTarget)
    BY ListsLaw, KeptInSeq, Zenon DEF MissingFlatpaks
  <2> QED
    BY <1>1, <2>1, <2>2, <2>3 DEF Scope
<1>14. p \in Plan /\ p # Error
  <2>1. PICK u, v, w : u = p.install /\ v = p.enforce /\ w = p.flatpaks
    OBVIOUS
  <2>2. u \in Seq(Target) /\ v \in Seq(Target) /\ w \in [Scope -> Seq(AppTarget)]
    BY <1>13, <2>1
  <2>3. p = [install |-> u, enforce |-> v, flatpaks |-> w]
    BY <1>1, <2>1
  <2>4. p \in Plan
    BY <2>2, <2>3 DEF Plan
  <2>5. Error \notin Plan
    BY RebuildAssumption
  <2> QED
    BY <2>4, <2>5
<1> QED
  BY <1>3, <1>11, <1>14

(* Two lists of targets that name the same packages in the same order.         *)
Alike(s, t) == Len(s) = Len(t) /\ \A i \in 1 .. Len(s) : s[i].pkg = t[i].pkg

LEMMA AlikeConcat ==
    ASSUME NEW a \in Seq(Target), NEW b \in Seq(Target), NEW c \in Seq(Target), NEW d \in Seq(Target),
           Alike(a, c), Alike(b, d)
    PROVE  Alike(a \o b, c \o d)
<1>1. PICK x, y : x = a \o b /\ y = c \o d
  OBVIOUS
<1>2. PICK n : n = Len(a) /\ n \in Nat /\ Len(c) = n
  BY DEF Alike
<1>3. /\ x \in Seq(Target) /\ DOMAIN x = 1 .. n + Len(b) /\ Len(b) \in Nat
      /\ \A i \in 1 .. n : x[i] = a[i]
      /\ \A j \in 1 .. Len(b) : x[n + j] = b[j]
  BY <1>1, <1>2, ConcatLaw
<1>4. /\ y \in Seq(Target) /\ DOMAIN y = 1 .. n + Len(d)
      /\ \A i \in 1 .. n : y[i] = c[i]
      /\ \A j \in 1 .. Len(d) : y[n + j] = d[j]
  <2>1. Len(c) = n /\ y = c \o d
    BY <1>1, <1>2
  <2> QED
    BY <2>1, ConcatLaw
<1>5. Len(b) = Len(d) /\ Len(x) = n + Len(b) /\ Len(y) = n + Len(b)
  <2>1. Len(b) = Len(d)
    BY DEF Alike
  <2> QED
    BY <1>2, <1>3, <1>4, <2>1
<1>6. ASSUME NEW i \in 1 .. n + Len(b)
      PROVE  x[i].pkg = y[i].pkg
  <2>1. CASE i <= n
    BY <1>2, <1>3, <1>4, <2>1 DEF Alike
  <2>2. CASE ~(i <= n)
    <3>1. i - n \in 1 .. Len(b) /\ n + (i - n) = i
      BY <1>2, <1>3, <2>2
    <3>2. x[i] = b[i - n] /\ y[i] = d[i - n]
      BY <1>3, <1>4, <1>5, <3>1
    <3> QED
      BY <3>1, <3>2 DEF Alike
  <2> QED
    BY <2>1, <2>2
<1> QED
  BY <1>1, <1>5, <1>6 DEF Alike

LEMMA PinnedLaw ==
    ASSUME NEW config, NEW t \in Target
    PROVE  /\ PinnedTarget(config, t).pkg = t.pkg
           /\ t.repo # None => PinnedTarget(config, t) = t
           /\ t.repo = None => PinnedTarget(config, t) = [repo |-> config[t.pkg], pkg |-> t.pkg]
  BY DEF PinnedTarget, Target

(* A manifest that can be planned declares a package once.                    *)
LEMMA DeclaredOnce ==
    ASSUME NEW config \in [Package -> TargetRepo], NEW m \in Manifest, TargetsPlannable(config, m),
           NEW a \in Declared(config, m), NEW b \in Declared(config, m), a.pkg = b.pkg
    PROVE  a = b
<1>1. PICK whole \in Seq(Target) : whole = WholeList(config, m) /\ Range(whole) = Declared(config, m)
  BY ListsLaw
<1>2. PICK s \in Seq(Target), t \in Seq(Target), u \in Seq(Target) : s = m.sources /\ t = m.pacman /\ u = m.aur
  BY ListsLaw
<1>3. PICK v \in Seq(Target), w \in Seq(Target) : v = NativeList(config, m) /\ w = AurList(m)
  BY ListsLaw
<1>4. Alike(s, s)
  BY DEF Alike
<1>5. Alike(t, v)
  <2>1. DOMAIN v = DOMAIN t /\ \A i \in DOMAIN t : v[i] = PinnedTarget(config, t[i])
    BY <1>2, <1>3 DEF NativeList
  <2>2. \A i \in DOMAIN t : v[i].pkg = t[i].pkg
    BY <2>1, PinnedLaw
  <2> QED
    BY <2>1, <2>2 DEF Alike
<1>6. Alike(u, w)
  <2>1. DOMAIN w = DOMAIN u /\ \A i \in DOMAIN u : w[i] = [u[i] EXCEPT !.repo = "aur"]
    BY <1>2, <1>3 DEF AurList
  <2>2. \A i \in DOMAIN u : w[i].pkg = u[i].pkg
    <3>1. \A x \in Target : [x EXCEPT !.repo = "aur"].pkg = x.pkg
      BY DEF Target
    <3>2. \A i \in DOMAIN u : u[i] \in Target
      OBVIOUS
    <3> QED
      BY <2>1, <3>1, <3>2
  <2> QED
    BY <2>1, <2>2 DEF Alike
<1>7. Alike(s \o t, s \o v)
  BY <1>4, <1>5, AlikeConcat
<1>8. PICK x, y : x = s \o t /\ y = s \o v /\ x \in Seq(Target) /\ y \in Seq(Target)
  <2>1. s \o t \in Seq(Target) /\ s \o v \in Seq(Target)
    OBVIOUS
  <2> QED
    BY <2>1
<1>9. Alike(x \o u, y \o w)
  BY <1>6, <1>7, <1>8, AlikeConcat
<1>10. whole = y \o w /\ m.sources \o m.pacman \o m.aur = x \o u
  BY <1>1, <1>2, <1>3, <1>8 DEF WholeList
<1>11. PICK plain : plain = x \o u /\ plain \in Seq(Target)
  <2>1. x \o u \in Seq(Target)
    BY <1>8
  <2> QED
    BY <2>1
<1>12. Alike(plain, whole) /\ ~Repeats(plain)
  BY <1>9, <1>10, <1>11 DEF TargetsPlannable
<1>13. PICK i \in DOMAIN whole, j \in DOMAIN whole : a = whole[i] /\ b = whole[j]
  BY <1>1 DEF Range
<1>14. i \in DOMAIN plain /\ j \in DOMAIN plain /\ plain[i].pkg = plain[j].pkg
  <2>1. DOMAIN whole = 1 .. Len(whole) /\ DOMAIN plain = 1 .. Len(plain)
    BY <1>11
  <2>2. Len(plain) = Len(whole) /\ \A k \in 1 .. Len(plain) : plain[k].pkg = whole[k].pkg
    BY <1>12 DEF Alike
  <2>3. whole[i].pkg = whole[j].pkg
    BY <1>13
  <2> QED
    BY <2>1, <2>2, <2>3
<1>15. i = j
  BY <1>12, <1>14 DEF Repeats
<1> QED
  BY <1>13, <1>15

LEMMA NativeAllowed ==
    ASSUME NEW config \in [Package -> TargetRepo], NEW m \in Manifest, TargetsPlannable(config, m),
           NEW i \in DOMAIN m.pacman, NEW t, t = PinnedTarget(config, m.pacman[i])
    PROVE  /\ t \in Declared(config, m) /\ t \in Target /\ t.pkg = m.pacman[i].pkg
           /\ t.repo = None => \E s \in Repo : t.pkg \in Offers[s]
           /\ t.repo # None => t.repo \in Repo /\ t.pkg \in Offers[t.repo]
<1>1. m.pacman[i] \in Target
  BY ListsLaw
<1>2. t \in Target /\ t.pkg = m.pacman[i].pkg
  BY <1>1, PinnedLaw, PinnedTargetType
<1>3. ~PacmanRefused(config, m.pacman[i])
  BY DEF TargetsPlannable
<1>4. /\ t.repo = None => \E s \in Repo : t.pkg \in Offers[s]
      /\ t.repo # None => t.repo \in Repo /\ t.pkg \in Offers[t.repo]
  BY <1>2, <1>3 DEF PacmanRefused
<1>5. t \in Declared(config, m)
  BY DEF Declared, Natives
<1> QED
  BY <1>2, <1>4, <1>5

(* What is declared of a package that the manifest names without a repository. *)
LEMMA BareLaw ==
    ASSUME NEW config \in [Package -> TargetRepo], NEW m \in Manifest, TargetsPlannable(config, m),
           NEW i \in DOMAIN m.pacman, m.pacman[i].repo = None,
           NEW t \in Declared(config, m), t.pkg = m.pacman[i].pkg
    PROVE  t.repo = config[t.pkg] /\ t.repo \in {None} \cup Repo
<1>1. PICK u : u = PinnedTarget(config, m.pacman[i])
  OBVIOUS
<1>2. u \in Declared(config, m) /\ u.pkg = m.pacman[i].pkg /\ u.repo \in {None} \cup Repo
  BY <1>1, NativeAllowed
<1>3. m.pacman[i] \in Target
  BY ListsLaw
<1>4. u.repo = config[u.pkg]
  BY <1>1, <1>2, <1>3, PinnedLaw
<1>5. u = t
  BY <1>2, DeclaredOnce
<1> QED
  BY <1>2, <1>4, <1>5

(* A target that a plan lets through is a package of its own name.             *)
LEMMA SyncNamed ==
    ASSUME NEW p, NEW s \in Repo, p \in Offers[s]
    PROVE  p \in Offers[SyncPackage(None, p)]
<1> DEFINE named == { i \in DOMAIN Order : p \in Offers[Order[i]] }
           provided == { i \in DOMAIN Order : Satisfied(Offers[Order[i]], p) }
<1>1. named # {} /\ named \subseteq provided
  BY DEF Repo, Satisfied
<1>2. SyncPackage(None, p) = Order[Earliest(named)]
  <2> HIDE DEF named, provided
  <2>1. provided # {}
    BY <1>1
  <2> QED
    BY <1>1, <2>1, Zenon DEF SyncPackage, named, provided
<1>3. named \in SUBSET Nat
  BY InstallationAssumption
<1>4. Earliest(named) \in named
  <2> HIDE DEF named
  <2> QED
    BY <1>1, <1>3, Least DEF Earliest
<1> QED
  BY <1>2, <1>4

LEMMA ExactLaw ==
    ASSUME NEW config \in [Package -> TargetRepo], NEW m \in Manifest, TargetsPlannable(config, m),
           NEW t \in Declared(config, m), SyncPackage(t.repo, t.pkg) # None
    PROVE  Real(t) = t.pkg
<1>1. t.repo # None => t.repo \in Repo
  BY SyncLaw
<1>2. CASE t \in Range(m.sources)
  <2>1. t.repo \in DOMAIN Recipes
    BY <1>2 DEF Range, TargetsPlannable
  <2> QED
    BY <1>1, <2>1, NoneFacts, NamesAssumption
<1>3. CASE t \in Natives(config, m)
  <2>1. PICK i \in DOMAIN m.pacman : t = PinnedTarget(config, m.pacman[i])
    BY <1>3 DEF Natives
  <2>2. /\ t.repo = None => \E s \in Repo : t.pkg \in Offers[s]
        /\ t.repo # None => t.repo \in Repo /\ t.pkg \in Offers[t.repo]
    BY <2>1, NativeAllowed
  <2>3. t.pkg \in Offers[SyncPackage(t.repo, t.pkg)]
    BY <2>2, SyncLaw, SyncNamed
  <2> QED
    BY <2>3 DEF Real
<1>4. CASE t \in { [repo |-> "aur", pkg |-> m.aur[i].pkg] : i \in DOMAIN m.aur }
  BY <1>1, <1>4, NoneFacts, NamesAssumption DEF Spelling
<1> QED
  BY <1>2, <1>3, <1>4 DEF Declared

(* Pins of other packages than those the manifest leaves to them do not matter. *)
LEMMA SameReading ==
    ASSUME NEW config, NEW other, NEW m \in Manifest,
           \A i \in DOMAIN m.pacman : m.pacman[i].repo = None => other[m.pacman[i].pkg] = config[m.pacman[i].pkg]
    PROVE  /\ Declared(other, m) = Declared(config, m)
           /\ TargetsPlannable(config, m) => TargetsPlannable(other, m)
<1>1. \A i \in DOMAIN m.pacman : PinnedTarget(other, m.pacman[i]) = PinnedTarget(config, m.pacman[i])
  BY DEF PinnedTarget
<1>2. \A i \in DOMAIN m.pacman : PacmanRefused(other, m.pacman[i]) <=> PacmanRefused(config, m.pacman[i])
  BY <1>1 DEF PacmanRefused
<1>3. Natives(other, m) = Natives(config, m)
  BY <1>1 DEF Natives
<1> QED
  BY <1>2, <1>3 DEF Declared, TargetsPlannable

(* The parts of an installation are its targets, each in one of them.          *)
LEMMA PartsLaw ==
    ASSUME NEW targets \in Seq(Target)
    PROVE  /\ Parts(targets) \in Seq(Seq(Target))
           /\ \A c \in Range(Parts(targets)) : Range(c) \subseteq Range(targets)
           /\ \A t \in Range(targets) : \E c \in Range(Parts(targets)) : t \in Range(c)
<1> DEFINE sources == { i \in DOMAIN targets : SourceTarget(mem, targets[i]) # None }
<1>1. PICK a \in Seq(Target), b \in Seq(Target) :
          a = Kept(targets, DOMAIN targets \ sources) /\ b = Kept(targets, sources)
  <2>1. Kept(targets, DOMAIN targets \ sources) \in Seq(Target) /\ Kept(targets, sources) \in Seq(Target)
    BY KeptInSeq, Zenon
  <2> QED
    BY <2>1
<1>2. /\ Range(a) = { targets[i] : i \in DOMAIN targets \cap (DOMAIN targets \ sources) }
      /\ Range(b) = { targets[i] : i \in DOMAIN targets \cap sources }
  BY <1>1, KeptRange
<1>3. PICK parts : parts = << a, b >> /\ parts \in Seq(Seq(Target))
  <2>1. << a, b >> \in Seq(Seq(Target))
    OBVIOUS
  <2> QED
    BY <2>1
<1>4. Parts(targets) = Kept(parts, { i \in DOMAIN parts : parts[i] # << >> })
  BY <1>1, <1>3, Zenon DEF Parts
<1>5. Range(Parts(targets)) = { parts[i] : i \in DOMAIN parts \cap { i \in DOMAIN parts : parts[i] # << >> } }
  <2>1. PICK I : I = { i \in DOMAIN parts : parts[i] # << >> }
    OBVIOUS
  <2>2. Range(Kept(parts, I)) = { parts[i] : i \in DOMAIN parts \cap I }
    <3>1. PICK S : parts \in Seq(S)
      BY <1>3
    <3> QED
      BY <3>1, KeptRange
  <2> QED
    BY <1>4, <2>1, <2>2
<1>6. DOMAIN parts = {1, 2} /\ parts[1] = a /\ parts[2] = b
  BY <1>3
<1>7. Range(Parts(targets)) = {a, b} \ {<< >>}
  BY <1>5, <1>6
<1>8. Range(a) \cup Range(b) = Range(targets)
  BY <1>2 DEF Range
<1>9. \A t \in Range(targets) : \E c \in {a, b} \ {<< >>} : t \in Range(c)
  BY <1>8, EmptyRange
<1> QED
  BY <1>7, <1>8, <1>9, PartsType

-----------------------------------------------------------------------------
(* A rebuild and its steps.                                                *)

LEMMA PlannedCases ==
    ASSUME TypeOK, CommandInv, [Next]_vars, Planned'
    PROVE  \/ MakePlan
           \/ /\ Planned /\ UNCHANGED << command, options, read, plan >>
              /\ \/ NextCall \/ CallReturns \/ InstallFlatpak
                 \/ step = "call" /\ InstallStep /\ UNCHANGED rebuildVars
                 \/ Quiet /\ UNCHANGED rebuildVars
<1>1. CASE InstallCommand \/ CleanCommand \/ CleanEnds \/ Capture \/ CommitCapture
  <2>1. command # "rebuild" /\ UNCHANGED command
    BY <1>1 DEF InstallCommand, CleanCommand, CleanEnds, Capture, CommitCapture, CommandInv
  <2> QED
    BY <2>1 DEF Planned
<1>2. CASE \E m \in Manifests : step = "commit" /\ EditManifest(m)
  <2>1. command # "rebuild" /\ UNCHANGED command
    BY <1>2 DEF EditManifest, CommandInv
  <2> QED
    BY <2>1 DEF Planned
<1>3. CASE NextCall \/ CallReturns \/ InstallFlatpak
  BY <1>3 DEF NextCall, CallReturns, InstallFlatpak, Planned
<1>4. CASE UNCHANGED rebuildVars /\ (Quiet \/ (step = "call" /\ InstallStep))
  BY <1>4 DEF rebuildVars, Planned
<1>5. CASE \/ step = "clean" /\ CacheStep /\ UNCHANGED << installVars, rebuildVars >>
           \/ LockMatters /\ AroundCache /\ UNCHANGED << installVars, rebuildVars >>
           \/ Ended \/ UNCHANGED vars
  <2>1. UNCHANGED << installVars, rebuildVars >>
    BY <1>5 DEF Ended, vars
  <2>2. Quiet
    BY <2>1 DEF Quiet, installVars, records, stages
  <2> QED
    BY <1>4, <2>1, <2>2
<1>6. CASE \E e \in PinEdits : EditPins(e[1], e[2]) /\ UNCHANGED rebuildVars
  <2>1. Quiet /\ UNCHANGED rebuildVars
    BY <1>6 DEF EditPins, Quiet, records, stages
  <2> QED
    BY <1>4, <2>1
<1> QED
  BY <1>1, <1>2, <1>3, <1>4, <1>5, <1>6 DEF Next

LEMMA MakePlanLaw ==
    ASSUME TypeOK, MakePlan, plan' # Error
    PROVE  /\ plan' = PlanOf(mem, read, options.enforce) /\ ~Refusal(mem, read)
           /\ mem \in [Package -> TargetRepo] /\ read \in Manifest
           /\ UNCHANGED << mem, installed, command, options, read, apps >>
           /\ step' \in {"end", "failed", "next"}
           /\ step' = "end" /\ ~options.dry => NothingToDo(plan')
           /\ step' = "next" => calls' = Parts(plan'.install) \o Parts(plan'.enforce)
<1>1. plan' = PlanOf(mem, read, options.enforce)
  BY DEF MakePlan
<1>2. ~Refusal(mem, read)
  BY <1>1, PlanShape
<1>3. mem \in [Package -> TargetRepo] /\ read \in Manifest
  BY DEF TypeOK, InstallTypeOK
<1>4. UNCHANGED << mem, installed, command, options, read, apps >>
  BY DEF MakePlan, installVars, records
<1>5. /\ step' \in {"end", "failed", "next"}
      /\ step' = "end" /\ ~options.dry => NothingToDo(plan')
      /\ step' = "next" => calls' = Parts(plan'.install) \o Parts(plan'.enforce)
  BY DEF MakePlan, Ends
<1> QED
  BY <1>1, <1>2, <1>3, <1>4, <1>5

(* The pins of the packages that the manifest names without a repository stay.  *)
LEMMA BarePinsStay ==
    ASSUME TypeOK, SourceInv, OriginInv, PlanInv, CallInv, Planned, step = "call", SourceStage \/ SavePins,
           NEW i \in DOMAIN read.pacman, read.pacman[i].repo = None
    PROVE  mem'[read.pacman[i].pkg] = mem[read.pacman[i].pkg]
<1>1. PICK p : p = read.pacman[i].pkg
  OBVIOUS
<1>2. mem \in [Package -> TargetRepo] /\ read \in Manifest /\ pc \in {"source", "save"} /\ request \in Request
  BY DEF TypeOK, InstallTypeOK, SourceStage, SavePins
<1>3. read.pacman[i] \in Target
  BY <1>2, ListsLaw
<1>4. p \in Package
  BY <1>1, <1>3 DEF Target
<1>5. TargetsPlannable(mem, read) /\ Range(request.targets) \subseteq Declared(mem, read) /\ chosen = {}
  BY DEF PlanInv, CallInv
<1>6. ASSUME NEW j \in DOMAIN request.targets, request.targets[j].pkg = p
      PROVE  request.targets[j].repo = mem[p] /\ mem[p] \in {None} \cup Repo
  <2>1. PICK t : t = request.targets[j]
    OBVIOUS
  <2>2. t \in Declared(mem, read)
    BY <1>5, <2>1 DEF Range
  <2> QED
    BY <1>1, <1>2, <1>5, <1>6, <2>1, <2>2, BareLaw
<1>7. SUFFICES ASSUME mem'[p] # mem[p]
               PROVE  FALSE
  BY <1>1
<1>8. CASE SourceStage
  <2>1. PICK j \in DOMAIN request.targets :
            /\ request.targets[j].pkg = p
            /\ request.targets[j].repo = "direct" \/ mem'[p] = SourceTarget(mem, request.targets[j]).repo
    BY <1>4, <1>7, <1>8, SourceShape
  <2>2. PICK t : t = request.targets[j]
    OBVIOUS
  <2>3. t.pkg = p /\ t.repo = mem[p] /\ t.repo \in {None} \cup Repo
    BY <1>6, <2>1, <2>2
  <2>4. t.repo # "direct" /\ t.repo \notin DOMAIN Recipes
    BY <2>3, NoneFacts, NamesAssumption
  <2>5. SourceTarget(mem, t) = None
    BY <2>3, <2>4 DEF SourceTarget, SourceOwner
  <2>6. pc = "source"
    BY <1>8 DEF SourceStage
  <2> QED
    BY <2>2, <2>4, <2>5, <2>6 DEF SourceInv
<1>9. CASE SavePins
  <2>1. p \in Confirmed /\ mem'[p] = wanted[p] /\ pc = "save"
    BY <1>4, <1>7, <1>9, SaveShape
  <2>2. wanted[p] # None
    BY <2>1 DEF Confirmed
  <2>3. Requested(p, wanted[p])
    BY <1>4, <2>1, <2>2 DEF OriginInv
  <2>4. PICK j \in DOMAIN request.targets :
           /\ request.targets[j].pkg = p /\ request.targets[j].repo # None
           /\ Fold(request.targets[j].repo) = wanted[p]
    BY <1>5, <2>3 DEF Requested
  <2>5. request.targets[j].repo = mem[p] /\ mem[p] \in Repo
    BY <1>6, <2>4
  <2>6. Fold(mem[p]) = mem[p]
    BY <2>5, NamesAssumption DEF Fold
  <2> QED
    BY <1>7, <2>1, <2>4, <2>5, <2>6
<1> QED
  BY <1>8, <1>9

LEMMA InstalledGrows ==
    ASSUME TypeOK, CommandInv, SourceInv, [Next]_vars
    PROVE  installed \subseteq installed'
<1>1. CASE Quiet \/ \E r \in Request : Call(r)
  BY <1>1 DEF Quiet, Call
<1>2. CASE Admit \/ LookAtLock \/ KeepWaiting \/ PartialUpgradeQuestion \/ Refresh \/ Preflight
  BY <1>2 DEF Admit, LookAtLock, KeepWaiting, PartialUpgradeQuestion, Refresh, Preflight
<1>3. CASE SavePins \/ RecordInstall \/ StartCleanup \/ Return
  BY <1>3 DEF SavePins, RecordInstall, StartCleanup, Return
<1>4. CASE SourceStage
  BY <1>4, SourceShape
<1>5. CASE Route
  BY <1>5, RouteShape
<1>6. CASE NativeStage
  BY <1>6, NativeShape
<1>7. CASE AurStage
  BY <1>7, AurShape
<1> QED
  BY <1>1, <1>2, <1>3, <1>4, <1>5, <1>6, <1>7, StepCases

(* The manifest asks for the same after every step of the rebuild.              *)
LEMMA ReadingStays ==
    ASSUME TypeOK, CommandInv, SourceInv, OriginInv, PlanInv, CallInv, [Next]_vars, Planned, UNCHANGED read,
           \/ NextCall \/ CallReturns \/ InstallFlatpak
           \/ step = "call" /\ InstallStep /\ UNCHANGED rebuildVars
           \/ Quiet /\ UNCHANGED rebuildVars
    PROVE  Declared(mem', read) = Declared(mem, read) /\ TargetsPlannable(mem', read)
<1>1. read \in Manifest /\ TargetsPlannable(mem, read)
  BY DEF TypeOK, PlanInv
<1>2. \A i \in DOMAIN read.pacman : read.pacman[i].repo = None => mem'[read.pacman[i].pkg] = mem[read.pacman[i].pkg]
  <2>1. CASE NextCall \/ CallReturns \/ InstallFlatpak \/ Quiet
    BY <2>1 DEF NextCall, Call, CallReturns, InstallFlatpak, Quiet, installVars, records
  <2>2. CASE step = "call" /\ (SourceStage \/ SavePins)
    BY <2>2, BarePinsStay
  <2>3. CASE Admit \/ LookAtLock \/ KeepWaiting \/ PartialUpgradeQuestion \/ Refresh \/ Preflight \/ Route
    BY <2>3 DEF Admit, LookAtLock, KeepWaiting, PartialUpgradeQuestion, Refresh, Preflight, Route, records
  <2>4. CASE NativeStage \/ AurStage \/ RecordInstall \/ StartCleanup \/ Return \/ (CacheStep /\ UNCHANGED installVars)
    BY <2>4 DEF NativeStage, AurStage, RecordInstall, StartCleanup, Return, records, installVars
  <2> QED
    BY <2>1, <2>2, <2>3, <2>4 DEF InstallStep
<1> QED
  BY <1>1, <1>2, SameReading

LEMMA AppTargetLaw ==
    ASSUME NEW s \in Seq(AppTarget), NEW i \in DOMAIN s
    PROVE  s[i] \in AppTarget /\ s[i].pkg \in App /\ s[i].repo \in {None} \cup Remote
<1>1. PICK t : t = s[i] /\ t \in AppTarget
  OBVIOUS
<1>2. t.pkg \in App /\ t.repo \in {None} \cup Remote
  BY <1>1 DEF AppTarget
<1> QED
  BY <1>1, <1>2

LEMMA PlanStep ==
    ASSUME TypeOK, CommandInv, SourceInv, OriginInv, PlanInv, CallInv, [Next]_vars
    PROVE  PlanInv'
<1> SUFFICES ASSUME Planned'
             PROVE  PlanInv'
  BY DEF PlanInv
<1>1. CASE MakePlan
  <2>0. PICK p : p = plan'
    OBVIOUS
  <2>1. /\ p = PlanOf(mem, read, options.enforce) /\ ~Refusal(mem, read)
        /\ mem \in [Package -> TargetRepo] /\ read \in Manifest
        /\ UNCHANGED << mem, installed, command, options, read, apps >>
    BY <1>1, <2>0, MakePlanLaw DEF Planned
  <2>2. TargetsPlannable(mem, read) /\ AppsPlannable(read)
    BY <2>1, RefusalLaw
  <2>3. /\ p \in Plan
        /\ Range(p.install) = { t \in Declared(mem, read) : t.pkg \notin installed }
        /\ \A s \in Scope : p.flatpaks[s] = MissingFlatpaks(s, read[s])
    <3>1. PICK c, m, e : c = mem /\ m = read /\ e = options.enforce
      OBVIOUS
    <3>2. c \in [Package -> TargetRepo] /\ m \in Manifest /\ ~Refusal(c, m) /\ p = PlanOf(c, m, e)
      BY <2>1, <3>1
    <3>3. p \in Plan /\ Range(p.install) = { t \in Declared(c, m) : t.pkg \notin installed }
      BY <3>2, PlanLaw
    <3>4. \A s \in Scope : p.flatpaks[s] = MissingFlatpaks(s, m[s])
      BY <3>2, FlatpaksLaw
    <3> QED
      BY <3>1, <3>3, <3>4
  <2>4. ASSUME NEW s \in Scope, NEW i \in DOMAIN read[s]
        PROVE  apps[s][read[s][i].pkg] # None \/ read[s][i] \in Range(p.flatpaks[s])
    <3>1. PICK listed \in Seq(AppTarget) : listed = read[s]
      BY <2>1, ListsLaw DEF Scope
    <3>2. SUFFICES ASSUME apps[s][listed[i].pkg] = None
                   PROVE  listed[i] \in Range(p.flatpaks[s])
      BY <3>1
    <3>3. listed[i].pkg \in App
      BY <2>4, <3>1, AppTargetLaw
    <3>4. AppsSeen[s][listed[i].pkg] = None
      BY <3>2, <3>3 DEF AppsSeen
    <3> DEFINE I == { j \in DOMAIN listed : AppsSeen[s][listed[j].pkg] = None }
    <3>5. i \in DOMAIN listed \cap I
      BY <2>4, <3>1, <3>4
    <3>6. p.flatpaks[s] = Kept(listed, I)
      BY <2>3, <3>1 DEF MissingFlatpaks
    <3> HIDE DEF I
    <3>7. Range(Kept(listed, I)) = { listed[j] : j \in DOMAIN listed \cap I }
      BY KeptRange
    <3> QED
      BY <3>5, <3>6, <3>7
  <2>5. Declared(mem, read)' = Declared(mem, read) /\ TargetsPlannable(mem, read)' /\ AppsPlannable(read)'
    BY <2>1, <2>2 DEF Declared, Natives, TargetsPlannable, AppsPlannable
  <2>6. { t \in Declared(mem, read) : t.pkg \notin installed } = { t \in Range(p.install) : t.pkg \notin installed }
    BY <2>3
  <2> QED
    BY <2>0, <2>1, <2>3, <2>4, <2>5, <2>6 DEF PlanInv
<1>2. CASE /\ Planned /\ UNCHANGED << command, options, read, plan >>
           /\ \/ NextCall \/ CallReturns \/ InstallFlatpak
              \/ step = "call" /\ InstallStep /\ UNCHANGED rebuildVars
              \/ Quiet /\ UNCHANGED rebuildVars
  <2>1. Declared(mem', read) = Declared(mem, read) /\ TargetsPlannable(mem', read)
    BY <1>2, ReadingStays
  <2>2. Declared(mem, read)' = Declared(mem, read) /\ TargetsPlannable(mem, read)'
    BY <1>2, <2>1 DEF Declared, Natives, TargetsPlannable
  <2>3. installed \subseteq installed'
    BY InstalledGrows
  <2>4. /\ plan \in Plan /\ AppsPlannable(read)
        /\ { t \in Declared(mem, read) : t.pkg \notin installed } = { t \in Range(plan.install) : t.pkg \notin installed }
        /\ \A s \in Scope : \A i \in DOMAIN read[s] :
               apps[s][read[s][i].pkg] # None \/ read[s][i] \in Range(plan.flatpaks[s])
    BY <1>2 DEF PlanInv
  <2>5. AppsPlannable(read)'
    BY <1>2, <2>3, <2>4 DEF AppsPlannable
  <2>6. \A s \in Scope, a \in App : apps[s][a] # None => apps'[s][a] # None
    <3>1. CASE UNCHANGED apps
      BY <3>1
    <3>2. CASE ~UNCHANGED apps
      <4>1. InstallFlatpak
        BY <1>2, <3>2 DEF NextCall, CallReturns, rebuildVars
      <4> DEFINE left(s) == LET listed == plan.flatpaks[s]
                            IN Kept(listed, { i \in DOMAIN listed : apps[s][listed[i].pkg] = None })
                 x == IF left("user") # << >> THEN "user" ELSE "system"
      <4>2. \E from \in (IF Head(left(x)).repo = None THEN Remote ELSE {Head(left(x)).repo}) :
                apps' = [apps EXCEPT ![x][Head(left(x)).pkg] = from]
        <5> HIDE DEF left
        <5> QED
          BY <3>2, <4>1, Zenon DEF InstallFlatpak, left
      <4> HIDE DEF left, x
      <4>3. PICK t : t = Head(left(x))
        OBVIOUS
      <4>4. PICK from : from \in (IF t.repo = None THEN Remote ELSE {t.repo}) /\ apps' = [apps EXCEPT ![x][t.pkg] = from]
        BY <4>2, <4>3
      <4>5. from # None
        BY <4>4, RebuildAssumption
      <4>6. apps \in [Scope -> [App -> {None} \cup Remote]]
        BY DEF TypeOK
      <4> QED
        BY <4>4, <4>5, <4>6
    <3> QED
      BY <3>1, <3>2
  <2>7. \A s \in Scope : \A i \in DOMAIN read[s] : read[s][i].pkg \in App
    <3>1. ASSUME NEW s \in Scope, NEW i \in DOMAIN read[s]
          PROVE  read[s][i].pkg \in App
      <4>1. read \in Manifest
        BY DEF TypeOK
      <4>2. PICK listed \in Seq(AppTarget) : listed = read[s]
        BY <4>1 DEF Manifest, Scope
      <4> QED
        BY <3>1, <4>2, AppTargetLaw
    <3> QED
      BY <3>1
  <2> QED
    BY <1>2, <2>2, <2>3, <2>4, <2>5, <2>6, <2>7 DEF PlanInv
<1> QED
  BY <1>1, <1>2, PlannedCases

LEMMA HeadAndTail ==
    ASSUME NEW S, NEW s \in Seq(S), s # << >>
    PROVE  /\ Head(s) \in S /\ Tail(s) \in Seq(S)
           /\ Range(s) = {Head(s)} \cup Range(Tail(s))
<1>1. PICK t : t = Tail(s)
  OBVIOUS
<1>2. /\ t \in Seq(S) /\ Len(t) = Len(s) - 1 /\ Head(s) = s[1] /\ Len(s) \in Nat \ {0}
      /\ \A i \in 1 .. Len(t) : t[i] = s[i + 1]
  BY <1>1
<1>3. DOMAIN s = 1 .. Len(s) /\ DOMAIN t = 1 .. Len(t)
  BY <1>2
<1>4. ASSUME NEW x
      PROVE  x \in Range(s) <=> x = Head(s) \/ x \in Range(t)
  <2>1. ASSUME NEW i \in DOMAIN s, x = s[i]
        PROVE  x = Head(s) \/ x \in Range(t)
    <3>1. CASE i = 1
      BY <1>2, <2>1, <3>1
    <3>2. CASE i # 1
      <4>1. i - 1 \in 1 .. Len(t) /\ (i - 1) + 1 = i
        BY <1>2, <1>3, <3>2
      <4>2. t[i - 1] = s[i]
        BY <1>2, <4>1
      <4> QED
        BY <1>3, <2>1, <4>1, <4>2 DEF Range
    <3> QED
      BY <3>1, <3>2
  <2>2. ASSUME NEW i \in DOMAIN t, x = t[i]
        PROVE  x \in Range(s)
    <3>1. i + 1 \in DOMAIN s /\ x = s[i + 1]
      BY <1>2, <1>3, <2>2
    <3> QED
      BY <3>1 DEF Range
  <2>3. Head(s) \in Range(s)
    <3>1. 1 \in DOMAIN s
      BY <1>2, <1>3
    <3> QED
      BY <1>2, <3>1 DEF Range
  <2> QED
    BY <2>1, <2>2, <2>3 DEF Range
<1> QED
  BY <1>1, <1>2, <1>4

(* An installation that a rebuild calls has what it was called for when it says so. *)
Called ==
    /\ request.noconfirm /\ ~request.dry
    /\ Range(request.targets) \subseteq Declared(mem, read)
    /\ chosen = {} /\ (pc # "end" => Range(native) \subseteq Range(request.targets))
    /\ \A t \in done : t.pkg \in installed
    /\ pc = "end" /\ result \in {"ok", "cleanup"} =>
         \A i \in DOMAIN request.targets : request.targets[i].pkg \in installed

LEMMA CalledStep ==
    ASSUME TypeOK, SourceInv, RouteInv, StageInv, Called, TargetsPlannable(mem, read),
           InstallStep, installed \subseteq installed', UNCHANGED read,
           Declared(mem', read) = Declared(mem, read)
    PROVE  Called'
<1>0. /\ mem \in [Package -> TargetRepo] /\ read \in Manifest
      /\ outcome \in [{"native", "aur"} -> {None, TRUE, FALSE}] /\ request \in {None} \cup Request
  BY DEF TypeOK, InstallTypeOK
<1>a. Declared(mem, read)' = Declared(mem, read)
  BY DEF Declared, Natives
<1>b. None # TRUE /\ None # FALSE /\ None \notin {"ok", "cleanup", "failed"}
  BY NoneFacts
<1>1. UNCHANGED request
  BY DEF InstallStep, Admit, SourceStage, LookAtLock, KeepWaiting, PartialUpgradeQuestion, Refresh,
     Route, Preflight, NativeStage, AurStage, SavePins, RecordInstall, StartCleanup, Return, asking, installVars
<1>2. ASSUME UNCHANGED << chosen, native, done >>,
             pc' = "end" => (result' = "failed" \/ (pc = "end" /\ UNCHANGED result)), pc = "end" => pc' = "end"
      PROVE  Called'
  BY <1>a, <1>1, <1>2 DEF Called
<1>3. CASE Admit \/ LookAtLock \/ KeepWaiting \/ PartialUpgradeQuestion \/ Refresh
  <2>1. UNCHANGED << chosen, native, done >> /\ (pc' = "end" => result' = "failed") /\ pc # "end"
    BY <1>3 DEF Admit, LookAtLock, KeepWaiting, PartialUpgradeQuestion, Refresh, Fails, planning, stages
  <2> QED
    BY <1>2, <2>1
<1>4. CASE SavePins \/ RecordInstall \/ StartCleanup \/ (CacheStep /\ UNCHANGED installVars)
  <2>1. /\ UNCHANGED << chosen, native, done >>
        /\ (pc' # "end" /\ pc # "end") \/ UNCHANGED << pc, result >>
    BY <1>4 DEF SavePins, RecordInstall, StartCleanup, planning, stages, installVars
  <2> QED
    BY <1>2, <2>1
<1>5. CASE Preflight
  <2>1. UNCHANGED << chosen, native, done >> /\ (pc' = "end" => result' = "failed" \/ request.dry) /\ pc # "end"
    BY <1>5 DEF Preflight, Fails, stages
  <2> QED
    BY <1>2, <2>1 DEF Called
<1>6. CASE SourceStage
  <2>1. /\ UNCHANGED planning /\ pc = "source" /\ pc' = "end" /\ installed' = installed \cup Names(done')
        /\ result' \in {"ok", "failed"}
        /\ result' = "ok" /\ ~request.dry =>
              \A i \in DOMAIN request.targets : request.targets[i].pkg \in Names(done')
    BY <1>6, SourceShape
  <2>2. \A t \in done' : t.pkg \in installed'
    BY <2>1 DEF Names
  <2> QED
    BY <1>a, <1>1, <2>1, <2>2 DEF Called, planning
<1>7. CASE Route
  <2>1. UNCHANGED << done, installed >> /\ pc = "route"
    BY <1>7, RouteShape DEF stages
  <2>2. CASE Fails /\ UNCHANGED planning
    BY <1>2, <2>1, <2>2 DEF Fails, planning
  <2>3. CASE \E t, r, more : Routed(t, r, more)
    <3>1. PICK t, r, more : Routed(t, r, more)
      BY <2>3
    <3>2. t \in Range(request.targets)
      BY <3>1 DEF Routed, Range
    <3>3. more = {}
      BY <3>1 DEF Routed, Called, Interactive
    <3>4. chosen' = {} /\ UNCHANGED pc
      BY <3>1, <3>3 DEF Routed, Called
    <3>5. Range(native') \subseteq Range(request.targets)
      <4>1. CASE ToHelper(r)
        BY <2>1, <3>1, <4>1 DEF Routed, Called
      <4>2. CASE ~ToHelper(r)
        <5>1. r = t.repo
          BY <3>1, <4>2, NoneFacts DEF Routed, RouteRepo, ToHelper, Fold, Spelling
        <5>2. t = [repo |-> t.repo, pkg |-> t.pkg]
          BY <3>1 DEF Routed, Target
        <5>3. \A x : x \in Range(native') <=> x \in Range(native) \/ \E p \in {t.pkg} : x = [repo |-> r, pkg |-> p]
          BY <3>1, <3>3, <4>2 DEF Routed, Appended
        <5> QED
          BY <2>1, <3>2, <5>1, <5>2, <5>3 DEF Called
      <4> QED
        BY <4>1, <4>2
    <3> QED
      BY <1>a, <1>1, <2>1, <3>4, <3>5 DEF Called
  <2> QED
    BY <1>7, <2>2, <2>3, RouteShape
<1>8. CASE NativeStage
  <2>1. UNCHANGED << chosen, native >> /\ pc = "native" /\ pc' = "aur"
    BY <1>8, NativeShape DEF planning
  <2>2. \A t \in done' : t.pkg \in installed'
    <3>1. CASE UNCHANGED done
      BY <3>1 DEF Called
    <3>2. CASE /\ \A t \in Range(native) : SyncPackage(t.repo, t.pkg) # None /\ Real(t) \in installed'
               /\ done' = done \cup Range(native)
      <4>1. ASSUME NEW t \in Range(native)
            PROVE  t.pkg \in installed'
        <5>1. t \in Declared(mem, read)
          BY <2>1 DEF Called
        <5>2. Real(t) = t.pkg
          BY <1>0, <3>2, <5>1, ExactLaw
        <5> QED
          BY <3>2, <5>2
      <4> QED
        BY <3>2, <4>1 DEF Called
    <3> QED
      BY <1>8, <3>1, <3>2, NativeShape DEF stages
  <2> QED
    BY <1>a, <1>1, <2>1, <2>2 DEF Called
<1>9. CASE AurStage
  <2>1. UNCHANGED << chosen, native >> /\ pc = "aur" /\ pc' = "save"
    BY <1>9, AurShape DEF planning
  <2>2. \/ UNCHANGED done
        \/ (\A t \in Range(aur) : t.pkg \in installed') /\ done' = done \cup Range(aur)
    BY <1>9, AurShape DEF stages
  <2>3. \A t \in done' : t.pkg \in installed'
    BY <2>2 DEF Called
  <2> QED
    BY <1>a, <1>1, <2>1, <2>3 DEF Called
<1>10. CASE Return
  <2>1. /\ UNCHANGED << asking, planning, stages, installed >> /\ pc = "return"
        /\ result' \in {"ok", "cleanup"} => FALSE \notin Range(outcome)
    BY <1>10 DEF Return
  <2>2. NativeOver /\ AurOver /\ routed = Len(request.targets)
    BY <2>1 DEF StageInv, RouteInv, After
  <2>3. ASSUME result' \in {"ok", "cleanup"}
        PROVE  outcome["native"] \in {None, TRUE} /\ outcome["aur"] \in {None, TRUE}
    BY <1>0, <2>1, <2>3 DEF Range
  <2>4. ASSUME result' \in {"ok", "cleanup"}
        PROVE  Range(native) \cup Range(aur) \subseteq done
    <3>1. Range(native) \subseteq done
      BY <2>2, <2>3, <2>4, EmptyRange DEF NativeOver
    <3>2. Range(aur) \subseteq done
      BY <1>b, <2>2, <2>3, <2>4, EmptyRange DEF AurOver
    <3> QED
      BY <3>1, <3>2
  <2>5. ASSUME result' \in {"ok", "cleanup"}, NEW i \in DOMAIN request.targets
        PROVE  request.targets[i].pkg \in installed
    <3>1. i \in 1 .. routed
      <4>1. request \in Request
        BY <2>1 DEF TypeOK, InstallTypeOK
      <4> QED
        BY <2>2, <2>5, <4>1 DEF Request
    <3>2. PICK t \in Range(native) \cup Range(aur) : t.pkg = request.targets[i].pkg
      BY <3>1 DEF RouteInv
    <3> QED
      BY <2>4, <2>5, <3>2 DEF Called
  <2>6. pc' = "end" /\ UNCHANGED << chosen, native, done >>
    BY <1>10 DEF Return, planning, stages
  <2> QED
    BY <1>a, <1>1, <2>1, <2>5, <2>6 DEF Called
<1> QED
  BY <1>3, <1>4, <1>5, <1>6, <1>7, <1>8, <1>9, <1>10 DEF InstallStep

LEMMA CallStep ==
    ASSUME TypeOK, CommandInv, SourceInv, OriginInv, RouteInv, StageInv, PlanInv, CallInv, [Next]_vars
    PROVE  CallInv'
<1> SUFFICES ASSUME Planned'
             PROVE  CallInv'
  BY DEF CallInv
<1>0. PlanInv'
  BY PlanStep
<1>a. read' \in Manifest /\ calls \in Seq(Seq(Target)) /\ read \in Manifest
  BY PlannedCases DEF TypeOK, MakePlan
<1>1. CASE MakePlan
  <2>1. /\ UNCHANGED << mem, installed, read >> /\ step' \in {"end", "failed", "next"}
        /\ step' = "next" => calls' = Parts(plan'.install) \o Parts(plan'.enforce)
        /\ plan' = PlanOf(mem, read, options.enforce) /\ ~Refusal(mem, read)
        /\ mem \in [Package -> TargetRepo]
    BY <1>1, MakePlanLaw DEF Planned
  <2>2. PICK p, c, m, e : p = plan' /\ c = mem /\ m = read /\ e = options.enforce
    OBVIOUS
  <2>3. p = PlanOf(c, m, e) /\ ~Refusal(c, m) /\ c \in [Package -> TargetRepo] /\ m \in Manifest
    BY <1>a, <2>1, <2>2
  <2>4. /\ p \in Plan /\ Range(p.install) \subseteq Declared(c, m) /\ Range(p.enforce) \subseteq Declared(c, m)
    BY <2>3, PlanLaw
  <2>5. p.install \in Seq(Target) /\ p.enforce \in Seq(Target)
    BY <2>4 DEF Plan
  <2>6. PICK x, y : x = Parts(p.install) /\ y = Parts(p.enforce)
    OBVIOUS
  <2>7. /\ x \in Seq(Seq(Target)) /\ y \in Seq(Seq(Target))
        /\ \A z \in Range(x) \cup Range(y) : Range(z) \subseteq Declared(c, m)
    BY <2>4, <2>5, <2>6, PartsLaw
  <2>8. Range(x \o y) = Range(x) \cup Range(y)
    <3>1. PICK S : S = Seq(Target)
      OBVIOUS
    <3> QED
      BY <2>7, <3>1, RangeOfConcat
  <2>9. step' = "next" => \A z \in Range(calls') : Range(z) \subseteq Declared(mem, read)
    BY <2>1, <2>2, <2>6, <2>7, <2>8
  <2>10. Declared(mem, read)' = Declared(mem, read)
    BY <2>1 DEF Declared, Natives
  <2> QED
    BY <2>1, <2>9, <2>10 DEF CallInv
<1>2. CASE /\ Planned /\ UNCHANGED << command, options, read, plan >>
           /\ \/ NextCall \/ CallReturns \/ InstallFlatpak
              \/ step = "call" /\ InstallStep /\ UNCHANGED rebuildVars
              \/ Quiet /\ UNCHANGED rebuildVars
  <2>1. Declared(mem', read) = Declared(mem, read) /\ TargetsPlannable(mem, read)
    BY <1>2, ReadingStays DEF PlanInv
  <2>2. Declared(mem, read)' = Declared(mem, read)
    BY <1>2, <2>1 DEF Declared, Natives
  <2>3. /\ step \in {"next", "call"} => \A c \in Range(calls) : Range(c) \subseteq Declared(mem, read)
        /\ step = "call" => Called
    BY <1>2 DEF CallInv, Called
  <2>4. CASE NextCall
    <3>1. calls # << >> /\ calls' = Tail(calls) /\ step = "next" /\ step' = "call"
      BY <2>4 DEF NextCall
    <3>2. Range(calls) = {Head(calls)} \cup Range(calls')
      <4>1. PICK S : calls \in Seq(S)
        BY <1>a
      <4> QED
        BY <3>1, <4>1, HeadAndTail
    <3>3. /\ request'.targets = Head(calls) /\ request'.noconfirm = TRUE /\ request'.dry = FALSE
          /\ chosen' = {} /\ native' = << >> /\ done' = {} /\ result' = None
      BY <2>4 DEF NextCall, Call
    <3>4. None \notin {"ok", "cleanup"}
      BY NoneFacts
    <3> QED
      BY <2>2, <2>3, <3>1, <3>2, <3>3, <3>4, EmptyRange DEF CallInv
  <2>5. CASE CallReturns \/ InstallFlatpak
    <3>1. step \in {"next", "call"} /\ step' # "call" /\ UNCHANGED calls
      BY <2>5 DEF CallReturns, InstallFlatpak, Ends
    <3> QED
      BY <2>2, <2>3, <3>1 DEF CallInv
  <2>6. CASE step = "call" /\ InstallStep /\ UNCHANGED rebuildVars
    <3>1. Called'
      BY <1>2, <2>1, <2>3, <2>6, InstalledGrows, CalledStep
    <3> QED
      BY <2>2, <2>3, <2>6, <3>1 DEF CallInv, Called, rebuildVars
  <2>7. CASE Quiet /\ UNCHANGED rebuildVars
    <3>1. step = "call" => Called'
      BY <2>2, <2>3, <2>7 DEF Called, Quiet, asking, planning, stages
    <3> QED
      BY <2>2, <2>3, <2>7, <3>1 DEF CallInv, Called, rebuildVars
  <2> QED
    BY <1>2, <2>4, <2>5, <2>6, <2>7
<1> QED
  BY <1>1, <1>2, PlannedCases

LEMMA LeftStep ==
    ASSUME TypeOK, CommandInv, SourceInv, OriginInv, PlanInv, CallInv, LeftInv, [Next]_vars
    PROVE  LeftInv'
<1> SUFFICES ASSUME Planned'
             PROVE  LeftInv'
  BY DEF LeftInv
<1>0. PlanInv'
  BY PlanStep
<1>a. calls \in Seq(Seq(Target)) /\ read \in Manifest
  BY DEF TypeOK
<1>b. installed \subseteq installed'
  BY InstalledGrows
<1>1. CASE MakePlan
  <2>1. /\ UNCHANGED << mem, installed, read, options, apps >> /\ step' \in {"end", "failed", "next"}
        /\ step' = "end" /\ ~options.dry => NothingToDo(plan')
        /\ step' = "next" => calls' = Parts(plan'.install) \o Parts(plan'.enforce)
    BY <1>1, MakePlanLaw DEF Planned
  <2>2. PICK p : p = plan'
    OBVIOUS
  <2>3. p \in Plan /\ p.install \in Seq(Target) /\ p.enforce \in Seq(Target)
    BY <1>0, <2>2 DEF PlanInv, Plan
  <2>4. CASE step' = "next"
    <3>1. PICK x, y : x = Parts(p.install) /\ y = Parts(p.enforce)
      OBVIOUS
    <3>2. /\ x \in Seq(Seq(Target)) /\ y \in Seq(Seq(Target))
          /\ \A t \in Range(p.install) : \E c \in Range(x) : t \in Range(c)
      BY <2>3, <3>1, PartsLaw
    <3>3. Range(x \o y) = Range(x) \cup Range(y)
      <4>1. PICK S : S = Seq(Target)
        OBVIOUS
      <4> QED
        BY <3>2, <4>1, RangeOfConcat
    <3>4. \A t \in Range(p.install) : \E c \in Range(calls') : t \in Range(c)
      BY <2>1, <2>2, <2>4, <3>1, <3>2, <3>3
    <3> QED
      BY <2>2, <2>4, <3>4 DEF LeftInv
  <2>5. CASE step' = "end" /\ ~options.dry
    <3>1. p.install = << >> /\ \A s \in Scope : p.flatpaks[s] = << >>
      BY <2>1, <2>2, <2>5 DEF NothingToDo
    <3>2. Range(p.install) = {} /\ \A s \in Scope : Range(p.flatpaks[s]) = {}
      BY <3>1, EmptyRange
    <3>3. \A t \in Declared(mem, read)' : t.pkg \in installed'
      BY <1>0, <2>2, <3>2 DEF PlanInv
    <3>4. \A s \in Scope : \A i \in DOMAIN read'[s] : apps'[s][read'[s][i].pkg] # None
      BY <1>0, <2>2, <3>2 DEF PlanInv
    <3> QED
      BY <2>5, <3>3, <3>4 DEF LeftInv
  <2> QED
    BY <2>1, <2>4, <2>5 DEF LeftInv
<1>2. CASE /\ Planned /\ UNCHANGED << command, options, read, plan >>
           /\ \/ NextCall \/ CallReturns \/ InstallFlatpak
              \/ step = "call" /\ InstallStep /\ UNCHANGED rebuildVars
              \/ Quiet /\ UNCHANGED rebuildVars
  <2>1. /\ step \in {"next", "call"} => \A t \in Range(plan.install) :
              \/ t.pkg \in installed
              \/ \E c \in Range(calls) : t \in Range(c)
              \/ step = "call" /\ t \in Range(request.targets)
        /\ step = "end" /\ ~options.dry =>
              /\ \A t \in Declared(mem, read) : t.pkg \in installed
              /\ \A s \in Scope : \A i \in DOMAIN read[s] : apps[s][read[s][i].pkg] # None
    BY <1>2 DEF LeftInv
  <2>2. Declared(mem, read)' = Declared(mem, read)
    <3>1. Declared(mem', read) = Declared(mem, read)
      BY <1>2, ReadingStays
    <3> QED
      BY <1>2, <3>1 DEF Declared, Natives
  <2>3. CASE NextCall
    <3>1. calls # << >> /\ calls' = Tail(calls) /\ step = "next" /\ step' = "call"
      BY <2>3 DEF NextCall
    <3>2. Range(calls) = {Head(calls)} \cup Range(calls')
      <4>1. PICK S : calls \in Seq(S)
        BY <1>a
      <4> QED
        BY <3>1, <4>1, HeadAndTail
    <3>3. request'.targets = Head(calls)
      BY <2>3 DEF NextCall, Call
    <3> QED
      BY <1>2, <1>b, <2>1, <3>1, <3>2, <3>3 DEF LeftInv
  <2>4. CASE CallReturns
    <3>1. step = "call" /\ pc = "end" /\ UNCHANGED << calls, installed >> /\ command = "rebuild"
      BY <1>2, <2>4 DEF CallReturns, installVars, Planned
    <3>2. step' = "failed" \/ (step' = "next" /\ result = "ok")
      BY <2>4, <3>1 DEF CallReturns
    <3>3. result = "ok" => \A t \in Range(request.targets) : t.pkg \in installed
      BY <1>2, <3>1 DEF CallInv, Range
    <3> QED
      BY <1>2, <2>1, <3>1, <3>2, <3>3 DEF LeftInv
  <2>5. CASE InstallFlatpak
    <3>1. step = "next" /\ calls = << >> /\ UNCHANGED << calls, installed, options >> /\ step' \in {"next", "failed", "end"}
      BY <2>5 DEF InstallFlatpak, Ends, installVars
    <3>2. \A t \in Range(plan.install) : t.pkg \in installed
      BY <2>1, <3>1, EmptyRange
    <3>3. \A t \in Declared(mem, read) : t.pkg \in installed
      BY <1>2, <3>2 DEF PlanInv
    <3>4. ASSUME step' = "end", NEW s \in Scope, NEW i \in DOMAIN read[s]
          PROVE  apps'[s][read[s][i].pkg] # None
      <4> DEFINE left(x) == LET listed == plan.flatpaks[x]
                            IN Kept(listed, { j \in DOMAIN listed : apps[x][listed[j].pkg] = None })
                 x == IF left("user") # << >> THEN "user" ELSE "system"
      <4>1. left(x) = << >> /\ UNCHANGED apps
        <5> HIDE DEF left
        <5> QED
          BY <2>5, <3>4, <3>1, Zenon DEF InstallFlatpak, left
      <4>2. left(s) = << >>
        <5> HIDE DEF left
        <5> QED
          BY <4>1 DEF Scope
      <4>3. PICK listed \in Seq(AppTarget) : listed = plan.flatpaks[s]
        BY <1>2 DEF PlanInv, Plan
      <4> DEFINE I == { j \in DOMAIN listed : apps[s][listed[j].pkg] = None }
      <4>4. Kept(listed, I) = << >>
        BY <4>2, <4>3
      <4>5. DOMAIN listed \cap I = {}
        <5> HIDE DEF I
        <5> QED
          BY <4>4, KeptRange
      <4>6. \A t \in Range(listed) : apps[s][t.pkg] # None
        BY <4>5 DEF Range
      <4>7. apps[s][read[s][i].pkg] # None \/ read[s][i] \in Range(listed)
        BY <1>2, <4>3 DEF PlanInv
      <4> QED
        BY <4>1, <4>6, <4>7
    <3> QED
      BY <1>2, <2>1, <2>2, <3>1, <3>2, <3>3, <3>4 DEF LeftInv
  <2>6. CASE UNCHANGED rebuildVars
    <3>1. step = "call" => UNCHANGED request
      <4>1. CASE Quiet
        BY <4>1 DEF Quiet, asking
      <4>2. CASE InstallStep
        BY <4>2 DEF InstallStep, Admit, SourceStage, LookAtLock, KeepWaiting, PartialUpgradeQuestion, Refresh,
           Route, Preflight, NativeStage, AurStage, SavePins, RecordInstall, StartCleanup, Return, asking, installVars
      <4>3. CASE NextCall \/ CallReturns \/ InstallFlatpak
        BY <4>3 DEF NextCall, CallReturns, InstallFlatpak, installVars, asking
      <4> QED
        BY <1>2, <4>1, <4>2, <4>3
    <3> QED
      BY <1>2, <1>b, <2>1, <2>2, <2>6, <3>1 DEF LeftInv, rebuildVars
  <2> QED
    BY <1>2, <2>3, <2>4, <2>5, <2>6
<1> QED
  BY <1>1, <1>2, PlannedCases

(* Running the rebuild again is refused by nothing, and plans what is left.     *)
LEMMA NoElements == ASSUME NEW S, NEW s \in Seq(S), DOMAIN s = {} PROVE s = << >>
<1>1. Len(s) \in Nat /\ DOMAIN s = 1 .. Len(s)
  OBVIOUS
<1>2. Len(s) = 0
  BY <1>1
<1> QED
  BY <1>2

LEMMA Resumes ==
    ASSUME TypeOK, PlanInv, LeftInv
    PROVE  RebuildResumes
<1> SUFFICES ASSUME command = "rebuild", step \in {"end", "failed"}, plan # Error, ~options.dry, ~Hidden,
                    NEW again, again = PlanOf(mem, read, FALSE)
             PROVE  /\ again # Error
                    /\ Range(again.install) = { t \in Range(plan.install) : t.pkg \notin installed }
                    /\ step = "end" => NothingToDo(again)
  BY DEF RebuildResumes
<1>1. Planned /\ mem \in [Package -> TargetRepo] /\ read \in Manifest
  BY DEF Planned, TypeOK, InstallTypeOK
<1>2. /\ TargetsPlannable(mem, read) /\ AppsPlannable(read)
      /\ { t \in Declared(mem, read) : t.pkg \notin installed } = { t \in Range(plan.install) : t.pkg \notin installed }
  BY <1>1 DEF PlanInv
<1>3. ASSUME NEW s \in Scope
      PROVE  ~FlatpaksRefused(s, read[s])
  <2>1. PICK listed \in Seq(AppTarget) : listed = read[s]
    BY <1>1, <1>3 DEF Manifest, Scope
  <2>2. ~Repeats(listed)
    BY <1>2, <1>3, <2>1 DEF AppsPlannable
  <2>3. ASSUME NEW i \in DOMAIN listed, AppsSeen[s][listed[i].pkg] # None, listed[i].repo # None
        PROVE  listed[i].repo = AppsSeen[s][listed[i].pkg]
    <3>1. listed[i].pkg \in App
      BY AppTargetLaw
    <3>2. AppsSeen[s][listed[i].pkg] = apps[s][listed[i].pkg]
      BY <1>3, <2>3, <3>1 DEF AppsSeen
    <3>3. apps[s][listed[i].pkg] \in {None, listed[i].repo}
      BY <1>3, <2>1, <2>3 DEF Hidden
    <3> QED
      BY <2>3, <3>2, <3>3
  <2> QED
    BY <2>1, <2>2, <2>3, Zenon DEF FlatpaksRefused
<1>4. ~Refusal(mem, read)
  <2>1. read["user"] = read.user /\ read["system"] = read.system /\ "user" \in Scope /\ "system" \in Scope
    BY DEF Scope
  <2>2. ~Clash(read)
    BY <1>3, <2>1 DEF Clash
  <2> QED
    BY <1>2, <2>2, RefusalLaw
<1>5. PICK c, m, e : c = mem /\ m = read /\ e = FALSE
  OBVIOUS
<1>6. ~Refusal(c, m) /\ c \in [Package -> TargetRepo] /\ m \in Manifest /\ again = PlanOf(c, m, e)
  BY <1>1, <1>4, <1>5
<1>7. /\ again \in Plan /\ again # Error /\ again.enforce = << >>
      /\ Range(again.install) = { t \in Declared(c, m) : t.pkg \notin installed }
  BY <1>5, <1>6, PlanLaw
<1>8. \A s \in Scope : again.flatpaks[s] = MissingFlatpaks(s, m[s])
  <2>1. PICK p : p = again
    OBVIOUS
  <2>2. ~Refusal(c, m) /\ p = PlanOf(c, m, e)
    BY <1>6, <2>1
  <2>3. \A s \in Scope : p.flatpaks[s] = MissingFlatpaks(s, m[s])
    BY <2>2, FlatpaksLaw
  <2> QED
    BY <2>1, <2>3
<1>9. ASSUME step = "end"
      PROVE  NothingToDo(again)
  <2>1. /\ \A t \in Declared(mem, read) : t.pkg \in installed
        /\ \A s \in Scope : \A i \in DOMAIN read[s] : apps[s][read[s][i].pkg] # None
    BY <1>1, <1>9 DEF LeftInv
  <2>2. again.install = << >>
    <3>1. PICK s \in Seq(Target) : s = again.install
      BY <1>7 DEF Plan
    <3>2. Range(s) = {}
      BY <1>5, <1>7, <2>1, <3>1
    <3>3. DOMAIN s = {}
      BY <3>2 DEF Range
    <3> QED
      BY <3>1, <3>3, NoElements
  <2>3. ASSUME NEW s \in Scope
        PROVE  again.flatpaks[s] = << >>
    <3>1. PICK listed \in Seq(AppTarget) : listed = read[s]
      BY <1>1, <2>3 DEF Manifest, Scope
    <3> DEFINE I == { j \in DOMAIN listed : AppsSeen[s][listed[j].pkg] = None }
    <3>2. again.flatpaks[s] = Kept(listed, I)
      <4>2. again.flatpaks[s] = MissingFlatpaks(s, listed)
        BY <1>5, <1>8, <2>3, <3>1
      <4> QED
        BY <4>2 DEF MissingFlatpaks
    <3>3. DOMAIN listed \cap I = {}
      <4>1. SUFFICES ASSUME NEW j \in DOMAIN listed
                     PROVE  AppsSeen[s][listed[j].pkg] # None
        OBVIOUS
      <4>2. Flatpak \in installed
        <5>1. read.user \o read.system # << >>
          <6>1. PICK a \in Seq(AppTarget), b \in Seq(AppTarget) : a = read.user /\ b = read.system
            BY <1>1 DEF Manifest
          <6>2. a # << >> \/ b # << >>
            BY <2>3, <3>1, <4>1, <6>1 DEF Scope
          <6>3. a \o b # << >>
            BY <6>2
          <6> QED
            BY <6>1, <6>3
        <5>2. CASE \E i \in DOMAIN read.pacman : read.pacman[i].pkg = Flatpak
          <6>1. PICK i \in DOMAIN read.pacman : read.pacman[i].pkg = Flatpak
            BY <5>2
          <6>2. PICK t : t = PinnedTarget(mem, read.pacman[i])
            OBVIOUS
          <6>3. t \in Declared(mem, read) /\ t.pkg = Flatpak
            BY <1>1, <1>2, <6>1, <6>2, NativeAllowed
          <6> QED
            BY <2>1, <6>3
        <5> QED
          BY <1>2, <5>1, <5>2 DEF AppsPlannable
      <4> QED
        BY <2>1, <2>3, <3>1, <4>1, <4>2 DEF AppsSeen
    <3> HIDE DEF I
    <3>4. Kept(listed, I) = << >>
      BY <3>3, KeptRange
    <3> QED
      BY <3>2, <3>4
  <2> QED
    BY <1>7, <2>2, <2>3 DEF NothingToDo
<1> QED
  BY <1>2, <1>5, <1>7, <1>9


-----------------------------------------------------------------------------
(* Captures.                                                               *)

LEMMA KeptOnce ==
    ASSUME NEW S, NEW s \in Seq(S), NEW I, \A i, j \in DOMAIN s : s[i].pkg = s[j].pkg => i = j
    PROVE  ~Repeats(Kept(s, I))
<1>1. PICK k : k = Kept(s, I)
  OBVIOUS
<1>2. PICK f : Selects(S, s, (1 .. Len(s)) \cap I, k, f)
  BY <1>1, KeptSelects
<1>3. k \in Seq(S) /\ DOMAIN k = 1 .. Len(k) /\ DOMAIN s = 1 .. Len(s) /\ Len(k) \in Nat
  BY <1>2 DEF Selects
<1>4. \A i \in DOMAIN k : f[i] \in DOMAIN s /\ f[i] \in Nat /\ k[i] = s[f[i]]
  BY <1>2, <1>3 DEF Selects
<1>5. \A i, j \in DOMAIN k : i < j => f[i] < f[j]
  BY <1>2, <1>3 DEF Selects
<1>6. ASSUME NEW i \in DOMAIN k, NEW j \in DOMAIN k, i # j, k[i].pkg = k[j].pkg
      PROVE  FALSE
  <2>1. i < j \/ j < i
    BY <1>3, <1>6
  <2>2. f[i] # f[j]
    BY <1>4, <1>5, <2>1
  <2> QED
    BY <1>4, <1>6, <2>2
<1> QED
  BY <1>1, <1>6 DEF Repeats

LEMMA ConcatOnce ==
    ASSUME NEW S, NEW a \in Seq(S), NEW b \in Seq(S), ~Repeats(a), ~Repeats(b),
           \A x \in Range(a), y \in Range(b) : x.pkg # y.pkg
    PROVE  ~Repeats(a \o b)
<1>1. PICK c : c = a \o b
  OBVIOUS
<1>2. PICK n : n = Len(a) /\ n \in Nat
  OBVIOUS
<1>3. /\ c \in Seq(S) /\ DOMAIN c = 1 .. n + Len(b) /\ Len(b) \in Nat
      /\ \A i \in 1 .. n : c[i] = a[i]
      /\ \A j \in 1 .. Len(b) : c[n + j] = b[j]
  BY <1>1, <1>2, ConcatLaw
<1>4. DOMAIN a = 1 .. n /\ DOMAIN b = 1 .. Len(b)
  BY <1>2
<1>5. \A i \in 1 .. n : c[i] = a[i] /\ c[i] \in Range(a)
  BY <1>3, <1>4 DEF Range
<1>6. \A i \in DOMAIN c : i > n => i - n \in DOMAIN b /\ c[i] = b[i - n] /\ c[i] \in Range(b)
  <2>1. SUFFICES ASSUME NEW i \in DOMAIN c, i > n
                 PROVE  i - n \in DOMAIN b /\ c[i] = b[i - n] /\ c[i] \in Range(b)
    OBVIOUS
  <2>2. i - n \in 1 .. Len(b) /\ n + (i - n) = i
    BY <1>2, <1>3, <2>1
  <2>3. c[i] = b[i - n]
    BY <1>3, <2>2
  <2> QED
    BY <1>4, <2>2, <2>3 DEF Range
<1>7. ASSUME NEW i \in DOMAIN c, NEW j \in DOMAIN c, i < j, c[i].pkg = c[j].pkg
      PROVE  FALSE
  <2>1. i \in Nat /\ j \in Nat /\ i >= 1 /\ j >= 1
    BY <1>2, <1>3
  <2>2. CASE j <= n
    <3>1. i \in 1 .. n /\ j \in 1 .. n
      BY <1>2, <1>7, <2>1, <2>2
    <3> QED
      BY <1>4, <1>5, <1>7, <2>1, <3>1 DEF Repeats
  <2>3. CASE i <= n /\ j > n
    <3>1. i \in 1 .. n
      BY <1>2, <2>1, <2>3
    <3>2. c[i] \in Range(a) /\ c[j] \in Range(b)
      BY <1>5, <1>6, <2>3, <3>1
    <3> QED
      BY <1>7, <3>2
  <2>4. CASE i > n
    <3>1. j > n
      BY <1>2, <1>7, <2>1, <2>4
    <3>2. /\ i - n \in DOMAIN b /\ c[i] = b[i - n]
          /\ j - n \in DOMAIN b /\ c[j] = b[j - n]
      BY <1>6, <2>4, <3>1
    <3>3. i - n # j - n
      BY <1>2, <1>7, <2>1
    <3> QED
      BY <1>7, <3>2, <3>3 DEF Repeats
  <2> QED
    BY <1>2, <1>7, <2>1, <2>2, <2>3, <2>4
<1>8. \A i, j \in DOMAIN c : i # j => i < j \/ j < i
  BY <1>2, <1>3
<1> QED
  BY <1>1, <1>7, <1>8 DEF Repeats

(* A listing of packages without a second entry for one of them.               *)
LEMMA ListedOnce ==
    ASSUME NEW T, IsFiniteSet(T), \A x, y \in T : x.pkg = y.pkg => x = y, NEW s, s = SetToSeq(T)
    PROVE  /\ s \in Seq(T) /\ Range(s) = T
           /\ \A i, j \in DOMAIN s : s[i].pkg = s[j].pkg => i = j
<1>1. s \in Seq(T) /\ T = { s[i] : i \in DOMAIN s }
  BY SetToSeqLists
<1>2. \A i, j \in DOMAIN s : s[i] = s[j] => i = j
  BY SetToSeqOnce
<1>3. Range(s) = T
  BY <1>1, Zenon DEF Range
<1>4. \A i \in DOMAIN s : s[i] \in T
  BY <1>1
<1> QED
  BY <1>1, <1>2, <1>3, <1>4

(* The parts of a captured manifest.                                           *)
ExplicitTargets == { CapturedTarget(p) : p \in installed \ Implied }
AppsListed(s) == { [repo |-> AppsSeen[s][a], pkg |-> a] : a \in { a \in App : AppsSeen[s][a] # None } }
OfRepos(s, repos) == Kept(s, { i \in DOMAIN s : s[i].repo \in repos })

LEMMA CapturedShape ==
    ASSUME NEW m, m = Captured, NEW all, all = SetToSeq(ExplicitTargets)
    PROVE  /\ m.sources = OfRepos(all, DOMAIN Recipes) /\ m.aur = OfRepos(all, {"aur"})
           /\ m.pacman = OfRepos(all, Repo \cup {None})
           /\ m.user = SetToSeq(AppsListed("user")) /\ m.system = SetToSeq(AppsListed("system"))
<1>1. m = [sources |-> OfRepos(all, DOMAIN Recipes), aur |-> OfRepos(all, {"aur"}), pacman |-> OfRepos(all, Repo \cup {None}),
           user |-> SetToSeq(AppsListed("user")), system |-> SetToSeq(AppsListed("system"))]
  BY Zenon DEF Captured, ExplicitTargets, AppsListed, OfRepos
<1> QED
  BY <1>1

LEMMA ExplicitOnce ==
    ASSUME TypeOK, NEW all, all = SetToSeq(ExplicitTargets)
    PROVE  /\ all \in Seq(Target) /\ Range(all) = ExplicitTargets
           /\ \A i, j \in DOMAIN all : all[i].pkg = all[j].pkg => i = j
<1> DEFINE P == installed \ Implied
           f == [p \in P |-> CapturedTarget(p)]
<1>1. P \subseteq Package
  BY DEF TypeOK, InstallTypeOK
<1>2. IsFiniteSet(P) /\ DOMAIN f = P
  BY <1>1, RebuildAssumption, FS_Subset
<1>3. \A p \in P : f[p] \in Target /\ f[p].pkg = p
  <2>1. \A p \in P : f[p] = CapturedTarget(p) /\ CapturedTarget(p) \in Target
    BY <1>1, CapturedTargetType
  <2>2. \A p : CapturedTarget(p).pkg = p
    BY DEF CapturedTarget
  <2> QED
    BY <2>1, <2>2
<1>4. ExplicitTargets = { f[p] : p \in P }
  BY DEF ExplicitTargets
<1> HIDE DEF P, f
<1>5. PICK T : T = ExplicitTargets
  OBVIOUS
<1>6. IsFiniteSet(T) /\ T \subseteq Target
  BY <1>2, <1>3, <1>4, <1>5, ImageIsFinite
<1>7. \A x, y \in T : x.pkg = y.pkg => x = y
  BY <1>3, <1>4, <1>5
<1>8. /\ all \in Seq(T) /\ Range(all) = T
      /\ \A i, j \in DOMAIN all : all[i].pkg = all[j].pkg => i = j
  BY <1>5, <1>6, <1>7, ListedOnce
<1> QED
  BY <1>5, <1>6, <1>8

LEMMA AppsOnce ==
    ASSUME TypeOK, NEW s \in Scope, NEW listed, listed = SetToSeq(AppsListed(s))
    PROVE  /\ listed \in Seq(AppTarget) /\ Range(listed) = AppsListed(s)
           /\ ~Repeats(listed)
           /\ \A i \in DOMAIN listed : /\ AppsSeen[s][listed[i].pkg] = listed[i].repo
                                       /\ listed[i].repo # None
<1> DEFINE A == { a \in App : AppsSeen[s][a] # None }
           f == [a \in A |-> [repo |-> AppsSeen[s][a], pkg |-> a]]
<1>1. A \subseteq App /\ DOMAIN f = A
  OBVIOUS
<1>2. IsFiniteSet(A)
  BY <1>1, RebuildAssumption, FS_Subset
<1>3. \A a \in App : AppsSeen[s][a] \in {None} \cup Remote
  <2>1. apps[s] \in [App -> {None} \cup Remote]
    BY DEF TypeOK
  <2> QED
    BY <2>1 DEF AppsSeen
<1>4. \A a \in A : /\ f[a] \in AppTarget /\ f[a].pkg = a /\ f[a].repo = AppsSeen[s][a]
                   /\ AppsSeen[s][a] # None
  BY <1>3 DEF AppTarget
<1>5. AppsListed(s) = { f[a] : a \in A }
  BY DEF AppsListed
<1> HIDE DEF A, f
<1>6. PICK T : T = AppsListed(s)
  OBVIOUS
<1>7. IsFiniteSet(T) /\ T \subseteq AppTarget
  BY <1>1, <1>2, <1>4, <1>5, <1>6, ImageIsFinite
<1>8. \A x, y \in T : x.pkg = y.pkg => x = y
  BY <1>4, <1>5, <1>6
<1>9. /\ listed \in Seq(T) /\ Range(listed) = T
      /\ \A i, j \in DOMAIN listed : listed[i].pkg = listed[j].pkg => i = j
  BY <1>6, <1>7, <1>8, ListedOnce
<1>10. \A x \in T : AppsSeen[s][x.pkg] = x.repo /\ x.repo # None
  BY <1>4, <1>5, <1>6
<1>11. \A i \in DOMAIN listed : listed[i] \in T
  BY <1>9
<1> QED
  BY <1>6, <1>7, <1>9, <1>10, <1>11 DEF Repeats

LEMMA OfReposLaw ==
    ASSUME TypeOK, NEW all, all = SetToSeq(ExplicitTargets), NEW repos, NEW k, k = OfRepos(all, repos)
    PROVE  /\ k \in Seq(Target) /\ ~Repeats(k)
           /\ \A t \in Range(k) : /\ t.repo \in repos /\ t.pkg \in installed /\ t = CapturedTarget(t.pkg)
<1>1. /\ all \in Seq(Target) /\ Range(all) = ExplicitTargets
      /\ \A i, j \in DOMAIN all : all[i].pkg = all[j].pkg => i = j
  BY ExplicitOnce
<1> DEFINE I == { i \in DOMAIN all : all[i].repo \in repos }
<1>2. k = Kept(all, I)
  BY DEF OfRepos
<1>3. \A i \in DOMAIN all : i \in I => all[i].repo \in repos
  OBVIOUS
<1> HIDE DEF I
<1>4. k \in Seq(Target) /\ ~Repeats(k)
  <2>1. Kept(all, I) \in Seq(Target)
    BY <1>1, KeptInSeq, Zenon
  <2>2. ~Repeats(Kept(all, I))
    BY <1>1, KeptOnce
  <2> QED
    BY <1>2, <2>1, <2>2
<1>5. Range(k) = { all[i] : i \in DOMAIN all \cap I }
  BY <1>1, <1>2, KeptRange
<1>6. \A t \in ExplicitTargets : t.pkg \in installed /\ t = CapturedTarget(t.pkg)
  <2>1. SUFFICES ASSUME NEW p \in installed, NEW t, t = CapturedTarget(p)
                 PROVE  t.pkg \in installed /\ t = CapturedTarget(t.pkg)
    BY DEF ExplicitTargets
  <2>2. t.pkg = p
    BY <2>1 DEF CapturedTarget
  <2> QED
    BY <2>1, <2>2
<1>7. \A i \in DOMAIN all : all[i] \in ExplicitTargets
  BY <1>1 DEF Range
<1> QED
  BY <1>3, <1>4, <1>5, <1>6, <1>7

LEMMA WholeOnce ==
    ASSUME TypeOK, NEW m, m = Captured
    PROVE  ~Repeats(m.sources \o m.pacman \o m.aur)
<1>1. PICK all : all = SetToSeq(ExplicitTargets)
  OBVIOUS
<1>2. PICK a, b, c : a = OfRepos(all, DOMAIN Recipes) /\ b = OfRepos(all, Repo \cup {None}) /\ c = OfRepos(all, {"aur"})
  OBVIOUS
<1>3. a = m.sources /\ b = m.pacman /\ c = m.aur
  BY <1>1, <1>2, CapturedShape
<1>4. /\ a \in Seq(Target) /\ ~Repeats(a)
      /\ \A t \in Range(a) : t.repo \in DOMAIN Recipes /\ t = CapturedTarget(t.pkg)
  BY <1>1, <1>2, OfReposLaw
<1>5. /\ b \in Seq(Target) /\ ~Repeats(b)
      /\ \A t \in Range(b) : t.repo \in Repo \cup {None} /\ t = CapturedTarget(t.pkg)
  BY <1>1, <1>2, OfReposLaw
<1>6. /\ c \in Seq(Target) /\ ~Repeats(c)
      /\ \A t \in Range(c) : t.repo = "aur" /\ t = CapturedTarget(t.pkg)
  BY <1>1, <1>2, OfReposLaw
<1>7. (Repo \cup {None}) \cap DOMAIN Recipes = {} /\ "aur" \notin DOMAIN Recipes /\ "aur" \notin Repo \cup {None}
  BY NamesAssumption, InstallationAssumption DEF Spelling
<1>8. \A x \in Range(a), y \in Range(b) : x.pkg # y.pkg
  BY <1>4, <1>5, <1>7
<1>9. \A x \in Range(a) \cup Range(b), y \in Range(c) : x.pkg # y.pkg
  BY <1>4, <1>5, <1>6, <1>7
<1>10. PICK d : d = a \o b
  OBVIOUS
<1>11. d \in Seq(Target) /\ Range(d) = Range(a) \cup Range(b) /\ ~Repeats(d)
  BY <1>4, <1>5, <1>8, <1>10, RangeOfConcat, ConcatOnce
<1>12. ~Repeats(d \o c)
  BY <1>6, <1>9, <1>11, ConcatOnce
<1> QED
  BY <1>3, <1>10, <1>12

LEMMA CapturedTargets ==
    ASSUME TypeOK, NEW m, m = Captured, m # EmptyManifest, \A p \in installed : PinIsServed(p)
    PROVE  TargetsPlannable(mem, m) /\ \A t \in Declared(mem, m) : t.pkg \in installed
<1>1. PICK all : all = SetToSeq(ExplicitTargets)
  OBVIOUS
<1>2. /\ m.sources = OfRepos(all, DOMAIN Recipes) /\ m.aur = OfRepos(all, {"aur"})
      /\ m.pacman = OfRepos(all, Repo \cup {None})
  BY <1>1, CapturedShape
<1>3. installed \subseteq Package /\ mem \in [Package -> TargetRepo]
  BY DEF TypeOK, InstallTypeOK
<1>4. PICK a, b, c : a = m.sources /\ b = m.pacman /\ c = m.aur
  OBVIOUS
<1>5. /\ a \in Seq(Target)
      /\ \A t \in Range(a) : t.repo \in DOMAIN Recipes /\ t.pkg \in installed /\ t = CapturedTarget(t.pkg)
  BY <1>1, <1>2, <1>4, OfReposLaw
<1>6. /\ b \in Seq(Target)
      /\ \A t \in Range(b) : t.repo \in Repo \cup {None} /\ t.pkg \in installed /\ t = CapturedTarget(t.pkg)
  BY <1>1, <1>2, <1>4, OfReposLaw
<1>7. /\ c \in Seq(Target)
      /\ \A t \in Range(c) : t.repo = "aur" /\ t.pkg \in installed /\ t = CapturedTarget(t.pkg)
  BY <1>1, <1>2, <1>4, OfReposLaw
<1>8. /\ (Repo \cup {None, "aur"}) \cap DOMAIN Recipes = {} /\ "aur" \notin Repo \cup {None} /\ None \notin Repo
  BY NamesAssumption, InstallationAssumption DEF Spelling
<1>9. ASSUME NEW t \in Range(a)
      PROVE  t.pkg \in Recipes[t.repo]
  <2>1. PICK p : p = t.pkg /\ p \in installed /\ t.repo = CapturedTarget(p).repo /\ t.repo \in DOMAIN Recipes
    BY <1>5
  <2>2. mem[p] \in DOMAIN Recipes /\ t.repo = mem[p]
    <3>1. CASE SourceOwner(mem, p) # None
      BY <2>1, <3>1 DEF CapturedTarget, SourceOwner
    <3>2. CASE SourceOwner(mem, p) = None
      <4> DEFINE matches == { r \in Repo : p \in Offers[r] }
      <4>1. t.repo = IF mem[p] = "aur" \/ matches = {} THEN "aur"
                     ELSE IF mem[p] \in matches THEN mem[p]
                     ELSE IF Cardinality(matches) = 1 THEN CHOOSE r \in matches : TRUE ELSE None
        BY <2>1, <3>2 DEF CapturedTarget
      <4>2. matches # {} => (CHOOSE r \in matches : TRUE) \in matches
        OBVIOUS
      <4>3. matches \subseteq Repo
        OBVIOUS
      <4> HIDE DEF matches
      <4>4. t.repo \in Repo \cup {None, "aur"}
        BY <4>1, <4>2, <4>3
      <4> QED
        BY <1>8, <2>1, <4>4
    <3> QED
      BY <3>1, <3>2
  <2>3. mem[p] \notin {None, "aur"} /\ mem[p] \notin Repo
    BY <1>8, <2>2
  <2>4. PinIsServed(p)
    BY <2>1
  <2> QED
    BY <2>1, <2>2, <2>3, <2>4 DEF PinIsServed
<1>10. ASSUME NEW t \in Range(b)
       PROVE  ~PacmanRefused(mem, t)
  <2>1. PICK p : /\ p = t.pkg /\ p \in installed /\ t = CapturedTarget(p)
                 /\ t.repo = CapturedTarget(p).repo /\ t.repo \in Repo \cup {None}
    BY <1>6
  <2> DEFINE matches == { r \in Repo : p \in Offers[r] }
  <2>2. SourceOwner(mem, p) = None
    <3>1. SUFFICES ASSUME SourceOwner(mem, p) # None
                   PROVE  FALSE
      OBVIOUS
    <3>2. t.repo = SourceOwner(mem, p)
      BY <2>1, <3>1 DEF CapturedTarget
    <3>3. t.repo \in DOMAIN Recipes
      BY <3>1, <3>2 DEF SourceOwner
    <3> QED
      BY <1>8, <2>1, <3>3
  <2>3. t.repo = IF mem[p] = "aur" \/ matches = {} THEN "aur"
                 ELSE IF mem[p] \in matches THEN mem[p]
                 ELSE IF Cardinality(matches) = 1 THEN CHOOSE r \in matches : TRUE ELSE None
    BY <2>1, <2>2 DEF CapturedTarget
  <2>4. matches # {} => (CHOOSE r \in matches : TRUE) \in matches
    OBVIOUS
  <2>5. matches \subseteq Repo /\ \A r \in Repo : r \in matches <=> p \in Offers[r]
    OBVIOUS
  <2> HIDE DEF matches
  <2>6. mem[p] # "aur" /\ matches # {}
    BY <1>8, <2>1, <2>3
  <2>7. mem[p] \notin DOMAIN Recipes
    <3>1. mem[p] \in DOMAIN Recipes => SourceOwner(mem, p) = mem[p]
      BY DEF SourceOwner
    <3>2. None \notin DOMAIN Recipes
      BY <1>8
    <3> QED
      BY <2>2, <3>1, <3>2
  <2>8. PinIsServed(p)
    BY <2>1
  <2>9. mem[p] = None \/ mem[p] \in matches
    BY <2>5, <2>6, <2>7, <2>8 DEF PinIsServed
  <2>10. CASE t.repo # None
    <3>1. t.repo \in matches
      BY <2>3, <2>4, <2>6, <2>10
    <3>2. PinnedTarget(mem, t) = t
      BY <2>10 DEF PinnedTarget
    <3> QED
      BY <2>1, <2>5, <2>10, <3>1, <3>2 DEF PacmanRefused
  <2>11. CASE t.repo = None
    <3>1. mem[p] = None
      BY <1>8, <2>3, <2>5, <2>6, <2>9, <2>11
    <3>2. t = [pkg |-> p, repo |-> None]
      BY <2>1, <2>11 DEF CapturedTarget
    <3>3. PinnedTarget(mem, t).repo = None
      BY <2>1, <2>11, <3>1, <3>2 DEF PinnedTarget
    <3>4. \E r \in Repo : p \in Offers[r]
      BY <2>5, <2>6
    <3> QED
      BY <2>1, <3>3, <3>4 DEF PacmanRefused
  <2> QED
    BY <2>10, <2>11
<1>11. TargetsPlannable(mem, m)
  <2>1. ~Repeats(m.sources \o m.pacman \o m.aur)
    BY WholeOnce
  <2>2. \A i \in DOMAIN m.sources : /\ m.sources[i].repo \in DOMAIN Recipes
                                    /\ m.sources[i].pkg \in Recipes[m.sources[i].repo]
    <3>1. \A i \in DOMAIN a : a[i] \in Range(a)
      BY DEF Range
    <3> QED
      BY <1>4, <1>5, <1>9, <3>1
  <2>3. \A i \in DOMAIN m.pacman : ~PacmanRefused(mem, m.pacman[i])
    <3>1. \A i \in DOMAIN b : b[i] \in Range(b)
      BY DEF Range
    <3> QED
      BY <1>4, <1>10, <3>1
  <2> QED
    BY <2>1, <2>2, <2>3 DEF TargetsPlannable
<1>12. \A t \in Declared(mem, m) : t.pkg \in installed
  <2>1. \A t \in Range(a) : t.pkg \in installed
    BY <1>5
  <2>2. \A i \in DOMAIN b : PinnedTarget(mem, b[i]).pkg \in installed
    <3>1. ASSUME NEW i \in DOMAIN b
          PROVE  PinnedTarget(mem, b[i]).pkg \in installed
      <4>1. PICK t \in Target : t = b[i]
        BY <1>6
      <4>2. t \in Range(b)
        BY <4>1 DEF Range
      <4>3. t.pkg \in installed
        BY <1>6, <4>2
      <4>4. PinnedTarget(mem, t).pkg = t.pkg
        BY DEF PinnedTarget, Target
      <4> QED
        BY <4>1, <4>3, <4>4
    <3> QED
      BY <3>1
  <2>3. \A i \in DOMAIN c : c[i].pkg \in installed
    BY <1>7 DEF Range
  <2>4. \A t \in Natives(mem, m) : t.pkg \in installed
    BY <1>4, <2>2 DEF Natives
  <2>5. \A t \in { [repo |-> "aur", pkg |-> m.aur[i].pkg] : i \in DOMAIN m.aur } : t.pkg \in installed
    BY <1>4, <2>3
  <2> QED
    BY <1>4, <2>1, <2>4, <2>5 DEF Declared
<1> QED
  BY <1>11, <1>12

LEMMA CapturedApps ==
    ASSUME TypeOK, NEW m, m = Captured
    PROVE  /\ AppsPlannable(m) /\ ~Clash(m)
           /\ \A s \in Scope : MissingFlatpaks(s, m[s]) = << >>
<1>1. PICK all : all = SetToSeq(ExplicitTargets)
  OBVIOUS
<1>2. m.user = SetToSeq(AppsListed("user")) /\ m.system = SetToSeq(AppsListed("system"))
  BY <1>1, CapturedShape
<1>3. m["user"] = m.user /\ m["system"] = m.system
  OBVIOUS
<1>4. \A s \in Scope : m[s] = SetToSeq(AppsListed(s))
  BY <1>2, <1>3 DEF Scope
<1>5. ASSUME NEW s \in Scope
      PROVE  /\ m[s] \in Seq(AppTarget) /\ ~Repeats(m[s]) /\ ~FlatpaksRefused(s, m[s])
             /\ \A i \in DOMAIN m[s] : AppsSeen[s][m[s][i].pkg] # None
             /\ MissingFlatpaks(s, m[s]) = << >>
  <2>1. PICK listed : listed = SetToSeq(AppsListed(s))
    OBVIOUS
  <2>2. /\ listed \in Seq(AppTarget) /\ ~Repeats(listed)
        /\ \A i \in DOMAIN listed : AppsSeen[s][listed[i].pkg] = listed[i].repo /\ listed[i].repo # None
    BY <2>1, AppsOnce
  <2>3. ~FlatpaksRefused(s, listed)
    BY <2>2 DEF FlatpaksRefused
  <2> DEFINE I == { i \in DOMAIN listed : AppsSeen[s][listed[i].pkg] = None }
  <2>4. DOMAIN listed \cap I = {}
    BY <2>2
  <2>5. MissingFlatpaks(s, listed) = Kept(listed, I)
    BY DEF MissingFlatpaks
  <2> HIDE DEF I
  <2>6. Kept(listed, I) = << >>
    BY <2>2, <2>4, KeptRange
  <2> QED
    BY <1>4, <2>1, <2>2, <2>3, <2>5, <2>6
<1>6. ~Clash(m)
  BY <1>3, <1>5 DEF Clash, Scope
<1>7. m.user \o m.system = << >> \/ Flatpak \in installed
  <2>1. PICK a \in Seq(AppTarget), b \in Seq(AppTarget) : a = m.user /\ b = m.system
    BY <1>3, <1>5 DEF Scope
  <2>2. SUFFICES ASSUME Flatpak \notin installed
                 PROVE  a \o b = << >>
    BY <2>1
  <2>3. \A s \in Scope, x \in App : AppsSeen[s][x] = None
    BY <2>2 DEF AppsSeen
  <2>4. \A s \in Scope : \A i \in DOMAIN m[s] : FALSE
    <3>1. ASSUME NEW s \in Scope, NEW i \in DOMAIN m[s]
          PROVE  FALSE
      <4>1. PICK l \in Seq(AppTarget) : l = m[s]
        BY <1>5
      <4>2. l[i].pkg \in App
        BY <3>1, <4>1, AppTargetLaw
      <4> QED
        BY <1>5, <2>3, <3>1, <4>1, <4>2
    <3> QED
      BY <3>1
  <2>5. DOMAIN a = {} /\ DOMAIN b = {}
    BY <1>3, <2>1, <2>4 DEF Scope
  <2>6. a = << >> /\ b = << >>
    BY <2>5, NoElements
  <2> QED
    BY <2>6
<1> QED
  BY <1>5, <1>6, <1>7 DEF AppsPlannable

LEMMA CaptureLaw ==
    ASSUME TypeOK, NEW m, m = Captured, m # EmptyManifest, \A p \in installed : PinIsServed(p),
           NEW again, again = PlanOf(mem, m, FALSE)
    PROVE  again # Error /\ NothingToDo(again)
<1>1. TargetsPlannable(mem, m) /\ \A t \in Declared(mem, m) : t.pkg \in installed
  BY CapturedTargets
<1>2. AppsPlannable(m) /\ ~Clash(m) /\ \A s \in Scope : MissingFlatpaks(s, m[s]) = << >>
  BY CapturedApps
<1>3. PICK c, e : c = mem /\ e = FALSE
  OBVIOUS
<1>4. ~Refusal(c, m)
  BY <1>1, <1>2, <1>3, RefusalLaw
<1>5. c \in [Package -> TargetRepo] /\ m \in Manifest /\ again = PlanOf(c, m, e)
  BY <1>3, CapturedType DEF TypeOK, InstallTypeOK
<1>6. /\ again \in Plan /\ again # Error /\ again.enforce = << >>
      /\ Range(again.install) = { t \in Declared(c, m) : t.pkg \notin installed }
  BY <1>3, <1>4, <1>5, PlanLaw
<1>7. \A s \in Scope : again.flatpaks[s] = MissingFlatpaks(s, m[s])
  <2>1. PICK p : p = again
    OBVIOUS
  <2>2. \A s \in Scope : p.flatpaks[s] = MissingFlatpaks(s, m[s])
    BY <1>4, <1>5, <2>1, FlatpaksLaw
  <2> QED
    BY <2>1, <2>2
<1>8. again.install = << >>
  <2>1. PICK s \in Seq(Target) : s = again.install
    BY <1>6 DEF Plan
  <2>2. Range(s) = {}
    BY <1>1, <1>3, <1>6, <2>1
  <2>3. DOMAIN s = {}
    BY <2>2 DEF Range
  <2> QED
    BY <2>1, <2>3, NoElements
<1> QED
  BY <1>2, <1>6, <1>7, <1>8 DEF NothingToDo

(* All that a captured manifest depends on.                                    *)
CapturedFrom(config, there, listed) ==
    LET target(p) ==
            LET matches == { r \in Repo : p \in Offers[r] } IN
            [pkg |-> p,
             repo |-> IF SourceOwner(config, p) # None THEN SourceOwner(config, p)
                      ELSE IF config[p] = "aur" \/ matches = {} THEN "aur"
                      ELSE IF config[p] \in matches THEN config[p]
                      ELSE IF Cardinality(matches) = 1 THEN CHOOSE r \in matches : TRUE ELSE None]
        targets == SetToSeq({ target(p) : p \in there \ Implied })
        of(repos) == Kept(targets, { i \in DOMAIN targets : targets[i].repo \in repos })
        seen == [s \in Scope |-> IF Flatpak \in there THEN listed[s] ELSE [a \in App |-> None]]
        found(s) == SetToSeq({ [repo |-> seen[s][a], pkg |-> a] : a \in { a \in App : seen[s][a] # None } })
    IN [sources |-> of(DOMAIN Recipes), aur |-> of({"aur"}), pacman |-> of(Repo \cup {None}),
        user |-> found("user"), system |-> found("system")]

LEMMA CapturedReads == Captured = CapturedFrom(mem, installed, apps)
  BY Zenon DEF Captured, CapturedTarget, AppsSeen, CapturedFrom

LEMMA CaptureStep ==
    ASSUME TypeOK, CommandInv, CaptureInv, [Next]_vars
    PROVE  CaptureInv'
<1> SUFFICES ASSUME step' = "commit"
             PROVE  plan' = Captured'
  BY DEF CaptureInv
<1>1. \/ Capture
      \/ step = "commit" /\ \E m \in Manifests : EditManifest(m)
      \/ UNCHANGED << installVars, rebuildVars >>
  <2>1. step = "commit" => ~(step = "call") /\ ~(step = "clean")
    OBVIOUS
  <2>2. LockMatters => step # "commit"
    BY DEF LockMatters
  <2> QED
    BY <2>1, <2>2 DEF Next, Ended, InstallCommand, CleanCommand, CleanEnds, MakePlan, NextCall, CallReturns,
       InstallFlatpak, CommitCapture, Ends, rebuildVars, vars
<1>2. UNCHANGED << mem, installed, apps >>
  BY <1>1 DEF Capture, EditManifest, installVars, rebuildVars, records
<1>3. Captured' = Captured
  <2>1. Captured = CapturedFrom(mem, installed, apps)
    BY CapturedReads
  <2>2. (Captured = CapturedFrom(mem, installed, apps))'
    BY CapturedReads, PTL
  <2>3. CapturedFrom(mem', installed', apps') = CapturedFrom(mem, installed, apps)
    BY <1>2
  <2> QED
    BY <2>1, <2>2, <2>3
<1>4. plan' = Captured
  BY <1>1 DEF Capture, EditManifest, CaptureInv, Ends, rebuildVars
<1> QED
  BY <1>3, <1>4


-----------------------------------------------------------------------------
(* The invariant.                                                          *)

LEMMA InitInv == Init => IInv
<1> SUFFICES ASSUME Init
             PROVE  IInv
  OBVIOUS
<1>1. CacheTypeOK
  <2>1. cleaning \in Cleaning /\ (cleaning.step = "off") = (cleaning.queue = << >>)
    BY DEF Init, CacheInit, NoCleaning, Cleaning
  <2> QED
    BY <2>1 DEF Init, CacheInit, CacheTypeOK, LockTypeOK
<1>2. ControlType /\ PlanningType
  <2>1. [p \in Package |-> None] \in [Package -> TargetRepo]
    BY DEF TargetRepo
  <2>2. /\ pc = "end" /\ request = None /\ polls = 0 /\ edits = 0 /\ upgrade = FALSE /\ partial = FALSE
        /\ result = None
    BY DEF Init
  <2>3. /\ routed = 0 /\ native = << >> /\ aur = << >> /\ chosen = {} /\ told = {}
        /\ wanted = [p \in Package |-> None]
    BY DEF Init
  <2>4. 0 \in 0 .. MaxPolls /\ 0 \in 0 .. MaxEdits
    BY InstallationAssumption
  <2>5. ControlType
    BY <2>2, <2>4 DEF ControlType
  <2>6. PlanningType
    BY <2>1, <2>3 DEF PlanningType
  <2> QED
    BY <2>5, <2>6
<1>3. RecordsType
  BY RebuildAssumption DEF Init, RecordsType
<1>4. RebuildType
  <2>1. options \in OptionsOf(command)
    BY RebuildAssumption, InstallationAssumption DEF Init, OptionsOf
  <2>2. EmptyManifest \in Manifest
    BY DEF EmptyManifest, Manifest
  <2>3. manifest \in Manifest /\ read \in Manifest
    BY <2>2, RebuildAssumption DEF Init
  <2> QED
    BY <2>1, <2>3, RebuildAssumption DEF Init, RebuildType
<1>5. TypeOK
  BY <1>1, <1>2, <1>3, <1>4, InstallTypeParts DEF TypeOK, RebuildType
<1>6. CommandInv /\ WaitInv /\ SourceInv /\ OriginInv /\ WarnInv /\ ScopeInv
  BY DEF Init, CommandInv, WaitInv, SourceInv, OriginInv, WarnInv, ScopeInv
<1>7. HolderInv /\ PathInv
  BY DEF Init, CacheInit, NoCleaning, HolderInv, PathInv
<1>8. RouteInv
  BY DEF Init, RouteInv, Before, After
<1>9. StageInv
  BY DEF Init, StageInv, Before, After
<1>10. WarningsAreComplete
  BY DEF Init, WarningsAreComplete
<1>11. RecordIsTruthful
  <2>1. result = None /\ history = << >> /\ outcome["native"] = None /\ native = << >>
    BY DEF Init
  <2>2. None # FALSE /\ None \notin {"ok", "cleanup"}
    BY NoneFacts
  <2>3. DOMAIN history = {}
    BY <2>1
  <2> QED
    BY <2>1, <2>2, <2>3 DEF RecordIsTruthful
<1>12. PlanInv /\ CallInv /\ LeftInv /\ CaptureInv
  BY DEF Init, Planned, PlanInv, CallInv, LeftInv, CaptureInv
<1> QED
  BY <1>5, <1>6, <1>7, <1>8, <1>9, <1>10, <1>11, <1>12 DEF IInv

LEMMA NextInv == IInv /\ [Next]_vars => IInv'
<1> SUFFICES ASSUME TypeOK, CommandInv, HolderInv, PathInv, ScopeInv, WaitInv, SourceInv,
                    RouteInv, OriginInv, WarnInv, WarningsAreComplete, StageInv, RecordIsTruthful,
                    PlanInv, CallInv, LeftInv, CaptureInv, [Next]_vars
             PROVE  IInv'
  BY DEF IInv
<1>1. TypeOK' /\ CommandInv'
  BY TypeStep, CommandStep
<1>2. HolderInv' /\ PathInv' /\ ScopeInv'
  BY HolderStep, PathStep, ScopeStep
<1>3. WaitInv' /\ SourceInv'
  BY WaitStep, SourceStep
<1>4. RouteInv' /\ OriginInv'
  BY RouteStep, OriginStep
<1>5. WarnInv' /\ WarningsAreComplete'
  BY WarnStep, WarningsStep
<1>6. StageInv' /\ RecordIsTruthful'
  BY StageStep, RecordStep
<1>7. PlanInv' /\ CallInv' /\ LeftInv' /\ CaptureInv'
  BY PlanStep, CallStep, LeftStep, CaptureStep
<1> QED
  BY <1>1, <1>2, <1>3, <1>4, <1>5, <1>6, <1>7 DEF IInv

THEOREM Invariance == Spec => []IInv
  BY InitInv, NextInv, PTL DEF Spec

(* Every variable of the installations, and of the commands around them, keeps *)
(* its type.                                                               *)
THEOREM TypeCorrect == Spec => []TypeOK
<1>1. IInv => TypeOK
  BY DEF IInv
<1> QED
  BY <1>1, Invariance, PTL

(* What an installation tells, before the transaction and after it, is true:    *)
(* every conflict and every young package has been shown, a success means that *)
(* every target is there.                                                  *)
THEOREM ReportsTrue == Spec => []ReportsAreTrue
<1>1. IInv => ReportsAreTrue
  BY DEF IInv, ReportsAreTrue
<1> QED
  BY <1>1, Invariance, PTL

(* A rebuild that stopped, wherever it did, can be planned again and plans what  *)
(* is left of its plan: the pins it saved never get in its way, and after a     *)
(* success there is nothing left to do.                                    *)
THEOREM RebuildsResume == Spec => []RebuildResumes
<1>1. IInv => RebuildResumes
  BY Resumes DEF IInv
<1> QED
  BY <1>1, Invariance, PTL

(* A cleanup removes nothing that a manager at work uses, and no cache it was   *)
(* not asked to clean.                                                     *)
THEOREM CleanupSafe == Spec => CleanupIsSafe
<1>1. IInv /\ [Next]_vars =>
          [\A m \in Manager : status[m] = "holding" /\ dirs[m] # None => dirs'[m] # None
                               \/ status'[m] # "holding"]_cacheVars
  BY SurvivalStep DEF IInv
<1>2. IInv /\ [Next]_vars =>
          [/\ \A c \in {"native", "aur"} :
                  pc = "return" /\ caches'[c] # caches[c] => request.noCache /\ outcome[c] = TRUE
           /\ caches'["sync"] # caches["sync"] => pc # "return" /\ caches'["sync"] = "trimmed"]_<< pc, caches >>
  BY ScopedStep DEF IInv
<1> QED
  BY <1>1, <1>2, Invariance, PTL DEF Spec, CleanupIsSafe, ActiveDownloadsSurvive, CleanupIsScoped

LEMMA PinsStep ==
    ASSUME TypeOK, OriginInv, StageInv, SavePins, NEW p \in Package, pins'[p] # pins[p], NamedOnce(p)
    PROVE  LET r == pins'[p] IN
          /\ outcome[IF r = "aur" THEN "aur" ELSE "native"] = TRUE
          /\ \/ << r, p >> \in chosen
             \/ \E i \in DOMAIN request.targets :
                    request.targets[i].pkg = p /\ Fold(request.targets[i].repo) = r
<1>1. PICK r : r = pins'[p]
  OBVIOUS
<1>2. pc = "save" /\ p \in Confirmed /\ r = wanted[p]
  BY <1>1, SaveShape
<1>3. r # None /\ Requested(p, r)
  BY <1>2 DEF Confirmed, OriginInv
<1>4. PICK t \in done : t.pkg = p /\ (t.repo = None \/ t.repo = r)
  BY <1>2 DEF Confirmed
<1>5. \/ outcome["native"] = TRUE /\ t \in Range(native)
      \/ outcome["aur"] = TRUE /\ t \in Range(aur)
  BY <1>2 DEF StageInv, After, DoneBy
<1>6. Bare(p) => FALSE
  <2>1. SUFFICES ASSUME Bare(p)
                 PROVE  FALSE
    OBVIOUS
  <2>2. PICK i \in DOMAIN request.targets : request.targets[i] = [repo |-> None, pkg |-> p]
    BY <2>1 DEF Bare
  <2>3. request.targets[i].pkg = p /\ request.targets[i].repo = None
    BY <2>2
  <2>4. CASE << r, p >> \in chosen
    <3>1. << r, p >>[2] = p
      OBVIOUS
    <3> QED
      BY <2>3, <2>4, <3>1 DEF NamedOnce
  <2>5. CASE \E j \in DOMAIN request.targets :
                 request.targets[j].pkg = p /\ request.targets[j].repo # None
    <3>1. PICK j \in DOMAIN request.targets : request.targets[j].pkg = p /\ request.targets[j].repo # None
      BY <2>5
    <3>2. i # j
      BY <2>3, <3>1
    <3> QED
      BY <2>3, <3>1, <3>2 DEF NamedOnce
  <2> QED
    BY <1>3, <2>4, <2>5 DEF Requested
<1>7. \A q : Requested(p, q) => q = r
  <2>1. SUFFICES ASSUME NEW q, Requested(p, q)
                 PROVE  q = r
    OBVIOUS
  <2>2. CASE << r, p >> \in chosen /\ << q, p >> \in chosen
    <3>1. << r, p >>[2] = p /\ << q, p >>[2] = p
      OBVIOUS
    <3>2. << r, p >> = << q, p >>
      BY <2>2, <3>1 DEF NamedOnce
    <3> QED
      BY <3>2
  <2>3. ASSUME NEW x, << x, p >> \in chosen, NEW i \in DOMAIN request.targets, request.targets[i].pkg = p
        PROVE  FALSE
    <3>1. << x, p >>[2] = p
      OBVIOUS
    <3> QED
      BY <2>3, <3>1 DEF NamedOnce
  <2>4. ASSUME NEW i \in DOMAIN request.targets, NEW j \in DOMAIN request.targets,
               request.targets[i].pkg = p, request.targets[j].pkg = p
        PROVE  i = j
    BY <2>4 DEF NamedOnce
  <2> QED
    BY <1>3, <2>1, <2>2, <2>3, <2>4 DEF Requested
<1>8. CASE outcome["native"] = TRUE /\ t \in Range(native)
  <2>1. t.repo # None /\ Fold(t.repo) # "aur" /\ t.repo = r
    BY <1>2, <1>4, <1>6, <1>8 DEF OriginInv
  <2>2. r # "aur"
    BY <2>1 DEF Fold, Spelling
  <2> QED
    BY <1>1, <1>3, <1>8, <2>2 DEF Requested
<1>9. CASE outcome["aur"] = TRUE /\ t \in Range(aur)
  <2>1. Requested(p, "aur")
    BY <1>2, <1>4, <1>6, <1>9 DEF OriginInv
  <2>2. r = "aur"
    BY <1>7, <2>1
  <2> QED
    BY <1>1, <1>3, <1>9, <2>2 DEF Requested
<1> QED
  BY <1>5, <1>8, <1>9

(* The pins a run saves are to the repositories the user named or selected, and *)
(* only those whose stage succeeded.                                       *)
THEOREM PinsFollow == Spec => PinsFollowRequests
<1>1. IInv /\ [Next]_vars =>
          [pc = "save" /\ pc' # pc => \A p \in Package : pins'[p] # pins[p] /\ NamedOnce(p) =>
              LET r == pins'[p] IN
              /\ outcome[IF r = "aur" THEN "aur" ELSE "native"] = TRUE
              /\ \/ << r, p >> \in chosen
                 \/ \E i \in DOMAIN request.targets :
                        request.targets[i].pkg = p /\ Fold(request.targets[i].repo) = r]_installVars
  <2>1. SUFFICES ASSUME IInv, [Next]_vars, pc = "save", pc' # pc
                 PROVE  SavePins
    BY PinsStep DEF IInv
  <2>2. CASE Quiet
    BY <2>1, <2>2 DEF Quiet
  <2>3. CASE Route
    BY <2>1, <2>3, RouteShape DEF IInv
  <2>4. CASE Admit \/ SourceStage \/ LookAtLock \/ KeepWaiting \/ PartialUpgradeQuestion \/ Refresh \/ Preflight
    BY <2>1, <2>4 DEF Admit, SourceStage, LookAtLock, KeepWaiting, PartialUpgradeQuestion, Refresh, Preflight
  <2>5. CASE NativeStage \/ AurStage \/ RecordInstall \/ StartCleanup \/ Return
    BY <2>1, <2>5 DEF NativeStage, AurStage, RecordInstall, StartCleanup, Return
  <2> QED
    BY <2>1, <2>2, <2>3, <2>4, <2>5, StepCases DEF IInv
<1> QED
  BY <1>1, Invariance, PTL DEF Spec, PinsFollowRequests

(* What is written for later runs is what was asked for and can be read back:   *)
(* the pins an installation saves, and the manifest of a capture.            *)
THEOREM WrittenIsReadable == Spec => WrittenForLater
<1>1. IInv /\ [Next]_vars =>
          [step = "commit" /\ step' # step /\ manifest' # manifest =>
              /\ manifest = EmptyManifest \/ options.force
              /\ (\A p \in installed : PinIsServed(p)) =>
                     LET again == PlanOf(mem, manifest', FALSE) IN
                     manifest' # EmptyManifest => again # Error /\ NothingToDo(again)]_vars
  <2>1. SUFFICES ASSUME IInv, [Next]_vars, step = "commit", step' # step, manifest' # manifest
                 PROVE  /\ manifest = EmptyManifest \/ options.force
                        /\ (\A p \in installed : PinIsServed(p)) =>
                               LET again == PlanOf(mem, manifest', FALSE) IN
                               manifest' # EmptyManifest => again # Error /\ NothingToDo(again)
    OBVIOUS
  <2>2. CommitCapture
    BY <2>1 DEF Next, Ended, InstallCommand, CleanCommand, CleanEnds, MakePlan, NextCall, CallReturns,
       InstallFlatpak, Capture, EditManifest, LockMatters, rebuildVars, vars
  <2>3. /\ manifest = EmptyManifest \/ options.force
        /\ manifest' = Captured
    BY <2>1, <2>2 DEF CommitCapture, CaptureInv, IInv
  <2>4. PICK m : m = manifest'
    OBVIOUS
  <2>5. ASSUME \A p \in installed : PinIsServed(p), m # EmptyManifest,
               NEW again, again = PlanOf(mem, m, FALSE)
        PROVE  again # Error /\ NothingToDo(again)
    <3>1. TypeOK /\ m = Captured
      BY <2>1, <2>3, <2>4 DEF IInv
    <3> QED
      BY <2>5, <3>1, CaptureLaw
  <2> QED
    BY <2>3, <2>4, <2>5
<1> QED
  BY <1>1, Invariance, PinsFollow, PTL DEF Spec, WrittenForLater, CaptureRoundTrips
=============================================================================
