----------------------------- MODULE StoreProofs -----------------------------
(* Proofs about the two files pacpin keeps between its runs, for every set *)
(* of processes: ConfigStore, the configuration, for every set of keys and *)
(* values, and TransactionJournal, the history, for every length of it.    *)
(*                                                                        *)
(* Concurrent saves of the configuration rest on one fact: once a command  *)
(* has read or compared the file under its lock, what it has seen is the   *)
(* file, unless an editor touched it.  The history rests on its lines: all *)
(* but the last are complete, and who writes knows the greatest number.    *)
(* It implements HistoryLog, the log its readers rely on.                  *)
EXTENDS ConfigStore, TransactionJournal, SubsequenceProofs, SequenceTheorems, TLAPS

-----------------------------------------------------------------------------
(* The configuration files.                                                *)

\* What the commands of each kind pass through.
Stages(p) ==
    /\ pc[p] \in {"read", "readAux", "apply"} => op[p].kind \in Mutation
    /\ pc[p] \in {"first", "firstAux", "load", "again", "againAux",
                  "review", "compare", "compareAux", "backup"}
          => op[p].kind \in Interactive
    /\ pc[p] = "copy" => op[p].kind = "reset"
    /\ pc[p] # "idle" => op[p] \in Op
    /\ pc[p] # "idle" /\ op[p].kind = "approved" => op[p].key \notin Shared

\* Under the lock, what was read or compared is the file.
SeenIsMain(p) ==
    /\ lock = p /\ ~touched
    /\ \/ pc[p] \in {"readAux", "apply", "compareAux", "backup"}
       \/ pc[p] \in {"write", "sync", "rename"} /\ op[p].kind # "reset"
    => seen[p] = main

\* The rules a command starts from.
Base(p) == IF op[p].kind = "fresh" THEN NoRules ELSE seen[p].rules

\* A loaded configuration holds the supplements' rules and the base's ...
Loaded(p, k) ==
    LET c == config[p]
    IN /\ Base(p)[k] # None => c.ext[k] = None
       /\ c.rules[k] = IF c.ext[k] # None THEN c.ext[k] ELSE Base(p)[k]

\* ... until the user of the setup changes one of them.
ConfigIsLoaded(p) ==
    /\ pc[p] \in {"again", "againAux", "review", "apply"} =>
           \A k \in Key : Loaded(p, k)
    /\ /\ pc[p] \in {"lock", "compare", "compareAux", "backup"}
       /\ op[p].kind \in Interactive
       => \A k \in Key : k # op[p].key => Loaded(p, k)
    /\ pc[p] = "idle" \/ op[p].kind = "reset" => config[p] = NoConfig

\* What the file's rule becomes: the command's own is bound for a smart
\* unpin only.
Bound(p, k) == k # op[p].key \/ op[p].kind = "approved"
KeptRule(p, k, rules) ==
    IF op[p].kind \in {"fresh", "reset"} THEN None
    ELSE IF op[p].kind = "approved" /\ k = op[p].key /\ rules[k] = op[p].value
         THEN None ELSE rules[k]

ConfigIsChanged(p) ==
    pc[p] \in {"write", "sync", "rename"} =>
        \A k \in Key : Bound(p, k) =>
            Persistent(config[p])[k] = KeptRule(p, k, seen[p].rules)

TempIsConfig(p) ==
    /\ pc[p] \in {"sync", "rename"} => temp[p].file = File(Persistent(config[p]))
    /\ pc[p] = "rename" => temp[p].synced

BackupIsSeen(p) ==
    pc[p] \in {"write", "sync", "rename"} /\ op[p].kind \in Interactive =>
        backup[p] = seen[p]

Good(p) == /\ Stages(p) /\ SeenIsMain(p) /\ ConfigIsLoaded(p)
           /\ ConfigIsChanged(p) /\ TempIsConfig(p) /\ BackupIsSeen(p)

\* No file on the disk is a fragment.
Whole == settled /\ main.form # "torn" /\ durable.form # "torn"

IInv == TypeOK /\ Whole /\ \A p \in Proc : Good(p)

-----------------------------------------------------------------------------
LEMMA FormsOfFiles ==
    /\ NoRules \in Rules /\ NoRules \in Supplement
    /\ Missing \in Content /\ Bad \in Content /\ Torn \in Content
    /\ \A r \in Rules : File(r) \in Content
    /\ \A r \in Supplement : r \in Rules /\ File(r) \in AuxContent
    /\ Bad \in AuxContent
    /\ NoConfig \in Config
    /\ NoFile \in [file : Content, synced : BOOLEAN]
<1>1. NoRules \in Rules /\ NoRules \in Supplement
    BY DEF NoRules, Rules, Supplement
<1>2. \A r \in Supplement : r \in Rules
    BY DEF Supplement
<1>3. /\ Missing \in Content /\ Bad \in Content /\ Torn \in Content
      /\ Bad \in AuxContent
    BY <1>1 DEF Missing, Bad, Torn, Content, AuxContent
<1>4. \A r \in Rules : File(r) \in Content
    BY DEF File, Content
<1>5. \A r \in Supplement : File(r) \in AuxContent
    BY DEF File, AuxContent
<1>6. NoConfig \in Config /\ NoFile \in [file : Content, synced : BOOLEAN]
    BY <1>1, <1>3 DEF NoConfig, Config, NoFile
<1> QED BY <1>1, <1>2, <1>3, <1>4, <1>5, <1>6

\* A merge of typed rules is typed.
LEMMA MergedTyped == \A r1, r2 \in Rules : Merged(r1, r2) \in Rules
BY DEF Merged, Rules

LEMMA PersistentTyped == \A c \in Config : Persistent(c) \in Rules
<1> SUFFICES ASSUME NEW c \in Config PROVE Persistent(c) \in Rules
    OBVIOUS
<1>1. c.rules \in Rules /\ c.ext \in Rules
    BY FormsOfFiles DEF Config
<1> QED BY <1>1 DEF Persistent, Rules

\* Setting one rule of a typed configuration keeps it typed.
LEMMA ChangedTyped ==
    \A c \in Config, k \in Key, v \in Value \cup {None} :
        [c EXCEPT !.rules[k] = v] \in Config
BY DEF Config, Rules

\* Initially the types are right and every process is idle.
LEMMA InitIInv == Init => IInv
<1> SUFFICES ASSUME Init PROVE IInv
    OBVIOUS
<1>1. TypeOK
  <2>1. main \in Content /\ durable \in Content /\ settled \in BOOLEAN
    BY FormsOfFiles DEF Init
  <2>2. aux \in AuxContent
    BY FormsOfFiles DEF Init
  <2>3. /\ pc \in [Proc -> Unlocked \cup Locked]
        /\ \A p \in Proc : pc[p] \in Locked <=> lock = p
    BY ConfigAssumption DEF Init, Unlocked, Locked
  <2>4. op \in [Proc -> Op \cup {NoOp}]
    BY DEF Init
  <2>5. seen \in [Proc -> Content] /\ seenAux \in [Proc -> AuxContent]
    BY FormsOfFiles DEF Init
  <2>6. config \in [Proc -> Config] /\ backup \in [Proc -> Content]
    BY FormsOfFiles DEF Init
  <2>7. temp \in [Proc -> [file : Content, synced : BOOLEAN]]
    BY FormsOfFiles DEF Init
  <2>8. touched \in BOOLEAN /\ lock \in Proc \cup {None}
    BY DEF Init
  <2>9. begun \in 0..MaxOps /\ edits \in 0..MaxEdits
    BY ConfigAssumption DEF Init
  <2> QED BY <2>1, <2>2, <2>3, <2>4, <2>5, <2>6, <2>7, <2>8, <2>9 DEF TypeOK
<1>2. Whole
    BY DEF Init, Whole, Missing, File
<1>3. \A p \in Proc : Good(p)
    BY DEF Init, Good, Stages, SeenIsMain, ConfigIsLoaded, ConfigIsChanged,
       TempIsConfig, BackupIsSeen
<1> QED BY <1>1, <1>2, <1>3 DEF IInv

-----------------------------------------------------------------------------
\* Every step keeps the types.
LEMMA TypeStep == TypeOK /\ (\A p \in Proc : Stages(p)) /\ Next => TypeOK'
<1> SUFFICES ASSUME TypeOK, \A p \in Proc : Stages(p), Next PROVE TypeOK'
    OBVIOUS
<1> USE FormsOfFiles, ConfigAssumption
<1>1. CASE Edit
  <2>1. \/ main' \in Content /\ durable' = main' /\ settled' = TRUE /\ touched' = TRUE
            /\ aux' = aux
        \/ aux' \in AuxContent /\ UNCHANGED <<files, touched>>
    BY <1>1 DEF Edit
  <2>2. edits' \in 0..MaxEdits
    BY <1>1 DEF Edit, TypeOK
  <2> QED BY <1>1, <2>1, <2>2 DEF Edit, TypeOK, files, memory
<1>2. CASE PowerLoss
  <2>1. main' \in Content /\ durable' \in Content /\ settled' \in BOOLEAN
    BY <1>2 DEF PowerLoss, TypeOK
  <2>2. /\ pc' \in [Proc -> Unlocked \cup Locked]
        /\ \A p \in Proc : pc'[p] \in Locked <=> lock' = p
    BY <1>2 DEF PowerLoss, Unlocked, Locked
  <2>3. /\ op' \in [Proc -> Op \cup {NoOp}]
        /\ seen' \in [Proc -> Content] /\ seenAux' \in [Proc -> AuxContent]
    BY <1>2 DEF PowerLoss
  <2>4. /\ config' \in [Proc -> Config] /\ backup' \in [Proc -> Content]
        /\ temp' \in [Proc -> [file : Content, synced : BOOLEAN]]
    BY <1>2 DEF PowerLoss
  <2> QED BY <1>2, <2>1, <2>2, <2>3, <2>4 DEF PowerLoss, TypeOK, history
<1>3. ASSUME NEW p \in Proc, Step(p) PROVE TypeOK'
  <2> USE <1>3
  <2> USE DEF At, Goto, files, memory, history
  <2>1. CASE Begin(p)
    BY <2>1 DEF Begin, TypeOK, Locked, Unlocked
  <2>2. CASE Leave(p)
    BY <2>2 DEF Leave, Ends, TypeOK, Locked, Unlocked
  <2>3. CASE ReadFirst(p)
    BY <2>3 DEF ReadFirst, TypeOK, Locked, Unlocked
  <2>4. CASE ReadFirstAux(p)
    BY <2>4 DEF ReadFirstAux, TypeOK, Locked, Unlocked
  <2>5. CASE LoadSnapshot(p)
    <3>1. aux.rules \in Supplement /\ seen[p].rules \in Rules
      BY DEF TypeOK, AuxContent, Content
    <3>2. PICK r \in Rules : Loads(p, r)
      BY <2>5, <3>1 DEF LoadSnapshot
    <3>3. [rules |-> Merged(aux.rules, r), ext |-> aux.rules] \in Config
      BY <3>1, MergedTyped DEF Config
    <3>9. config' \in [Proc -> Config]
      BY <3>2, <3>3 DEF Loads, TypeOK
    <3> QED BY <2>5, <3>9 DEF LoadSnapshot, TypeOK, Locked, Unlocked
  <2>6. CASE ReadAgain(p)
    BY <2>6 DEF ReadAgain, Same, SameAux, TypeOK, Locked, Unlocked
  <2>7. CASE Review(p)
    <3>9. config' \in [Proc -> Config]
      <4>1. op[p].key \in Key /\ op[p].value \in Value
        BY <2>7 DEF Review, Stages, Op, Interactive, Mutation
      <4> QED BY <2>7, <4>1, ChangedTyped DEF Review, TypeOK
    <3> QED BY <2>7, <3>9 DEF Review, TypeOK, Locked, Unlocked
  <2>8. CASE Copy(p)
    BY <2>8 DEF Copy, TypeOK, Locked, Unlocked
  <2>9. CASE Lock(p)
    BY <2>9 DEF Lock, Entry, TypeOK, Locked, Unlocked
  <2>10. CASE Read(p)
    BY <2>10 DEF Read, TypeOK, Locked, Unlocked
  <2>11. CASE ReadAux(p)
    <3>1. aux.rules \in Supplement /\ seen[p].rules \in Rules
      BY DEF TypeOK, AuxContent, Content
    <3>3. [rules |-> Merged(aux.rules, seen[p].rules), ext |-> aux.rules] \in Config
      BY <3>1, MergedTyped DEF Config
    <3>9. config' \in [Proc -> Config]
      BY <2>11, <3>3 DEF ReadAux, Loads, TypeOK
    <3> QED BY <2>11, <3>9 DEF ReadAux, TypeOK, Locked, Unlocked
  <2>12. CASE Apply(p)
    <3>1. op[p].key \in Key /\ op[p].value \in Value \cup {None}
      BY <2>12 DEF Apply, Stages, Op, Interactive, Mutation
    <3>2. config[p].rules[op[p].key] \in Value \cup {None}
      BY <3>1 DEF TypeOK, Config, Rules
    <3>3. PICK v \in Value \cup {None} :
               config' = [config EXCEPT ![p].rules[op[p].key] = v]
      BY <2>12, <3>1, <3>2 DEF Apply
    <3>9. config' \in [Proc -> Config]
      BY <3>1, <3>3, ChangedTyped DEF TypeOK
    <3> QED BY <2>12, <3>9 DEF Apply, TypeOK, Locked, Unlocked
  <2>13. CASE Compare(p)
    BY <2>13 DEF Compare, Same, SameAux, TypeOK, Locked, Unlocked
  <2>14. CASE Backup(p)
    BY <2>14 DEF Backup, TypeOK, Locked, Unlocked
  <2>15. CASE Write(p)
    <3>1. File(Persistent(config[p])) \in Content
      BY PersistentTyped DEF TypeOK
    <3>9. temp' \in [Proc -> [file : Content, synced : BOOLEAN]]
      BY <2>15, <3>1 DEF Write, TypeOK
    <3> QED BY <2>15, <3>9 DEF Write, TypeOK, Locked, Unlocked
  <2>16. CASE Sync(p)
    BY <2>16 DEF Sync, TypeOK, Locked, Unlocked
  <2>17. CASE Rename(p)
    BY <2>17 DEF Rename, TypeOK, Locked, Unlocked
  <2>18. CASE Done(p)
    BY <2>18 DEF Done, Ends, TypeOK, Locked, Unlocked
  <2> QED BY <2>1, <2>2, <2>3, <2>4, <2>5, <2>6, <2>7, <2>8, <2>9, <2>10, <2>11, <2>12, <2>13, <2>14, <2>15, <2>16, <2>17, <2>18 DEF Step
<1> QED BY <1>1, <1>2, <1>3 DEF Next


-----------------------------------------------------------------------------
(* A step of one process leaves what the others know as it was: nobody     *)
(* but the holder of the lock changes the file, the lock or the history.   *)
LEMMA OthersKeep ==
    ASSUME TypeOK, NEW p \in Proc, NEW q \in Proc, q # p, Step(p)
    PROVE  /\ pc'[q] = pc[q] /\ op'[q] = op[q] /\ seen'[q] = seen[q]
           /\ config'[q] = config[q] /\ temp'[q] = temp[q]
           /\ backup'[q] = backup[q]
           /\ lock' = q => lock = q /\ main' = main /\ touched' = touched
<1> USE DEF At, Goto, files, memory, history, TypeOK
<1>1. CASE Begin(p)
    BY <1>1 DEF Begin
<1>2. CASE Leave(p)
    BY <1>2, ConfigAssumption DEF Leave, Ends
<1>3. CASE ReadFirst(p)
    BY <1>3 DEF ReadFirst
<1>4. CASE ReadFirstAux(p)
    BY <1>4 DEF ReadFirstAux
<1>5. CASE LoadSnapshot(p)
    BY <1>5 DEF LoadSnapshot, Loads
<1>6. CASE ReadAgain(p)
    BY <1>6 DEF ReadAgain, Same, SameAux
<1>7. CASE Review(p)
    BY <1>7 DEF Review
<1>8. CASE Copy(p)
    BY <1>8 DEF Copy
<1>9. CASE Lock(p)
    BY <1>9 DEF Lock, Entry
<1>10. CASE Read(p)
    BY <1>10 DEF Read
<1>11. CASE ReadAux(p)
    BY <1>11 DEF ReadAux, Loads
<1>12. CASE Apply(p)
    BY <1>12 DEF Apply
<1>13. CASE Compare(p)
    BY <1>13 DEF Compare, Same, SameAux
<1>14. CASE Backup(p)
    BY <1>14 DEF Backup
<1>15. CASE Write(p)
    BY <1>15 DEF Write
<1>16. CASE Sync(p)
    BY <1>16 DEF Sync
<1>17. CASE Rename(p)
    BY <1>17 DEF Rename, Locked
<1>18. CASE Done(p)
    BY <1>18, ConfigAssumption DEF Done, Ends
<1> QED BY <1>1, <1>2, <1>3, <1>4, <1>5, <1>6, <1>7, <1>8, <1>9, <1>10, <1>11, <1>12, <1>13, <1>14, <1>15, <1>16, <1>17, <1>18 DEF Step

LEMMA OthersStayGood ==
    ASSUME TypeOK, NEW p \in Proc, NEW q \in Proc, q # p, Step(p), Good(q)
    PROVE  Good(q)'
<1>1. /\ pc'[q] = pc[q] /\ op'[q] = op[q] /\ seen'[q] = seen[q]
      /\ config'[q] = config[q] /\ temp'[q] = temp[q]
      /\ backup'[q] = backup[q]
      /\ lock' = q => lock = q /\ main' = main /\ touched' = touched
    BY OthersKeep
<1>2. Stages(q)'
    BY <1>1 DEF Good, Stages
<1>3. SeenIsMain(q)'
    BY <1>1 DEF Good, SeenIsMain
<1>4. ConfigIsLoaded(q)'
    BY <1>1 DEF Good, ConfigIsLoaded, Loaded, Base
<1>5. ConfigIsChanged(q)'
    BY <1>1 DEF Good, ConfigIsChanged, Bound, KeptRule
<1>6. TempIsConfig(q)' /\ BackupIsSeen(q)'
    BY <1>1 DEF Good, TempIsConfig, BackupIsSeen
<1> QED BY <1>2, <1>3, <1>4, <1>5, <1>6 DEF Good


-----------------------------------------------------------------------------
(* A step of a process keeps what is known of it.                          *)
LEMMA OwnStaysGood ==
    ASSUME IInv, NEW p \in Proc, Step(p)
    PROVE  Good(p)'
<1> USE DEF At, Goto, files, memory, history
<1>0. TypeOK /\ Good(p)
    BY DEF IInv
<1>1. CASE Begin(p)
  <2> USE <1>0, <1>1 DEF Begin, TypeOK, Good
  <2>1. Stages(p)'
    BY DEF Stages
  <2>2. SeenIsMain(p)'
    BY DEF Stages, SeenIsMain
  <2>3. ConfigIsLoaded(p)'
    <3>1. /\ pc'[p] \in {"first", "copy", "lock"} /\ config'[p] = NoConfig
          /\ pc'[p] = "lock" => op'[p].kind \notin Interactive
      BY DEF ConfigIsLoaded, Interactive
    <3> QED BY <3>1 DEF ConfigIsLoaded
  <2>4. ConfigIsChanged(p)'
    BY DEF Stages, ConfigIsChanged, Bound, KeptRule
  <2>5. TempIsConfig(p)'
    BY DEF Stages, TempIsConfig
  <2>6. BackupIsSeen(p)'
    BY DEF Stages, BackupIsSeen
  <2> QED BY <2>1, <2>2, <2>3, <2>4, <2>5, <2>6 DEF Good
<1>2. CASE Leave(p)
  <2> USE <1>0, <1>2 DEF Leave, Ends, TypeOK, Good
  <2>1. Stages(p)'
    BY DEF Stages
  <2>2. SeenIsMain(p)'
    BY DEF Stages, SeenIsMain
  <2>3. ConfigIsLoaded(p)'
    BY DEF Stages, ConfigIsLoaded, Loaded, Base
  <2>4. ConfigIsChanged(p)'
    BY DEF Stages, ConfigIsChanged, Bound, KeptRule
  <2>5. TempIsConfig(p)'
    BY DEF Stages, TempIsConfig
  <2>6. BackupIsSeen(p)'
    BY DEF Stages, BackupIsSeen
  <2> QED BY <2>1, <2>2, <2>3, <2>4, <2>5, <2>6 DEF Good
<1>3. CASE ReadFirst(p)
  <2> USE <1>0, <1>3 DEF ReadFirst, TypeOK, Good
  <2>1. Stages(p)'
    BY DEF Stages
  <2>2. SeenIsMain(p)'
    BY DEF Stages, SeenIsMain
  <2>3. ConfigIsLoaded(p)'
    BY DEF Stages, ConfigIsLoaded, Loaded, Base
  <2>4. ConfigIsChanged(p)'
    BY DEF Stages, ConfigIsChanged, Bound, KeptRule
  <2>5. TempIsConfig(p)'
    BY DEF Stages, TempIsConfig
  <2>6. BackupIsSeen(p)'
    BY DEF Stages, BackupIsSeen
  <2> QED BY <2>1, <2>2, <2>3, <2>4, <2>5, <2>6 DEF Good
<1>4. CASE ReadFirstAux(p)
  <2> USE <1>0, <1>4 DEF ReadFirstAux, TypeOK, Good
  <2>1. Stages(p)'
    BY DEF Stages
  <2>2. SeenIsMain(p)'
    BY DEF Stages, SeenIsMain
  <2>3. ConfigIsLoaded(p)'
    BY DEF Stages, ConfigIsLoaded, Loaded, Base
  <2>4. ConfigIsChanged(p)'
    BY DEF Stages, ConfigIsChanged, Bound, KeptRule
  <2>5. TempIsConfig(p)'
    BY DEF Stages, TempIsConfig
  <2>6. BackupIsSeen(p)'
    BY DEF Stages, BackupIsSeen
  <2> QED BY <2>1, <2>2, <2>3, <2>4, <2>5, <2>6 DEF Good
<1>5. CASE LoadSnapshot(p)
  <2> USE <1>0, <1>5 DEF LoadSnapshot, TypeOK, Good
  <2>1. Stages(p)'
    BY DEF Stages
  <2>2. SeenIsMain(p)'
    BY DEF Stages, SeenIsMain
  <2>3. ConfigIsLoaded(p)'
    <3>1. Loads(p, Base(p))
      BY DEF Base
    <3>2. /\ Base(p)' = Base(p) /\ pc'[p] = "again"
          /\ op'[p] = op[p] /\ op[p].kind # "reset"
      BY DEF Base, Stages, Interactive
    <3>3. config'[p] = [rules |-> Merged(aux.rules, Base(p)), ext |-> aux.rules]
      BY <3>1 DEF Loads
    <3>4. ASSUME NEW k \in Key PROVE Loaded(p, k)'
      BY <3>1, <3>2, <3>3 DEF Loaded, Loads, Distinct, Merged
    <3> QED BY <3>2, <3>4 DEF ConfigIsLoaded
  <2>4. ConfigIsChanged(p)'
    BY DEF Stages, ConfigIsChanged, Bound, KeptRule
  <2>5. TempIsConfig(p)'
    BY DEF Stages, TempIsConfig
  <2>6. BackupIsSeen(p)'
    BY DEF Stages, BackupIsSeen
  <2> QED BY <2>1, <2>2, <2>3, <2>4, <2>5, <2>6 DEF Good
<1>6. CASE ReadAgain(p)
  <2> USE <1>0, <1>6 DEF ReadAgain, Same, SameAux, TypeOK, Good
  <2>1. Stages(p)'
    BY DEF Stages
  <2>2. SeenIsMain(p)'
    BY DEF Stages, SeenIsMain
  <2>3. ConfigIsLoaded(p)'
    BY DEF Stages, ConfigIsLoaded, Loaded, Base
  <2>4. ConfigIsChanged(p)'
    BY DEF Stages, ConfigIsChanged, Bound, KeptRule
  <2>5. TempIsConfig(p)'
    BY DEF Stages, TempIsConfig
  <2>6. BackupIsSeen(p)'
    BY DEF Stages, BackupIsSeen
  <2> QED BY <2>1, <2>2, <2>3, <2>4, <2>5, <2>6 DEF Good
<1>7. CASE Review(p)
  <2> USE <1>0, <1>7 DEF Review, TypeOK, Good
  <2>1. Stages(p)'
    BY DEF Stages
  <2>2. SeenIsMain(p)'
    BY DEF Stages, SeenIsMain
  <2>3. ConfigIsLoaded(p)'
    <3>1. /\ pc'[p] = "lock" /\ op'[p] = op[p] /\ op[p].kind # "reset"
          /\ Base(p)' = Base(p)
      BY DEF Stages, Interactive, Base
    <3>2. /\ config'[p].ext = config[p].ext
          /\ \A k \in Key \ {op[p].key} : config'[p].rules[k] = config[p].rules[k]
      BY DEF Config, Rules
    <3>3. \A k \in Key : Loaded(p, k)
      BY DEF ConfigIsLoaded
    <3>4. \A k \in Key \ {op[p].key} : Loaded(p, k)'
      BY <3>1, <3>2, <3>3 DEF Loaded
    <3> QED BY <3>1, <3>4 DEF ConfigIsLoaded
  <2>4. ConfigIsChanged(p)'
    BY DEF Stages, ConfigIsChanged, Bound, KeptRule
  <2>5. TempIsConfig(p)'
    BY DEF Stages, TempIsConfig
  <2>6. BackupIsSeen(p)'
    BY DEF Stages, BackupIsSeen
  <2> QED BY <2>1, <2>2, <2>3, <2>4, <2>5, <2>6 DEF Good
<1>8. CASE Copy(p)
  <2> USE <1>0, <1>8 DEF Copy, TypeOK, Good
  <2>1. Stages(p)'
    BY DEF Stages
  <2>2. SeenIsMain(p)'
    BY DEF Stages, SeenIsMain
  <2>3. ConfigIsLoaded(p)'
    <3>1. /\ op'[p] = op[p] /\ op[p].kind = "reset" /\ pc'[p] = "lock"
          /\ config'[p] = config[p]
      BY DEF Stages
    <3> QED BY <3>1 DEF ConfigIsLoaded, Interactive
  <2>4. ConfigIsChanged(p)'
    BY DEF Stages, ConfigIsChanged, Bound, KeptRule
  <2>5. TempIsConfig(p)'
    BY DEF Stages, TempIsConfig
  <2>6. BackupIsSeen(p)'
    BY DEF Stages, BackupIsSeen
  <2> QED BY <2>1, <2>2, <2>3, <2>4, <2>5, <2>6 DEF Good
<1>9. CASE Lock(p)
  <2> USE <1>0, <1>9 DEF Lock, Entry, TypeOK, Good
  <2>1. Stages(p)'
    BY DEF Stages
  <2>2. SeenIsMain(p)'
    <3>1. \/ pc'[p] \in {"read", "compare"}
          \/ pc'[p] = "write" /\ op'[p].kind = "reset"
      BY DEF Stages, Op, Mutation
    <3> QED BY <3>1 DEF SeenIsMain
  <2>3. ConfigIsLoaded(p)'
    BY DEF Stages, ConfigIsLoaded, Loaded, Base
  <2>4. ConfigIsChanged(p)'
    <3>1. \/ pc'[p] \in {"read", "compare"}
          \/ pc'[p] = "write" /\ op'[p].kind = "reset"
      BY DEF Stages, Op, Mutation
    <3>2. op[p].kind = "reset" => config'[p] = NoConfig
      BY DEF ConfigIsLoaded
    <3>3. \A k \in Key : Persistent(NoConfig)[k] = None
      BY DEF Persistent, NoConfig, NoRules
    <3> QED BY <3>1, <3>2, <3>3 DEF ConfigIsChanged, KeptRule
  <2>5. TempIsConfig(p)'
    BY DEF Stages, TempIsConfig
  <2>6. BackupIsSeen(p)'
    BY DEF Stages, BackupIsSeen
  <2> QED BY <2>1, <2>2, <2>3, <2>4, <2>5, <2>6 DEF Good
<1>10. CASE Read(p)
  <2> USE <1>0, <1>10 DEF Read, TypeOK, Good
  <2>1. Stages(p)'
    BY DEF Stages
  <2>2. SeenIsMain(p)'
    BY DEF Stages, SeenIsMain
  <2>3. ConfigIsLoaded(p)'
    BY DEF Stages, ConfigIsLoaded, Loaded, Base
  <2>4. ConfigIsChanged(p)'
    BY DEF Stages, ConfigIsChanged, Bound, KeptRule
  <2>5. TempIsConfig(p)'
    BY DEF Stages, TempIsConfig
  <2>6. BackupIsSeen(p)'
    BY DEF Stages, BackupIsSeen
  <2> QED BY <2>1, <2>2, <2>3, <2>4, <2>5, <2>6 DEF Good
<1>11. CASE ReadAux(p)
  <2> USE <1>0, <1>11 DEF ReadAux, TypeOK, Good
  <2>1. Stages(p)'
    BY DEF Stages
  <2>2. SeenIsMain(p)'
    BY DEF Stages, SeenIsMain
  <2>3. ConfigIsLoaded(p)'
    <3>1. Loads(p, Base(p))
      BY DEF Base, Stages, Mutation
    <3>2. /\ Base(p)' = Base(p) /\ pc'[p] = "apply"
          /\ op'[p] = op[p] /\ op[p].kind # "reset"
      BY DEF Base, Stages, Mutation
    <3>3. config'[p] = [rules |-> Merged(aux.rules, Base(p)), ext |-> aux.rules]
      BY <3>1 DEF Loads
    <3>4. ASSUME NEW k \in Key PROVE Loaded(p, k)'
      BY <3>1, <3>2, <3>3 DEF Loaded, Loads, Distinct, Merged
    <3> QED BY <3>2, <3>4 DEF ConfigIsLoaded
  <2>4. ConfigIsChanged(p)'
    BY DEF Stages, ConfigIsChanged, Bound, KeptRule
  <2>5. TempIsConfig(p)'
    BY DEF Stages, TempIsConfig
  <2>6. BackupIsSeen(p)'
    BY DEF Stages, BackupIsSeen
  <2> QED BY <2>1, <2>2, <2>3, <2>4, <2>5, <2>6 DEF Good
<1>12. CASE Apply(p)
  <2> USE <1>0, <1>12 DEF Apply, TypeOK, Good
  <2>1. Stages(p)'
    BY DEF Stages
  <2>2. SeenIsMain(p)'
    BY DEF Stages, SeenIsMain
  <2>3. ConfigIsLoaded(p)'
    <3>1. pc'[p] = "write" /\ op'[p] = op[p] /\ op[p].kind # "reset"
      BY DEF Stages, Mutation
    <3> QED BY <3>1 DEF ConfigIsLoaded
  <2>4. ConfigIsChanged(p)'
    <3> DEFINE o == op[p]
               old == config[p].rules[o.key]
               new == CASE o.kind \in {"put", "claim", "fill"} -> o.value
                        [] o.kind = "approved" /\ old # o.value -> old
                        [] OTHER -> None
    <3>1. /\ pc'[p] = "write" /\ op'[p] = o /\ o.kind \in Mutation
          /\ seen'[p] = seen[p] /\ o.key \in Key /\ o \in Op
      BY DEF Stages, Op, Mutation, Interactive
    <3>2. /\ config'[p].ext = config[p].ext
          /\ config'[p].rules = [config[p].rules EXCEPT ![o.key] = new]
      BY DEF Config
    <3>3. ASSUME NEW k \in Key, Bound(p, k)
          PROVE  Persistent(config'[p])[k] = KeptRule(p, k, seen[p].rules)
      <4>1. Loaded(p, k) /\ Base(p) = seen[p].rules
        BY <3>1 DEF ConfigIsLoaded, Base, Mutation
      <4>2. Persistent(config'[p])[k] =
                IF config[p].ext[k] # None THEN None ELSE config'[p].rules[k]
        BY <3>2 DEF Persistent
      <4>3. CASE k # o.key
        <5>1. config'[p].rules[k] = config[p].rules[k]
          BY <3>2, <4>3 DEF Config, Rules
        <5> QED BY <3>1, <4>1, <4>2, <4>3, <5>1 DEF Loaded, KeptRule, Mutation
      <4>4. CASE k = o.key
        <5>1. o.kind = "approved" /\ o.key \notin Shared
          BY <3>3, <4>4 DEF Bound, Stages
        <5>2. config[p].ext[k] = None
          BY <4>4, <5>1 DEF Config, Supplement
        <5>3. config'[p].rules[k] = new
          BY <3>1, <3>2, <4>4 DEF Config, Rules
        <5>4. old = seen[p].rules[k]
          BY <4>1, <4>4, <5>2 DEF Loaded
        <5> QED BY <4>2, <4>4, <5>1, <5>2, <5>3, <5>4 DEF KeptRule
      <4> QED BY <4>3, <4>4
    <3> QED BY <3>1, <3>3 DEF ConfigIsChanged, Bound, KeptRule
  <2>5. TempIsConfig(p)'
    BY DEF Stages, TempIsConfig
  <2>6. BackupIsSeen(p)'
    <3>1. op'[p].kind \notin Interactive
      BY DEF Stages, Mutation, Interactive
    <3> QED BY <3>1 DEF BackupIsSeen
  <2> QED BY <2>1, <2>2, <2>3, <2>4, <2>5, <2>6 DEF Good
<1>13. CASE Compare(p)
  <2> USE <1>0, <1>13 DEF Compare, Same, SameAux, TypeOK, Good
  <2>1. Stages(p)'
    BY DEF Stages
  <2>2. SeenIsMain(p)'
    BY DEF Stages, SeenIsMain
  <2>3. ConfigIsLoaded(p)'
    BY DEF Stages, ConfigIsLoaded, Loaded, Base
  <2>4. ConfigIsChanged(p)'
    BY DEF Stages, ConfigIsChanged, Bound, KeptRule
  <2>5. TempIsConfig(p)'
    BY DEF Stages, TempIsConfig
  <2>6. BackupIsSeen(p)'
    BY DEF Stages, BackupIsSeen
  <2> QED BY <2>1, <2>2, <2>3, <2>4, <2>5, <2>6 DEF Good
<1>14. CASE Backup(p)
  <2> USE <1>0, <1>14 DEF Backup, TypeOK, Good
  <2>1. Stages(p)'
    BY DEF Stages
  <2>2. SeenIsMain(p)'
    BY DEF Stages, SeenIsMain
  <2>3. ConfigIsLoaded(p)'
    BY DEF Stages, ConfigIsLoaded, Loaded, Base
  <2>4. ConfigIsChanged(p)'
    <3>1. /\ op'[p] = op[p] /\ op[p].kind \in Interactive /\ config'[p] = config[p]
          /\ seen'[p] = seen[p]
      BY DEF Stages
    <3>2. ASSUME NEW k \in Key, Bound(p, k)
          PROVE  Persistent(config[p])[k] = KeptRule(p, k, seen[p].rules)
      <4>1. k # op[p].key /\ Loaded(p, k)
        BY <3>1, <3>2 DEF Bound, ConfigIsLoaded, Interactive
      <4>2. KeptRule(p, k, seen[p].rules) = Base(p)[k]
        BY <3>1, <4>1 DEF KeptRule, Base, Interactive, NoRules
      <4> QED BY <4>1, <4>2 DEF Loaded, Persistent
    <3> QED BY <3>1, <3>2 DEF ConfigIsChanged, Bound, KeptRule
  <2>5. TempIsConfig(p)'
    BY DEF Stages, TempIsConfig
  <2>6. BackupIsSeen(p)'
    BY DEF Stages, BackupIsSeen
  <2> QED BY <2>1, <2>2, <2>3, <2>4, <2>5, <2>6 DEF Good
<1>15. CASE Write(p)
  <2> USE <1>0, <1>15 DEF Write, TypeOK, Good
  <2>1. Stages(p)'
    BY DEF Stages
  <2>2. SeenIsMain(p)'
    BY DEF Stages, SeenIsMain
  <2>3. ConfigIsLoaded(p)'
    BY DEF Stages, ConfigIsLoaded, Loaded, Base
  <2>4. ConfigIsChanged(p)'
    BY DEF Stages, ConfigIsChanged, Bound, KeptRule
  <2>5. TempIsConfig(p)'
    BY DEF Stages, TempIsConfig
  <2>6. BackupIsSeen(p)'
    BY DEF Stages, BackupIsSeen
  <2> QED BY <2>1, <2>2, <2>3, <2>4, <2>5, <2>6 DEF Good
<1>16. CASE Sync(p)
  <2> USE <1>0, <1>16 DEF Sync, TypeOK, Good
  <2>1. Stages(p)'
    BY DEF Stages
  <2>2. SeenIsMain(p)'
    BY DEF Stages, SeenIsMain
  <2>3. ConfigIsLoaded(p)'
    BY DEF Stages, ConfigIsLoaded, Loaded, Base
  <2>4. ConfigIsChanged(p)'
    BY DEF Stages, ConfigIsChanged, Bound, KeptRule
  <2>5. TempIsConfig(p)'
    BY DEF Stages, TempIsConfig
  <2>6. BackupIsSeen(p)'
    BY DEF Stages, BackupIsSeen
  <2> QED BY <2>1, <2>2, <2>3, <2>4, <2>5, <2>6 DEF Good
<1>17. CASE Rename(p)
  <2> USE <1>0, <1>17 DEF Rename, TypeOK, Good
  <2>1. Stages(p)'
    BY DEF Stages
  <2>2. SeenIsMain(p)'
    BY DEF Stages, SeenIsMain
  <2>3. ConfigIsLoaded(p)'
    BY DEF Stages, ConfigIsLoaded, Loaded, Base
  <2>4. ConfigIsChanged(p)'
    BY DEF Stages, ConfigIsChanged, Bound, KeptRule
  <2>5. TempIsConfig(p)'
    BY DEF Stages, TempIsConfig
  <2>6. BackupIsSeen(p)'
    BY DEF Stages, BackupIsSeen
  <2> QED BY <2>1, <2>2, <2>3, <2>4, <2>5, <2>6 DEF Good
<1>18. CASE Done(p)
  <2> USE <1>0, <1>18 DEF Done, Ends, TypeOK, Good
  <2>1. Stages(p)'
    BY DEF Stages
  <2>2. SeenIsMain(p)'
    BY DEF Stages, SeenIsMain
  <2>3. ConfigIsLoaded(p)'
    BY DEF Stages, ConfigIsLoaded, Loaded, Base
  <2>4. ConfigIsChanged(p)'
    BY DEF Stages, ConfigIsChanged, Bound, KeptRule
  <2>5. TempIsConfig(p)'
    BY DEF Stages, TempIsConfig
  <2>6. BackupIsSeen(p)'
    BY DEF Stages, BackupIsSeen
  <2> QED BY <2>1, <2>2, <2>3, <2>4, <2>5, <2>6 DEF Good
<1> QED BY <1>1, <1>2, <1>3, <1>4, <1>5, <1>6, <1>7, <1>8, <1>9, <1>10, <1>11, <1>12, <1>13, <1>14, <1>15, <1>16, <1>17, <1>18 DEF Step


\* A file that is replaced was written and synchronized as a whole.
LEMMA WholeStep == IInv /\ Next => Whole'
<1> SUFFICES ASSUME IInv, Next PROVE Whole'
    OBVIOUS
<1> USE DEF IInv, Whole
<1>1. CASE Edit
  <2>1. CASE UNCHANGED files
    BY <2>1 DEF files
  <2>2. CASE main' \in {Bad} \cup {File(r) : r \in Rules} /\ durable' = main' /\ settled'
    <3>1. Bad.form # "torn" /\ \A r \in Rules : File(r).form # "torn"
      BY DEF Bad, File
    <3> QED BY <2>2, <3>1
  <2> QED BY <1>1, <2>1, <2>2 DEF Edit
<1>2. CASE PowerLoss
    BY <1>2 DEF PowerLoss
<1>3. ASSUME NEW p \in Proc, Step(p) PROVE Whole'
  <2>1. CASE Rename(p)
    <3>1. temp[p].synced /\ temp[p].file = File(Persistent(config[p]))
      BY <2>1 DEF Rename, At, Good, TempIsConfig
    <3>2. temp[p].file.form = "ok"
      BY <3>1 DEF File
    <3> QED BY <2>1, <3>1, <3>2 DEF Rename
  <2>2. CASE Done(p)
    BY <2>2 DEF Done
  <2>3. CASE ~Rename(p) /\ ~Done(p)
    BY <1>3, <2>3 DEF Step, Begin, Leave, ReadFirst, ReadFirstAux, LoadSnapshot,
       ReadAgain, Same, SameAux, Review, Copy, Lock, Read, ReadAux, Apply,
       Compare, Backup, Write, Sync, files
  <2> QED BY <2>1, <2>2, <2>3
<1> QED BY <1>1, <1>2, <1>3 DEF Next

LEMMA IInvStep == IInv /\ [Next]_vars => IInv'
<1> SUFFICES ASSUME IInv, [Next]_vars PROVE IInv'
    OBVIOUS
<1>1. CASE UNCHANGED vars
    BY <1>1 DEF vars, files, memory, history, IInv, TypeOK, Whole, Good, Stages,
       SeenIsMain, ConfigIsLoaded, Loaded, Base, ConfigIsChanged, Bound, KeptRule,
       TempIsConfig, BackupIsSeen
<1>2. CASE Next
  <2>1. TypeOK'
    BY <1>2, TypeStep DEF IInv, Good
  <2>2. Whole'
    BY <1>2, WholeStep
  <2>3. ASSUME NEW q \in Proc PROVE Good(q)'
    <3>1. CASE Edit
      <4>1. /\ pc' = pc /\ op' = op /\ seen' = seen /\ config' = config
            /\ temp' = temp /\ backup' = backup /\ lock' = lock
            /\ touched' \/ (main' = main /\ touched' = touched)
        BY <3>1 DEF Edit, files, memory
      <4>2. Good(q)
        BY DEF IInv
      <4>3. Stages(q)' /\ SeenIsMain(q)'
        BY <4>1, <4>2 DEF Good, Stages, SeenIsMain
      <4>4. ConfigIsLoaded(q)'
        BY <4>1, <4>2 DEF Good, ConfigIsLoaded, Loaded, Base
      <4>5. ConfigIsChanged(q)' /\ TempIsConfig(q)' /\ BackupIsSeen(q)'
        BY <4>1, <4>2 DEF Good, ConfigIsChanged, Bound, KeptRule, TempIsConfig,
           BackupIsSeen
      <4> QED BY <4>3, <4>4, <4>5 DEF Good
    <3>2. CASE PowerLoss
      BY <3>2 DEF PowerLoss, Good, Stages, SeenIsMain, ConfigIsLoaded,
         ConfigIsChanged, TempIsConfig, BackupIsSeen, NoOp
    <3>3. ASSUME NEW p \in Proc, Step(p) PROVE Good(q)'
      BY <3>3, OwnStaysGood, OthersStayGood DEF IInv
    <3> QED BY <1>2, <3>1, <3>2, <3>3 DEF Next
  <2> QED BY <2>1, <2>2, <2>3 DEF IInv
<1> QED BY <1>1, <1>2

THEOREM Invariance == Spec => []IInv
<1> QED BY InitIInv, IInvStep, PTL DEF Spec

(* The variables keep their types, and exactly the processes between the   *)
(* acquisition of the lock and their end hold it.                          *)
THEOREM TypeCorrect == Spec => []TypeOK
<1>1. IInv => TypeOK
    BY DEF IInv
<1> QED BY <1>1, Invariance, PTL

(* No kill, failure or loss of power leaves a fragment as config.toml.     *)
THEOREM NeverTorn == Spec => []MainIsWhole
<1>1. IInv => MainIsWhole
    BY DEF IInv, Whole, MainIsWhole
<1> QED BY <1>1, Invariance, PTL

\* The file is replaced by nothing but a rename.
LEMMA OnlyRenameReplaces ==
    ASSUME IInv, Next, NEW p \in Proc, Replaces(p)
    PROVE  Rename(p)
<1> USE DEF Replaces, At
<1>1. ~PowerLoss
    BY DEF PowerLoss
<1>2. ~Edit
    BY DEF Edit
<1>3. PICK q \in Proc : Step(q)
    BY <1>1, <1>2 DEF Next
<1>4. q = p
    BY <1>3, OthersKeep DEF IInv
<1>5. ~Leave(p)
    BY DEF Leave, Ends, Goto, IInv, TypeOK
<1> QED BY <1>3, <1>4, <1>5 DEF Step, Begin, ReadFirst, ReadFirstAux, LoadSnapshot,
       ReadAgain, Same, SameAux, Review, Copy, Lock, Read, ReadAux, Apply,
       Compare, Backup, Write, Sync, Done

(* However commands of any number of processes interleave, each changes in *)
(* the file as it is then only the rule it is about.                       *)
THEOREM NothingElseChanges == Spec => OnlyOwnRule
<1>1. IInv /\ [Next]_vars =>
        [\A p \in Proc : Replaces(p) /\ ~touched =>
           \A k \in Key : k # op[p].key \/ op[p].kind = "approved" =>
             CASE op[p].kind \in {"fresh", "reset"} -> main'.rules[k] = None
               [] op[p].kind = "approved" /\ k = op[p].key
                    -> main'.rules[k] = IF main.rules[k] = op[p].value THEN None
                                        ELSE main.rules[k]
               [] OTHER -> main'.rules[k] = main.rules[k]]_vars
  <2> SUFFICES ASSUME IInv, Next, NEW p \in Proc, Replaces(p), ~touched,
                      NEW k \in Key, Bound(p, k)
               PROVE  CASE op[p].kind \in {"fresh", "reset"} -> main'.rules[k] = None
                        [] op[p].kind = "approved" /\ k = op[p].key
                             -> main'.rules[k] = IF main.rules[k] = op[p].value
                                                 THEN None ELSE main.rules[k]
                        [] OTHER -> main'.rules[k] = main.rules[k]
    BY DEF Bound
  <2>1. main' = File(Persistent(config[p]))
    <3>1. Rename(p)
      BY OnlyRenameReplaces
    <3>2. TempIsConfig(p)
      BY DEF IInv, Good
    <3> QED BY <3>1, <3>2 DEF Rename, TempIsConfig, At
  <2>2. main'.rules[k] = KeptRule(p, k, seen[p].rules)
    BY <2>1 DEF File, IInv, Good, ConfigIsChanged, Replaces, At
  <2>3. op[p].kind # "reset" => seen[p] = main
    BY DEF IInv, Good, SeenIsMain, TypeOK, Locked, Replaces, At
  <2> QED BY <2>2, <2>3 DEF KeptRule
<1> QED BY <1>1, Invariance, PTL DEF Spec, OnlyOwnRule

(* What setup replaces is in the backup it has made before.                *)
THEOREM SetupBacksUp == Spec => BackupHoldsReplaced
<1>1. IInv /\ [Next]_vars =>
        [\A p \in Proc : Replaces(p) /\ ~touched /\ op[p].kind \in Interactive =>
           backup[p] = main]_vars
  <2> SUFFICES ASSUME IInv, NEW p \in Proc, Replaces(p), ~touched,
                      op[p].kind \in Interactive
               PROVE  backup[p] = main
    OBVIOUS
  <2> QED BY DEF IInv, Good, SeenIsMain, BackupIsSeen, TypeOK, Locked, Replaces,
                 At, Interactive
<1> QED BY <1>1, Invariance, PTL DEF Spec, BackupHoldsReplaced

(* For any number of processes, no command undoes another or takes a file  *)
(* away that it has not backed up.                                         *)
THEOREM CommandsDoNotInterfere == Spec => CommandsAreIsolated
BY NothingElseChanges, SetupBacksUp DEF CommandsAreIsolated

-----------------------------------------------------------------------------
(* The transaction history.                                                *)
(* IdsIncrease and LastExists of a given file.                             *)
Ordered(f) ==
    \A i, j \in Readable(f) : i < j => f[i].id < f[j].id

Total(f) ==
    \A k \in 0..Len(f) : \E i \in {0} \cup Readable(f) :
        i <= k /\ \A j \in Readable(f) : j <= k => j <= i

(* g is f, cut off somewhere, perhaps with its last line spoilt.           *)
IsPart(g, f) ==
    /\ Len(g) <= Len(f)
    /\ \A i \in 1..Len(g) : i < Len(g) => g[i] = f[i]
    /\ \A i \in 1..Len(g) : g[i].text = "whole" => f[i].text = "whole" /\ g[i].id = f[i].id

(* g is f and one line more, whose number, if it has one, is the greatest. *)
IsLonger(g, f) ==
    /\ Len(g) = Len(f) + 1
    /\ \A i \in 1..Len(f) : g[i] = f[i]
    /\ g[Len(g)].text = "whole" => \A i \in Readable(f) : f[i].id < g[Len(g)].id

(* A file that is cut off or spoilt at its end stays ordered.              *)
LEMMA PartIsOrdered ==
    \A f, g \in Seq(Line) : IsPart(g, f) /\ Ordered(f) /\ Total(f) => Ordered(g) /\ Total(g)
<1> SUFFICES ASSUME NEW f \in Seq(Line), NEW g \in Seq(Line),
                    IsPart(g, f), Ordered(f), Total(f)
             PROVE  Ordered(g) /\ Total(g)
    OBVIOUS
<1>1. Len(f) \in Nat /\ Len(g) \in Nat
    OBVIOUS
<1>2. \A i \in Readable(g) : i \in Readable(f) /\ g[i].id = f[i].id
    BY <1>1 DEF IsPart, Readable
<1>3. Ordered(g)
    BY <1>2 DEF Ordered
<1>4. ASSUME NEW k \in 0..Len(g)
      PROVE  \E i \in {0} \cup Readable(g) :
                i <= k /\ \A j \in Readable(g) : j <= k => j <= i
    <2>1. CASE k \in Readable(g)
        BY <2>1, <1>1 DEF Readable
    <2>2. CASE k \notin Readable(g) /\ k = 0
        BY <2>2, <1>1 DEF Readable
    <2>3. CASE k \notin Readable(g) /\ k # 0
        <3>1. k - 1 \in 0..Len(f)
            BY <1>1, <2>3 DEF IsPart
        <3>2. PICK i \in {0} \cup Readable(f) :
                i <= k - 1 /\ \A j \in Readable(f) : j <= k - 1 => j <= i
            BY <3>1 DEF Total
        <3>3. i \in {0} \cup Readable(g)
            BY <1>1, <3>1, <3>2 DEF IsPart, Readable
        <3>4. \A j \in Readable(g) : j <= k => j <= k - 1
            BY <2>3, <1>1 DEF Readable
        <3> QED BY <1>1, <1>2, <3>2, <3>3, <3>4 DEF Readable
    <2> QED BY <2>1, <2>2, <2>3
<1> QED BY <1>3, <1>4 DEF Total

(* A line whose number is the greatest keeps the file ordered.             *)
LEMMA LongerIsOrdered ==
    \A f, g \in Seq(Line) : IsLonger(g, f) /\ Ordered(f) /\ Total(f) => Ordered(g) /\ Total(g)
<1> SUFFICES ASSUME NEW f \in Seq(Line), NEW g \in Seq(Line),
                    IsLonger(g, f), Ordered(f), Total(f)
             PROVE  Ordered(g) /\ Total(g)
    OBVIOUS
<1>1. Len(f) \in Nat /\ Len(g) = Len(f) + 1
    BY DEF IsLonger
<1>2. \A i \in Readable(g) : i = Len(g) \/ (i \in Readable(f) /\ g[i] = f[i])
    BY <1>1 DEF IsLonger, Readable
<1>3. Readable(f) \subseteq Readable(g)
    BY <1>1 DEF IsLonger, Readable
<1>4. Ordered(g)
    <2> SUFFICES ASSUME NEW i \in Readable(g), NEW j \in Readable(g), i < j
                 PROVE  g[i].id < g[j].id
        BY DEF Ordered
    <2>1. i # Len(g) /\ i \in Readable(f) /\ g[i] = f[i]
        BY <1>1, <1>2 DEF Readable
    <2>2. CASE j = Len(g)
        BY <2>1, <2>2 DEF IsLonger, Readable
    <2>3. CASE j # Len(g)
        BY <2>1, <2>3, <1>2 DEF Ordered
    <2> QED BY <2>2, <2>3
<1>5. ASSUME NEW k \in 0..Len(g)
      PROVE  \E i \in {0} \cup Readable(g) :
                i <= k /\ \A j \in Readable(g) : j <= k => j <= i
    <2>1. CASE k \in Readable(g)
        BY <2>1, <1>1 DEF Readable
    <2>2. CASE k \notin Readable(g) /\ k <= Len(f)
        <3>1. PICK i \in {0} \cup Readable(f) :
                i <= k /\ \A j \in Readable(f) : j <= k => j <= i
            BY <2>2, <1>1 DEF Total
        <3>2. i \in {0} \cup Readable(g)
            BY <1>3, <3>1
        <3>3. \A j \in Readable(g) : j <= k => j \in Readable(f)
            BY <1>1, <1>2, <2>2
        <3> QED BY <3>1, <3>2, <3>3
    <2>3. CASE k \notin Readable(g) /\ k > Len(f)
        <3>1. PICK i \in {0} \cup Readable(f) :
                i <= Len(f) /\ \A j \in Readable(f) : j <= Len(f) => j <= i
            BY <1>1 DEF Total
        <3>2. k = Len(g)
            BY <2>3, <1>1
        <3>3. i \in {0} \cup Readable(g) /\ i <= k
            BY <1>1, <1>3, <3>1, <3>2 DEF Readable
        <3>4. \A j \in Readable(g) : j <= k => j \in Readable(f) /\ j <= Len(f)
            BY <1>1, <1>2, <2>3, <3>2 DEF Readable
        <3> QED BY <3>1, <3>3, <3>4
    <2> QED BY <2>1, <2>2, <2>3, <1>1
<1> QED BY <1>4, <1>5 DEF Total

(* get_last_transaction_id returns the greatest number of the file.        *)
LEMMA LastIdIsGreatest ==
    \A f \in Seq(Line) : Ordered(f) /\ Total(f) =>
        LastId(f) \in Nat /\ \A i \in Readable(f) : f[i].id <= LastId(f)
<1> SUFFICES ASSUME NEW f \in Seq(Line), Ordered(f), Total(f)
             PROVE  LastId(f) \in Nat /\ \A i \in Readable(f) : f[i].id <= LastId(f)
    OBVIOUS
<1>1. Len(f) \in Nat
    OBVIOUS
<1>2. \A i \in Readable(f) : f[i].id \in Nat
    <2>1. \A i \in 1..Len(f) : f[i] \in Line
        OBVIOUS
    <2> QED BY <2>1 DEF Readable, Line
<1> DEFINE last == CHOOSE j \in 0..Len(f) : IsLast(f, j)
<1>3. \E j \in 0..Len(f) : IsLast(f, j)
    <2>1. PICK i \in {0} \cup Readable(f) :
            i <= Len(f) /\ \A j \in Readable(f) : j <= Len(f) => j <= i
        BY <1>1 DEF Total
    <2>2. i \in 0..Len(f) /\ IsLast(f, i)
        BY <1>1, <2>1 DEF IsLast, Readable
    <2> QED BY <2>2
<1>4. last \in 0..Len(f) /\ IsLast(f, last)
    BY <1>3
<1>5. LastId(f) = IF last = 0 THEN 0 ELSE f[last].id
    BY DEF LastId
<1> HIDE DEF last
<1>6. CASE last = 0
    BY <1>1, <1>4, <1>5, <1>6 DEF IsLast, Readable
<1>7. CASE last # 0
    <2>1. last \in Readable(f) /\ LastId(f) = f[last].id
        BY <1>4, <1>5, <1>7 DEF IsLast
    <2>2. ASSUME NEW i \in Readable(f)
          PROVE  f[i].id <= f[last].id
        <3>1. i <= last /\ i \in Nat /\ last \in Nat
            BY <1>1, <1>4, <2>1 DEF IsLast, Readable
        <3>2. CASE i = last
            BY <1>2, <3>2
        <3>3. CASE i < last
            BY <1>2, <2>1, <3>3 DEF Ordered
        <3> QED BY <3>1, <3>2, <3>3
    <2> QED BY <1>2, <2>1, <2>2
<1> QED BY <1>6, <1>7

(* writeln! of a record or a part of one, after a newline.                 *)
LEMMA WrittenIsLonger ==
    \A f \in Seq(Line), n \in Nat, t \in Text :
        ~Ragged(f) =>
            /\ Written(f, n, t) \in Seq(Line)
            /\ Len(Written(f, n, t)) = Len(f) + 1
            /\ \A i \in 1..Len(f) : Written(f, n, t)[i] = f[i]
            /\ Written(f, n, t)[Len(f) + 1].text = t
            /\ t = "whole" => Written(f, n, t)[Len(f) + 1].id = n
<1> SUFFICES ASSUME NEW f \in Seq(Line), NEW n \in Nat, NEW t \in Text, ~Ragged(f)
             PROVE  /\ Written(f, n, t) \in Seq(Line)
                    /\ Len(Written(f, n, t)) = Len(f) + 1
                    /\ \A i \in 1..Len(f) : Written(f, n, t)[i] = f[i]
                    /\ Written(f, n, t)[Len(f) + 1].text = t
                    /\ t = "whole" => Written(f, n, t)[Len(f) + 1].id = n
    OBVIOUS
<1> DEFINE new == [id |-> IF t = "whole" THEN n ELSE 0, text |-> t, end |-> FALSE]
<1>1. new \in Line /\ new.text = t /\ (t = "whole" => new.id = n)
    BY DEF Line
<1>2. Written(f, n, t) = Append(f, new)
    BY DEF Written
<1> HIDE DEF new
<1>3. Append(f, new)[Len(f) + 1] = new /\ Len(Append(f, new)) = Len(f) + 1
    BY <1>1
<1>4. Append(f, new) \in Seq(Line) /\ \A i \in 1..Len(f) : Append(f, new)[i] = f[i]
    BY <1>1
<1> QED BY <1>1, <1>2, <1>3, <1>4

(* A newline completes the last line and changes nothing else.             *)
LEMMA NewlineCompletes ==
    \A f \in Seq(Line) :
        /\ Newline(f) \in Seq(Line)
        /\ Len(Newline(f)) = Len(f)
        /\ \A i \in 1..Len(f) : i < Len(f) => Newline(f)[i] = f[i]
        /\ \A i \in 1..Len(f) :
            Newline(f)[i].text = f[i].text /\ Newline(f)[i].id = f[i].id
        /\ \A i \in 1..Len(f) : i = Len(f) => Newline(f)[i].end
        /\ ~Ragged(Newline(f))
<1> SUFFICES ASSUME NEW f \in Seq(Line)
             PROVE  /\ Newline(f) \in Seq(Line)
                    /\ Len(Newline(f)) = Len(f)
                    /\ \A i \in 1..Len(f) : i < Len(f) => Newline(f)[i] = f[i]
                    /\ \A i \in 1..Len(f) :
                        Newline(f)[i].text = f[i].text /\ Newline(f)[i].id = f[i].id
                    /\ \A i \in 1..Len(f) : i = Len(f) => Newline(f)[i].end
                    /\ ~Ragged(Newline(f))
    OBVIOUS
<1>1. CASE ~Ragged(f)
    BY <1>1 DEF Newline, Ragged
<1>2. CASE Ragged(f)
    <2> DEFINE n == Len(f)
               done == [f[n] EXCEPT !.end = TRUE]
    <2>1. n \in 1..Len(f) /\ f[n] \in Line
        BY <1>2 DEF Ragged
    <2>2. done \in Line /\ done.text = f[n].text /\ done.id = f[n].id /\ done.end
        BY <2>1 DEF Line
    <2>3. Newline(f) = [f EXCEPT ![n] = done]
        BY <1>2 DEF Newline
    <2> HIDE DEF done
    <2>4. /\ [f EXCEPT ![n] = done] \in Seq(Line)
          /\ Len([f EXCEPT ![n] = done]) = Len(f)
          /\ \A j \in 1..Len(f) : [f EXCEPT ![n] = done][j] = IF j = n THEN done ELSE f[j]
        BY <2>1, <2>2, ExceptSeq
    <2> QED BY <2>1, <2>2, <2>3, <2>4 DEF Ragged
<1> QED BY <1>1, <1>2

(* What a power failure leaves: k lines, all but perhaps the last as they  *)
(* were, and the durable ones among them.                                  *)
Left(k) ==
    /\ file' \in Seq(Line) /\ Len(file') = k
    /\ \A i \in 1..k : i < k => file'[i] = file[i]
    /\ \A i \in 1..k : file'[i].text = "whole" =>
        file[i].text = "whole" /\ file'[i].id = file[i].id
    /\ \A i \in 1..synced : file'[i] = file[i]

LEMMA LossLeaves ==
    ASSUME file \in Seq(Line), synced \in 0..Len(file), JournalPowerLoss
    PROVE  \E k \in synced..Len(file) : Left(k)
<1>0. /\ Len(file) \in Nat /\ synced \in Nat
      /\ \A i \in 1..Len(file) : file[i] \in Line
    OBVIOUS
<1>1. ASSUME NEW k \in synced..Len(file), file' = SubSeq(file, 1, k)
      PROVE  Left(k)
    <2>1. /\ file' \in Seq(Line) /\ Len(file') = k
          /\ \A i \in 1..k : file'[i] = file[i]
        BY <1>0, <1>1, SubSeqProperties
    <2>2. synced \in Nat /\ Len(file) \in Nat /\ k \in synced..Len(file)
        BY <1>0
    <2>3. \A i \in 1..k : i < k => file'[i] = file[i]
        BY <2>1
    <2>4. \A i \in 1..k : file'[i].text = "whole" =>
            file[i].text = "whole" /\ file'[i].id = file[i].id
        BY <2>1
    <2>5. \A i \in 1..synced : file'[i] = file[i]
        BY <2>1, <2>2
    <2> QED BY <2>1, <2>2, <2>3, <2>4, <2>5 DEF Left
<1>2. ASSUME NEW k \in (synced + 1)..Len(file),
             NEW rest \in {[file[k] EXCEPT !.end = FALSE],
                          [id |-> 0, text |-> "cut", end |-> FALSE],
                          [id |-> 0, text |-> "split", end |-> FALSE]},
             file' = Append(SubSeq(file, 1, k - 1), rest)
      PROVE  Left(k)
    <2>1. /\ rest \in Line
          /\ rest.text = "whole" => file[k].text = "whole" /\ rest.id = file[k].id
        <3>1. file[k] \in Line
            BY <1>0
        <3>2. CASE rest = [file[k] EXCEPT !.end = FALSE]
            BY <3>1, <3>2 DEF Line
        <3>3. CASE rest = [id |-> 0, text |-> "cut", end |-> FALSE]
            BY <3>3 DEF Line, Text
        <3>4. CASE rest = [id |-> 0, text |-> "split", end |-> FALSE]
            BY <3>4 DEF Line, Text
        <3> QED BY <3>2, <3>3, <3>4
    <2>2. /\ SubSeq(file, 1, k - 1) \in Seq(Line) /\ Len(SubSeq(file, 1, k - 1)) = k - 1
          /\ \A i \in 1..(k - 1) : SubSeq(file, 1, k - 1)[i] = file[i]
        BY <1>0, SubSeqProperties
    <2> HIDE DEF Line
    <2>3. /\ file' \in Seq(Line) /\ Len(file') = k /\ file'[k] = rest
          /\ \A i \in 1..(k - 1) : file'[i] = file[i]
        <3> DEFINE g == SubSeq(file, 1, k - 1)
        <3>1. g \in Seq(Line) /\ Len(g) = k - 1 /\ file' = Append(g, rest)
            BY <1>2, <2>2
        <3>2. \A i \in 1..(k - 1) : g[i] = file[i]
            BY <2>2
        <3>3. k \in Nat /\ k > 0
            BY <1>0
        <3> HIDE DEF g
        <3>4. file' \in Seq(Line) /\ Len(file') = k /\ file'[k] = rest
            BY <2>1, <3>1, <3>3
        <3>5. \A i \in 1..(k - 1) : file'[i] = g[i]
            BY <2>1, <3>1, <3>3
        <3> QED BY <3>2, <3>4, <3>5
    <2>4. synced \in Nat /\ Len(file) \in Nat /\ k \in synced..Len(file)
        BY <1>0
    <2>5. \A i \in 1..k : i < k => file'[i] = file[i]
        BY <2>3, <2>4
    <2>6. \A i \in 1..k : file'[i].text = "whole" =>
            file[i].text = "whole" /\ file'[i].id = file[i].id
        BY <2>1, <2>3, <2>4
    <2>7. \A i \in 1..synced : file'[i] = file[i]
        BY <2>3, <2>4
    <2> QED BY <2>3, <2>4, <2>5, <2>6, <2>7 DEF Left
<1>3. ASSUME NEW k \in (synced + 1)..Len(file)
      PROVE  k \in synced..Len(file)
    BY <1>0
<1> QED BY <1>1, <1>2, <1>3 DEF JournalPowerLoss

-----------------------------------------------------------------------------
(* The invariant in two parts: the file, and who writes to it.             *)
FileInv ==
    /\ file \in Seq(Line) /\ synced \in 0..Len(file) /\ acked \subseteq Nat
    /\ Ordered(file) /\ Total(file)
    /\ LinesEnd /\ DurableEnds /\ AcknowledgedAreDurable

ProcInv ==
    /\ flock \in Process \cup {Nobody}
    /\ writer \in [Process -> {"idle", "locked", "repair", "body", "newline", "sync", "failed"}]
    /\ id \in [Process -> Nat]
    /\ WriterIsAlone /\ NumberIsNext

LEMMA InvariantParts == JournalIInv <=> FileInv /\ ProcInv
BY DEF JournalIInv, FileInv, ProcInv, JournalTypeOK, Ordered, Total, IdsIncrease, LastExists

(* The invariant holds at first.                                           *)
LEMMA InitInvariant == JournalInit => JournalIInv
<1> SUFFICES ASSUME JournalInit PROVE FileInv /\ ProcInv
    BY InvariantParts
<1>1. file = <<>> /\ Len(file) = 0 /\ Readable(file) = {} /\ file \in Seq(Line)
    BY DEF JournalInit, Readable
<1>2. FileInv
    BY <1>1 DEF JournalInit, FileInv, Ordered, Total, LinesEnd, DurableEnds, AcknowledgedAreDurable
<1>3. ProcInv
    BY <1>1 DEF JournalInit, ProcInv, WriterIsAlone, NumberIsNext
<1> QED BY <1>2, <1>3

(* Every step preserves it.                                                *)
LEMMA NextInvariant == JournalIInv /\ [JournalNext]_journalVars => JournalIInv'
<1> SUFFICES ASSUME FileInv, ProcInv, [JournalNext]_journalVars
             PROVE  FileInv' /\ ProcInv'
    BY DEF JournalIInv, FileInv, ProcInv, JournalTypeOK, Ordered, Total, IdsIncrease, LastExists
<1>0. /\ file \in Seq(Line) /\ Len(file) \in Nat /\ synced \in 0..Len(file)
      /\ Ordered(file) /\ Total(file)
      /\ \A i \in 1..Len(file) : file[i] \in Line
    BY DEF FileInv
<1>A. ASSUME file' = file, synced' = synced, acked' = acked
      PROVE  FileInv'
    BY <1>A DEF FileInv, LinesEnd, DurableEnds, AcknowledgedAreDurable
<1>1. ASSUME NEW p \in Process, LockJournal(p)
      PROVE  FileInv' /\ ProcInv'
    <2>1. FileInv'
        BY <1>1, <1>A DEF LockJournal
    <2>2. ProcInv'
        BY <1>1, NobodyAssumption DEF LockJournal, ProcInv, WriterIsAlone, NumberIsNext
    <2> QED BY <2>1, <2>2
<1>2. ASSUME NEW p \in Process, Number(p)
      PROVE  FileInv' /\ ProcInv'
    <2>1. FileInv'
        BY <1>2, <1>A DEF Number
    <2>2. LastId(file) \in Nat /\ \A i \in Readable(file) : file[i].id <= LastId(file)
        BY <1>0, LastIdIsGreatest
    <2>3. \A i \in Readable(file) : file[i].id < LastId(file) + 1
        BY <1>0, <2>2 DEF Readable, Line
    <2>4. ProcInv'
        BY <1>2, <2>2, <2>3 DEF Number, ProcInv, WriterIsAlone, NumberIsNext
    <2> QED BY <2>1, <2>4
(* The file is completed by a newline, by p alone.                         *)
<1>B. ASSUME file' = Newline(file), synced' = synced, acked' = acked
      PROVE  FileInv' /\ Readable(file') = Readable(file)
             /\ (\A i \in Readable(file) : file'[i].id = file[i].id)
             /\ ~Ragged(file') /\ Len(file') = Len(file)
    <2>1. /\ file' \in Seq(Line)
          /\ Len(file') = Len(file)
          /\ \A i \in 1..Len(file) : i < Len(file) => file'[i] = file[i]
          /\ \A i \in 1..Len(file) : file'[i].text = file[i].text /\ file'[i].id = file[i].id
          /\ \A i \in 1..Len(file) : i = Len(file) => file'[i].end
          /\ ~Ragged(file')
        BY <1>0, <1>B, NewlineCompletes
    <2>2. IsPart(file', file)
        BY <1>0, <2>1 DEF IsPart
    <2>3. Ordered(file') /\ Total(file')
        BY <1>0, <2>1, <2>2, PartIsOrdered
    <2>4. Readable(file') = Readable(file)
        BY <2>1 DEF Readable
    <2>5. LinesEnd'
        BY <1>0, <2>1 DEF FileInv, LinesEnd
    <2>6. DurableEnds'
        BY <1>0, <1>B, <2>1 DEF FileInv, DurableEnds
    <2>7. AcknowledgedAreDurable'
        BY <1>0, <1>B, <2>1 DEF FileInv, AcknowledgedAreDurable
    <2>8. FileInv'
        BY <1>0, <1>B, <2>1, <2>3, <2>5, <2>6, <2>7 DEF FileInv
    <2> QED BY <2>1, <2>4, <2>8 DEF Readable
<1>3. ASSUME NEW p \in Process, Repair(p)
      PROVE  FileInv' /\ ProcInv'
    <2>1. CASE file' = file /\ writer' = [writer EXCEPT ![p] = "failed"]
        <3>1. FileInv'
            BY <1>3, <1>A, <2>1 DEF Repair
        <3>2. ProcInv'
            BY <1>3, <2>1 DEF Repair, ProcInv, WriterIsAlone, NumberIsNext
        <3> QED BY <3>1, <3>2
    <2>2. CASE file' = Newline(file) /\ writer' = [writer EXCEPT ![p] = "body"]
        <3>1. /\ FileInv' /\ Readable(file') = Readable(file) /\ ~Ragged(file')
              /\ \A i \in Readable(file) : file'[i].id = file[i].id
            BY <1>3, <1>B, <2>2 DEF Repair
        <3>2. \A q \in Process : q # p => writer[q] = "idle"
            BY <1>3 DEF Repair, ProcInv, WriterIsAlone
        <3>3. ProcInv'
            BY <1>3, <2>2, <3>1, <3>2 DEF Repair, ProcInv, WriterIsAlone, NumberIsNext
        <3> QED BY <3>1, <3>3
    <2> QED BY <1>3, <2>1, <2>2 DEF Repair
<1>4. ASSUME NEW p \in Process, Body(p)
      PROVE  FileInv' /\ ProcInv'
    <2>1. CASE file' = file /\ writer' = [writer EXCEPT ![p] = "failed"]
        <3>1. FileInv'
            BY <1>4, <1>A, <2>1 DEF Body
        <3>2. ProcInv'
            BY <1>4, <2>1 DEF Body, ProcInv, WriterIsAlone, NumberIsNext
        <3> QED BY <3>1, <3>2
    <2>2. ASSUME NEW t \in Text, file' = Written(file, id[p], t),
                 writer' = [writer EXCEPT ![p] = IF t = "whole" THEN "newline" ELSE "failed"]
          PROVE  FileInv' /\ ProcInv'
        <3>1. /\ id[p] \in Nat /\ ~Ragged(file)
              /\ \A i \in Readable(file) : file[i].id < id[p]
              /\ writer[p] = "body" /\ synced' = synced /\ acked' = acked
              /\ flock' = flock /\ id' = id
            BY <1>4 DEF Body, ProcInv, NumberIsNext
        <3>2. /\ file' \in Seq(Line)
              /\ Len(file') = Len(file) + 1
              /\ \A i \in 1..Len(file) : file'[i] = file[i]
              /\ file'[Len(file) + 1].text = t
              /\ t = "whole" => file'[Len(file) + 1].id = id[p]
            BY <1>0, <2>2, <3>1, WrittenIsLonger
        <3>3. IsLonger(file', file)
            BY <1>0, <3>1, <3>2 DEF IsLonger
        <3>4. Ordered(file') /\ Total(file')
            BY <1>0, <3>2, <3>3, LongerIsOrdered
        <3>5. LinesEnd'
            <4>1. \A i \in 1..Len(file) : file[i].end
                BY <1>0, <3>1 DEF FileInv, LinesEnd, Ragged
            <4> QED BY <1>0, <3>2, <4>1 DEF LinesEnd
        <3>6. DurableEnds' /\ AcknowledgedAreDurable'
            BY <1>0, <3>1, <3>2 DEF FileInv, DurableEnds, AcknowledgedAreDurable
        <3>7. FileInv'
            BY <1>0, <3>1, <3>2, <3>4, <3>5, <3>6 DEF FileInv
        <3>8. \A q \in Process : q # p => writer[q] = "idle"
            BY <1>4 DEF Body, ProcInv, WriterIsAlone
        <3>9. t = "whole" => Len(file') \in Readable(file') /\ file'[Len(file')].id = id[p]
            BY <1>0, <3>2 DEF Readable
        <3>10. ProcInv'
            BY <2>2, <3>1, <3>8, <3>9 DEF ProcInv, WriterIsAlone, NumberIsNext
        <3> QED BY <3>7, <3>10
    <2> QED BY <1>4, <2>1, <2>2 DEF Body
<1>5. ASSUME NEW p \in Process, End(p)
      PROVE  FileInv' /\ ProcInv'
    <2>1. CASE file' = file /\ writer' = [writer EXCEPT ![p] = "failed"]
        <3>1. FileInv'
            BY <1>5, <1>A, <2>1 DEF End
        <3>2. ProcInv'
            BY <1>5, <2>1 DEF End, ProcInv, WriterIsAlone, NumberIsNext
        <3> QED BY <3>1, <3>2
    <2>2. CASE file' = Newline(file) /\ writer' = [writer EXCEPT ![p] = "sync"]
        <3>1. /\ FileInv' /\ Readable(file') = Readable(file) /\ ~Ragged(file')
              /\ Len(file') = Len(file)
              /\ \A i \in Readable(file) : file'[i].id = file[i].id
            BY <1>5, <1>B, <2>2 DEF End
        <3>2. \A q \in Process : q # p => writer[q] = "idle"
            BY <1>5 DEF End, ProcInv, WriterIsAlone
        <3>3. ProcInv'
            BY <1>5, <2>2, <3>1, <3>2 DEF End, ProcInv, WriterIsAlone, NumberIsNext
        <3> QED BY <3>1, <3>3
    <2> QED BY <1>5, <2>1, <2>2 DEF End
<1>6. ASSUME NEW p \in Process, SyncJournal(p)
      PROVE  FileInv' /\ ProcInv'
    <2>1. CASE /\ writer' = [writer EXCEPT ![p] = "failed"]
               /\ UNCHANGED <<synced, acked, flock>>
        <3>1. FileInv'
            BY <1>6, <1>A, <2>1 DEF SyncJournal
        <3>2. ProcInv'
            BY <1>6, <2>1 DEF SyncJournal, ProcInv, WriterIsAlone, NumberIsNext
        <3> QED BY <3>1, <3>2
    <2>2. CASE /\ synced' = Len(file) /\ acked' = acked \cup {id[p]}
               /\ flock' = Nobody /\ writer' = [writer EXCEPT ![p] = "idle"]
        <3>1. /\ file' = file /\ id' = id /\ id[p] \in Nat /\ ~Ragged(file)
              /\ Len(file) \in Readable(file) /\ file[Len(file)].id = id[p]
            BY <1>6 DEF SyncJournal, ProcInv, NumberIsNext
        <3>2. \A i \in 1..Len(file) : file[i].end
            BY <1>0, <3>1 DEF FileInv, LinesEnd, Ragged
        <3>3. AcknowledgedAreDurable'
            BY <1>0, <2>2, <3>1 DEF FileInv, AcknowledgedAreDurable, Readable
        <3>4. FileInv'
            <4>1. /\ file' \in Seq(Line) /\ synced' \in 0..Len(file') /\ acked' \subseteq Nat
                  /\ Ordered(file') /\ Total(file')
                <5>1. Ordered(file') /\ Total(file')
                    BY <1>0, <3>1 DEF FileInv
                <5>2. file' \in Seq(Line) /\ synced' \in 0..Len(file')
                    BY <1>0, <2>2, <3>1 DEF FileInv
                <5>3. acked' \subseteq Nat
                    BY <1>0, <2>2, <3>1 DEF FileInv
                <5> QED BY <5>1, <5>2, <5>3
            <4>2. LinesEnd'
                BY <3>1, <1>0 DEF FileInv, LinesEnd
            <4>3. DurableEnds'
                BY <2>2, <3>1, <3>2 DEF DurableEnds
            <4> QED BY <3>3, <4>1, <4>2, <4>3 DEF FileInv
        <3>5. \A q \in Process : q # p => writer[q] = "idle"
            BY <1>6 DEF SyncJournal, ProcInv, WriterIsAlone
        <3>6. ProcInv'
            BY <2>2, <3>1, <3>5 DEF ProcInv, WriterIsAlone, NumberIsNext
        <3> QED BY <3>4, <3>6
    <2> QED BY <1>6, <2>1, <2>2 DEF SyncJournal
<1>7. ASSUME NEW p \in Process, CloseJournal(p)
      PROVE  FileInv' /\ ProcInv'
    <2>1. FileInv'
        BY <1>7, <1>A DEF CloseJournal
    <2>2. \A q \in Process : q # p => writer[q] = "idle"
        BY <1>7 DEF CloseJournal, ProcInv, WriterIsAlone
    <2>3. ProcInv'
        BY <1>7, <2>2 DEF CloseJournal, ProcInv, WriterIsAlone, NumberIsNext
    <2> QED BY <2>1, <2>3
<1>8. CASE JournalPowerLoss
    <2>1. ProcInv'
        BY <1>8 DEF JournalPowerLoss, ProcInv, WriterIsAlone, NumberIsNext
    <2>2. PICK k \in synced..Len(file) : Left(k)
        BY <1>0, <1>8, LossLeaves
    <2>3. /\ file' \in Seq(Line) /\ Len(file') = k
          /\ \A i \in 1..k : i < k => file'[i] = file[i]
          /\ \A i \in 1..k : file'[i].text = "whole" =>
                file[i].text = "whole" /\ file'[i].id = file[i].id
          /\ \A i \in 1..synced : file'[i] = file[i]
        BY <2>2 DEF Left
    <2>4. synced' = synced /\ acked' = acked
        BY <1>8 DEF JournalPowerLoss
    <2>5. IsPart(file', file)
        BY <1>0, <2>3 DEF IsPart
    <2>6. Ordered(file') /\ Total(file')
        BY <1>0, <2>3, <2>5, PartIsOrdered
    <2>7. LinesEnd'
        BY <1>0, <2>3 DEF FileInv, LinesEnd
    <2>8. DurableEnds' /\ AcknowledgedAreDurable'
        BY <1>0, <2>3, <2>4 DEF FileInv, DurableEnds, AcknowledgedAreDurable
    <2>9. FileInv'
        BY <1>0, <2>3, <2>4, <2>6, <2>7, <2>8 DEF FileInv
    <2> QED BY <2>1, <2>9
<1>9. CASE UNCHANGED journalVars
    BY <1>9, <1>A DEF journalVars, ProcInv, WriterIsAlone, NumberIsNext
<1> QED BY <1>1, <1>2, <1>3, <1>4, <1>5, <1>6, <1>7, <1>8, <1>9 DEF JournalNext, WriteRecord

THEOREM JournalInvariance == JournalSpec => []JournalIInv
<1>1. JournalInit => JournalIInv
    BY InitInvariant
<1>2. JournalIInv /\ [JournalNext]_journalVars => JournalIInv'
    BY NextInvariant
<1> QED BY <1>1, <1>2, PTL DEF JournalSpec

(* Numbers are unique and increase along the file, for any number of       *)
(* processes, kills and power failures.                                    *)
THEOREM NumbersAreUnique == JournalSpec => []IdsIncrease
<1>1. JournalIInv => IdsIncrease
    BY DEF JournalIInv
<1> QED BY <1>1, JournalInvariance, PTL

(* A durable record is readable.                                           *)
LEMMA AcknowledgedAreRead == JournalIInv => AcknowledgedSurvive
<1> SUFFICES ASSUME JournalIInv, NEW n \in acked
             PROVE  \E i \in Readable(file) : file[i].id = n
    BY DEF AcknowledgedSurvive
<1>1. PICK i \in 1..synced : file[i].text = "whole" /\ file[i].id = n
    BY DEF JournalIInv, AcknowledgedAreDurable
<1>2. i \in Readable(file)
    BY <1>1 DEF JournalIInv, JournalTypeOK, Readable
<1> QED BY <1>1, <1>2

(* What record_transaction has returned can always be read again.          *)
THEOREM AcknowledgedStay == JournalSpec => []AcknowledgedSurvive
    BY AcknowledgedAreRead, JournalInvariance, PTL

(* Every variable keeps its type.                                          *)
THEOREM JournalTypeCorrect == JournalSpec => []JournalTypeOK
<1>1. JournalIInv => JournalTypeOK
    BY DEF JournalIInv
<1> QED BY <1>1, JournalInvariance, PTL

(* Whatever is killed, torn or lost, the numbers of the history identify   *)
(* its records and no acknowledged record is missing.                      *)
THEOREM HistoryStaysReliable == JournalSpec => []HistoryIsReliable
    BY NumbersAreUnique, AcknowledgedStay, PTL DEF HistoryIsReliable

-----------------------------------------------------------------------------
(* The history is the log its readers rely on.                             *)
Ids(f) == [i \in 1..Len(f) |-> f[i].id]

LEMMA IdsAreNumbers ==
    ASSUME NEW f \in Seq(Line)
    PROVE  /\ Ids(f) \in Seq(Nat) /\ Len(Ids(f)) = Len(f)
           /\ \A i \in 1..Len(f) : Ids(f)[i] = f[i].id
           /\ Records(f) = Kept(Ids(f), Readable(f))
<1>1. Len(f) \in Nat /\ \A i \in 1..Len(f) : f[i].id \in Nat
    <2>1. \A i \in 1..Len(f) : f[i] \in Line
        OBVIOUS
    <2> QED BY <2>1 DEF Line
<1>2. Ids(f) \in Seq(Nat) /\ Len(Ids(f)) = Len(f)
    BY <1>1 DEF Ids
<1>3. \A i \in 1..Len(f) : Ids(f)[i] = f[i].id
    BY DEF Ids
<1>4. Records(f) = Kept(Ids(f), Readable(f))
    BY DEF Records, Ids
<1> QED BY <1>2, <1>3, <1>4

(* The numbers in the log are those of the readable lines.                 *)
LEMMA RecordsNumber ==
    ASSUME NEW f \in Seq(Line)
    PROVE  /\ Records(f) \in Seq(Nat)
           /\ Log!Numbers(Records(f)) = {f[i].id : i \in Readable(f)}
<1>1. /\ Ids(f) \in Seq(Nat) /\ Len(Ids(f)) = Len(f)
      /\ \A i \in 1..Len(f) : Ids(f)[i] = f[i].id
      /\ Records(f) = Kept(Ids(f), Readable(f))
    BY IdsAreNumbers
<1>2. PICK r : r = Records(f)
    OBVIOUS
<1>3. /\ r \in Seq(Nat)
      /\ \A i \in DOMAIN r : \E j \in DOMAIN Ids(f) : j \in Readable(f) /\ r[i] = Ids(f)[j]
      /\ \A j \in DOMAIN Ids(f) : j \in Readable(f) => \E i \in DOMAIN r : r[i] = Ids(f)[j]
    BY <1>1, <1>2, KeptInSeq
<1>4. DOMAIN r = 1..Len(r) /\ DOMAIN Ids(f) = 1..Len(f) /\ Readable(f) \subseteq 1..Len(f)
    BY <1>1, <1>3 DEF Readable
<1>5. Log!Numbers(r) = {f[i].id : i \in Readable(f)}
    <2>1. ASSUME NEW i \in 1..Len(r)
          PROVE  \E j \in Readable(f) : r[i] = f[j].id
        BY <1>1, <1>3, <1>4
    <2>2. ASSUME NEW j \in Readable(f)
          PROVE  \E i \in 1..Len(r) : r[i] = f[j].id
        BY <1>1, <1>3, <1>4
    <2> QED BY <2>1, <2>2 DEF Log!Numbers
<1> QED BY <1>2, <1>3, <1>5

(* Of two files that begin alike the readable lines of the shorter one are *)
(* the first of the longer one's.                                          *)
LEMMA IdsAlike ==
    ASSUME NEW f \in Seq(Line), NEW g \in Seq(Line), Len(f) <= Len(g),
           \A i \in 1..Len(f) : /\ (f[i].text = "whole" <=> g[i].text = "whole")
                               /\ (f[i].text = "whole" => f[i].id = g[i].id)
    PROVE  \E s, t \in Seq(Nat) :
              /\ Len(s) = Len(f) /\ Records(f) = Kept(s, Readable(f))
              /\ Len(t) = Len(g) /\ Records(g) = Kept(t, Readable(g))
              /\ \A i \in 1..Len(g) : t[i] = g[i].id
              /\ \A i \in 1..Len(s) : /\ (i \in Readable(f) <=> i \in Readable(g))
                                     /\ (i \in Readable(f) => s[i] = t[i])
<1>1. PICK s \in Seq(Nat) : /\ Len(s) = Len(f) /\ Records(f) = Kept(s, Readable(f))
                           /\ \A i \in 1..Len(f) : s[i] = f[i].id
    BY IdsAreNumbers
<1>2. PICK t \in Seq(Nat) : /\ Len(t) = Len(g) /\ Records(g) = Kept(t, Readable(g))
                           /\ \A i \in 1..Len(g) : t[i] = g[i].id
    BY IdsAreNumbers
<1>3. ASSUME NEW i \in 1..Len(f)
      PROVE  /\ (i \in Readable(f) <=> i \in Readable(g))
             /\ (i \in Readable(f) => s[i] = t[i])
    <2>1. i \in 1..Len(g)
        OBVIOUS
    <2>2. /\ i \in Readable(f) <=> f[i].text = "whole"
          /\ i \in Readable(g) <=> g[i].text = "whole"
        BY <2>1 DEF Readable
    <2>3. s[i] = f[i].id /\ t[i] = g[i].id
        BY <1>1, <1>2, <2>1
    <2> QED BY <2>2, <2>3
<1> QED BY <1>1, <1>2, <1>3

(* A line more adds its number to the log, or nothing if it is no record.  *)
LEMMA LongerRecords ==
    ASSUME NEW f \in Seq(Line), NEW g \in Seq(Line), IsLonger(g, f)
    PROVE  Records(g) = IF g[Len(g)].text = "whole"
                        THEN Append(Records(f), g[Len(g)].id) ELSE Records(f)
<1>1. Len(g) = Len(f) + 1 /\ Len(f) \in Nat /\ Len(f) <= Len(g)
    BY DEF IsLonger
<1>2. PICK s, t \in Seq(Nat) :
              /\ Len(s) = Len(f) /\ Records(f) = Kept(s, Readable(f))
              /\ Len(t) = Len(g) /\ Records(g) = Kept(t, Readable(g))
              /\ \A i \in 1..Len(g) : t[i] = g[i].id
              /\ \A i \in 1..Len(s) : /\ (i \in Readable(f) <=> i \in Readable(g))
                                     /\ (i \in Readable(f) => s[i] = t[i])
    <2>1. \A i \in 1..Len(f) : g[i] = f[i]
        BY DEF IsLonger
    <2>2. \A i \in 1..Len(f) : /\ (f[i].text = "whole" <=> g[i].text = "whole")
                              /\ (f[i].text = "whole" => f[i].id = g[i].id)
        BY <2>1
    <2> QED BY <1>1, <2>2, IdsAlike
<1>3. Kept(t, Readable(g)) = IF Len(t) \in Readable(g)
                             THEN Append(Kept(s, Readable(f)), t[Len(t)])
                             ELSE Kept(s, Readable(f))
    <2>1. Len(t) = Len(s) + 1
        BY <1>1, <1>2
    <2>2. PICK I, J : I = Readable(f) /\ J = Readable(g)
        OBVIOUS
    <2>3. \A i \in 1..Len(s) : (i \in I <=> i \in J) /\ (i \in I => s[i] = t[i])
        BY <1>2, <2>2
    <2>4. /\ Len(t) \in J => Kept(t, J) = Append(Kept(s, I), t[Len(t)])
          /\ Len(t) \notin J => Kept(t, J) = Kept(s, I)
        BY <2>1, <2>3, KeptOneMore
    <2> QED BY <2>2, <2>4
<1>4. Len(g) \in Readable(g) <=> g[Len(g)].text = "whole"
    BY <1>1 DEF Readable
<1>5. t[Len(t)] = g[Len(g)].id
    BY <1>1, <1>2
<1> QED BY <1>2, <1>3, <1>4, <1>5

(* The log of a file that begins another begins the other's.               *)
LEMMA AlikeRecords ==
    ASSUME NEW f \in Seq(Line), NEW g \in Seq(Line), Len(g) <= Len(f),
           \A i \in 1..Len(g) : /\ (g[i].text = "whole" <=> f[i].text = "whole")
                               /\ (g[i].text = "whole" => g[i].id = f[i].id)
    PROVE  /\ \E m \in 0..Len(Records(f)) : Records(g) = SubSeq(Records(f), 1, m)
           /\ Len(g) = Len(f) => Records(g) = Records(f)
<1>1. PICK s, t \in Seq(Nat) :
              /\ Len(s) = Len(g) /\ Records(g) = Kept(s, Readable(g))
              /\ Len(t) = Len(f) /\ Records(f) = Kept(t, Readable(f))
              /\ \A i \in 1..Len(f) : t[i] = f[i].id
              /\ \A i \in 1..Len(s) : /\ (i \in Readable(g) <=> i \in Readable(f))
                                     /\ (i \in Readable(g) => s[i] = t[i])
    BY IdsAlike
<1>2. PICK I, J : I = Readable(g) /\ J = Readable(f)
    OBVIOUS
<1>3. /\ Len(s) <= Len(t)
      /\ \A i \in 1..Len(s) : (i \in I <=> i \in J) /\ (i \in I => s[i] = t[i])
    BY <1>1, <1>2
<1>4. /\ Len(Kept(s, I)) <= Len(Kept(t, J))
      /\ Kept(s, I) = SubSeq(Kept(t, J), 1, Len(Kept(s, I)))
    BY <1>3, KeptBegins
<1>5. Len(s) = Len(t) => Kept(s, I) = Kept(t, J)
    BY <1>3, KeptAgrees
<1>6. Kept(s, I) = Records(g) /\ Kept(t, J) = Records(f)
    BY <1>1, <1>2
<1>7. Len(Records(g)) \in 0..Len(Records(f))
    <2>1. Records(g) \in Seq(Nat) /\ Records(f) \in Seq(Nat)
        BY RecordsNumber
    <2> QED BY <1>4, <1>6, <2>1
<1> QED BY <1>1, <1>4, <1>5, <1>6, <1>7

(* Of a file that is cut off or spoilt at its end the log's beginning is   *)
(* left.                                                                   *)
LEMMA PartRecords ==
    ASSUME NEW f \in Seq(Line), NEW g \in Seq(Line), IsPart(g, f)
    PROVE  \E m \in 0..Len(Records(f)) : Records(g) = SubSeq(Records(f), 1, m)
<1>0. Len(f) \in Nat /\ Len(g) \in Nat /\ Len(g) <= Len(f)
    BY DEF IsPart
<1>1. CASE Len(g) = 0 \/ g[Len(g)].text = "whole"
    <2>1. \A i \in 1..Len(g) : /\ (g[i].text = "whole" <=> f[i].text = "whole")
                              /\ (g[i].text = "whole" => g[i].id = f[i].id)
        BY <1>0, <1>1 DEF IsPart
    <2> QED BY <1>0, <2>1, AlikeRecords
<1>2. CASE Len(g) # 0 /\ g[Len(g)].text # "whole"
    <2>1. PICK h \in Seq(Line) :
            Len(h) = Len(g) - 1 /\ \A i \in 1..Len(h) : h[i] = f[i]
        <3>0. Len(g) - 1 \in 0..Len(f)
            BY <1>0, <1>2
        <3>1. PICK k \in 0..Len(f) : k = Len(g) - 1
            BY <3>0
        <3>2. /\ SubSeq(f, 1, k) \in Seq(Line) /\ Len(SubSeq(f, 1, k)) = k
              /\ \A i \in 1..k : SubSeq(f, 1, k)[i] = f[i]
            BY <1>0, SubSeqProperties
        <3> QED BY <3>1, <3>2
    <2>2. Records(g) = Records(h)
        <3>1. IsLonger(g, h)
            BY <1>0, <1>2, <2>1 DEF IsLonger, IsPart
        <3> QED BY <1>2, <3>1, LongerRecords
    <2>3. \E m \in 0..Len(Records(f)) : Records(h) = SubSeq(Records(f), 1, m)
        <3>1. Len(h) <= Len(f)
            BY <1>0, <2>1
        <3> QED BY <2>1, <3>1, AlikeRecords
    <2> QED BY <2>2, <2>3
<1> QED BY <1>1, <1>2

(* A newline leaves the log as it is.                                      *)
LEMMA NewlineRecords ==
    ASSUME NEW f \in Seq(Line)
    PROVE  Records(Newline(f)) = Records(f)
<1>1. /\ Newline(f) \in Seq(Line) /\ Len(Newline(f)) = Len(f)
      /\ \A i \in 1..Len(f) :
            Newline(f)[i].text = f[i].text /\ Newline(f)[i].id = f[i].id
    BY NewlineCompletes
<1>2. PICK g \in Seq(Line) : g = Newline(f)
    BY <1>1
<1>3. Len(g) <= Len(f) /\ Len(g) = Len(f)
    BY <1>1, <1>2
<1>4. \A i \in 1..Len(g) : /\ (g[i].text = "whole" <=> f[i].text = "whole")
                          /\ (g[i].text = "whole" => g[i].id = f[i].id)
    BY <1>1, <1>2
<1>5. Records(g) = Records(f)
    BY <1>3, <1>4, AlikeRecords
<1> QED BY <1>2, <1>5

(* Whatever is killed, torn or lost, the log grows by one greater number   *)
(* at a time and loses only an end that was never acknowledged.            *)
THEOREM HistoryImplementsLog == JournalSpec => ImplementsLog
<1>1. JournalInit => Log!Init
    <2>1. ASSUME JournalInit
          PROVE  Records(file) = << >>
        <3>1. file \in Seq(Line) /\ Readable(file) = {}
            BY <2>1 DEF JournalInit, Readable
        <3>2. /\ Records(file) \in Seq(Nat)
              /\ Log!Numbers(Records(file)) = {}
            BY <3>1, RecordsNumber
        <3>3. PICK r \in Seq(Nat) : r = Records(file)
            BY <3>2
        <3>4. Len(r) \in Nat /\ \A i \in 1..Len(r) : r[i] \in Log!Numbers(r)
            BY DEF Log!Numbers
        <3> QED BY <3>2, <3>3, <3>4
    <2> QED BY <2>1 DEF JournalInit, Log!Init
<1>2. JournalIInv' => AcknowledgedSurvive'
    BY AcknowledgedAreRead, PTL
<1>3. JournalIInv /\ JournalIInv' /\ [JournalNext]_journalVars
        => [Log!Next]_<<Records(file), acked>>
    <2> SUFFICES ASSUME JournalIInv, JournalIInv', [JournalNext]_journalVars
                 PROVE  [Log!Next]_<<Records(file), acked>>
        OBVIOUS
    <2>1. /\ file \in Seq(Line) /\ file' \in Seq(Line) /\ synced \in 0..Len(file)
          /\ Len(file) \in Nat /\ id \in [Process -> Nat] /\ NumberIsNext
        BY DEF JournalIInv, JournalTypeOK
    <2>0. AcknowledgedSurvive /\ AcknowledgedSurvive'
        BY AcknowledgedAreRead, <1>2
    <2>2. /\ Records(file) \in Seq(Nat) /\ Len(Records(file)) \in Nat
          /\ Log!Numbers(Records(file)) = {file[i].id : i \in Readable(file)}
          /\ Log!Numbers(Records(file')) = {file'[i].id : i \in Readable(file')}
        BY <2>1, RecordsNumber
    <2>3. /\ acked \subseteq Log!Numbers(Records(file))
          /\ acked' \subseteq Log!Numbers(Records(file'))
        BY <2>0, <2>2 DEF AcknowledgedSurvive
    <2>4. ASSUME file' = Newline(file), acked' = acked
          PROVE  UNCHANGED <<Records(file), acked>>
        BY <2>1, <2>4, NewlineRecords
    <2>5. ASSUME NEW p \in Process, Body(p)
          PROVE  [Log!Next]_<<Records(file), acked>>
        <3>1. CASE file' = file
            BY <2>5, <3>1 DEF Body
        <3>2. ASSUME NEW t \in Text, file' = Written(file, id[p], t)
              PROVE  [Log!Next]_<<Records(file), acked>>
            <4>1. /\ id[p] \in Nat /\ ~Ragged(file) /\ acked' = acked
                  /\ \A i \in Readable(file) : file[i].id < id[p]
                BY <2>1, <2>5 DEF Body, NumberIsNext
            <4>2. /\ Len(file') = Len(file) + 1
                  /\ \A i \in 1..Len(file) : file'[i] = file[i]
                  /\ file'[Len(file')].text = t
                  /\ t = "whole" => file'[Len(file')].id = id[p]
                BY <2>1, <3>2, <4>1, WrittenIsLonger
            <4>3. IsLonger(file', file)
                BY <2>1, <4>1, <4>2 DEF IsLonger
            <4>4. Records(file') = IF t = "whole" THEN Append(Records(file), id[p])
                                   ELSE Records(file)
                BY <2>1, <4>2, <4>3, LongerRecords
            <4>5. CASE t # "whole"
                BY <4>1, <4>4, <4>5
            <4>6. CASE t = "whole"
                <5>1. PICK r \in Seq(Nat) : r = Records(file)
                    BY <2>2
                <5>2. PICK n \in Nat : n = id[p]
                    BY <4>1
                <5>3. Records(file') = Append(r, n)
                    BY <4>4, <4>6, <5>1, <5>2
                <5>4. \A m \in Log!Numbers(r) \cup acked : m < n
                    BY <2>2, <2>3, <4>1, <5>1, <5>2
                <5>5. /\ Len(Append(r, n)) = Len(r) + 1
                      /\ SubSeq(Append(r, n), 1, Len(r)) = r
                      /\ Append(r, n)[Len(r) + 1] = n
                    OBVIOUS
                <5>6. Log!Record
                    BY <4>1, <5>1, <5>3, <5>4, <5>5 DEF Log!Record
                <5> QED BY <5>6 DEF Log!Next
            <4> QED BY <4>5, <4>6
        <3> QED BY <2>5, <3>1, <3>2 DEF Body
    <2>6. ASSUME NEW p \in Process, SyncJournal(p)
          PROVE  [Log!Next]_<<Records(file), acked>>
        <3>1. file' = file
            BY <2>6 DEF SyncJournal
        <3>2. CASE acked' = acked
            BY <3>1, <3>2
        <3>3. CASE acked' = acked \cup {id[p]}
            <4>1. Len(file) \in Readable(file) /\ file[Len(file)].id = id[p]
                BY <2>1, <2>6 DEF SyncJournal, NumberIsNext
            <4>2. id[p] \in Log!Numbers(Records(file))
                BY <2>2, <4>1
            <4>3. Log!Acknowledge(id[p])
                BY <3>1, <3>3, <4>2 DEF Log!Acknowledge
            <4> QED BY <4>2, <4>3 DEF Log!Next
        <3> QED BY <2>6, <3>2, <3>3 DEF SyncJournal
    <2>7. CASE JournalPowerLoss
        <3>1. PICK k \in synced..Len(file) : Left(k)
            BY <2>1, <2>7, LossLeaves
        <3>2. k \in Nat /\ k <= Len(file)
            BY <2>1
        <3>3. IsPart(file', file)
            BY <3>1, <3>2 DEF IsPart, Left
        <3>4. PICK m \in 0..Len(Records(file)) : Records(file') = SubSeq(Records(file), 1, m)
            BY <2>1, <3>3, PartRecords
        <3>5. acked' = acked
            BY <2>7 DEF JournalPowerLoss
        <3>6. Log!Lose(m)
            BY <2>3, <3>4, <3>5 DEF Log!Lose
        <3> QED BY <3>6 DEF Log!Next
    <2>8. ASSUME NEW p \in Process, LockJournal(p) \/ Number(p) \/ CloseJournal(p)
          PROVE  UNCHANGED <<Records(file), acked>>
        BY <2>8 DEF LockJournal, Number, CloseJournal
    <2>9. ASSUME NEW p \in Process, Repair(p) \/ End(p)
          PROVE  UNCHANGED <<Records(file), acked>>
        <3>1. acked' = acked /\ (file' = file \/ file' = Newline(file))
            BY <2>9 DEF Repair, End
        <3> QED BY <2>4, <3>1
    <2>10. CASE UNCHANGED journalVars
        BY <2>10 DEF journalVars
    <2> QED BY <2>5, <2>6, <2>7, <2>8, <2>9, <2>10 DEF JournalNext, WriteRecord
<1> QED BY <1>1, <1>3, JournalInvariance, PTL DEF JournalSpec, ImplementsLog, Log!Spec
=============================================================================
