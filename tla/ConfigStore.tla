---------------------------- MODULE ConfigStore ----------------------------
(* The configuration files and the processes that change them: the locked  *)
(* read-modify-write of mutate_config (config.rs) with all its users, the  *)
(* setup of `pacpin init' (config/setup.rs) that works on a snapshot, and  *)
(* `pacpin reset'.  Editors change every file at any time and take no      *)
(* lock; a process may fail or be killed at every step, and the power may  *)
(* go.                                                                     *)
(*                                                                         *)
(* A file is what its rules say: a pin, a delay, the package list or a     *)
(* preference is a key with a value.  aux stands for the supplemental      *)
(* files (managers.toml, sources.toml, hooks.toml), which define keys of   *)
(* Shared only; a tool that managers.toml overrides is kept out of the     *)
(* main file as a source of sources.toml is.                               *)
EXTENDS Naturals

CONSTANTS Proc,      \* processes of pacpin
          Key,       \* what a rule is about
          Shared,    \* the keys a supplemental file may define
          Value,
          None,      \* no rule, no process
          MaxOps,    \* bound: commands begun
          MaxEdits   \* bound: edits by hand

ASSUME ConfigAssumption ==
    /\ Shared \subseteq Key
    /\ None \notin Value /\ None \notin Proc
    /\ MaxOps \in Nat /\ MaxEdits \in Nat

Rules == [Key -> Value \cup {None}]
NoRules == [k \in Key |-> None]

\* A main file is missing, well formed, malformed, or torn by a power
\* failure; only a well-formed one has rules.
Content == [form : {"missing", "ok", "bad", "torn"}, rules : Rules]
Missing == [form |-> "missing", rules |-> NoRules]
Bad == [form |-> "bad", rules |-> NoRules]
Torn == [form |-> "torn", rules |-> NoRules]
File(r) == [form |-> "ok", rules |-> r]

Supplement == {r \in Rules : \A k \in Key \ Shared : r[k] = None}
AuxContent == [form : {"ok", "bad"}, rules : Supplement]

VARIABLES
    main,      \* config.toml
    aux,       \* the supplemental files
    durable,   \* the config.toml that a power failure may bring back
    settled,   \* the bytes of config.toml are on the disk
    lock,      \* the holder of the flock on config.lock
    pc,        \* where a process is
    op,        \* its command: kind, key and value
    seen,      \* the bytes of config.toml it has read
    seenAux,   \* the bytes of the supplemental files it has read
    config,    \* the Config it works on: all rules, and the external ones
    temp,      \* its temporary file, and whether that was synchronized
    backup,    \* the backup it has made
    touched,   \* history: an editor changed main since the lock was taken
    begun, edits

files == <<main, durable, settled>>
memory == <<seen, seenAux, config, temp, backup>>
history == <<touched, begun, edits>>
vars == <<files, aux, lock, pc, op, memory, history>>

-----------------------------------------------------------------------------
Mutation == {"put", "drop", "approved", "claim", "fill"}
Interactive == {"setup", "fresh"}

(* put: pin, repository order, delay, confirmed pins, a forced capture.    *)
(* drop: unpin and undelay.  approved: the smart unpin, which removes the  *)
(* rule the user was shown.  claim: Sources' ownership of a package.       *)
(* fill: the capture of the package list.  setup and fresh: init, without  *)
(* and with --reset.  reset: the reset command.                            *)
Op == [kind : (Mutation \ {"drop"}) \cup Interactive, key : Key, value : Value]
      \cup [kind : {"drop"}, key : Key, value : {None}]
      \cup [kind : {"reset"}, key : {None}, value : {None}]
NoOp == [kind |-> "none", key |-> None, value |-> None]

Config == [rules : Rules, ext : Supplement]
NoConfig == [rules |-> NoRules, ext |-> NoRules]
NoFile == [file |-> Missing, synced |-> FALSE]

Unlocked == {"idle", "first", "firstAux", "load", "again", "againAux",
             "review", "copy", "lock"}
Locked == {"read", "readAux", "apply", "compare", "compareAux", "backup",
           "write", "sync", "rename", "renamed"}

TypeOK ==
    /\ main \in Content /\ durable \in Content /\ settled \in BOOLEAN
    /\ aux \in AuxContent
    /\ pc \in [Proc -> Unlocked \cup Locked]
    /\ op \in [Proc -> Op \cup {NoOp}]
    /\ seen \in [Proc -> Content] /\ seenAux \in [Proc -> AuxContent]
    /\ config \in [Proc -> Config]
    /\ temp \in [Proc -> [file : Content, synced : BOOLEAN]]
    /\ backup \in [Proc -> Content]
    /\ touched \in BOOLEAN
    /\ begun \in 0..MaxOps /\ edits \in 0..MaxEdits
    /\ lock \in Proc \cup {None}
    /\ \A p \in Proc : pc[p] \in Locked <=> lock = p

Init ==
    /\ main \in {Missing} \cup {File(r) : r \in Rules}
    /\ durable = main /\ settled = TRUE
    /\ aux \in {File(r) : r \in Supplement}
    /\ lock = None
    /\ pc = [p \in Proc |-> "idle"]
    /\ op = [p \in Proc |-> NoOp]
    /\ seen = [p \in Proc |-> Missing]
    /\ seenAux = [p \in Proc |-> File(NoRules)]
    /\ config = [p \in Proc |-> NoConfig]
    /\ temp = [p \in Proc |-> NoFile]
    /\ backup = [p \in Proc |-> Missing]
    /\ touched = FALSE /\ begun = 0 /\ edits = 0

-----------------------------------------------------------------------------
At(p, where) == pc[p] = where
Goto(p, where) == pc' = [pc EXCEPT ![p] = where]

\* The supplements r1 and the main rules r2 define no key twice.
Distinct(r1, r2) == \A k \in Key : r1[k] = None \/ r2[k] = None
Merged(r1, r2) == [k \in Key |-> IF r1[k] # None THEN r1[k] ELSE r2[k]]

(* load_supplements: the loaded Config holds all rules, and separately     *)
(* those that the supplements own.                                         *)
Loads(p, rules) ==
    /\ aux.form = "ok" /\ Distinct(aux.rules, rules)
    /\ config' = [config EXCEPT ![p] =
                     [rules |-> Merged(aux.rules, rules), ext |-> aux.rules]]

(* A command begins.  The rule that a smart unpin shows was read from the  *)
(* configuration loaded at its start; reset needs a file.                  *)
Begin(p) ==
    /\ At(p, "idle") /\ begun < MaxOps
    /\ \E o \in Op :
          /\ o.kind \in {"put", "drop", "approved", "fill"} => o.key \notin Shared
          /\ o.kind = "claim" => o.key \in Shared
          /\ o.kind = "approved" => main.rules[o.key] = o.value
          /\ o.kind = "reset" => main.form # "missing"
          /\ op' = [op EXCEPT ![p] = o]
          /\ Goto(p, CASE o.kind \in Interactive -> "first"
                       [] o.kind = "reset" -> "copy"
                       [] OTHER -> "lock")
    /\ begun' = begun + 1
    /\ UNCHANGED <<files, aux, lock, memory, touched, edits>>

(* A command ends: with an error, killed, cancelled by its user, or done.  *)
(* Closing the lock's file releases the lock on every path.                *)
Ends(p) ==
    /\ Goto(p, "idle")
    /\ op' = [op EXCEPT ![p] = NoOp]
    /\ lock' = IF lock = p THEN None ELSE lock
    /\ seen' = [seen EXCEPT ![p] = Missing]
    /\ seenAux' = [seenAux EXCEPT ![p] = File(NoRules)]
    /\ config' = [config EXCEPT ![p] = NoConfig]
    /\ temp' = [temp EXCEPT ![p] = NoFile]
    /\ backup' = [backup EXCEPT ![p] = Missing]

(* Fault: an error path that returns without closing the lock's file.      *)
LeaveLocked(p) ==
    /\ ~At(p, "idle")
    /\ Goto(p, "idle")
    /\ UNCHANGED <<files, aux, lock, op, memory, history>>

Leave(p) ==
    /\ ~At(p, "idle")
    /\ Ends(p)
    /\ UNCHANGED <<files, aux, history>>

-----------------------------------------------------------------------------
(* Snapshot::load: read_files, parse and load_supplements, which reads the *)
(* supplements again, and read_files once more: the bytes must be the same.*)
ReadFirst(p) ==
    /\ At(p, "first")
    /\ seen' = [seen EXCEPT ![p] = main]
    /\ Goto(p, "firstAux")
    /\ UNCHANGED <<files, aux, lock, op, seenAux, config, temp, backup, history>>

ReadFirstAux(p) ==
    /\ At(p, "firstAux")
    /\ seenAux' = [seenAux EXCEPT ![p] = aux]
    /\ Goto(p, "load")
    /\ UNCHANGED <<files, aux, lock, op, seen, config, temp, backup, history>>

LoadSnapshot(p) ==
    /\ At(p, "load")
    /\ IF op[p].kind = "fresh" THEN Loads(p, NoRules)
       ELSE seen[p].form \in {"missing", "ok"} /\ Loads(p, seen[p].rules)
    /\ Goto(p, "again")
    /\ UNCHANGED <<files, aux, lock, op, seen, seenAux, temp, backup, history>>

\* Comparing config.toml, or the supplements, with what was read of them.
Same(p, from, to) ==
    /\ At(p, from) /\ main = seen[p]
    /\ Goto(p, to)
    /\ UNCHANGED <<files, aux, lock, op, memory, history>>

SameAux(p, from, to) ==
    /\ At(p, from) /\ aux = seenAux[p]
    /\ Goto(p, to)
    /\ UNCHANGED <<files, aux, lock, op, memory, history>>

ReadAgain(p) == Same(p, "again", "againAux") \/ SameAux(p, "againAux", "review")

(* The questionnaire: the user's answers change a preference.              *)
Review(p) ==
    /\ At(p, "review")
    /\ config' = [config EXCEPT ![p].rules[op[p].key] = op[p].value]
    /\ Goto(p, "lock")
    /\ UNCHANGED <<files, aux, lock, op, seen, seenAux, temp, backup, history>>

(* Reset copies the file before it takes the lock; a failed copy is only   *)
(* a warning.                                                              *)
Copy(p) ==
    /\ At(p, "copy")
    /\ backup' \in {backup, [backup EXCEPT ![p] = main]}
    /\ Goto(p, "lock")
    /\ UNCHANGED <<files, aux, lock, op, seen, seenAux, config, temp, history>>

-----------------------------------------------------------------------------
\* What a command does first under its lock.
Entry(p) == CASE op[p].kind \in Mutation -> "read"
              [] op[p].kind \in Interactive -> "compare"
              [] OTHER -> "write"

(* Fault: the configuration is read before the lock is taken.              *)
LockLate(p) ==
    /\ lock = None
    /\ \/ /\ At(p, "lock") /\ Entry(p) = "read" /\ main.form \in {"missing", "ok"}
          /\ seen' = [seen EXCEPT ![p] = main]
          /\ Loads(p, main.rules)
          /\ Goto(p, "again")
          /\ UNCHANGED <<lock, touched>>
       \/ /\ At(p, "again") /\ op[p].kind \in Mutation
          /\ lock' = p /\ touched' = FALSE
          /\ Goto(p, "apply")
          /\ UNCHANGED <<seen, config>>
    /\ UNCHANGED <<files, aux, op, seenAux, temp, backup, begun, edits>>

(* lock_config: an exclusive flock.                                        *)
Lock(p) ==
    /\ At(p, "lock") /\ lock = None
    /\ lock' = p
    /\ touched' = FALSE
    /\ Goto(p, Entry(p))
    /\ UNCHANGED <<files, aux, op, memory, begun, edits>>

(* mutate_config: read, parse, load the supplements, change.               *)
Read(p) ==
    /\ At(p, "read") /\ main.form \in {"missing", "ok"}
    /\ seen' = [seen EXCEPT ![p] = main]
    /\ Goto(p, "readAux")
    /\ UNCHANGED <<files, aux, lock, op, seenAux, config, temp, backup, history>>

ReadAux(p) ==
    /\ At(p, "readAux")
    /\ Loads(p, seen[p].rules)
    /\ Goto(p, "apply")
    /\ UNCHANGED <<files, aux, lock, op, seen, seenAux, temp, backup, history>>

(* The caller's change: a smart unpin keeps a rule that is not the         *)
(* approved one; a claim and a capture fail on a rule that is not theirs.  *)
Apply(p) ==
    LET o == op[p]
        old == config[p].rules[o.key]
        new == CASE o.kind \in {"put", "claim", "fill"} -> o.value
                 [] o.kind = "approved" /\ old # o.value -> old
                 [] OTHER -> None
    IN /\ At(p, "apply")
       /\ o.kind = "claim" => old \in {None, o.value}
       /\ o.kind = "fill" => old = None
       /\ config' = [config EXCEPT ![p].rules[o.key] = new]
       /\ Goto(p, "write")
       /\ UNCHANGED <<files, aux, lock, op, seen, seenAux, temp, backup, history>>

(* Snapshot::save: the files must be those of the snapshot.                *)
Compare(p) == \/ Same(p, "compare", "compareAux")
              \/ SameAux(p, "compareAux", "backup")

(* The exact bytes that are replaced go to a private file first.           *)
Backup(p) ==
    /\ At(p, "backup")
    /\ backup' = [backup EXCEPT ![p] = seen[p]]
    /\ Goto(p, "write")
    /\ UNCHANGED <<files, aux, lock, op, seen, seenAux, config, temp, history>>

-----------------------------------------------------------------------------
(* write_config_unlocked: what the supplements own stays out of the main   *)
(* file, and must not have been changed.                                   *)
Persistent(c) == [k \in Key |-> IF c.ext[k] # None THEN None ELSE c.rules[k]]
Unchanged(c) == \A k \in Key : c.ext[k] # None => c.rules[k] = c.ext[k]

Write(p) ==
    /\ At(p, "write") /\ Unchanged(config[p])
    /\ temp' = [temp EXCEPT ![p] = [file |-> File(Persistent(config[p])),
                                    synced |-> FALSE]]
    /\ Goto(p, "sync")
    /\ UNCHANGED <<files, aux, lock, op, seen, seenAux, config, backup, history>>

(* Fault: the temporary file is not synchronized.                          *)
SyncSkipped(p) ==
    /\ At(p, "sync")
    /\ Goto(p, "rename")
    /\ UNCHANGED <<files, aux, lock, op, memory, history>>

Sync(p) ==
    /\ At(p, "sync")
    /\ temp' = [temp EXCEPT ![p].synced = TRUE]
    /\ Goto(p, "rename")
    /\ UNCHANGED <<files, aux, lock, op, seen, seenAux, config, backup, history>>

Rename(p) ==
    /\ At(p, "rename")
    /\ main' = temp[p].file /\ settled' = temp[p].synced
    /\ Goto(p, "renamed")
    /\ UNCHANGED <<durable, aux, lock, op, memory, history>>

(* The directory is synchronized as far as that works; the command is done.*)
Done(p) ==
    /\ At(p, "renamed")
    /\ durable' \in {durable, main}
    /\ Ends(p)
    /\ UNCHANGED <<main, settled, aux, history>>

-----------------------------------------------------------------------------
(* An editor writes any file, also something that does not parse.          *)
Edit ==
    /\ edits < MaxEdits /\ edits' = edits + 1
    /\ \/ /\ main' \in {Bad} \cup {File(r) : r \in Rules}
          /\ main' # main
          /\ durable' = main' /\ settled' = TRUE
          /\ touched' = TRUE
          /\ UNCHANGED aux
       \/ /\ aux' \in {Bad} \cup {File(r) : r \in Supplement}
          /\ aux' # aux
          /\ UNCHANGED <<files, touched>>
    /\ UNCHANGED <<lock, pc, op, memory, begun>>

(* The power goes: no process is left, a rename may not have reached the   *)
(* directory, and bytes that were not synchronized are lost.               *)
PowerLoss ==
    /\ main' \in {durable, IF settled THEN main ELSE Torn}
    /\ durable' = main' /\ settled' = TRUE
    /\ pc' = [p \in Proc |-> "idle"]
    /\ op' = [p \in Proc |-> NoOp]
    /\ lock' = None
    /\ seen' = [p \in Proc |-> Missing]
    /\ seenAux' = [p \in Proc |-> File(NoRules)]
    /\ config' = [p \in Proc |-> NoConfig]
    /\ temp' = [p \in Proc |-> NoFile]
    /\ backup' = [p \in Proc |-> Missing]
    /\ UNCHANGED <<aux, history>>

Step(p) ==
    \/ Begin(p) \/ Leave(p)
    \/ ReadFirst(p) \/ ReadFirstAux(p) \/ LoadSnapshot(p) \/ ReadAgain(p)
    \/ Review(p) \/ Copy(p) \/ Lock(p)
    \/ Read(p) \/ ReadAux(p) \/ Apply(p)
    \/ Compare(p) \/ Backup(p)
    \/ Write(p) \/ Sync(p) \/ Rename(p) \/ Done(p)

Next == Edit \/ PowerLoss \/ \E p \in Proc : Step(p)

Spec == Init /\ [][Next]_vars

-----------------------------------------------------------------------------
\* p replaces the main file in this step.
Replaces(p) == At(p, "rename") /\ pc'[p] = "renamed"

(* Concurrent commands keep each other's changes, a stale setup changes    *)
(* nothing, and no definition of a supplement moves into the main file: a  *)
(* command alters in the main file as it is then only the one rule it is   *)
(* about, a smart unpin only the rule that was approved, unless an editor  *)
(* wrote the file while the command held the lock; a reset keeps nothing   *)
(* else.                                                                   *)
OnlyOwnRule ==
    [][\A p \in Proc : Replaces(p) /\ ~touched =>
         \A k \in Key : k # op[p].key \/ op[p].kind = "approved" =>
           CASE op[p].kind \in {"fresh", "reset"} -> main'.rules[k] = None
             [] op[p].kind = "approved" /\ k = op[p].key
                  -> main'.rules[k] = IF main.rules[k] = op[p].value THEN None
                                      ELSE main.rules[k]
             [] OTHER -> main'.rules[k] = main.rules[k]]_vars

(* "Back up every replaced main file, including malformed files on reset": *)
(* when setup replaces the main file, its backup holds exactly that file,  *)
(* unless an editor wrote it while setup held the lock.                    *)
BackupHoldsReplaced ==
    [][\A p \in Proc : Replaces(p) /\ ~touched /\ op[p].kind \in Interactive =>
         backup[p] = main]_vars

(* Concurrent commands do not undo each other: each alters its own rule in *)
(* the file as it is, and what setup replaces it has backed up.            *)
CommandsAreIsolated == OnlyOwnRule /\ BackupHoldsReplaced

(* Whatever is killed or loses power at any step, the main file is never a *)
(* fragment of what a command wrote.                                       *)
MainIsWhole == main.form # "torn"
=============================================================================
