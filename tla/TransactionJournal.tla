------------------------- MODULE TransactionJournal -------------------------
(***************************************************************************)
(* The transaction history ~/.local/state/pacpin/history.jsonl, one JSON   *)
(* record a line (src/src/journal.rs).  Any number of pacpin processes     *)
(* append to it under an exclusive flock; readers take no lock.  A writer  *)
(* may be killed between any two of its writes, a write may stop half-way, *)
(* and a power failure loses what was not synchronized.                    *)
(*                                                                         *)
(* The file is a sequence of lines.  What a line holds is told apart by    *)
(* what the readers make of it.                                            *)
(***************************************************************************)
EXTENDS Naturals, Sequences, Subsequences

CONSTANTS
    Process,    \* pacpin processes
    MaxLines,   \* bound on the length of the file
    Nobody

ASSUME NobodyAssumption == Nobody \notin Process
ASSUME BoundAssumption == MaxLines \in Nat

(* whole: a record; cut: a part of one, or two run together; split: a cut  *)
(* in the middle of a character, which is not UTF-8.  `end' is the newline *)
(* and `id' the number in a record (0 in what is none).                    *)
Text == {"whole", "cut", "split"}
Line == [id: Nat, text: Text, end: BOOLEAN]

VARIABLES
    file,       \* the lines of history.jsonl
    synced,     \* how many of them are certainly on the disk
    flock,      \* the holder of the flock, or Nobody
    writer,     \* process -> where record_transaction_at is
    id,         \* process -> next_id
    acked       \* the numbers that were returned

journalVars == <<file, synced, flock, writer, id, acked>>

JournalTypeOK ==
    /\ file \in Seq(Line)
    /\ synced \in 0..Len(file)
    /\ flock \in Process \cup {Nobody}
    /\ writer \in [Process -> {"idle", "locked", "repair", "body", "newline", "sync", "failed"}]
    /\ id \in [Process -> Nat]
    /\ acked \subseteq Nat

JournalInit ==
    /\ file = <<>> /\ synced = 0 /\ flock = Nobody
    /\ writer = [p \in Process |-> "idle"] /\ id = [p \in Process |-> 0]
    /\ acked = {}

-----------------------------------------------------------------------------
(* The lines that parse as a record.                                       *)
Readable(f) == {i \in 1..Len(f) : f[i].text = "whole"}

(* recent_records: the numbers of these, oldest first.                     *)
Records(f) == Kept([i \in 1..Len(f) |-> f[i].id], Readable(f))

(* The last line of f that parses is line i, or none does and i is 0.      *)
IsLast(f, i) ==
    /\ i = 0 \/ i \in Readable(f)
    /\ \A j \in Readable(f) : j <= i

(* get_last_transaction_id: the last line that parses, however far back.   *)
LastId(f) ==
    LET i == CHOOSE j \in 0..Len(f) : IsLast(f, j) IN
    IF i = 0 THEN 0 ELSE f[i].id

(* The file ends without a newline.                                        *)
Ragged(f) == Len(f) > 0 /\ ~f[Len(f)].end

(* Bytes are appended: after an unfinished line they run on in it.         *)
Written(f, n, t) ==
    IF Ragged(f)
    THEN [f EXCEPT ![Len(f)] =
            [id |-> 0, end |-> FALSE,
             text |-> IF "split" \in {f[Len(f)].text, t} THEN "split" ELSE "cut"]]
    ELSE Append(f, [id |-> IF t = "whole" THEN n ELSE 0, text |-> t, end |-> FALSE])

(* writeln!(file): an empty line is nothing to the readers.                *)
Newline(f) == IF Ragged(f) THEN [f EXCEPT ![Len(f)].end = TRUE] ELSE f

-----------------------------------------------------------------------------
(* Fault: a shared lock.                                                   *)
LockJournalShared(p) ==
    /\ writer[p] = "idle" /\ Len(file) < MaxLines
    /\ flock' = p
    /\ writer' = [writer EXCEPT ![p] = "locked"]
    /\ UNCHANGED <<file, synced, id, acked>>

(* The file is opened and locked.                                          *)
LockJournal(p) ==
    /\ writer[p] = "idle" /\ Len(file) < MaxLines
    /\ flock = Nobody
    /\ flock' = p
    /\ writer' = [writer EXCEPT ![p] = "locked"]
    /\ UNCHANGED <<file, synced, id, acked>>

(* next_id.                                                                *)
Number(p) ==
    /\ writer[p] = "locked"
    /\ id' = [id EXCEPT ![p] = LastId(file) + 1]
    /\ writer' = [writer EXCEPT ![p] = "repair"]
    /\ UNCHANGED <<file, synced, flock, acked>>

(* Fault: a newline is written whatever the last byte is.                  *)
RepairAlways(p) ==
    /\ writer[p] = "repair"
    /\ file' = IF Ragged(file) THEN Newline(file)
               ELSE Append(file, [id |-> 0, text |-> "blank", end |-> TRUE])
    /\ writer' = [writer EXCEPT ![p] = "body"]
    /\ UNCHANGED <<synced, flock, id, acked>>

(* The last byte is read, and a newline written if it is another.          *)
Repair(p) ==
    /\ writer[p] = "repair"
    /\ \/ file' = Newline(file) /\ writer' = [writer EXCEPT ![p] = "body"]
       \/ file' = file /\ writer' = [writer EXCEPT ![p] = "failed"]
    /\ UNCHANGED <<synced, flock, id, acked>>

(* The record is written; a write that fails may have written a part.      *)
Body(p) ==
    /\ writer[p] = "body"
    /\ \/ \E t \in Text :
            /\ file' = Written(file, id[p], t)
            /\ writer' = [writer EXCEPT ![p] = IF t = "whole" THEN "newline" ELSE "failed"]
       \/ file' = file /\ writer' = [writer EXCEPT ![p] = "failed"]
    /\ UNCHANGED <<synced, flock, id, acked>>

(* The newline is a write of its own.                                      *)
End(p) ==
    /\ writer[p] = "newline"
    /\ \/ file' = Newline(file) /\ writer' = [writer EXCEPT ![p] = "sync"]
       \/ file' = file /\ writer' = [writer EXCEPT ![p] = "failed"]
    /\ UNCHANGED <<synced, flock, id, acked>>

(* Fault: the number is returned without waiting for the disk.             *)
SyncJournalSkipped(p) ==
    /\ writer[p] = "sync"
    /\ acked' = acked \cup {id[p]}
    /\ flock' = Nobody
    /\ writer' = [writer EXCEPT ![p] = "idle"]
    /\ UNCHANGED <<file, synced, id>>

(* sync_data; the number is returned and the lock goes with the file.      *)
SyncJournal(p) ==
    /\ writer[p] = "sync"
    /\ \/ /\ synced' = Len(file) /\ acked' = acked \cup {id[p]}
          /\ flock' = Nobody /\ writer' = [writer EXCEPT ![p] = "idle"]
       \/ /\ writer' = [writer EXCEPT ![p] = "failed"]
          /\ UNCHANGED <<synced, acked, flock>>
    /\ UNCHANGED <<file, id>>

(* An error is returned, or the process ends; either closes the file.      *)
CloseJournal(p) ==
    /\ flock = p
    /\ flock' = Nobody
    /\ writer' = [writer EXCEPT ![p] = "idle"]
    /\ UNCHANGED <<file, synced, id, acked>>

(* A power failure: the lines after the durable ones are lost from some    *)
(* point on, the last one perhaps in its middle or without its newline.    *)
JournalPowerLoss ==
    /\ \/ \E k \in synced..Len(file) : file' = SubSeq(file, 1, k)
       \/ \E k \in (synced + 1)..Len(file) :
            \E rest \in {[file[k] EXCEPT !.end = FALSE],
                        [id |-> 0, text |-> "cut", end |-> FALSE],
                        [id |-> 0, text |-> "split", end |-> FALSE]} :
                file' = Append(SubSeq(file, 1, k - 1), rest)
    /\ flock' = Nobody
    /\ writer' = [p \in Process |-> "idle"]
    /\ UNCHANGED <<synced, id, acked>>

WriteRecord(p) == Number(p) \/ Repair(p) \/ Body(p) \/ End(p) \/ SyncJournal(p)

JournalNext ==
    \/ \E p \in Process : LockJournal(p) \/ WriteRecord(p) \/ CloseJournal(p)
    \/ JournalPowerLoss

JournalSpec == JournalInit /\ [][JournalNext]_journalVars

-----------------------------------------------------------------------------
(* No two records of the history have the same number, and later ones have *)
(* greater numbers: `rollback 7' means one transaction.                    *)
IdsIncrease ==
    \A i, j \in Readable(file) : i < j => file[i].id < file[j].id

(* A record whose number was returned stays readable, whatever is killed,  *)
(* torn or lost afterwards.                                                *)
AcknowledgedSurvive ==
    \A n \in acked : \E i \in Readable(file) : file[i].id = n

(* The history can be trusted after any crash: its numbers identify its    *)
(* records and no acknowledged record is lost.                             *)
HistoryIsReliable == IdsIncrease /\ AcknowledgedSurvive

(* What makes these inductive: the lines before the last are complete, so  *)
(* that nothing runs on in them; who writes holds the lock and has a       *)
(* number above all records; acknowledged records are durable.             *)
LinesEnd == \A i \in 1..(Len(file) - 1) : file[i].end

WriterIsAlone == \A p \in Process : writer[p] # "idle" => flock = p

NumberIsNext ==
    \A p \in Process :
        /\ writer[p] \in {"repair", "body"} =>
            \A i \in Readable(file) : file[i].id < id[p]
        /\ writer[p] = "body" => ~Ragged(file)
        /\ writer[p] \in {"newline", "sync"} =>
            Len(file) \in Readable(file) /\ file[Len(file)].id = id[p]
        /\ writer[p] = "sync" => ~Ragged(file)

AcknowledgedAreDurable ==
    \A n \in acked : \E i \in 1..synced : file[i].text = "whole" /\ file[i].id = n

DurableEnds == \A i \in 1..synced : file[i].end

(* get_last_transaction_id always has an answer, on every part of the file *)
(* a power failure may leave.                                              *)
LastExists ==
    \A k \in 0..Len(file) : \E i \in {0} \cup Readable(file) :
        i <= k /\ \A j \in Readable(file) : j <= k => j <= i

JournalIInv ==
    /\ JournalTypeOK /\ IdsIncrease /\ LinesEnd /\ WriterIsAlone /\ NumberIsNext
    /\ AcknowledgedAreDurable /\ DurableEnds /\ LastExists

(* The history implements the log its readers rely on: records appear one  *)
(* at a time and whole, and no acknowledged one ever goes away.            *)
Log == INSTANCE HistoryLog WITH log <- Records(file)

ImplementsLog == Log!Spec
=============================================================================
