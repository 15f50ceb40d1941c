----------------------------- MODULE HistoryLog -----------------------------
(***************************************************************************)
(* What the transaction history promises its readers (src/src/journal.rs), *)
(* without files, locks and newlines: a log of transaction numbers that    *)
(* grows by one greater number at a time and of which only an end that was *)
(* never acknowledged can be lost.                                         *)
(***************************************************************************)
EXTENDS Naturals, Sequences

VARIABLES
    log,    \* the numbers of the readable records, oldest first
    acked   \* the numbers record_transaction has returned

Numbers(s) == {s[i] : i \in 1..Len(s)}

Init == log = <<>> /\ acked = {}

Record ==
    /\ Len(log') = Len(log) + 1
    /\ SubSeq(log', 1, Len(log)) = log
    /\ \A m \in Numbers(log) \cup acked : m < log'[Len(log')]
    /\ UNCHANGED acked

Acknowledge(n) ==
    /\ n \in Numbers(log)
    /\ acked' = acked \cup {n}
    /\ UNCHANGED log

Lose(k) ==
    /\ acked \subseteq Numbers(SubSeq(log, 1, k))
    /\ log' = SubSeq(log, 1, k)
    /\ UNCHANGED acked

Next ==
    \/ Record
    \/ \E n \in Numbers(log) : Acknowledge(n)
    \/ \E k \in 0..Len(log) : Lose(k)

Spec == Init /\ [][Next]_<<log, acked>>
=============================================================================
