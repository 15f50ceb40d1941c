------------------------ MODULE MCTransactionJournal ------------------------
(* Instance of TransactionJournal: two processes and a file of few lines.  *)
EXTENDS TransactionJournal
=============================================================================
