--------------------------- MODULE MCConfigStore ---------------------------
(* Instance of ConfigStore: two processes, a rule that only the main file  *)
(* may hold and one that a supplement may own.                             *)
EXTENDS ConfigStore, TLC

CONSTANTS p1, p2, pin, source, v1, v2

MCProc == {p1, p2}
MCValue == {v1, v2}
Symmetry == Permutations(MCProc) \cup Permutations(MCValue)

\* The main file starts without a source: claims and edits add them.
MCInit == Init /\ main.rules[source] = None
=============================================================================
