---------------------------- MODULE MCExecution ----------------------------
(* Two threads that own workspaces and run commands, and the handler.      *)
EXTENDS Execution, TLC

CONSTANTS main, helper

MCThread == {main, helper}
Symmetry == Permutations(MCThread)
=============================================================================
