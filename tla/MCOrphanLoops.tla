--------------------------- MODULE MCOrphanLoops ---------------------------
(* Every graph over three packages built from chains, cycles, a choice of  *)
(* providers and a package with two dependencies.                          *)
EXTENDS OrphanLoops

CONSTANTS a, b, c

MCPkg == {a, b, c}
MCDepChoices == {{}, {{a}}, {{b}}, {{c}}, {{a, b}}, {{b, c}}, {{a}, {c}}}
MCOptChoices == {{}, {a}, {b, c}}
=============================================================================
