--------------------------- MODULE MCPreparation ---------------------------
(* Instance of Preparation: a native and an AUR stage in front of three    *)
(* external managers, every one of them with every policy.                 *)
EXTENDS Preparation, TLC

CONSTANTS native, aur, sources, flatpak, nix

\* two approved source updates: the manager has two entries in the plan
MCStages == <<native, aur, sources, sources, flatpak, nix>>
MCManager == {native, aur, sources, flatpak, nix}
MCJobs == {sources, flatpak, nix}
=============================================================================
