---------------------------- MODULE MCUpgradeRun ----------------------------
(* Instances of UpgradeRun: repository packages, the AUR, one or two       *)
(* updates of Sources and, where later stages matter, another manager.     *)
EXTENDS UpgradeRun

CONSTANTS flatpak, s1, s2

Other1 == <<flatpak>>
Source2 == <<s1, s2>>
=============================================================================
