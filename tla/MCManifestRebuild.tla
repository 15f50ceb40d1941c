------------------------- MODULE MCManifestRebuild -------------------------
(* A repository package with a younger family member in two repositories, a     *)
(* package of the AUR that conflicts with a name the first one provides, one   *)
(* of a source, and the command flatpak; one other manager.                *)
EXTENDS ManifestRebuild, TLC

MCPackage == {"app", "lib", "tool", "own", "fp", "virt"}
MCOrder == << "core", "extra" >>
MCOffers == [core |-> {"lib", "fp"}, extra |-> {"app", "lib"}, aur |-> {"tool"}]
MCRecipes == "src" :> {"own"}
MCDependsOn == [p \in MCPackage |-> IF p \in {"app", "tool"} THEN {"lib"} ELSE {}]
MCKin == [p \in MCPackage |-> IF p = "app" THEN {"lib"} ELSE {}]
MCProvides == [p \in MCPackage |-> CASE p = "app" -> {"virt"} [] p = "lib" -> {"app"} [] OTHER -> {}]
MCConflictsWith == [p \in MCPackage |-> IF p = "tool" THEN {"virt"} ELSE {}]
MCYoung == { << "extra", "app" >>, << "core", "lib" >>, << "aur", "tool" >> }

T(r, p) == [repo |-> r, pkg |-> p]
Ask == [targets |-> << >>, noconfirm |-> FALSE, refresh |-> FALSE, sysupgrade |-> FALSE,
        dry |-> FALSE, wait |-> None, noCache |-> FALSE, tty |-> TRUE]
Mixed == << T("extra", "app"), T("AUR", "tool") >>
(* Every way to name a target once, then every option for a mixed transaction.  *)
MCRequests ==
    { [Ask EXCEPT !.targets = t] :
        t \in { << >>, << T("direct", "own") >>, << T("direct", "own"), T(None, "lib") >>,
                << T("unsafe", "lib") >>, << T("src", "own") >>, << T("src", "own"), T(None, "lib") >>,
                << T("other", "lib") >>, << T(None, "virt") >>, << T(None, "tool"), T(None, "lib") >>,
                << T("core", "lib"), T("aur", "tool") >>, << T(None, "own") >>, Mixed } }
    \cup { [Ask EXCEPT !.targets = << T("src", "own") >>, !.refresh = TRUE],
           [Ask EXCEPT !.targets = << T("src", "own") >>, !.dry = TRUE] }
    \cup { [Ask EXCEPT !.targets = Mixed, !.noCache = n /\ f, !.tty = y, !.noconfirm = n, !.refresh = f] :
               y, n, f \in BOOLEAN }
    \cup { [Ask EXCEPT !.targets = Mixed, !.dry = TRUE, !.refresh = TRUE],
           [Ask EXCEPT !.targets = Mixed, !.wait = 1],
           [Ask EXCEPT !.targets = << T("extra", "app"), T("aur", "tool") >>, !.noCache = TRUE],
           [Ask EXCEPT !.targets = Mixed, !.sysupgrade = TRUE, !.refresh = TRUE],
           [Ask EXCEPT !.targets = << T(None, "tool") >>, !.sysupgrade = TRUE, !.noCache = TRUE] }

Listed(s, p, a, u, y) == [sources |-> s, pacman |-> p, aur |-> a, user |-> u, system |-> y]
MCManifests ==
    { EmptyManifest,
      Listed(<< T("src", "own") >>, << T(None, "app"), T("core", "fp") >>, << T(None, "tool") >>,
             << T("hub", "chat") >>, << T(None, "chat") >>),
      Listed(<< >>, << T(None, "lib"), T("extra", "app") >>, << T(None, "app") >>, << >>, << >>),
      Listed(<< >>, << T("extra", "lib"), T(None, "fp") >>, << T(None, "tool") >>, << >>, << T("hub", "chat") >>) }
MCOptions ==
    { [dry |-> FALSE, noconfirm |-> FALSE, enforce |-> e, noCache |-> c, tty |-> TRUE] : e, c \in BOOLEAN }
    \cup { [dry |-> d, noconfirm |-> FALSE, enforce |-> TRUE, noCache |-> FALSE, tty |-> FALSE] : d \in BOOLEAN }
MCCleans == [args : {{}, {"repo"}, {"aur"}, {"repo", "aur"}}, full : BOOLEAN]
MCInstalled == { {}, {"app", "lib", "tool", "fp"}, {"own", "lib"} }
NoPins == [p \in MCPackage |-> None]
MCPins == { NoPins, [NoPins EXCEPT !["own"] = "src", !["lib"] = "core"] }
MCPinEdits == { << "own", None >>, << "lib", "extra" >> }
None2 == [a \in {"chat"} |-> None]
Beta == [a \in {"chat"} |-> "beta"]
MCApps == { [user |-> None2, system |-> Beta] }
=============================================================================
