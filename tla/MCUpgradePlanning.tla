-------------------------- MODULE MCUpgradePlanning --------------------------
(* Six packages in two repositories and the AUR; a library that another    *)
(* package needs under the name it provides, and one that only a newer     *)
(* version needs.                                                          *)
EXTENDS UpgradePlanning, TLC

CONSTANTS lib, app, tool, vcs, own, dep, soname, core, extra, flatpak

MCPackage == {lib, app, tool, vcs, own, dep}
MCOrder == <<core, extra>>
MCGlobs == << "t*", "*" >>
MCMatching == "t*" :> {tool} @@ "*" :> MCPackage
MCProviders == << Sources, flatpak >>

Of(default, f) == [p \in MCPackage |-> IF p \in DOMAIN f THEN f[p] ELSE default]
Nowhere == << >>

(* app needs lib by its soname, tool needs app; the new tool needs dep.    *)
Base == [
    installed |-> Of(2, dep :> 0),
    depends |-> Of({}, app :> {soname} @@ tool :> {app}),
    provides |-> Of({}, lib :> {soname}),
    replaces |-> Of({}, Nowhere),
    needs |-> Of(Of(0, Nowhere), tool :> Of(0, dep :> 2)),
    origin |-> Of(None, tool :> extra),
    sync |-> (core :> Of(0, lib :> 4 @@ tool :> 4)
           @@ extra :> Of(0, app :> 2 @@ tool :> 6 @@ dep :> 2)),
    aur |-> Of(0, vcs :> 4 @@ lib :> 1),
    order |-> MCOrder,
    age |-> (core :> Of(9, lib :> 1) @@ extra :> Of(9, Nowhere) @@ Aur :> Of(9999, Nowhere))]

(* The library respelled and downgraded elsewhere, tool in one repository,  *)
(* an older vcs package, dep replaces app.                                 *)
Other == [Base EXCEPT
    !.installed = Of(4, dep :> 0 @@ lib :> 3),
    !.sync = (core :> Of(0, app :> 6 @@ dep :> 2) @@ extra :> Of(0, lib :> 2 @@ tool :> 6 @@ app :> 8)),
    !.aur = Of(0, vcs :> 2 @@ lib :> 6 @@ own :> 8),
    !.replaces = Of({}, tool :> {own}),
    !.age = (core :> Of(9, Nowhere) @@ extra :> Of(9, tool :> 0) @@ Aur :> Of(2, Nowhere))]

(* pacman.conf has the repositories in the other order.                     *)
Swapped == [Base EXCEPT !.order = << extra, core >>]

MCHosts == {Base, Other, Swapped}

Plain == [pinning |-> FALSE, delays |-> FALSE, sticky |-> FALSE, pins |-> << >>,
          exclude |-> << >>, delay |-> << >>, owned |-> {own}, aliases |-> {"src"}]
Pinned == [Plain EXCEPT !.pinning = TRUE]
MCConfigs == {
    Plain,
    [Plain EXCEPT !.delays = TRUE, !.delay = "*" :> 3],
    [Pinned EXCEPT !.pins = lib :> Aur @@ "t*" :> core, !.exclude = core :> {tool, app}],
    [Pinned EXCEPT !.pins = "*" :> extra @@ vcs :> Aur, !.delays = TRUE, !.delay = "t*" :> 5],
    [Pinned EXCEPT !.exclude = core :> {tool, app}, !.sticky = TRUE],
    [Pinned EXCEPT !.exclude = extra :> {tool}],
    [Plain EXCEPT !.sticky = TRUE] }

All == [scope |-> "all", refresh |-> TRUE, dry |-> FALSE, keepGoing |-> FALSE, noCache |-> FALSE,
        ignored |-> {}, requests |-> << >>,
        options |-> (Aur :> "ok" @@ Sources :> "ok" @@ flatpak :> "ok"),
        offers |-> (Sources :> {own} @@ flatpak :> {"ide"})]
Going == [All EXCEPT !.keepGoing = TRUE, !.noCache = TRUE]
T(r, p) == [repo |-> r, name |-> p]
MCInvocations == {
    All, Going,
    [Going EXCEPT !.options[Aur] = "unsupported", !.refresh = FALSE],
    [Going EXCEPT !.options[flatpak] = "invalid", !.refresh = FALSE],
    [Going EXCEPT !.ignored = {dep, own}, !.dry = TRUE],
    [All EXCEPT !.scope = "aur"], [Going EXCEPT !.scope = "sources"], [All EXCEPT !.scope = "external"],
    [Going EXCEPT !.requests = << T(None, lib), T(extra, tool), T(Aur, tool) >>, !.refresh = FALSE],
    [All EXCEPT !.requests = << T(extra, app), T(Aur, vcs), T(None, dep) >>, !.refresh = FALSE],
    [Going EXCEPT !.requests = << T(None, vcs), T("src", own) >>, !.refresh = FALSE] }
=============================================================================
