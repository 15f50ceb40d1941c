-------------------------- MODULE MCOrphanCleanup --------------------------
(* Instance of OrphanCleanup: an application, a library and the library's  *)
(* own dependency, in three worlds.                                        *)
EXTENDS OrphanCleanup, TLC

CONSTANTS app, lib, base, needed, dropped, optional

MCPkg == {app, lib, base}
MCWorld == {needed, dropped, optional}

\* needed: app -> lib -> base.  dropped: app lost its dependency.
\* optional: app only uses base, optionally.
MCDeps ==
    needed :> (app :> {lib} @@ lib :> {base} @@ base :> {}) @@
    dropped :> (app :> {} @@ lib :> {base} @@ base :> {}) @@
    optional :> (app :> {} @@ lib :> {} @@ base :> {})
MCOpts ==
    needed :> (app :> {} @@ lib :> {} @@ base :> {}) @@
    dropped :> (app :> {} @@ lib :> {} @@ base :> {}) @@
    optional :> (app :> {base} @@ lib :> {} @@ base :> {})
=============================================================================
