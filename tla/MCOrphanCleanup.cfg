SPECIFICATION Spec
CONSTANTS
    app = app
    lib = lib
    base = base
    needed = needed
    dropped = dropped
    optional = optional
    None = None
    Pkg <- MCPkg
    Explicit = {app}
    World <- MCWorld
    Deps <- MCDeps
    Opts <- MCOpts
INVARIANTS TypeOK AsksExactlyWhenOwed NothingBroken
PROPERTY RemovalIsAuthorized
