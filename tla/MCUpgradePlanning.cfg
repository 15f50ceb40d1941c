SPECIFICATION Spec
CONSTANTS
    None = None
    Aur = Aur
    Sources = Sources
    lib = lib
    app = app
    tool = tool
    vcs = vcs
    own = own
    dep = dep
    soname = soname
    core = core
    extra = extra
    flatpak = flatpak
    Package <- MCPackage
    Order <- MCOrder
    Globs <- MCGlobs
    Matching <- MCMatching
    Vcs = {vcs}
    ChunkSize = 1
    MaxWorkers = 1
    MaxAttempts = 2
    Hosts <- MCHosts
    Configs <- MCConfigs
    Providers <- MCProviders
    Refreshing = {flatpak}
    Failing = {own}
    Invocations <- MCInvocations
INVARIANTS TypeOK HeldClosure PlanIsHonest
