SPECIFICATION Spec
CONSTANTS
    None = None
    Error = Error
    app = app
    tool = tool
    hosted = hosted
    user = user
    tmp = tmp
    var = var
    Package <- MCPackage
    Alias <- MCAlias
    Source <- MCSource
    Upstream <- MCUpstream
    Absent = None
    Repositories = {"core"}
    PageSize = 2
    Worker = {w1, w2}
    Direct <- MCDirect
    Inside <- MCInside
    Bases <- MCBases
    Ram = {tmp}
    Policy = "auto"
    Size = 1
    BuildReserve = 1
    OsReserve = 1
    Room = 8
    DependsOn <- MCDependsOn
    Failed = {tool}
    Scripted = {2}
    Modes = {"upgrade", "continue", "install", "direct"}
    Configs <- MCConfigs
    Databases <- MCDatabases
    MaxEvents = 1
INVARIANTS TypeOK DiscoveryLossless
PROPERTIES NewestIsOffered UpgradesAreFaithful
