SPECIFICATION Spec
CONSTANTS
    None = None
    Error = Error
    Manager = {m1, m2}
    Gone = {m1}
    NativeDirs = 2
    HelperFound = TRUE
    Package <- MCPackage
    Order <- MCOrder
    Offers <- MCOffers
    Recipes <- MCRecipes
    DependsOn <- MCDependsOn
    Kin <- MCKin
    Provides <- MCProvides
    ConflictsWith <- MCConflictsWith
    Young <- MCYoung
    Requests <- MCRequests
    MaxPolls = 1
    MaxEdits = 1
    Flatpak = "fp"
    Implied = {"fp"}
    App = {"chat"}
    Remote = {"hub", "beta"}
    Manifests <- MCManifests
    Options <- MCOptions
    Cleans <- MCCleans
    Installed <- MCInstalled
    Pins <- MCPins
    Apps <- MCApps
    PinEdits <- MCPinEdits
INVARIANTS TypeOK ReportsAreTrue RebuildResumes
PROPERTIES CleanupIsSafe WrittenForLater
