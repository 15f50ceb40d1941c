SPECIFICATION FairSpec
CONSTANTS
    native = native
    aur = aur
    sources = sources
    flatpak = flatpak
    nix = nix
    None = None
    Manager <- MCManager
    Stages <- MCStages
    Jobs <- MCJobs
INVARIANTS TypeOK WorkersStayInHand
PROPERTIES ImplementsContract FinishReturns
