SPECIFICATION FairSpec
CONSTANTS
    Native = native
    Aur = aur
    Sources = sources
    flatpak = flatpak
    s1 = s1
    s2 = s2
    None = None
    Others <- Other1
    AurPkg = {a1}
    SourceSeq <- Source2
    MaxForeign = 1
INVARIANTS TypeOK OutcomeIsTruthful ArtifactsAreOwned
PROPERTIES StagesAreGuarded Ends
CHECK_DEADLOCK FALSE
