INIT MCInit
NEXT Next
CONSTANTS
    p1 = p1
    p2 = p2
    pin = pin
    source = source
    v1 = v1
    v2 = v2
    None = None
    Proc <- MCProc
    Key = {pin, source}
    Shared = {source}
    Value <- MCValue
    MaxOps = 2
    MaxEdits = 1
SYMMETRY Symmetry
INVARIANTS TypeOK MainIsWhole
PROPERTIES CommandsAreIsolated
