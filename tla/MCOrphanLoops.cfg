SPECIFICATION LoopsFairSpec
CONSTANTS
    a = a
    b = b
    c = c
    Package <- MCPkg
    DepChoices <- MCDepChoices
    OptChoices <- MCOptChoices
INVARIANTS LoopsTypeOK LoopsAreExact
PROPERTY Ends
CHECK_DEADLOCK FALSE
