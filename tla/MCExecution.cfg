\* The system stops when the process has exited.
CHECK_DEADLOCK FALSE
SPECIFICATION ExecutionSpec
CONSTANTS
    main = main
    helper = helper
    Handler = Handler
    Nobody = Nobody
    Thread <- MCThread
SYMMETRY Symmetry
INVARIANTS ExecutionTypeOK ShutdownIsClean
PROPERTIES ShutdownIsOrderly
