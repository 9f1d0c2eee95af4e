SPECIFICATION Spec
CONSTANTS
    main = main
    background = background
    Free = Free
    NoNonce = NoNonce
    Caller <- MCCaller
    MaxCalls = 2
    MaxNonce = 4
    Lagging = FALSE
    FaultKinds = {}
    MaxFaults = 0
CHECK_DEADLOCK FALSE
PROPERTIES
    NoNonceGap
