SPECIFICATION FeeFairSpec
CONSTANTS
    main = main
    background = background
    Free = Free
    NoNonce = NoNonce
    Caller <- MCCaller
    MaxCalls = 3
    MaxNonce = 6
    Lagging = TRUE
    FaultKinds = {"other", "crash"}
    MaxFaults = 1
    NoBaseFee = NoBaseFee
    UpperLimit = 4
    TwoAndTheHalfGwei = 1
    BaseFees <- MCBaseFees
    Suggestions <- MCSuggestions
CHECK_DEADLOCK FALSE
INVARIANTS
    IncreasingNonces
    NonceInv
    StuckOnlyAfterRise
    LimitKept
    FeeInv
PROPERTIES
    EveryCallReturns
