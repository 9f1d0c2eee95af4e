SPECIFICATION LifeFairSpec
CONSTANTS
    t1 = t1
    t2 = t2
    alice = alice
    bob = bob
    ZeroAddress = ZeroAddress
    Main = Main
    Background = Background
    NoMsg = NoMsg
    NoFile = NoFile
    EmptyFile = EmptyFile
    Tx <- MCTx
    Address <- MCAddress
    From <- MCFrom
    To <- MCTo
    Listener <- MCListener
    MaxHeight = 1
    MaxReorg = 0
    Confirmations = 0
    BlockRetryLimit = 1
    FaultKinds = {"stop", "send", "rpc", "crash"}
    MaxFaults = 2
    IsLoaded = FALSE
CHECK_DEADLOCK FALSE
INVARIANTS
    TypeOK
    Accounted
PROPERTIES
    ImplementsSwap
    SenderGetsThrough
    StopEndsProcess
