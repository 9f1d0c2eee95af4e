SPECIFICATION Spec
CONSTANTS
    t1 = t1
    t2 = t2
    alice = alice
    bob = bob
    ZeroAddress = ZeroAddress
    Main = Main
    Background = Background
    NoMsg = NoMsg
    NoFile = NoFile
    EmptyFile = EmptyFile
    Tx <- MCTx
    Address <- MCAddress
    From <- MCFrom
    To <- MCTo
    Listener <- MCListener
    MaxHeight = 3
    MaxReorg = 1
    Confirmations = 1
    BlockRetryLimit = 2
    FaultKinds = {"rpc", "crash", "reorg", "timeout"}
    MaxFaults = 2
    IsLoaded = TRUE
CHECK_DEADLOCK FALSE
INVARIANTS
    PaymentsConfirmed
    IInv
    LogsInBlock
    TransfersBounded
PROPERTIES
    ImplementsSwap
    ImplementsLaunch
