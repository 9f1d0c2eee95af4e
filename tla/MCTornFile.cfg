SPECIFICATION Spec
CONSTANTS
    t1 = t1
    t2 = t2
    alice = alice
    bob = bob
    ZeroAddress = ZeroAddress
    Main = Main
    Background = Background
    NoMsg = NoMsg
    NoFile = NoFile
    EmptyFile = EmptyFile
    Tx <- MCTx
    Address <- MCAddress
    From <- MCFrom
    To <- MCTo
    Listener <- MCListener
    MaxHeight = 2
    MaxReorg = 0
    Confirmations = 0
    BlockRetryLimit = 1
    FaultKinds = {"crash"}
    MaxFaults = 1
    IsLoaded = TRUE
CHECK_DEADLOCK FALSE
INVARIANTS
    CheckpointReadable
