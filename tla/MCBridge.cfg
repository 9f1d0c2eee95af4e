SPECIFICATION Spec
CONSTANTS
    t1 = t1
    t2 = t2
    alice = alice
    bob = bob
    ZeroAddress = ZeroAddress
    Main = Main
    Background = Background
    NoMsg = NoMsg
    NoFile = NoFile
    EmptyFile = EmptyFile
    Tx <- MCTx
    Address <- MCAddress
    From <- MCFrom
    To <- MCTo
    Listener <- MCListener
    MaxHeight = 3
    MaxReorg = 0
    Confirmations = 1
    BlockRetryLimit = 1
    FaultKinds = {"send", "db", "timeout", "disk", "crash", "revert"}
    MaxFaults = 2
    IsLoaded = TRUE
CHECK_DEADLOCK FALSE
INVARIANTS
    HistoryImpliesPaid
    OnePaymentPerRun
    Accounted
    CheckpointSound
    IInv
PROPERTIES
    NoPayAfterHistory
