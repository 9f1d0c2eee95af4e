SPECIFICATION FairSpec
CONSTANTS
    Setups <- MCSetups
    NoFile = NoFile
    EmptyFile = EmptyFile
    NoBlock = NoBlock
    NaN = NaN
    DefaultBlockConfirmations = 2
    MaxHeight = 2
    MaxFaults = 2
CHECK_DEADLOCK FALSE
INVARIANTS
    StartTypeOK
    UpIsChecked
PROPERTIES
    ComesUp
    ImplementsLaunch
