SPECIFICATION Spec
CONSTANTS
    Setups <- MCSetups
    NoFile = NoFile
    EmptyFile = EmptyFile
    NoBlock = NoBlock
    NaN = NaN
    DefaultBlockConfirmations = 2
    MaxHeight = 2
    MaxFaults = 2
CHECK_DEADLOCK FALSE
INVARIANT UpIsSound
