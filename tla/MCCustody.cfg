CONSTANTS
    deployer = deployer
    alice = alice
    bob = bob
    zero = zero
    Account <- MCAccount
    ZeroAddress = zero
    Deployer = deployer
    Supply = 2
    MaxUint64 = 2
    Amounts = {1}
    Values = {1, 2}
    NewOwner <- MCNewOwner
    MaxRuns = 1
CHECK_DEADLOCK FALSE
SYMMETRY Symmetry
SPECIFICATION Spec
INVARIANTS CustodyTypeOK Backed SupplyKept NoncesUnique
