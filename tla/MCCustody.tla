------------------------------ MODULE MCCustody ------------------------------
EXTENDS Custody, TLC

CONSTANTS deployer, alice, bob, zero

MCAccount == {deployer, alice, bob}

MCNewOwner == {alice, bob}

\* The users may change places: no property tells one from the other.
Symmetry == Permutations({alice, bob})
==============================================================================
