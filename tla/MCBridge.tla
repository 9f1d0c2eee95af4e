------------------------------ MODULE MCBridge ------------------------------
(***************************************************************************)
(* Instances of Bridge for TLC: two deposits, one of them with the zero    *)
(* address as its recipient argument, and the two listeners.               *)
(***************************************************************************)
EXTENDS BridgeClaims

CONSTANTS t1, t2, alice, bob

MCTx == {t1, t2}
MCAddress == {ZeroAddress, alice, bob}
MCFrom == [t \in Tx |-> IF t = t2 THEN bob ELSE alice]
MCTo == [t \in Tx |-> IF t = t2 THEN ZeroAddress ELSE bob]
MCListener == {Main, Background}
=============================================================================
