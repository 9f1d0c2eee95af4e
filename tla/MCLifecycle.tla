---------------------------- MODULE MCLifecycle ----------------------------
(***************************************************************************)
(* The instance of Lifecycle for TLC: two deposits with a recipient and    *)
(* the two listeners, as in MCBridge.                                      *)
(***************************************************************************)
EXTENDS Lifecycle

CONSTANTS t1, t2, alice, bob

MCTx == {t1, t2}
MCAddress == {ZeroAddress, alice, bob}
MCFrom == [t \in Tx |-> IF t = t2 THEN bob ELSE alice]
MCTo == [t \in Tx |-> IF t = t2 THEN ZeroAddress ELSE bob]
MCListener == {Main, Background}
=============================================================================
