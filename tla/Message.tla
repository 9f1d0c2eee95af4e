------------------------------ MODULE Message ------------------------------
(***************************************************************************)
(* bridge/message/message.go and bridge/util/validator.go: the message the *)
(* sender chain hands to the receiver chain for one Deposit event.         *)
(*                                                                         *)
(* A transaction hash is an element of Tx.  Sender, amount and hash of a   *)
(* message are functions of the transaction and are left out; they are     *)
(* never empty, so only the block number and the receiver decide whether   *)
(* the validator accepts the message.                                      *)
(***************************************************************************)
EXTENDS Naturals

CONSTANTS
    Tx,           \* the Berith transactions that call deposit()
    Address,      \* account addresses, the zero address included
    ZeroAddress   \* common.Address{}

ASSUME AddressAssumption == ZeroAddress \in Address

Messages == [block : Nat, tx : Tx, receiver : Address]

NewDepositMessage(b, t, r) == [block |-> b, tx |-> t, receiver |-> r]

\* validate:"required" refuses the zero value of a field.
ValidateStruct(m) == m.block # 0 /\ m.receiver # ZeroAddress
=============================================================================
