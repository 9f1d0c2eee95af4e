---------------------------- MODULE KlaytnChain ----------------------------
(***************************************************************************)
(* The Klaytn chain as the receiver chain uses it: token transfers that    *)
(* have reached a node's pool and what became of them.  Klaytn blocks are  *)
(* final, so a mined transfer stays mined.  A transfer reverts while       *)
(* KBToken is paused or the bridge's balance is too small: both are the    *)
(* "revert" fault.  Nonces are the subject of a module of their own.       *)
(***************************************************************************)
EXTENDS Message, Runtime, Sequences

VARIABLE
    payments    \* every transfer broadcast so far, oldest first

\* dep is the deposit the transfer pays for, run the run that broadcast it.
Payments == [dep : Tx, run : Nat, status : {"pending", "mined", "reverted"}]

KlaytnTypeOK == payments \in Seq(Payments)

\* eth_sendRawTransaction has reached the pool.
Broadcast(t) ==
    payments' = Append(payments, [dep |-> t, run |-> run, status |-> "pending"])

Settle(i, s) == /\ payments[i].status = "pending"
                /\ payments' = [payments EXCEPT ![i].status = s]

MinePayment(i) == Settle(i, "mined") /\ NoFault

RevertPayment(i) == Settle(i, "reverted") /\ Fault("revert")

Mined(i) == payments[i].status = "mined"
=============================================================================
