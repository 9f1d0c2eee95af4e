---------------------------- MODULE BerithChain ----------------------------
(***************************************************************************)
(* The Berith chain as the sender chain sees it through its RPC node, with *)
(* the BerithSwap contract (contract/contracts/berith-swap.sol).  A block  *)
(* is the set of deposit transactions it holds: the order of the logs of a *)
(* block is left open.                                                     *)
(*                                                                         *)
(* Assumption on the environment: every element of Tx is a transaction in  *)
(* which an account itself calls deposit(), so that it has one Deposit log *)
(* and its value is the coins of that log.  A contract that calls          *)
(* deposit(), once with other coins than it was sent or several times in   *)
(* one transaction, is outside this module; Custody has the first.         *)
(***************************************************************************)
EXTENDS Message

CONSTANTS
    From,        \* From[t]: the account that signed t
    To,          \* To[t]: the recipient argument of t, possibly zero
    MaxHeight,   \* bound: the last block that is mined
    MaxReorg     \* the deepest reorganisation: how many blocks it replaces

ASSUME ChainAssumption ==
    /\ From \in [Tx -> Address \ {ZeroAddress}]
    /\ To \in [Tx -> Address]
    /\ MaxHeight \in Nat
    /\ MaxReorg \in Nat

VARIABLES
    height,    \* number of the latest block
    blockOf    \* blockOf[t]: the block that holds t, 0 while t is pending

chainVars == <<height, blockOf>>

ChainTypeOK == height \in Nat /\ blockOf \in [Tx -> Nat]

ChainInit == height = 0 /\ blockOf = [t \in Tx |-> 0]

DepositToZero(t) == To[t]

\* The recipient that deposit() puts in the event.
DepositRecipient(t) == IF To[t] = ZeroAddress THEN From[t] ELSE To[t]

FilterLogsFromPrevious(b) == {t \in Tx : b # 0 /\ blockOf[t] \in {b - 1, b} \ {0}}

\* eth_getLogs for the single block b.
FilterLogs(b) == {t \in Tx : b # 0 /\ blockOf[t] = b}

\* A block is appended; it includes any of the pending deposits.
MineBlock ==
    /\ height < MaxHeight
    /\ height' = height + 1
    /\ \E S \in SUBSET {t \in Tx : blockOf[t] = 0} :
          blockOf' = [t \in Tx |-> IF t \in S THEN height + 1 ELSE blockOf[t]]

\* The last k blocks are replaced by k others: a transaction in them may move
\* to another of the new blocks or become pending, a pending one may enter.
Reorg ==
    \E k \in 1..MaxReorg :
       /\ k <= height
       /\ \E f \in [{t \in Tx : blockOf[t] = 0 \/ blockOf[t] > height - k}
                       -> {0} \cup (height - k + 1)..height] :
             blockOf' = [t \in Tx |-> IF t \in DOMAIN f THEN f[t] ELSE blockOf[t]]
       /\ UNCHANGED height
=============================================================================
