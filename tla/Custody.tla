------------------------------- MODULE Custody -------------------------------
(***************************************************************************)
(* The two contracts with the bridge between them, as the Go bindings      *)
(* (bridge/contract) drive it: users deposit coins and move their tokens,  *)
(* the owner uses the owner's functions, and the bridge broadcasts token   *)
(* transfers for Deposit events, which Klaytn executes later against the   *)
(* state of that moment.                                                   *)
(*                                                                         *)
(* When the bridge may broadcast a transfer and when it inserts a row is   *)
(* not decided here: its steps are the steps of Swap, which module Bridge  *)
(* is proved to implement, over crashes and restarts.  In Swap the next    *)
(* run may pay again for what is not recorded, and so it may here.         *)
(***************************************************************************)
EXTENDS Contracts, FiniteSets, FiniteSetsExt

CONSTANTS
    Amounts,      \* bound: the amounts that calls name
    Values,       \* bound: the values of the transactions that deposit
    NewOwner,     \* bound: the accounts that become owners
    MaxRuns       \* bound: how often the bridge is restarted

ASSUME CustodyAssumption ==
    /\ IsFiniteSet(Account) /\ NewOwner \subseteq Account
    /\ Amounts \subseteq Values /\ Values \subseteq Nat
    /\ MaxRuns \in Nat

VARIABLES
    withdrawn,    \* the coins transferFunds has sent to the owner
    values,       \* values[i]: tx.Value() of the transaction of events[i]
    epoch,        \* the run of the bridge
    issued,       \* <<i, e>>: run e has broadcast a transfer for events[i]
    transfers,    \* how many transfers were broadcast
    settled,      \* the issued transfers that were mined and succeeded
    reverted,     \* the issued transfers that were mined and reverted
    recorded      \* the events that have a row in bers_swap_hist

bridgeVars == <<epoch, issued, transfers, settled, reverted, recorded>>
vars == <<contractVars, withdrawn, values, bridgeVars>>

User == Account \ {Deployer}

\* A Deposit event is a deposit of Swap, known by its number, and final at
\* once: Bridge pays for nothing that a reorganisation still takes back.
Promise == INSTANCE Swap
    WITH Tx <- 1..MaxUint64, final <- DOMAIN events

\* tx.Cost(): the value and the gas.
MessageCost(i) == values[i] + 1

\* The amount of the message is the value of the whole transaction, not the
\* coins that came with the event: another contract may have called deposit.
MessageAmount(i) == values[i]

Init ==
    /\ ContractsInit
    /\ withdrawn = 0 /\ values = <<>>
    /\ epoch = 0 /\ issued = {} /\ transfers = 0
    /\ settled = {} /\ reverted = {} /\ recorded = {}

\* The Go bindings pack a call only for a method of the ABI they were built
\* with; otherwise the caller gets an error and nothing is sent.
PackMethod(ABI, method) == method \in ABI

ExecuteTransaction(ABI, method, call) == PackMethod(ABI, method) /\ call

CallContract(ABI, method, value) ==
    IF PackMethod(ABI, method) THEN value ELSE "error"

\* SwapContract.GetBalance asks BerithSwap for balanceOf.
SwapGetBalance(a) == CallContract(SwapABI, "balanceOf", swapBalance)

GetBalance(a) == CallContract(TokenABI, "balanceOf", balances[a])

GetPauseState == CallContract(TokenABI, "paused", paused)
-----------------------------------------------------------------------------
\* c calls deposit with v coins in a transaction of value w, which is v when
\* c is an account that calls it directly.
DepositCoins ==
    \E c \in Account, to \in Account \cup {ZeroAddress}, v \in Amounts, w \in Values :
       /\ ExecuteTransaction(SwapABI, "deposit", Deposit(c, to, v))
       /\ values' = Append(values, w)
       /\ UNCHANGED <<withdrawn, bridgeVars>>

Withdraw ==
    /\ \E c \in Account :
          ExecuteTransaction(SwapABI, "transferFunds", TransferFunds(c))
    /\ withdrawn' = withdrawn + swapBalance
    /\ UNCHANGED <<values, bridgeVars>>

\* What users do with their tokens, directly on the contract.
UserStep ==
    /\ \E c \in User, a \in Account, v \in Amounts : Transfer(c, a, v)
    /\ UNCHANGED <<withdrawn, values, bridgeVars>>

\* The owner's functions.
OwnerStep ==
    /\ \E c \in Account :
          \/ ExecuteTransaction(TokenABI, "pause", Pause(c))
          \/ ExecuteTransaction(TokenABI, "unpause", Unpause(c))
          \/ \E k \in Contract :
                RenounceOwnership(k, c) \/ \E n \in NewOwner : TransferOwnership(k, c, n)
    /\ UNCHANGED <<withdrawn, values, bridgeVars>>

\* SendToken hands the transfer of a message to a node of Klaytn, from the
\* account of the deployer.
SendTransfer(i) ==
    /\ PackMethod(TokenABI, "transfer")
    /\ UNCHANGED <<contractVars, withdrawn, values, reverted>>
    /\ Promise!Issue(i)

Pending == issued \ (settled \cup reverted)

\* Klaytn executes the transfer: it moves the tokens or it reverts.
MineTransfer(p) ==
    /\ p \in Pending
    /\ Transfer(Deployer, events[p[1]].recipient, MessageAmount(p[1]))
    /\ UNCHANGED <<withdrawn, values, reverted>>
    /\ Promise!Settle(p)

RevertTransfer(p) ==
    /\ p \in Pending
    /\ ~CanMove(Deployer, events[p[1]].recipient, MessageAmount(p[1]))
    /\ reverted' = reverted \cup {p}
    /\ UNCHANGED <<contractVars, withdrawn, values, epoch, issued, transfers, settled, recorded>>

\* CreateSwapHistoryTx, after a receipt that says the transfer succeeded.
CreateSwapHistory(i) ==
    /\ i \notin recorded
    /\ UNCHANGED <<contractVars, withdrawn, values, reverted>>
    /\ Promise!Record(i)

Restart ==
    /\ epoch < MaxRuns
    /\ UNCHANGED <<contractVars, withdrawn, values, reverted>>
    /\ Promise!Restart

BridgeStep ==
    \/ \E i \in DOMAIN events : SendTransfer(i) \/ CreateSwapHistory(i)
    \/ \E p \in issued : MineTransfer(p) \/ RevertTransfer(p)
    \/ Restart

Next == DepositCoins \/ Withdraw \/ UserStep \/ OwnerStep \/ BridgeStep

Spec == Init /\ [][Next]_vars
-----------------------------------------------------------------------------
(***************************************************************************)
(* Properties.                                                             *)
(***************************************************************************)

\* Every variable has its type: no balance goes below zero, and every transfer
\* is one for an event, of a run that has begun, and ends in one way.
CustodyTypeOK ==
    /\ ContractsTypeOK
    /\ withdrawn \in Nat
    /\ values \in Seq(Nat) /\ Len(values) = Len(events)
    /\ epoch \in Nat /\ transfers \in Nat
    /\ issued \subseteq (DOMAIN events) \X (0..epoch)
    /\ settled \subseteq issued /\ reverted \subseteq issued
    /\ settled \cap reverted = {}
    /\ recorded \subseteq DOMAIN events

Total(f, S) == MapThenSumSet(LAMBDA x : f[x], S)

\* How many transfers for an event moved tokens.
Times(i) == Cardinality({p \in settled : p[1] = i})

\* What the bridge has paid for an event.
Paid == [i \in DOMAIN events |-> Times(i) * values[i]]

\* What it has paid beyond the coins that came with the event: because the
\* transaction was worth more than them, or because a run paid again.
Excess == [i \in DOMAIN events |->
              IF Paid[i] > events[i].amount THEN Paid[i] - events[i].amount ELSE 0]

\* The tokens in the hands of users are covered by the coins that came in,
\* those BerithSwap still holds and those its owner has withdrawn, but for
\* what the bridge paid twice or by the value of another contract's caller.
Backed ==
    Total(balances, User) <= swapBalance + withdrawn + Total(Excess, DOMAIN events)

\* Tokens only change hands: the balances add up to the supply, also after a
\* transfer of an account to itself, as when a deposit names the bridge.
SupplyKept == Total(balances, Account) = TotalSupply

\* A Deposit event is told from every other by its number, up to the last
\* number there is.
NoncesUnique ==
    \A i, j \in DOMAIN events : events[i].nonce = events[j].nonce => i = j
=============================================================================
