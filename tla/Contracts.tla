------------------------------ MODULE Contracts ------------------------------
(***************************************************************************)
(* The two contracts of the bridge: BerithSwap (contract/contracts/        *)
(* berith-swap.sol) and KBToken (KBToken.sol), an OpenZeppelin             *)
(* ERC20Pausable and Ownable whose ABI is a constant of                    *)
(* bridge/contract/consts.  An operation is one successful call by c; a    *)
(* call whose require() fails reverts and is a call that changes nothing.  *)
(* What KBToken inherits is modelled as far as the bridge and the holders  *)
(* of its tokens come to it: ownership, pause and transfer.                *)
(***************************************************************************)
EXTENDS Integers, Sequences

CONSTANTS
    Account,      \* accounts of the two chains, the zero address left out
    ZeroAddress,  \* address(0)
    Deployer,     \* the account that deployed both contracts
    Supply,       \* _totalSupply, the argument of KBToken's constructor
    MaxUint64     \* the largest depositNonce

ASSUME ContractsAssumption ==
    /\ Deployer \in Account /\ ZeroAddress \notin Account
    /\ Supply \in Nat /\ MaxUint64 \in Nat

VARIABLES
    owner,          \* owner[k]: the owner of contract k, zero if renounced
    depositNonce,   \* BerithSwap: the number of the last Deposit event
    swapBalance,    \* BerithSwap: the coins it holds
    events,         \* BerithSwap: its Deposit events and the coins sent along
    paused,         \* KBToken: transfers are refused
    balances        \* KBToken: balances[a]

swapVars == <<depositNonce, swapBalance, events>>
tokenVars == <<paused, balances>>
contractVars == <<owner, swapVars, tokenVars>>

Contract == {"swap", "token"}

\* The names each ABI offers to the Go bindings; Pack knows no others.
SwapABI == {"deposit", "depositNonce", "owner", "renounceOwnership",
            "transferFunds", "transferOwnership"}
TokenABI == {"allowance", "approve", "balanceOf", "decimals",
             "decreaseAllowance", "increaseAllowance", "name", "owner",
             "pause", "paused", "renounceOwnership", "symbol", "totalSupply",
             "transfer", "transferFrom", "transferOwnership", "unpause"}

DepositEvents ==
    [nonce : 0..MaxUint64, recipient : Account, amount : Nat]

ContractsTypeOK ==
    /\ owner \in [Contract -> Account \cup {ZeroAddress}]
    /\ depositNonce \in 0..MaxUint64 /\ swapBalance \in Nat
    /\ events \in Seq(DepositEvents)
    /\ paused \in BOOLEAN /\ balances \in [Account -> Nat]

\* The constructors: the deployer owns both contracts and holds the supply.
ContractsInit ==
    /\ owner = [k \in Contract |-> Deployer]
    /\ depositNonce = 0 /\ swapBalance = 0 /\ events = <<>>
    /\ paused = FALSE
    /\ balances = [a \in Account |-> IF a = Deployer THEN Supply ELSE 0]
-----------------------------------------------------------------------------
(***************************************************************************)
(* Ownable, of both contracts.                                             *)
(***************************************************************************)

TransferOwnership(k, c, new) ==
    /\ c = owner[k] /\ new # ZeroAddress
    /\ owner' = [owner EXCEPT ![k] = new]
    /\ UNCHANGED <<swapVars, tokenVars>>

RenounceOwnership(k, c) ==
    /\ c = owner[k]
    /\ owner' = [owner EXCEPT ![k] = ZeroAddress]
    /\ UNCHANGED <<swapVars, tokenVars>>
-----------------------------------------------------------------------------
(***************************************************************************)
(* BerithSwap.                                                             *)
(***************************************************************************)

Recipient(c, to) == IF to = ZeroAddress THEN c ELSE to

\* unchecked { depositNonce++; }
DepositUnchecked(c, to, v) ==
    /\ depositNonce' = (depositNonce + 1) % (MaxUint64 + 1)
    /\ swapBalance' = swapBalance + v
    /\ events' = Append(events, [nonce |-> depositNonce',
                                 recipient |-> Recipient(c, to), amount |-> v])
    /\ UNCHANGED <<owner, tokenVars>>

\* depositNonce++ is checked arithmetic: the call reverts at the last number.
Deposit(c, to, v) ==
    /\ depositNonce < MaxUint64
    /\ depositNonce' = depositNonce + 1
    /\ swapBalance' = swapBalance + v
    /\ events' = Append(events, [nonce |-> depositNonce',
                                 recipient |-> Recipient(c, to), amount |-> v])
    /\ UNCHANGED <<owner, tokenVars>>

TransferFunds(c) ==
    /\ c = owner["swap"]
    /\ swapBalance' = 0
    /\ UNCHANGED <<owner, depositNonce, events, tokenVars>>
-----------------------------------------------------------------------------
(***************************************************************************)
(* KBToken.                                                                *)
(***************************************************************************)

TotalSupply == Supply

\* A transfer that asks for the recipient only, not for the balance.
CanMoveUncovered(from, to, v) == ~paused /\ to # ZeroAddress

\* _transfer: the debit, then the credit; nothing moves while paused.
CanMove(from, to, v) == ~paused /\ to # ZeroAddress /\ v <= balances[from]

\* Both balances are read before either is written.
MovedFromStale(from, to, v) ==
    [balances EXCEPT ![from] = balances[from] - v, ![to] = balances[to] + v]

Moved(from, to, v) ==
    LET debited == [balances EXCEPT ![from] = @ - v]
    IN  [debited EXCEPT ![to] = @ + v]

Transfer(c, to, v) ==
    /\ CanMove(c, to, v)
    /\ balances' = Moved(c, to, v)
    /\ UNCHANGED <<owner, swapVars, paused>>

Pause(c) ==
    /\ c = owner["token"] /\ ~paused
    /\ paused' = TRUE
    /\ UNCHANGED <<owner, swapVars, balances>>

Unpause(c) ==
    /\ c = owner["token"] /\ paused
    /\ paused' = FALSE
    /\ UNCHANGED <<owner, swapVars, balances>>
=============================================================================
