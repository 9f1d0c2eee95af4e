--------------------------- MODULE TransactorFees ---------------------------
(***************************************************************************)
(* Transactor with the price of each transaction: it is quoted from the    *)
(* base fee of one block and competes for room in later ones, whose base   *)
(* fee is another.  The node mines the account's transactions in the order *)
(* of their nonces, so that one that is priced too low holds up the rest.  *)
(***************************************************************************)
EXTENDS Transactor, GasPricer

CONSTANTS
    BaseFees,       \* the base fees a block may have
    Suggestions     \* the tips and prices a node may suggest

ASSUME FeeAssumption ==
    /\ BaseFees \subseteq Nat \cup {NoBaseFee}
    /\ BaseFees # {}
    /\ Suggestions \subseteq Nat

VARIABLES
    baseFee,    \* of the latest Klaytn block
    quote,      \* the price each caller goes on with
    fee         \* the price of every transaction in the pool, by its nonce

feeVars == <<baseFee, quote, fee>>

\* base is the base fee that the price was quoted from; ours is FALSE for a
\* transaction of another user of the account.
Prices == [tip : Nat, cap : Nat, base : Nat \cup {NoBaseFee}, ours : BOOLEAN]

NoQuote == [tip |-> 0, cap |-> 0, base |-> NoBaseFee, ours |-> TRUE]

NoQuotes == [c \in Caller |-> NoQuote]

FeeTypeOK ==
    /\ baseFee \in Nat \cup {NoBaseFee}
    /\ quote \in [Caller -> Prices]
    /\ fee \in [pool -> Prices]

Priced(s) == LET tx == NewTransaction(LondonGasPrice(baseFee, s))
             IN  [tip |-> tx.tip, cap |-> tx.cap, base |-> baseFee, ours |-> TRUE]

\* The pool takes a transaction with price f under nonce n.
Pooled(n, f) == [k \in pool \cup {n} |-> IF k = n THEN f ELSE fee[k]]

FeeInit == /\ Init
           /\ baseFee \in BaseFees
           /\ quote = NoQuotes
           /\ fee = [n \in {} |-> NoQuote]

\* BaseFee, then SuggestGasTipCap or SuggestGasPrice.
QuoteGas(c) ==
    /\ GasPrice(c)
    /\ \E s \in Suggestions : quote' = [quote EXCEPT ![c] = Priced(s)]
    /\ UNCHANGED <<baseFee, fee>>

SendPriced(c) ==
    /\ SignAndSendTransaction(c)
    /\ fee' = Pooled(txNonce[c], quote[c])
    /\ quote' = [quote EXCEPT ![c] = NoQuote]
    /\ UNCHANGED baseFee

SendPricedFailed(c) ==
    /\ SignAndSendFailed(c)
    /\ fee' \in {fee, Pooled(txNonce[c], quote[c])}
    /\ DOMAIN fee' = pool'
    /\ quote' = [quote EXCEPT ![c] = NoQuote]
    /\ UNCHANGED baseFee

\* The steps of Transact that neither quote nor send.
Unpriced(c) ==
    /\ \/ LockNonce(c) \/ UnsafeNonce(c) \/ GasPriceFailed(c)
       \/ UnsafeIncreaseNonce(c) \/ WaitAndReturnTxReceipt(c)
    /\ UNCHANGED feeVars

ProcessGone(c) == NilNonce(c) /\ quote' = NoQuotes /\ UNCHANGED <<baseFee, fee>>

FeeTransact(c) ==
    \/ QuoteGas(c) \/ SendPriced(c) \/ SendPricedFailed(c) \/ Unpriced(c)
    \/ ProcessGone(c)

\* What a price has to cover in a block with base fee b.
FeeFloor(b) == IF b = NoBaseFee THEN 0 ELSE b

Includable(n) == fee[n].cap >= FeeFloor(baseFee)

MinePriced ==
    /\ Mine
    /\ Includable(mined)
    /\ fee' = [n \in pool \ {mined} |-> fee[n]]
    /\ UNCHANGED <<baseFee, quote>>

\* A block whose base fee is another one, in particular the first that has one.
MoveBaseFee ==
    /\ baseFee' \in BaseFees \ {baseFee, NoBaseFee}
    /\ UNCHANGED <<transactorVars, quote, fee>>

OtherSendPriced ==
    /\ OtherSend
    /\ \E s \in Suggestions, n \in pool' \ pool :
          fee' = Pooled(n, [tip |-> s, cap |-> s, base |-> NoBaseFee, ours |-> FALSE])
    /\ UNCHANGED <<baseFee, quote>>

FeeNext ==
    \/ \E c \in Caller : (Call(c) /\ UNCHANGED feeVars) \/ FeeTransact(c)
    \/ MinePriced \/ MoveBaseFee \/ OtherSendPriced
    \/ Crash /\ quote' = NoQuotes /\ UNCHANGED <<baseFee, fee>>
    \/ Restart /\ UNCHANGED feeVars

FeeSpec == FeeInit /\ [][FeeNext]_<<transactorVars, feeVars>>

\* As in Transactor: nothing makes the node mine.
FeeFairSpec ==
    /\ FeeSpec
    /\ \A c \in Caller :
          /\ WF_<<transactorVars, feeVars>>(FeeTransact(c))
          /\ SF_<<transactorVars, feeVars>>(LockNonce(c) /\ UNCHANGED feeVars)
-----------------------------------------------------------------------------
(***************************************************************************)
(* Properties.                                                             *)
(***************************************************************************)

\* The bridge never broadcasts what cannot be mined: a transfer waits in the
\* pool only because the base fee rose after its price was quoted, and when
\* neither the limit nor an expensive block cut the price, only because the
\* base fee more than doubled.
StuckOnlyAfterRise ==
    \A n \in pool :
       LET f == fee[n] IN
       (f.ours /\ ~Includable(n)) =>
          /\ FeeFloor(baseFee) > FeeFloor(f.base)
          /\ f.cap < UpperLimit => FeeFloor(baseFee) > 2 * FeeFloor(f.base)

\* The limit of contract_Initializer.go is on the whole fee.  It is exceeded
\* only when the base fee alone was above it at the time of the quote, and
\* then by that base fee and the fixed tip, never by more.
LimitKept ==
    \A n \in pool :
       LET f == fee[n] IN
       f.ours => \/ f.cap <= UpperLimit
                 \/ /\ FeeFloor(f.base) > UpperLimit
                    /\ f.cap = f.base + TwoAndTheHalfGwei

PriceSound(f) ==
    f.ours =>
       /\ f.tip <= f.cap /\ f.cap >= FeeFloor(f.base)
       /\ f.cap < UpperLimit => f.cap >= 2 * FeeFloor(f.base)
       /\ \/ f.cap <= UpperLimit
          \/ FeeFloor(f.base) > UpperLimit /\ f.cap = f.base + TwoAndTheHalfGwei

\* The inductive invariant: what is true of a price when it is quoted goes
\* with the transaction into the pool and outlives the process.
FeeInv ==
    /\ FeeTypeOK
    /\ \A c \in Caller : PriceSound(quote[c])
    /\ \A n \in pool : PriceSound(fee[n])
=============================================================================
