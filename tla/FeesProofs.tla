----------------------------- MODULE FeesProofs -----------------------------
(***************************************************************************)
(* Theorems about the prices of the transfers, for every limit, base fee   *)
(* and suggestion, and for every number of callers and of calls.           *)
(***************************************************************************)
EXTENDS TransactorFees, TransactorProofs

(***************************************************************************)
(* The arithmetic of the gas pricer.                                       *)
(***************************************************************************)

\* What GasPrice returns is a price that NewTransaction can use, that covers
\* the base fee it was computed from, and that keeps to the limit unless that
\* base fee alone exceeds it.
LEMMA PricedSound ==
    ASSUME baseFee \in Nat \cup {NoBaseFee}, NEW s \in Nat
    PROVE  Priced(s) \in Prices /\ PriceSound(Priced(s))
<1> DEFINE f == Priced(s)
<1>1. CASE baseFee = NoBaseFee
  <2>1. \E p \in Nat : p <= UpperLimit /\ LondonGasPrice(baseFee, s) = <<p>>
    BY <1>1, PricerAssumption DEF LondonGasPrice, StaticGasPrice
  <2> PICK p \in Nat : p <= UpperLimit /\ LondonGasPrice(baseFee, s) = <<p>>
    BY <2>1
  <2>2. f = [tip |-> p, cap |-> p, base |-> baseFee, ours |-> TRUE]
    BY DEF Priced, NewTransaction
  <2> QED
    BY <1>1, <2>2, PricerAssumption DEF Prices, PriceSound, FeeFloor
<1>2. CASE baseFee # NoBaseFee
  <2>1. baseFee \in Nat
    BY <1>2
  <2>2. PICK t \in Nat, p \in Nat :
           /\ LondonGasPrice(baseFee, s) = <<t, p>>
           /\ t <= p /\ p >= baseFee
           /\ p < UpperLimit => p >= 2 * baseFee
           /\ p <= UpperLimit \/ (baseFee > UpperLimit /\ p = baseFee + TwoAndTheHalfGwei)
    <3>1. CASE UpperLimit < baseFee
      <4>1. LondonGasPrice(baseFee, s) = <<TwoAndTheHalfGwei, baseFee + TwoAndTheHalfGwei>>
        BY <1>2, <2>1, <3>1, PricerAssumption DEF LondonGasPrice, EstimateGasLondon
      <4> QED
        BY <2>1, <3>1, <4>1, PricerAssumption
    <3>2. CASE UpperLimit >= baseFee /\ s + 2 * baseFee > UpperLimit
      <4>1. LondonGasPrice(baseFee, s) = <<UpperLimit - baseFee, UpperLimit>>
        BY <1>2, <2>1, <3>2, PricerAssumption DEF LondonGasPrice, EstimateGasLondon
      <4>2. UpperLimit - baseFee \in Nat
        BY <2>1, <3>2, PricerAssumption
      <4> QED
        BY <2>1, <3>2, <4>1, <4>2, PricerAssumption
    <3>3. CASE UpperLimit >= baseFee /\ s + 2 * baseFee <= UpperLimit
      <4>1. LondonGasPrice(baseFee, s) = <<s, s + 2 * baseFee>>
        BY <1>2, <2>1, <3>3, PricerAssumption DEF LondonGasPrice, EstimateGasLondon
      <4> QED
        BY <2>1, <3>3, <4>1, PricerAssumption
    <3> QED
      BY <2>1, <3>1, <3>2, <3>3, PricerAssumption
  <2>3. f = [tip |-> t, cap |-> p, base |-> baseFee, ours |-> TRUE]
    BY <2>2 DEF Priced, NewTransaction
  <2> QED
    BY <1>2, <2>1, <2>2, <2>3 DEF Prices, PriceSound, FeeFloor
<1> QED
  BY <1>1, <1>2

(***************************************************************************)
(* Prices take nothing from Transactor.                                    *)
(***************************************************************************)

LEMMA FeeStepIsStep ==
    [FeeNext]_<<transactorVars, feeVars>> => [Next]_transactorVars
  BY DEF FeeNext, FeeTransact, QuoteGas, SendPriced, SendPricedFailed, Unpriced, ProcessGone,
         MinePriced, MoveBaseFee, OtherSendPriced, Next, Transact

\* Transactor with prices implements Transactor without: all that is proved
\* of the nonces holds whatever the fees do.
THEOREM FeesImplementTransactor == FeeSpec => Spec
<1>1. FeeInit => Init
  BY DEF FeeInit
<1> QED
  BY <1>1, FeeStepIsStep, PTL DEF FeeSpec, Spec

\* The lock discipline around the nonce holds although transactions wait.
THEOREM FeesKeepNonces == FeeSpec => []NonceInv
  BY FeesImplementTransactor, NonceInvariance, PTL

\* Nor does a price that keeps a transaction waiting ever make the process use
\* a nonce a second time.
THEOREM FeesNeverReuseNonce == FeeSpec => []IncreasingNonces
  BY FeesImplementTransactor, NonceNeverReused, PTL

(***************************************************************************)
(* The invariant of the prices.                                            *)
(***************************************************************************)

LEMMA NoQuoteSound == NoQuote \in Prices /\ PriceSound(NoQuote)
  BY PricerAssumption DEF NoQuote, Prices, PriceSound, FeeFloor

\* A transaction that enters the pool brings a sound price or is not ours.
LEMMA PoolPriced ==
    ASSUME FeeInv, NEW n, NEW f \in Prices, PriceSound(f),
           pool' = pool \cup {n}, fee' = Pooled(n, f)
    PROVE  fee' \in [pool' -> Prices] /\ \A k \in pool' : PriceSound(fee'[k])
<1>1. fee \in [pool -> Prices] /\ \A k \in pool : PriceSound(fee[k])
  BY DEF FeeInv, FeeTypeOK
<1>2. \A k \in pool' : fee'[k] = IF k = n THEN f ELSE fee[k]
  BY DEF Pooled
<1>3. \A k \in pool' : fee'[k] \in Prices /\ PriceSound(fee'[k])
  BY <1>1, <1>2
<1>4. fee' = [k \in pool' |-> fee'[k]]
  BY <1>2 DEF Pooled
<1> QED
  BY <1>3, <1>4

\* A step that quotes nothing and leaves the pool and its prices alone.
LEMMA FeeQuiet ==
    ASSUME FeeInv, pool' = pool, fee' = fee, baseFee' \in Nat \cup {NoBaseFee},
           quote' = quote \/ quote' = NoQuotes
    PROVE  FeeInv'
<1>1. quote' \in [Caller -> Prices] /\ \A c \in Caller : PriceSound(quote'[c])
  BY NoQuoteSound DEF FeeInv, FeeTypeOK, NoQuotes
<1>2. \A f : PriceSound(f)' = PriceSound(f)
  BY DEF PriceSound, FeeFloor
<1> QED
  BY <1>1, <1>2 DEF FeeInv, FeeTypeOK

LEMMA FeeStep == FeeInv /\ [FeeNext]_<<transactorVars, feeVars>> => FeeInv'
<1> SUFFICES ASSUME FeeInv, [FeeNext]_<<transactorVars, feeVars>> PROVE FeeInv'
  OBVIOUS
<1>1. /\ baseFee \in Nat \cup {NoBaseFee}
      /\ quote \in [Caller -> Prices] /\ fee \in [pool -> Prices]
      /\ \A c \in Caller : PriceSound(quote[c])
      /\ \A n \in pool : PriceSound(fee[n])
  BY DEF FeeInv, FeeTypeOK
<1>2. \A f : PriceSound(f)' = PriceSound(f)
  BY DEF PriceSound, FeeFloor
<1>3. CASE UNCHANGED <<transactorVars, feeVars>>
  BY <1>1, <1>3, FeeQuiet DEF transactorVars, feeVars
<1>4. ASSUME NEW c \in Caller, Call(c) /\ UNCHANGED feeVars
      PROVE  FeeInv'
  BY <1>1, <1>4, FeeQuiet DEF Call, nodeVars, feeVars
<1>5. ASSUME NEW c \in Caller, QuoteGas(c)
      PROVE  FeeInv'
  <2>1. PICK s \in Suggestions : quote' = [quote EXCEPT ![c] = Priced(s)]
    BY <1>5 DEF QuoteGas
  <2>2. Priced(s) \in Prices /\ PriceSound(Priced(s))
    BY <1>1, PricedSound, FeeAssumption
  <2>3. quote' \in [Caller -> Prices] /\ \A d \in Caller : PriceSound(quote'[d])
    BY <1>1, <2>1, <2>2
  <2>4. UNCHANGED <<pool, fee, baseFee>>
    BY <1>5 DEF QuoteGas, GasPrice, nodeVars
  <2> QED
    BY <1>1, <1>2, <2>3, <2>4 DEF FeeInv, FeeTypeOK
<1>6. ASSUME NEW c \in Caller, SendPriced(c) \/ SendPricedFailed(c)
      PROVE  FeeInv'
  <2>1. quote' \in [Caller -> Prices] /\ \A d \in Caller : PriceSound(quote'[d])
    BY <1>1, <1>6, NoQuoteSound DEF SendPriced, SendPricedFailed
  <2>2. baseFee' = baseFee
    BY <1>6 DEF SendPriced, SendPricedFailed
  <2>3. \/ pool' = pool /\ fee' = fee
        \/ pool' = pool \cup {txNonce[c]} /\ fee' = Pooled(txNonce[c], quote[c])
    <3>1. CASE SendPriced(c)
      BY <3>1 DEF SendPriced, SignAndSendTransaction
    <3>2. CASE SendPricedFailed(c)
      <4>1. CASE fee' = fee
        BY <1>1, <3>2, <4>1 DEF SendPricedFailed
      <4>2. CASE fee' = Pooled(txNonce[c], quote[c])
        BY <3>2, <4>2 DEF SendPricedFailed, Pooled
      <4> QED
        BY <3>2, <4>1, <4>2 DEF SendPricedFailed
    <3> QED
      BY <1>6, <3>1, <3>2
  <2>4. fee' \in [pool' -> Prices] /\ \A k \in pool' : PriceSound(fee'[k])
    BY <1>1, <2>3, PoolPriced
  <2> QED
    BY <1>1, <1>2, <2>1, <2>2, <2>4 DEF FeeInv, FeeTypeOK
<1>7. ASSUME NEW c \in Caller, Unpriced(c) \/ ProcessGone(c)
      PROVE  FeeInv'
  <2>1. UNCHANGED <<pool, fee, baseFee>> /\ (quote' = quote \/ quote' = NoQuotes)
    BY <1>7 DEF Unpriced, ProcessGone, LockNonce, UnsafeNonce, GasPriceFailed, NilNonce,
                UnsafeIncreaseNonce, WaitAndReturnTxReceipt, nodeVars, feeVars
  <2> QED
    BY <1>1, <2>1, FeeQuiet
<1>8. CASE MinePriced
  <2>1. /\ pool' = pool \ {mined} /\ UNCHANGED <<baseFee, quote>>
        /\ fee' = [n \in pool' |-> fee[n]]
    BY <1>8 DEF MinePriced, Mine
  <2>2. fee' \in [pool' -> Prices] /\ \A n \in pool' : PriceSound(fee'[n])
    BY <1>1, <2>1
  <2> QED
    BY <1>1, <1>2, <2>1, <2>2 DEF FeeInv, FeeTypeOK
<1>9. CASE MoveBaseFee
  BY <1>1, <1>9, FeeQuiet, FeeAssumption DEF MoveBaseFee, transactorVars
<1>10. CASE OtherSendPriced
  <2>1. PICK n \in pool' \ pool, s \in Suggestions :
           fee' = Pooled(n, [tip |-> s, cap |-> s, base |-> NoBaseFee, ours |-> FALSE])
    BY <1>10 DEF OtherSendPriced
  <2>2. pool' = pool \cup {n}
    BY <1>10, <2>1 DEF OtherSendPriced, OtherSend
  <2> DEFINE f == [tip |-> s, cap |-> s, base |-> NoBaseFee, ours |-> FALSE]
  <2>3. f \in Prices /\ PriceSound(f)
    BY FeeAssumption DEF Prices, PriceSound
  <2>4. fee' \in [pool' -> Prices] /\ \A k \in pool' : PriceSound(fee'[k])
    BY <2>1, <2>2, <2>3, PoolPriced
  <2>5. UNCHANGED <<baseFee, quote>>
    BY <1>10 DEF OtherSendPriced
  <2> QED
    BY <1>1, <1>2, <2>4, <2>5 DEF FeeInv, FeeTypeOK
<1>11. CASE Crash /\ quote' = NoQuotes /\ UNCHANGED <<baseFee, fee>>
  BY <1>1, <1>11, FeeQuiet DEF Crash, nodeVars
<1>12. CASE Restart /\ UNCHANGED feeVars
  BY <1>1, <1>12, FeeQuiet DEF Restart, nodeVars, feeVars
<1> QED
  BY <1>3, <1>4, <1>5, <1>6, <1>7, <1>8, <1>9, <1>10, <1>11, <1>12
  DEF FeeNext, FeeTransact

\* Every price in the pool is as sound as when it was quoted.
THEOREM PricesSound == FeeSpec => []FeeInv
<1>1. FeeInit => FeeInv
  <2> SUFFICES ASSUME FeeInit PROVE FeeInv
    OBVIOUS
  <2>1. pool = {} /\ fee = [n \in {} |-> NoQuote] /\ quote = NoQuotes
    BY DEF FeeInit, Init
  <2>2. baseFee \in Nat \cup {NoBaseFee}
    BY FeeAssumption DEF FeeInit
  <2>3. fee \in [pool -> Prices]
    BY <2>1
  <2> QED
    BY <2>1, <2>2, <2>3, NoQuoteSound DEF FeeInv, FeeTypeOK, NoQuotes
<1> QED
  BY <1>1, FeeStep, PTL DEF FeeSpec

\* A transfer that no block can take was quoted before the base fee rose.
THEOREM StuckMeansRise == FeeSpec => []StuckOnlyAfterRise
<1>1. FeeInv => StuckOnlyAfterRise
  <2> SUFFICES ASSUME FeeInv, NEW n \in pool, fee[n].ours, ~Includable(n)
               PROVE  /\ FeeFloor(baseFee) > FeeFloor(fee[n].base)
                      /\ fee[n].cap < UpperLimit =>
                            FeeFloor(baseFee) > 2 * FeeFloor(fee[n].base)
    BY DEF StuckOnlyAfterRise
  <2>1. /\ fee[n].cap \in Nat /\ fee[n].base \in Nat \cup {NoBaseFee}
        /\ baseFee \in Nat \cup {NoBaseFee} /\ PriceSound(fee[n])
    BY DEF FeeInv, FeeTypeOK, Prices
  <2>2. FeeFloor(baseFee) \in Nat /\ FeeFloor(fee[n].base) \in Nat
    BY <2>1 DEF FeeFloor
  <2>3. /\ fee[n].cap >= FeeFloor(fee[n].base)
        /\ fee[n].cap < UpperLimit => fee[n].cap >= 2 * FeeFloor(fee[n].base)
    BY <2>1, Zenon DEF PriceSound
  <2>4. ~(fee[n].cap >= FeeFloor(baseFee))
    BY DEF Includable
  <2> QED
    <3> DEFINE a == FeeFloor(baseFee)
               b == FeeFloor(fee[n].base)
               p == fee[n].cap
    <3>1. /\ a \in Nat /\ b \in Nat /\ p \in Nat /\ ~(p >= a) /\ p >= b
          /\ p < UpperLimit => p >= 2 * b
      BY <2>1, <2>2, <2>3, <2>4
    <3> HIDE DEF a, b, p
    <3>2. a > b /\ (p < UpperLimit => a > 2 * b)
      BY <3>1, PricerAssumption
    <3> QED
      BY <3>2 DEF a, b, p
<1> QED
  BY <1>1, PricesSound, PTL

\* The limit on the whole fee is kept, but for a base fee above it.
THEOREM LimitIsKept == FeeSpec => []LimitKept
<1>1. FeeInv => LimitKept
  BY DEF FeeInv, LimitKept, PriceSound
<1> QED
  BY <1>1, PricesSound, PTL
=============================================================================
