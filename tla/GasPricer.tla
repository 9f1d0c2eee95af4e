----------------------------- MODULE GasPricer -----------------------------
(***************************************************************************)
(* evmgaspricer/ and transaction/transaction.go: the gas prices of one     *)
(* transaction, from the base fee of the latest block and what the node    *)
(* suggests.  A sequence of two prices is a tip and a fee cap, one price   *)
(* alone is that of a legacy transaction.  GasPriceFactor is never set.    *)
(***************************************************************************)
EXTENDS Integers, Sequences

CONSTANTS
    UpperLimit,          \* GasPricerOpts.UpperLimitFeePerGas
    TwoAndTheHalfGwei,
    NoBaseFee            \* the base fee of a block before the London fork

ASSUME PricerAssumption ==
    /\ UpperLimit \in Nat /\ TwoAndTheHalfGwei \in Nat
    /\ NoBaseFee \notin Nat

EstimateGasUnclamped(baseFee, suggested) ==
    IF UpperLimit < baseFee
      THEN <<TwoAndTheHalfGwei, baseFee + TwoAndTheHalfGwei>>
      ELSE <<suggested, suggested + 2 * baseFee>>

EstimateGasLimitFirst(baseFee, suggested) ==
    IF suggested + 2 * baseFee > UpperLimit
      THEN <<UpperLimit - baseFee, UpperLimit>>
      ELSE <<suggested, suggested + 2 * baseFee>>

\* A base fee above the limit is paid all the same.  Otherwise the fee cap is
\* twice the base fee and the tip, cut to the limit.
EstimateGasLondon(baseFee, suggested) ==
    CASE UpperLimit < baseFee ->
            <<TwoAndTheHalfGwei, baseFee + TwoAndTheHalfGwei>>
      [] UpperLimit >= baseFee /\ suggested + 2 * baseFee > UpperLimit ->
            <<UpperLimit - baseFee, UpperLimit>>
      [] OTHER ->
            <<suggested, suggested + 2 * baseFee>>

StaticGasPrice(suggested) ==
    <<IF suggested > UpperLimit THEN UpperLimit ELSE suggested>>

LondonGasPrice(baseFee, suggested) ==
    IF baseFee = NoBaseFee
      THEN StaticGasPrice(suggested)
      ELSE EstimateGasLondon(baseFee, suggested)

\* A legacy transaction gives the miner all of its price.
NewTransaction(gasPrices) ==
    [tip |-> gasPrices[1], cap |-> gasPrices[Len(gasPrices)]]
=============================================================================
