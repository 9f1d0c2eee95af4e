------------------------------- MODULE MCFees -------------------------------
(***************************************************************************)
(* The instance of TransactorFees for TLC: the two listeners as callers,   *)
(* prices in units of the fixed tip.  One base fee lies below the limit,   *)
(* which then cuts the higher tip only, and one lies above it.             *)
(***************************************************************************)
EXTENDS TransactorFees

CONSTANTS main, background

MCCaller == {main, background}
MCBaseFees == {NoBaseFee, 1, 5}
MCSuggestions == {1, 3}
=============================================================================
