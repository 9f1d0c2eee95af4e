---------------------------- MODULE MCTransactor ----------------------------
(* Instances of Transactor for TLC: the two listeners as callers. *)
EXTENDS Transactor

CONSTANTS main, background

MCCaller == {main, background}
=============================================================================
