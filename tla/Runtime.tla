------------------------------ MODULE Runtime ------------------------------
(***************************************************************************)
(* The operating environment of the bridge process (main.go): whether the  *)
(* process is up, how often it has been started, and a budget of faults.   *)
(* Nothing here is code of the bridge except the two facts that main runs  *)
(* one Bridge per process and that the process can end at any instant.     *)
(***************************************************************************)
EXTENDS Naturals

CONSTANTS
    FaultKinds,   \* the kinds of fault this instance may see
    MaxFaults     \* bound: how many faults a behaviour may see in total

ASSUME FaultAssumption == MaxFaults \in Nat

VARIABLES
    up,       \* the process is running
    run,      \* the number of times it has been started
    faults    \* the number of faults so far

runtimeVars == <<up, run, faults>>

RuntimeTypeOK == up \in BOOLEAN /\ run \in Nat /\ faults \in Nat

\* One fault of the given kind happens in this step.
Fault(kind) == /\ kind \in FaultKinds
               /\ faults < MaxFaults
               /\ faults' = faults + 1

NoFault == UNCHANGED faults
=============================================================================
