-------------------------------- MODULE Swap --------------------------------
(***************************************************************************)
(* What the bridge promises, without saying how: a deposit is paid only    *)
(* when it is final, at most once by one run of the process, never again   *)
(* once it is recorded, and it is recorded only after a transfer for it    *)
(* was settled.  Bridge implements this specification, and the contracts   *)
(* of Custody are driven by one that does.                                 *)
(***************************************************************************)
EXTENDS Naturals

CONSTANT Tx    \* the deposits

VARIABLES
    epoch,      \* the run of the process
    final,      \* deposits that no reorganisation can take back
    issued,     \* <<t, e>>: run e has broadcast a transfer for t
    transfers,  \* how many transfers were broadcast
    settled,    \* the issued transfers that were mined and succeeded
    recorded    \* deposits in the history table

swapVars == <<epoch, final, issued, transfers, settled, recorded>>

Init == /\ epoch = 0
        /\ final = {} /\ issued = {} /\ transfers = 0
        /\ settled = {} /\ recorded = {}

Restart == /\ epoch' = epoch + 1
           /\ UNCHANGED <<final, issued, transfers, settled, recorded>>

Confirm == /\ final' \in {final \cup S : S \in SUBSET Tx}
           /\ UNCHANGED <<epoch, issued, transfers, settled, recorded>>

Issue(t) == /\ t \in final \ recorded
            /\ <<t, epoch>> \notin issued
            /\ issued' = issued \cup {<<t, epoch>>}
            /\ transfers' = transfers + 1
            /\ UNCHANGED <<epoch, final, settled, recorded>>

Settle(p) == /\ p \in issued
             /\ settled' = settled \cup {p}
             /\ UNCHANGED <<epoch, final, issued, transfers, recorded>>

Record(t) == /\ \E p \in settled : p[1] = t
             /\ recorded' = recorded \cup {t}
             /\ UNCHANGED <<epoch, final, issued, transfers, settled>>

Next == \/ Restart \/ Confirm
        \/ \E t \in Tx : Issue(t) \/ Record(t)
        \/ \E p \in issued : Settle(p)

Spec == Init /\ [][Next]_swapVars
=============================================================================
