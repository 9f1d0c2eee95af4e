---------------------------- MODULE BridgeClaims ----------------------------
(***************************************************************************)
(* What the repository says of the bridge and the code does not do.  Each  *)
(* property has a run of its own in which TLC finds a behaviour that       *)
(* violates it; the findings quote the statement.                          *)
(***************************************************************************)
EXTENDS BridgeInv

\* flags.go:34: --load resumes from "the block number that was last
\* deposited".  All that lies before that block is settled, or at least
\* broadcast, when the process is down.
NothingBehindCheckpoint ==
    (~up /\ blockFile \in Nat) =>
       \A t \in Tx : (blockOf[t] # 0 /\ blockOf[t] < blockFile)
                        => PaymentsFor(t) # {}

\* blockstore.go:65 and flags.go:34: a start with --load finds a number in
\* the block file, or no file at all and begins at 0.
CheckpointReadable == ~up => blockFile # EmptyFile

\* 000001_init_bers_swap_table.up.sql:2: a deposit has one row, with the one
\* hash of the transfer that paid it.  No two mined transfers pay one deposit.
PaidOnce ==
    \A i, j \in DOMAIN payments :
       (payments[i].dep = payments[j].dep /\ Mined(i) /\ Mined(j)) => i = j
=============================================================================
