------------------------------ MODULE BridgeInv ------------------------------
(***************************************************************************)
(* The inductive invariant of Bridge: what holds between the scan of the   *)
(* sender, the messages the listeners hold, the transfers and the two      *)
(* stores.  TLC checks it in MCBridge, TLAPS proves it in BridgeProofs.    *)
(***************************************************************************)
EXTENDS Bridge

\* The message of t was handed over in the present run: its block is behind
\* pollBlocks, or it is the current one and the message has left SendMsgs.
Passed(t) ==
    /\ blockOf[t] # 0
    /\ startBlock <= blockOf[t]
    /\ \/ blockOf[t] < currentBlock
       \/ /\ blockOf[t] = currentBlock
          /\ spc = "send"
          /\ DepositMessage(t) \notin msgs

\* The present run pays, or has paid, for t.
PaidInRun(t) == \E i \in PaymentsFor(t) : payments[i].run = run

ProcessInv ==
    /\ up => run # 0
    /\ up <=> spc # "off"
    /\ \A l \in Listener : up <=> lpc[l] # "off"

ScanInv ==
    /\ startBlock <= currentBlock
    /\ currentBlock > startBlock => height + 1 >= currentBlock + Confirmations
    /\ spc \in {"fetch", "lookup", "send"} => Ready(currentBlock)
    /\ spc # "lookup" => logs = {}
    /\ spc \notin {"lookup", "send"} => msgs = {}
    /\ logs \subseteq FilterLogs(currentBlock)
    /\ \A m \in msgs : /\ m.tx \in FilterLogs(currentBlock)
                       /\ m = DepositMessage(m.tx)
    /\ spc = "lookup" => \A t \in FilterLogs(currentBlock) :
                            t \in logs \/ DepositMessage(t) \in msgs

\* What is true of a message once a listener has taken it.
HeldInv(l) ==
    /\ lpc[l] \in {"off", "select"} => lmsg[l] = NoMsg
    /\ lpc[l] \in BusyPc => lmsg[l] # NoMsg
    /\ lmsg[l] # NoMsg =>
         /\ Passed(lmsg[l].tx)
         /\ lmsg[l].block = blockOf[lmsg[l].tx]

ProgressInv(l) ==
    /\ lpc[l] \in {"history", "transfer"} => ~PaidInRun(lmsg[l].tx)
    /\ lpc[l] \in BusyPc \ {"history"} => lmsg[l].tx \notin history
    /\ lpc[l] \in BusyPc \ {"history", "transfer"} =>
          lpay[l] \in PaymentsFor(lmsg[l].tx)
    /\ lpc[l] \in {"store", "write", "record"} => Mined(lpay[l])

\* No two listeners ever hold the same deposit.
DistinctInv ==
    \A k, l \in Listener :
       (k # l /\ lmsg[k] # NoMsg /\ lmsg[l] # NoMsg) => lmsg[k].tx # lmsg[l].tx

PaymentInv ==
    \A i \in DOMAIN payments :
       /\ payments[i].run \in 1..run
       /\ (up /\ payments[i].run = run) => Passed(payments[i].dep)

PassedAccounted ==
    \A t \in Tx : Passed(t) => t \in history \/ \E l \in Listener : Holds(l, t)

\* The invariants of Bridge and what they need to be preserved by every step.
IInv ==
    /\ TypeOK
    /\ ProcessInv /\ ScanInv
    /\ \A l \in Listener : HeldInv(l) /\ ProgressInv(l)
    /\ DistinctInv
    /\ PaymentInv /\ PaymentsConfirmed /\ OnePaymentPerRun
    /\ HistoryImpliesPaid /\ CheckpointSound
    /\ PassedAccounted

(***************************************************************************)
(* The promise of Swap, read off the state of Bridge.                      *)
(***************************************************************************)
SwapFinal == {t \in Tx : Confirmed(t)}
SwapTransfer(i) == <<payments[i].dep, payments[i].run>>
SwapIssued == {SwapTransfer(i) : i \in DOMAIN payments}
SwapSettled == {SwapTransfer(i) : i \in {j \in DOMAIN payments : Mined(j)}}

Promise == INSTANCE Swap WITH epoch <- run, final <- SwapFinal,
    issued <- SwapIssued, transfers <- Len(payments),
    settled <- SwapSettled, recorded <- history

\* Bridge keeps what Swap promises: each of its steps, the crashes, restarts
\* and reorganisations included, is a step that Swap allows or changes
\* nothing that Swap speaks of.  A second transfer of one run for one deposit
\* is no such step: it leaves the issued pairs alone, but not their number.
ImplementsSwap == Promise!Spec

(***************************************************************************)
(* The start of the process, read off the state of Bridge: 0 is the start  *)
(* block of a sender that is off.                                          *)
(***************************************************************************)
Process == INSTANCE Launch WITH isLoaded <- IsLoaded, file <- blockFile,
    first <- startBlock, NoBlock <- 0

\* Bridge begins where Startup lets it begin, also after a crash between the
\* truncation of the block file and its write: from the number in the file,
\* or else from a block that was the latest one; and a bridge that is down
\* leaves the file alone.
ImplementsLaunch == Process!Spec
=============================================================================
