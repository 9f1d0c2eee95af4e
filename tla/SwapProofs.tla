----------------------------- MODULE SwapProofs -----------------------------
(***************************************************************************)
(* Bridge implements Swap and Launch: initial states map to initial        *)
(* states, and each step of Bridge maps to a step of the abstract          *)
(* specification or to a stutter.                                          *)
(***************************************************************************)
EXTENDS BridgeProofs

LEMMA SwapInit == Init => Promise!Init
<1> SUFFICES ASSUME Init PROVE Promise!Init
  OBVIOUS
<1>1. run = 0 /\ history = {} /\ payments = <<>>
  BY DEF Init, StoreInit
<1>2. SwapFinal = {}
  BY DEF Init, ChainInit, SwapFinal, Confirmed
<1>3. SwapIssued = {} /\ SwapSettled = {}
  BY <1>1 DEF SwapIssued, SwapSettled
<1> QED
  BY <1>1, <1>2, <1>3 DEF Promise!Init

\* Nothing that Swap speaks of depends on more than these variables.
LEMMA SwapStutter ==
    ASSUME UNCHANGED <<chainVars, run, history, payments>>
    PROVE  UNCHANGED Promise!swapVars
  BY DEF Promise!swapVars, chainVars, SwapFinal, Confirmed, SwapIssued, SwapSettled,
         SwapTransfer, Mined

\* A restart of the process is a restart of Swap.
LEMMA SwapStart ==
    ASSUME Start
    PROVE  Promise!Restart
<1>1. UNCHANGED <<chainVars, history, payments>> /\ run' = run + 1
  BY DEF Start
<1>2. UNCHANGED <<SwapFinal, SwapIssued, SwapSettled>>
  BY <1>1 DEF chainVars, SwapFinal, Confirmed, SwapIssued, SwapSettled, SwapTransfer, Mined
<1> QED
  BY <1>1, <1>2 DEF Promise!Restart

\* A block, or a reorganisation, can only make deposits final.
LEMMA SwapBerith ==
    ASSUME TypeOK, BerithStep
    PROVE  Promise!Confirm
<1>1. UNCHANGED <<run, history, payments>>
  BY DEF BerithStep, bridgeVars, receiverVars
<1>2. SwapFinal \subseteq SwapFinal' /\ SwapFinal' \subseteq Tx
  BY ConfirmedStable DEF SwapFinal, Next
<1>3. UNCHANGED <<SwapIssued, SwapSettled>>
  BY <1>1 DEF SwapIssued, SwapSettled, SwapTransfer, Mined
<1>4. SwapFinal' \in {SwapFinal \cup S : S \in SUBSET Tx}
  <2>1. SwapFinal' = SwapFinal \cup SwapFinal'
    BY <1>2
  <2> QED
    BY <1>2, <2>1
<1> QED
  BY <1>1, <1>3, <1>4 DEF Promise!Confirm

\* The payment of Klaytn that is settled is one that was issued.
LEMMA SwapKlaytn ==
    ASSUME TypeOK, KlaytnStep
    PROVE  (\E p \in SwapIssued : Promise!Settle(p)) \/ UNCHANGED Promise!swapVars
<1>1. UNCHANGED <<chainVars, run, history>>
  BY DEF KlaytnStep, bridgeVars, receiverVars
<1>2. SwapFinal' = SwapFinal
  BY <1>1 DEF SwapFinal, Confirmed, chainVars
<1>3. PICK i \in DOMAIN payments, s \in {"mined", "reverted"} : Settle(i, s)
  BY DEF KlaytnStep, MinePayment, RevertPayment
<1>4. /\ DOMAIN payments' = DOMAIN payments /\ Len(payments') = Len(payments)
      /\ \A j \in DOMAIN payments : SwapTransfer(j)' = SwapTransfer(j)
  <2>1. payments \in Seq(Payments) /\ payments' = [payments EXCEPT ![i].status = s]
    BY <1>3 DEF Settle, TypeOK, KlaytnTypeOK
  <2>2. DOMAIN payments' = DOMAIN payments /\ Len(payments') = Len(payments)
    BY <2>1
  <2> QED
    BY <1>3, <2>2, SettleFacts DEF TypeOK, SwapTransfer
<1>5. SwapIssued' = SwapIssued
  BY <1>4 DEF SwapIssued
<1>6. \A j \in DOMAIN payments : Mined(j)' <=> Mined(j) \/ (j = i /\ s = "mined")
  <2>1. /\ payments \in Seq(Payments) /\ i \in 1..Len(payments)
        /\ payments' = [payments EXCEPT ![i].status = s]
        /\ payments[i].status = "pending"
    BY <1>3 DEF Settle, TypeOK, KlaytnTypeOK
  <2>2. payments[i] \in Payments /\ DOMAIN payments = 1..Len(payments)
    BY <2>1
  <2>3. payments'[i].status = s
    BY <2>1, <2>2 DEF Payments
  <2>4. \A j \in DOMAIN payments \ {i} : payments'[j] = payments[j]
    BY <2>1, <2>2
  <2> QED
    BY <2>1, <2>3, <2>4 DEF Mined
<1>7. SwapSettled' = SwapSettled \cup IF s = "mined" THEN {SwapTransfer(i)} ELSE {}
  BY <1>4, <1>6 DEF SwapSettled
<1>8. SwapTransfer(i) \in SwapIssued
  BY DEF SwapIssued
<1>9. CASE s = "mined"
  <2>1. Promise!Settle(SwapTransfer(i))
    BY <1>1, <1>2, <1>4, <1>5, <1>7, <1>8, <1>9 DEF Promise!Settle
  <2> QED
    BY <1>8, <2>1
<1>10. CASE s # "mined"
  BY <1>1, <1>2, <1>4, <1>5, <1>7, <1>10 DEF Promise!swapVars
<1> QED
  BY <1>9, <1>10

\* A listener broadcasts only what Swap may issue, and inserts a row only for
\* what Swap has settled.
LEMMA SwapListener ==
    ASSUME IInv, NEW l \in Listener, ListenerStep(l)
    PROVE  \/ \E t \in Tx : Promise!Issue(t) \/ Promise!Record(t)
           \/ UNCHANGED Promise!swapVars
<1> DEFINE t == lmsg[l].tx
<1>1. TypeOK /\ KlaytnTypeOK /\ RuntimeTypeOK /\ HeldInv(l) /\ ProgressInv(l)
  BY DEF IInv, TypeOK
<1>2. /\ lpc[l] \in BusyPc /\ t \in Tx
      /\ UNCHANGED <<chainVars, up, run, senderVars>>
      /\ history' = history \/ (lpc[l] = "record" /\ history' = history \cup {t})
      /\ UNCHANGED payments \/ (lpc[l] = "transfer" /\ Broadcast(t))
  BY <1>1, ListenerFrame
<1>3. SwapFinal' = SwapFinal
  BY <1>2 DEF SwapFinal, Confirmed, chainVars
<1>4. CASE lpc[l] = "transfer" /\ Broadcast(t)
  <2>1. history' = history /\ run' = run
    BY <1>2, <1>4
  <2>2. t \in SwapFinal
    <3>1. Passed(t)
      BY <1>1, <1>2 DEF HeldInv
    <3> QED
      BY <1>1, <1>2, <3>1, PassedConfirmed DEF IInv, SwapFinal
  <2>3. t \notin history
    BY <1>1, <1>4 DEF ProgressInv, BusyPc
  <2>4. <<t, run>> \notin SwapIssued
    <3>1. ~PaidInRun(t)
      BY <1>1, <1>4 DEF ProgressInv
    <3> QED
      BY <3>1 DEF SwapIssued, SwapTransfer, PaidInRun, PaymentsFor
  <2> PICK n : n = Len(payments) + 1
    OBVIOUS
  <2>5. /\ n \notin DOMAIN payments
        /\ DOMAIN payments' = DOMAIN payments \cup {n}
        /\ \A i \in DOMAIN payments : payments'[i] = payments[i]
        /\ payments'[n] = [dep |-> t, run |-> run, status |-> "pending"]
    BY <1>1, <1>2, <1>4, BroadcastFacts
  <2> HIDE DEF t
  <2>6. \A i \in DOMAIN payments : SwapTransfer(i)' = SwapTransfer(i) /\ (Mined(i)' <=> Mined(i))
    BY <2>5 DEF SwapTransfer, Mined
  <2>7. payments'[n].dep = t /\ payments'[n].run = run /\ payments'[n].status = "pending"
    BY <2>5
  <2>8. SwapTransfer(n)' = <<t, run>> /\ ~Mined(n)'
    BY <2>7 DEF SwapTransfer, Mined
  <2>9. SwapIssued' = SwapIssued \cup {<<t, run>>}
    BY <2>5, <2>6, <2>8 DEF SwapIssued
  <2>10. SwapSettled' = SwapSettled
    BY <2>5, <2>6, <2>8 DEF SwapSettled
  <2>11. Len(payments') = Len(payments) + 1
    BY <1>1, <1>4 DEF Broadcast, KlaytnTypeOK
  <2>12. Promise!Issue(t)
    BY <1>3, <2>1, <2>2, <2>3, <2>4, <2>9, <2>10, <2>11 DEF Promise!Issue
  <2> QED
    BY <1>2, <2>12
<1>5. CASE UNCHANGED payments
  <2>1. UNCHANGED <<SwapIssued, SwapSettled>>
    BY <1>5, <1>2 DEF SwapIssued, SwapSettled, SwapTransfer, Mined
  <2>2. CASE history' = history
    BY <1>2, <1>3, <1>5, <2>1, <2>2 DEF Promise!swapVars
  <2>3. CASE lpc[l] = "record" /\ history' = history \cup {t}
    <3>1. lpay[l] \in PaymentsFor(t) /\ Mined(lpay[l])
      BY <1>1, <2>3 DEF ProgressInv, BusyPc
    <3>2. SwapTransfer(lpay[l]) \in SwapSettled /\ SwapTransfer(lpay[l])[1] = t
      BY <3>1 DEF SwapSettled, SwapTransfer, PaymentsFor
    <3>3. Promise!Record(t)
      BY <1>2, <1>3, <1>5, <2>1, <2>3, <3>2 DEF Promise!Record
    <3> QED
      BY <1>2, <3>3
  <2> QED
    BY <1>2, <2>2, <2>3
<1> QED
  BY <1>2, <1>4, <1>5

LEMMA SwapStep == IInv /\ [Next]_vars => [Promise!Next]_Promise!swapVars
<1> SUFFICES ASSUME IInv, [Next]_vars
             PROVE  Promise!Next \/ UNCHANGED Promise!swapVars
  OBVIOUS
<1>1. TypeOK
  BY DEF IInv
<1>2. CASE UNCHANGED vars \/ Crash \/ Exit \/ SenderStep \/ \E l \in Listener : Deliver(l)
  <2>1. UNCHANGED <<chainVars, run, history, payments>>
    BY <1>2 DEF vars, runtimeVars, receiverVars, Crash, Exit, Down, SenderStep, Deliver, Receive
  <2> QED
    BY <2>1, SwapStutter
<1>3. CASE Start
  BY <1>3, SwapStart DEF Promise!Next
<1>4. CASE BerithStep
  BY <1>1, <1>4, SwapBerith DEF Promise!Next
<1>5. CASE KlaytnStep
  BY <1>1, <1>5, SwapKlaytn DEF Promise!Next
<1>6. ASSUME NEW l \in Listener, ListenerStep(l)
      PROVE  Promise!Next \/ UNCHANGED Promise!swapVars
  BY <1>6, SwapListener DEF Promise!Next
<1> QED
  BY <1>2, <1>3, <1>4, <1>5, <1>6 DEF Next, BridgeStep

\* The bridge keeps the promise of Swap in every behaviour.
THEOREM Refinement == Spec => ImplementsSwap
  BY SwapInit, SwapStep, Invariance, PTL DEF Spec, ImplementsSwap, Promise!Spec

(***************************************************************************)
(* Launch.                                                                 *)
(***************************************************************************)

LEMMA LaunchInit == Init => Process!Init
BY LoadAssumption DEF Init, ChainInit, SenderOff, StoreInit, Process!Init

LEMMA LaunchStart ==
    ASSUME TypeOK, Start
    PROVE  Process!StartLoaded \/ Process!StartLatest
<1>1. /\ ~up /\ (IsLoaded => blockFile # EmptyFile)
      /\ up' = TRUE /\ startBlock' = StartBlock
      /\ UNCHANGED <<height, blockFile>>
  BY DEF Start, StartSender, chainVars
<1>2. CASE IsLoaded
  BY <1>1, <1>2 DEF Process!StartLoaded, Process!Begin, StartBlock
<1>3. CASE ~IsLoaded
  <2>1. height \in 0..height
    BY DEF TypeOK, ChainTypeOK
  <2> QED
    BY <1>1, <1>3, <2>1 DEF Process!StartLatest, Process!Begin, StartBlock
<1> QED
  BY <1>2, <1>3

\* A listener works only while the process is up, and leaves a number or
\* nothing in the block file.
LEMMA LaunchListener ==
    ASSUME TypeOK, ProcessInv, NEW l \in Listener, ListenerStep(l)
    PROVE  Process!Save \/ UNCHANGED Process!launchVars
<1>1. UNCHANGED <<height, up, startBlock>>
  BY DEF ListenerStep, chainVars, senderVars
<1>2. \/ UNCHANGED blockFile
      \/ blockFile' = EmptyFile /\ lpc[l] = "store"
      \/ blockFile' = lmsg[l].block /\ lpc[l] = "write"
  BY DEF ListenerStep, SendToken, GetBersSwapHistory, GetBersSwapHistoryFailed, Transfer,
         TransferFailed, WaitAndReturnTxReceipt, WaitTimedOut, StoreBlockOpen,
         StoreBlockWrite, StoreBlockFailed, CreateSwapHistoryTx, CreateSwapHistoryTxFailed
<1>3. CASE UNCHANGED blockFile
  BY <1>1, <1>3 DEF Process!launchVars
<1>4. CASE lpc[l] \in {"store", "write"} /\ ~UNCHANGED blockFile
  <2>1. up
    BY <1>4 DEF ProcessInv
  <2>2. lmsg[l].block \in Nat
    BY <1>4 DEF TypeOK, BusyPc, Messages
  <2> QED
    BY <1>1, <1>2, <1>4, <2>1, <2>2 DEF Process!Save
<1> QED
  BY <1>2, <1>3, <1>4

LEMMA LaunchStep == IInv /\ [Next]_vars => [Process!Next]_Process!launchVars
<1> SUFFICES ASSUME IInv, [Next]_vars
             PROVE  Process!Next \/ UNCHANGED Process!launchVars
  OBVIOUS
<1>1. TypeOK /\ ProcessInv
  BY DEF IInv
<1>2. CASE Start
  BY <1>1, <1>2, LaunchStart DEF Process!Next
<1>3. CASE Crash \/ Exit
  <2>1. up' = FALSE /\ startBlock' = 0 /\ UNCHANGED <<height, blockFile>>
    BY <1>3 DEF Crash, Exit, Down, StopSender, chainVars
  <2> QED
    BY <2>1 DEF Process!Down, Process!Next
<1>4. CASE MineBlock /\ UNCHANGED <<up, startBlock, blockFile>>
  BY <1>4 DEF MineBlock, Process!Grow, Process!Next
<1>5. CASE BerithStep /\ ~MineBlock
  BY <1>5 DEF BerithStep, Reorg, bridgeVars, senderVars, receiverVars, Process!launchVars
<1>6. CASE KlaytnStep \/ SenderStep \/ (\E l \in Listener : Deliver(l)) \/ UNCHANGED vars
  BY <1>6 DEF KlaytnStep, SenderStep, PollStep, Deliver, SendMsg, Receive, vars, chainVars,
              bridgeVars, runtimeVars, senderVars, receiverVars, Process!launchVars,
              LatestBlockNumber, LatestBlockFailed, FetchEventLogs, FetchEventLogsFailed,
              TransactionByHash, TransactionByHashFailed, RetryPoll, NextBlock, RetriesExceeded
<1>7. ASSUME NEW l \in Listener, ListenerStep(l)
      PROVE  Process!Next \/ UNCHANGED Process!launchVars
  BY <1>1, <1>7, LaunchListener DEF Process!Next
<1>8. BerithStep => UNCHANGED <<up, startBlock, blockFile>>
  BY DEF BerithStep, bridgeVars, senderVars, receiverVars
<1> QED
  BY <1>2, <1>3, <1>4, <1>5, <1>6, <1>7, <1>8 DEF Next, BridgeStep, BerithStep

\* Whatever it lost in a crash, the bridge starts again only from the block
\* the file names, from block 0 without a file, or from the latest block when
\* --load is off, and nobody writes the file while it is down.
THEOREM StartsWhereItMay == Spec => ImplementsLaunch
  BY LaunchInit, LaunchStep, Invariance, PTL DEF Spec, ImplementsLaunch, Process!Spec
=============================================================================
