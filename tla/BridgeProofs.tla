---------------------------- MODULE BridgeProofs ----------------------------
(***************************************************************************)
(* Theorems about Bridge for every number of deposits, every height, every *)
(* retry limit, every choice of blockConfirmations that covers the deepest *)
(* reorganisation, and every sequence of faults.                           *)
(***************************************************************************)
EXTENDS BridgeInv, SequenceTheorems, FiniteSetTheorems, TLAPS

(***************************************************************************)
(* The Berith chain.                                                       *)
(***************************************************************************)

\* A new block takes pending deposits and moves no other.
LEMMA MineFacts ==
    ASSUME ChainTypeOK, MineBlock
    PROVE  /\ ChainTypeOK'
           /\ height' = height + 1
           /\ \A t \in Tx : \/ blockOf'[t] = blockOf[t]
                            \/ blockOf[t] = 0 /\ blockOf'[t] = height + 1
<1> PICK S \in SUBSET {t \in Tx : blockOf[t] = 0} :
       blockOf' = [t \in Tx |-> IF t \in S THEN height + 1 ELSE blockOf[t]]
  BY DEF MineBlock
<1>1. height' = height + 1
  BY DEF MineBlock
<1> QED
  BY <1>1 DEF ChainTypeOK

\* A reorganisation stays above the blocks that are buried deep enough.
LEMMA ReorgFacts ==
    ASSUME ChainTypeOK, Reorg
    PROVE  /\ ChainTypeOK'
           /\ height' = height
           /\ \A t \in Tx :
                 \/ blockOf'[t] = blockOf[t]
                 \/ /\ blockOf[t] = 0 \/ blockOf[t] + Confirmations > height
                    /\ \/ blockOf'[t] = 0
                       \/ blockOf'[t] + Confirmations > height
<1> PICK k \in 1..MaxReorg :
       /\ k <= height
       /\ \E f \in [{t \in Tx : blockOf[t] = 0 \/ blockOf[t] > height - k}
                       -> {0} \cup (height - k + 1)..height] :
             blockOf' = [t \in Tx |-> IF t \in DOMAIN f THEN f[t] ELSE blockOf[t]]
       /\ height' = height
  BY DEF Reorg
<1> DEFINE R == {t \in Tx : blockOf[t] = 0 \/ blockOf[t] > height - k}
<1> PICK f \in [R -> {0} \cup (height - k + 1)..height] :
       blockOf' = [t \in Tx |-> IF t \in R THEN f[t] ELSE blockOf[t]]
  OBVIOUS
<1>1. /\ k \in Nat /\ k <= Confirmations /\ k <= height /\ height \in Nat
      /\ Confirmations \in Nat
  BY ChainAssumption, SenderAssumption, FinalityAssumption DEF ChainTypeOK
<1>2. \A t \in R : /\ f[t] \in Nat
                   /\ f[t] = 0 \/ f[t] + Confirmations > height
  BY <1>1
<1>3. \A t \in R : blockOf[t] = 0 \/ blockOf[t] + Confirmations > height
  BY <1>1 DEF ChainTypeOK
<1>4. blockOf' \in [Tx -> Nat]
  BY <1>2 DEF ChainTypeOK
<1>5. \A t \in Tx : blockOf'[t] = IF t \in R THEN f[t] ELSE blockOf[t]
  OBVIOUS
<1> HIDE DEF R
<1> QED
  BY <1>1, <1>2, <1>3, <1>4, <1>5 DEF ChainTypeOK

(***************************************************************************)
(* Transfers.                                                              *)
(***************************************************************************)

LEMMA PaymentTypes ==
    ASSUME KlaytnTypeOK
    PROVE  \A i \in DOMAIN payments : /\ i \in Nat
                                     /\ payments[i].dep \in Tx
                                     /\ payments[i].run \in Nat
<1> TAKE i \in DOMAIN payments
<1>1. payments[i] \in Payments /\ i \in Nat
  BY DEF KlaytnTypeOK
<1> QED
  BY <1>1 DEF Payments

\* A broadcast adds one pending transfer and leaves the others alone.
LEMMA BroadcastFacts ==
    ASSUME KlaytnTypeOK, RuntimeTypeOK, NEW t \in Tx, Broadcast(t)
    PROVE  /\ KlaytnTypeOK'
           /\ Len(payments) + 1 \notin DOMAIN payments
           /\ Len(payments) + 1 \in Nat
           /\ DOMAIN payments' = DOMAIN payments \cup {Len(payments) + 1}
           /\ \A i \in DOMAIN payments : payments'[i] = payments[i]
           /\ payments'[Len(payments) + 1] =
                 [dep |-> t, run |-> run, status |-> "pending"]
  BY DEF KlaytnTypeOK, RuntimeTypeOK, Broadcast, Payments

\* A transfer that is settled keeps its deposit and its run; no other changes.
LEMMA SettleFacts ==
    ASSUME KlaytnTypeOK, NEW i \in DOMAIN payments,
           NEW s \in {"mined", "reverted"}, Settle(i, s)
    PROVE  /\ KlaytnTypeOK'
           /\ DOMAIN payments' = DOMAIN payments
           /\ \A j \in DOMAIN payments : /\ payments'[j].dep = payments[j].dep
                                         /\ payments'[j].run = payments[j].run
                                         /\ Mined(j) => Mined(j)'
<1> DEFINE e == [payments[i] EXCEPT !.status = s]
<1>1. payments \in Seq(Payments) /\ i \in 1..Len(payments)
  BY DEF KlaytnTypeOK
<1>2. payments[i] \in Payments
  BY <1>1
<1>3. e \in Payments /\ e.dep = payments[i].dep /\ e.run = payments[i].run
  BY <1>2 DEF Payments
<1>4. payments' = [payments EXCEPT ![i] = e]
  BY <1>1 DEF Settle
<1>5. payments' \in Seq(Payments) /\ Len(payments') = Len(payments)
  BY <1>1, <1>3, <1>4, ExceptSeq
<1>6. \A j \in 1..Len(payments) :
         payments'[j] = IF j = i THEN e ELSE payments[j]
  BY <1>1, <1>4
<1>7. payments[i].status = "pending"
  BY DEF Settle
<1> HIDE DEF e
<1>8. DOMAIN payments = 1..Len(payments) /\ DOMAIN payments' = 1..Len(payments)
  BY <1>1, <1>5
<1>9. \A j \in DOMAIN payments : /\ payments'[j].dep = payments[j].dep
                                 /\ payments'[j].run = payments[j].run
                                 /\ Mined(j) => Mined(j)'
  BY <1>3, <1>6, <1>7, <1>8 DEF Mined
<1>10. KlaytnTypeOK'
  BY <1>5 DEF KlaytnTypeOK, Payments
<1> QED
  BY <1>8, <1>9, <1>10

(***************************************************************************)
(* Types.                                                                  *)
(***************************************************************************)

\* The contract never puts the zero address in an event.
LEMMA RecipientType ==
    ASSUME NEW t \in Tx
    PROVE  DepositRecipient(t) \in Address \ {ZeroAddress}
  BY ChainAssumption DEF DepositRecipient

LEMMA TypeInit == Init => TypeOK
<1> SUFFICES ASSUME Init PROVE TypeOK
  OBVIOUS
<1>1. ChainTypeOK /\ RuntimeTypeOK
  BY DEF Init, ChainInit, ChainTypeOK, RuntimeTypeOK
<1>2. SenderTypeOK
  BY SenderAssumption DEF Init, SenderOff, SenderTypeOK, SenderPc
<1>3. ReceiverTypeOK
  BY DEF Init, ListenersOff, StoreInit, ReceiverTypeOK, ListenerPc
<1>4. KlaytnTypeOK
  BY EmptySeq DEF Init, KlaytnTypeOK
<1>5. \A l \in Listener : lpc[l] \in BusyPc => lmsg[l] \in Messages
  BY DEF Init, ListenersOff, BusyPc
<1> QED
  BY <1>1, <1>2, <1>3, <1>4, <1>5 DEF TypeOK

\* A step of pollBlocks.
LEMMA TypeSender ==
    ASSUME TypeOK, SenderStep
    PROVE  TypeOK'
<1> USE DEF TypeOK, SenderStep, ChainTypeOK, chainVars, RuntimeTypeOK, SenderTypeOK,
            SenderPc, receiverVars, Fault, NoFault
<1>1. ReceiverTypeOK' /\ KlaytnTypeOK'
  BY DEF ReceiverTypeOK, KlaytnTypeOK, Payments, Messages, ListenerPc, BusyPc
<1>2. \A l \in Listener : lpc'[l] \in BusyPc => lmsg'[l] \in Messages
  BY DEF Messages, BusyPc
<1>3. CASE RetryPoll /\ retry # 0
  BY <1>1, <1>2, <1>3, FaultAssumption, SenderAssumption DEF RetryPoll, Messages
<1>4. CASE LatestBlockNumber
  BY <1>1, <1>2, <1>4 DEF LatestBlockNumber, Messages
<1>5. CASE FetchEventLogs
  BY <1>1, <1>2, <1>5 DEF FetchEventLogs, FilterLogs, Messages
<1>6. ASSUME NEW t \in Tx, TransactionByHash(t)
      PROVE  TypeOK'
  <2>1. DepositMessage(t) \in Messages
    BY RecipientType DEF DepositMessage, NewDepositMessage, Messages
  <2> QED
    BY <1>1, <1>2, <1>6, <2>1 DEF TransactionByHash, Messages
<1>7. CASE NextBlock
  BY <1>1, <1>2, <1>7, SenderAssumption DEF NextBlock, Messages
<1>8. CASE RetriesExceeded
  BY <1>1, <1>2, <1>8 DEF RetriesExceeded, Messages
<1> QED
  BY <1>3, <1>4, <1>5, <1>6, <1>7, <1>8
  DEF PollStep, LatestBlockFailed, FetchEventLogsFailed, TransactionByHashFailed

\* A step of SendToken.
LEMMA TypeListener ==
    ASSUME TypeOK, NEW l \in Listener, ListenerStep(l)
    PROVE  TypeOK'
<1> USE DEF TypeOK, ReceiverTypeOK, ListenerPc, BusyPc, Goto, Fail, Return, Fault, NoFault
<1>1. ChainTypeOK' /\ SenderTypeOK'
  BY DEF ListenerStep, chainVars, senderVars, ChainTypeOK, SenderTypeOK, Messages
<1>2. ASSUME UNCHANGED payments PROVE KlaytnTypeOK'
  BY <1>2 DEF KlaytnTypeOK, Payments
<1>3. UNCHANGED <<up, run>>
  BY DEF ListenerStep
<1>4. ASSUME NoFault \/ \E kind \in {"db", "send", "timeout", "disk"} : Fault(kind)
      PROVE  RuntimeTypeOK'
  BY <1>3, <1>4 DEF RuntimeTypeOK
<1>5. lpc[l] \in BusyPc
      => /\ lmsg[l].tx \in Tx
         /\ lmsg[l].block \in Nat
  BY DEF Messages
<1>6. CASE GetBersSwapHistory(l)
  BY <1>1, <1>2, <1>4, <1>6 DEF GetBersSwapHistory, PayUnlessRecorded, Messages
<1>7. CASE GetBersSwapHistoryFailed(l)
  BY <1>1, <1>2, <1>4, <1>7 DEF GetBersSwapHistoryFailed, Messages
<1>8. CASE Transfer(l)
  <2>1. KlaytnTypeOK' /\ Len(payments) + 1 \in Nat
    BY <1>5, <1>8, BroadcastFacts DEF Transfer
  <2> QED
    BY <1>1, <1>4, <1>8, <2>1 DEF Transfer, Messages
<1>9. CASE TransferFailed(l)
  <2>1. KlaytnTypeOK'
    BY <1>2, <1>5, <1>9, BroadcastFacts DEF TransferFailed
  <2> QED
    BY <1>1, <1>4, <1>9, <2>1 DEF TransferFailed, Messages
<1>10. CASE WaitAndReturnTxReceipt(l)
  BY <1>1, <1>2, <1>4, <1>10 DEF WaitAndReturnTxReceipt, Messages
<1>11. CASE WaitTimedOut(l)
  BY <1>1, <1>2, <1>4, <1>11 DEF WaitTimedOut, Messages
<1>12. CASE StoreBlockOpen(l)
  BY <1>1, <1>2, <1>4, <1>12 DEF StoreBlockOpen, Messages
<1>13. CASE StoreBlockWrite(l)
  BY <1>1, <1>2, <1>4, <1>5, <1>13 DEF StoreBlockWrite, Messages
<1>14. CASE StoreBlockFailed(l)
  BY <1>1, <1>2, <1>4, <1>14 DEF StoreBlockFailed, Messages
<1>15. CASE CreateSwapHistoryTx(l)
  BY <1>1, <1>2, <1>4, <1>5, <1>15 DEF CreateSwapHistoryTx, Messages
<1>16. CASE CreateSwapHistoryTxFailed(l)
  BY <1>1, <1>2, <1>4, <1>5, <1>16 DEF CreateSwapHistoryTxFailed, Messages
<1> QED
  BY <1>6, <1>7, <1>8, <1>9, <1>10, <1>11, <1>12, <1>13, <1>14, <1>15, <1>16
  DEF ListenerStep, SendToken

\* A message passes from SendMsgs to a listener.
LEMMA TypeDeliver ==
    ASSUME TypeOK, NEW l \in Listener, Deliver(l)
    PROVE  TypeOK'
<1> PICK m \in msgs : SendMsg(m) /\ Receive(l, m)
  BY DEF Deliver
<1>1. m \in Messages
  BY DEF TypeOK, SenderTypeOK
<1>2. ChainTypeOK' /\ RuntimeTypeOK' /\ KlaytnTypeOK'
  BY DEF Deliver, SendMsg, Receive, NoFault, TypeOK, chainVars, ChainTypeOK, RuntimeTypeOK,
         KlaytnTypeOK, Payments
<1>3. SenderTypeOK'
  BY DEF SendMsg, TypeOK, SenderTypeOK, SenderPc, Messages
<1>4. ReceiverTypeOK' /\ (\A k \in Listener : lpc'[k] \in BusyPc => lmsg'[k] \in Messages)
  BY <1>1 DEF Receive, Goto, TypeOK, ReceiverTypeOK, ListenerPc, BusyPc, Messages
<1> QED
  BY <1>2, <1>3, <1>4 DEF TypeOK, Messages

\* The process starts, crashes or exits.
LEMMA TypeProcess ==
    ASSUME TypeOK, Start \/ Crash \/ Exit
    PROVE  TypeOK'
<1>1. ChainTypeOK' /\ RuntimeTypeOK' /\ KlaytnTypeOK'
  <2>1. ChainTypeOK' /\ KlaytnTypeOK'
    BY DEF Start, Crash, Exit, Down, TypeOK, chainVars, ChainTypeOK, KlaytnTypeOK, Payments
  <2>2. CASE Start
    BY <2>1, <2>2 DEF Start, TypeOK, RuntimeTypeOK
  <2>3. CASE Crash \/ Exit
    <3>1. up' \in BOOLEAN
      BY <2>3, Zenon DEF Crash, Exit, Down
    <3>2. run' \in Nat /\ faults' \in Nat
      BY <2>3 DEF Crash, Exit, Down, Fault, NoFault, TypeOK, RuntimeTypeOK
    <3> QED
      BY <2>1, <3>1, <3>2 DEF RuntimeTypeOK
  <2> QED
    BY <2>2, <2>3
<1>2. SenderTypeOK'
  <2>1. CASE Start
    <3>1. StartBlock \in Nat
      BY <2>1 DEF Start, StartBlock, TypeOK, ChainTypeOK, ReceiverTypeOK
    <3> QED
      BY <2>1, <3>1, SenderAssumption DEF Start, StartSender, SenderTypeOK, SenderPc
  <2>2. CASE Down
    BY <2>2, SenderAssumption DEF Down, StopSender, SenderTypeOK, SenderPc
  <2> QED
    BY <2>1, <2>2 DEF Crash, Exit
<1>3. ReceiverTypeOK' /\ (\A k \in Listener : lpc'[k] \in BusyPc => lmsg'[k] \in Messages)
  BY DEF Start, Crash, Exit, Down, StartListeners, StopListeners, ResetListeners, TypeOK,
         ReceiverTypeOK, ListenerPc, BusyPc, Messages
<1> QED
  BY <1>1, <1>2, <1>3 DEF TypeOK, Messages

\* A step of one of the two chains.
LEMMA TypeChains ==
    ASSUME TypeOK, BerithStep \/ KlaytnStep
    PROVE  TypeOK'
<1>1. SenderTypeOK' /\ ReceiverTypeOK'
      /\ (\A k \in Listener : lpc'[k] \in BusyPc => lmsg'[k] \in Messages)
  BY DEF BerithStep, KlaytnStep, bridgeVars, senderVars, receiverVars, TypeOK, SenderTypeOK,
         ReceiverTypeOK, Messages
<1>2. RuntimeTypeOK'
  BY DEF BerithStep, KlaytnStep, MinePayment, RevertPayment, bridgeVars, Fault, NoFault,
         TypeOK, RuntimeTypeOK
<1>3. ChainTypeOK'
  <2>1. ASSUME UNCHANGED chainVars PROVE ChainTypeOK'
    BY <2>1 DEF chainVars, TypeOK, ChainTypeOK
  <2> QED
    BY <2>1, MineFacts, ReorgFacts DEF BerithStep, KlaytnStep, TypeOK
<1>4. KlaytnTypeOK'
  BY SettleFacts
  DEF BerithStep, KlaytnStep, MinePayment, RevertPayment, TypeOK, KlaytnTypeOK, Payments
<1> QED
  BY <1>1, <1>2, <1>3, <1>4 DEF TypeOK, Messages

LEMMA TypeStep == TypeOK /\ [Next]_vars => TypeOK'
<1>1. TypeOK /\ UNCHANGED vars => TypeOK'
  BY DEF vars, chainVars, runtimeVars, senderVars, receiverVars, TypeOK, ChainTypeOK,
         RuntimeTypeOK, SenderTypeOK, ReceiverTypeOK, KlaytnTypeOK, Payments, Messages
<1> QED
  BY <1>1, TypeSender, TypeListener, TypeDeliver, TypeProcess, TypeChains
  DEF Next, BridgeStep

\* Every reachable state is well typed: the retry counter never leaves its
\* range, and a listener at work always has a message to work on.
THEOREM TypeCorrect == Spec => []TypeOK
  BY TypeInit, TypeStep, PTL DEF Spec

(***************************************************************************)
(* The scan.                                                               *)
(***************************************************************************)

\* A block of Berith that is buried deep enough is the same after any step of
\* the chain, and the deposits in it stay there.
LEMMA BerithFacts ==
    ASSUME TypeOK, BerithStep
    PROVE  /\ height' \in Nat /\ height' >= height
           /\ \A t \in Tx : \/ blockOf'[t] = blockOf[t]
                            \/ /\ blockOf[t] = 0 \/ blockOf[t] + Confirmations > height
                               /\ \/ blockOf'[t] = 0
                                  \/ blockOf'[t] + Confirmations > height
  BY MineFacts, ReorgFacts, SenderAssumption DEF BerithStep, TypeOK, ChainTypeOK

LEMMA ConfirmedStable ==
    ASSUME TypeOK, Next, NEW t \in Tx, Confirmed(t)
    PROVE  Confirmed(t)' /\ blockOf'[t] = blockOf[t]
<1>1. CASE UNCHANGED chainVars
  BY <1>1 DEF Confirmed, chainVars
<1>2. CASE BerithStep
  BY <1>2, BerithFacts, SenderAssumption DEF TypeOK, ChainTypeOK, Confirmed
<1> QED
  BY <1>1, <1>2
  DEF Next, BridgeStep, Start, Crash, Exit, Down, SenderStep, Deliver, ListenerStep, KlaytnStep

LEMMA FilterLogsStable ==
    ASSUME TypeOK, BerithStep, NEW b \in Nat, Ready(b)
    PROVE  FilterLogs(b)' = FilterLogs(b)
  BY BerithFacts, SenderAssumption DEF TypeOK, ChainTypeOK, Ready, FilterLogs

\* What pollBlocks has gone past is confirmed.
LEMMA PassedConfirmed ==
    ASSUME TypeOK, ScanInv, NEW t \in Tx, Passed(t)
    PROVE  Confirmed(t)
  BY SenderAssumption
  DEF TypeOK, ChainTypeOK, SenderTypeOK, ScanInv, Passed, Confirmed, Ready

\* The chain does not disturb a scan.
LEMMA ScanBerith ==
    ASSUME TypeOK, ScanInv, BerithStep
    PROVE  ScanInv' /\ \A t \in Tx : Passed(t)' <=> Passed(t)
<1>1. UNCHANGED senderVars
  BY DEF BerithStep, bridgeVars
<1>2. height' \in Nat /\ height' >= height
  BY BerithFacts
<1>3. ScanInv'
  <2>1. spc \in {"fetch", "lookup", "send"} =>
          Ready(currentBlock)' /\ FilterLogs(currentBlock)' = FilterLogs(currentBlock)
    BY <1>1, <1>2, FilterLogsStable, SenderAssumption
    DEF ScanInv, TypeOK, SenderTypeOK, ChainTypeOK, Ready, senderVars, FilterLogs
  <2> QED
    BY <1>1, <1>2, <2>1, SenderAssumption
    DEF ScanInv, TypeOK, SenderTypeOK, SenderPc, ChainTypeOK, senderVars, DepositMessage,
        NewDepositMessage, DepositRecipient
<1>4. \A t \in Tx : Passed(t)' <=> Passed(t)
  <2> TAKE t \in Tx
  <2>1. DepositMessage(t)' = DepositMessage(t)
    BY <1>1 DEF senderVars, DepositMessage, NewDepositMessage, DepositRecipient
  <2>2. ASSUME NEW b \in Nat, b + Confirmations > height
        PROVE  ~ (b < currentBlock /\ startBlock <= b) /\ ~ (b = currentBlock /\ spc = "send")
    BY <2>2, SenderAssumption DEF ScanInv, TypeOK, SenderTypeOK, ChainTypeOK, Ready
  <2>3. blockOf[t] \in Nat /\ blockOf'[t] \in Nat
    BY TypeChains DEF TypeOK, ChainTypeOK
  <2>4. CASE blockOf'[t] = blockOf[t]
    BY <1>1, <2>1, <2>4 DEF Passed, senderVars
  <2>5. CASE blockOf'[t] # blockOf[t]
    BY <1>1, <2>2, <2>3, <2>5, BerithFacts DEF Passed, senderVars
  <2> QED
    BY <2>4, <2>5
<1> QED
  BY <1>3, <1>4

\* pollBlocks keeps the scan in order, and only SendMsgs passes a deposit.
LEMMA ScanSender ==
    ASSUME TypeOK, ScanInv, SenderStep
    PROVE  ScanInv' /\ \A t \in Tx : Passed(t)' <=> Passed(t)
<1> USE DEF ScanInv, Passed, TypeOK, SenderTypeOK, ChainTypeOK, Ready
<1>1. UNCHANGED chainVars
  BY DEF SenderStep
<1>2. \A b : FilterLogs(b)' = FilterLogs(b)
  BY <1>1 DEF chainVars, FilterLogs
<1>3. CASE RetryPoll /\ spc # "send"
  BY <1>1, <1>3 DEF RetryPoll, chainVars
<1>4. CASE LatestBlockNumber
  BY <1>1, <1>4 DEF LatestBlockNumber, chainVars
<1>5. CASE FetchEventLogs
  BY <1>1, <1>2, <1>5 DEF FetchEventLogs, chainVars, FilterLogs
<1>6. ASSUME NEW t \in Tx, TransactionByHash(t)
      PROVE  ScanInv' /\ \A u \in Tx : Passed(u)' <=> Passed(u)
  <2>1. t \in FilterLogs(currentBlock) /\ blockOf[t] = currentBlock /\ blockOf[t] # 0
    BY <1>6 DEF TransactionByHash, FilterLogs
  <2>2. /\ logs' = logs \ {t}
        /\ msgs' = msgs \cup {DepositMessage(t)}
        /\ spc = "lookup" /\ spc' = IF logs' = {} THEN "send" ELSE "lookup"
        /\ UNCHANGED <<startBlock, currentBlock, retry>>
    BY <1>6, <2>1 DEF TransactionByHash
  <2>3. \A u \in Tx : DepositMessage(u)' = DepositMessage(u) /\ DepositMessage(u).tx = u
    BY <2>2 DEF DepositMessage, NewDepositMessage, DepositRecipient
  <2>4. ScanInv'
    <3>1. FilterLogs(currentBlock)' = FilterLogs(currentBlock)
      BY <1>1, <2>2 DEF chainVars, FilterLogs
    <3>2. \A m \in msgs' : m.tx \in FilterLogs(currentBlock) /\ m = DepositMessage(m.tx)
      BY <2>1, <2>2, <2>3
    <3>3. \A u \in FilterLogs(currentBlock) : u \in logs' \/ DepositMessage(u) \in msgs'
      BY <2>1, <2>2
    <3>4. \A u \in FilterLogs(currentBlock) : u \in Tx
      BY DEF FilterLogs
    <3>5. \A m \in msgs' : m.tx \in FilterLogs(currentBlock)' /\ m = DepositMessage(m.tx)'
      BY <2>3, <3>1, <3>2, <3>4
    <3>6. \A u \in FilterLogs(currentBlock)' : u \in logs' \/ DepositMessage(u)' \in msgs'
      BY <2>3, <3>1, <3>3, <3>4
    <3> QED
      BY <1>1, <2>2, <3>1, <3>5, <3>6 DEF chainVars
  <2>5. \A u \in Tx : Passed(u)' <=> Passed(u)
    BY <1>1, <2>2, <2>3 DEF chainVars, FilterLogs
  <2> QED
    BY <2>4, <2>5
<1>7. CASE NextBlock
  BY <1>1, <1>7, SenderAssumption DEF NextBlock, chainVars
<1>8. CASE RetriesExceeded
  BY <1>1, <1>8 DEF RetriesExceeded, chainVars
<1> QED
  BY <1>3, <1>4, <1>5, <1>6, <1>7, <1>8
  DEF SenderStep, PollStep, LatestBlockFailed, FetchEventLogsFailed, TransactionByHashFailed

(***************************************************************************)
(* The inductive invariant.                                                *)
(***************************************************************************)

LEMMA InvInit == Init => IInv
<1> SUFFICES ASSUME Init PROVE IInv
  OBVIOUS
<1>1. TypeOK
  BY TypeInit
<1>2. payments = <<>> /\ DOMAIN payments = {} /\ history = {} /\ blockFile = NoFile
  BY DEF Init, StoreInit
<1>3. \A l \in Listener : lpc[l] = "off" /\ lmsg[l] = NoMsg
  BY DEF Init, ListenersOff
<1>4. ProcessInv
  BY <1>3 DEF Init, SenderOff, ProcessInv
<1>5. ScanInv
  BY <1>1 DEF Init, SenderOff, ScanInv
<1>6. \A l \in Listener : HeldInv(l) /\ ProgressInv(l)
  BY <1>3 DEF HeldInv, ProgressInv, BusyPc
<1>7. DistinctInv
  BY <1>3 DEF DistinctInv
<1>8. PaymentInv /\ PaymentsConfirmed /\ OnePaymentPerRun
  BY <1>2 DEF PaymentInv, PaymentsConfirmed, OnePaymentPerRun
<1>9. HistoryImpliesPaid /\ CheckpointSound
  BY <1>2, FileAssumption DEF HistoryImpliesPaid, CheckpointSound
<1>10. PassedAccounted
  BY DEF Init, ChainInit, PassedAccounted, Passed
<1> QED
  BY <1>1, <1>4, <1>5, <1>6, <1>7, <1>8, <1>9, <1>10 DEF IInv

\* A step that touches neither the listeners nor the stores nor a transfer,
\* and hands over no message.
LEMMA InvQuiet ==
    ASSUME IInv, Next, TypeOK', ProcessInv', ScanInv',
           UNCHANGED <<up, run, receiverVars, payments>>,
           \A t \in Tx : Passed(t)' <=> Passed(t)
    PROVE  IInv'
<1>1. UNCHANGED <<up, run, lpc, lmsg, lpay, blockFile, history, payments>>
  BY DEF receiverVars
<1>2. \A t \in Tx : Passed(t) => Passed(t)' /\ blockOf'[t] = blockOf[t]
  BY PassedConfirmed, ConfirmedStable DEF IInv
<1>3. \A l \in Listener : lmsg[l] # NoMsg => lmsg[l].tx \in Tx
  BY DEF IInv, TypeOK, ReceiverTypeOK, Messages
<1>4. \A i \in DOMAIN payments : payments[i].dep \in Tx
  BY PaymentTypes DEF IInv, TypeOK
<1>5. \A l \in Listener : HeldInv(l)'
  BY <1>1, <1>2, <1>3 DEF IInv, HeldInv
<1>6. \A l \in Listener : ProgressInv(l)'
  BY <1>1 DEF IInv, ProgressInv, PaidInRun, PaymentsFor, Mined
<1>7. DistinctInv'
  BY <1>1 DEF IInv, DistinctInv
<1>8. PaymentInv'
  BY <1>1, <1>2, <1>4 DEF IInv, PaymentInv
<1>9. PaymentsConfirmed'
  BY <1>1, <1>4, ConfirmedStable DEF IInv, PaymentsConfirmed
<1>10. OnePaymentPerRun' /\ HistoryImpliesPaid'
  BY <1>1 DEF IInv, OnePaymentPerRun, HistoryImpliesPaid, Paid, PaymentsFor, Mined
<1>11. CheckpointSound'
  <2>1. \A t \in Tx : Paid(t) => Paid(t)' /\ blockOf'[t] = blockOf[t]
    BY <1>1, ConfirmedStable DEF IInv, PaymentsConfirmed, Paid, PaymentsFor, Mined
  <2> QED
    BY <1>1, <2>1 DEF IInv, CheckpointSound
<1>12. PassedAccounted'
  BY <1>1 DEF IInv, PassedAccounted, Holds
<1> QED
  BY <1>5, <1>6, <1>7, <1>8, <1>9, <1>10, <1>11, <1>12 DEF IInv

LEMMA InvSender == IInv /\ SenderStep => IInv'
<1> SUFFICES ASSUME IInv, SenderStep PROVE IInv'
  OBVIOUS
<1>1. Next
  BY DEF Next, BridgeStep
<1>2. TypeOK' /\ ScanInv' /\ \A t \in Tx : Passed(t)' <=> Passed(t)
  BY TypeSender, ScanSender DEF IInv
<1>3. UNCHANGED <<up, run, receiverVars, payments>>
  BY DEF SenderStep
<1>4. spc # "off" /\ spc' # "off"
  BY DEF SenderStep, PollStep, LatestBlockFailed, LatestBlockNumber, FetchEventLogs,
         FetchEventLogsFailed, TransactionByHash, TransactionByHashFailed, NextBlock,
         RetriesExceeded, RetryPoll
<1>5. ProcessInv'
  BY <1>3, <1>4 DEF receiverVars, IInv, ProcessInv
<1> QED
  BY <1>1, <1>2, <1>3, <1>5, InvQuiet

LEMMA InvBerith == IInv /\ BerithStep => IInv'
<1> SUFFICES ASSUME IInv, BerithStep PROVE IInv'
  OBVIOUS
<1>1. Next
  BY DEF Next
<1>2. TypeOK' /\ ScanInv' /\ \A t \in Tx : Passed(t)' <=> Passed(t)
  BY TypeChains, ScanBerith DEF IInv
<1>3. UNCHANGED <<up, run, receiverVars, payments, senderVars>>
  BY DEF BerithStep, bridgeVars
<1>4. ProcessInv'
  BY <1>3 DEF receiverVars, senderVars, IInv, ProcessInv
<1> QED
  BY <1>1, <1>2, <1>3, <1>4, InvQuiet

\* What one step of SendToken may change.
LEMMA ListenerFrame ==
    ASSUME TypeOK, NEW l \in Listener, ListenerStep(l)
    PROVE  /\ lpc[l] \in BusyPc /\ lmsg[l].tx \in Tx
           /\ UNCHANGED <<chainVars, up, run, senderVars>>
           /\ \A k \in Listener \ {l} : /\ lpc'[k] = lpc[k]
                                       /\ lmsg'[k] = lmsg[k]
                                       /\ lpay'[k] = lpay[k]
           /\ \/ lpc'[l] = "select" /\ lmsg'[l] = NoMsg /\ lmsg[l].tx \in history'
              \/ lpc'[l] \in BusyPc \cup {"failed"} /\ lmsg'[l] = lmsg[l]
           /\ \/ history' = history
              \/ lpc[l] = "record" /\ history' = history \cup {lmsg[l].tx}
           /\ \/ UNCHANGED payments
              \/ lpc[l] = "transfer" /\ Broadcast(lmsg[l].tx)
           /\ \/ blockFile' \in {blockFile, EmptyFile}
              \/ lpc[l] = "write" /\ blockFile' = lmsg[l].block
<1> USE DEF TypeOK, ReceiverTypeOK, BusyPc, Goto, Fail, Return
<1>1. UNCHANGED <<chainVars, up, run, senderVars>>
  BY DEF ListenerStep
<1>2. lpc[l] \in BusyPc
  BY DEF ListenerStep, SendToken, GetBersSwapHistory, GetBersSwapHistoryFailed, Transfer,
         TransferFailed, WaitAndReturnTxReceipt, WaitTimedOut, StoreBlockOpen,
         StoreBlockWrite, StoreBlockFailed, CreateSwapHistoryTx, CreateSwapHistoryTxFailed
<1>3. lmsg[l].tx \in Tx
  BY <1>2 DEF Messages
<1>4. CASE GetBersSwapHistory(l)
  BY <1>1, <1>2, <1>3, <1>4 DEF GetBersSwapHistory, PayUnlessRecorded
<1>5. CASE GetBersSwapHistoryFailed(l)
  BY <1>1, <1>2, <1>3, <1>5 DEF GetBersSwapHistoryFailed
<1>6. CASE Transfer(l)
  BY <1>1, <1>2, <1>3, <1>6 DEF Transfer
<1>7. CASE TransferFailed(l)
  BY <1>1, <1>2, <1>3, <1>7 DEF TransferFailed
<1>8. CASE WaitAndReturnTxReceipt(l)
  BY <1>1, <1>2, <1>3, <1>8 DEF WaitAndReturnTxReceipt
<1>9. CASE WaitTimedOut(l)
  BY <1>1, <1>2, <1>3, <1>9 DEF WaitTimedOut
<1>10. CASE StoreBlockOpen(l)
  BY <1>1, <1>2, <1>3, <1>10 DEF StoreBlockOpen
<1>11. CASE StoreBlockWrite(l)
  BY <1>1, <1>2, <1>3, <1>11 DEF StoreBlockWrite
<1>12. CASE StoreBlockFailed(l)
  BY <1>1, <1>2, <1>3, <1>12 DEF StoreBlockFailed
<1>13. CASE CreateSwapHistoryTx(l)
  BY <1>1, <1>2, <1>3, <1>13 DEF CreateSwapHistoryTx
<1>14. CASE CreateSwapHistoryTxFailed(l)
  BY <1>1, <1>2, <1>3, <1>14 DEF CreateSwapHistoryTxFailed
<1> QED
  BY <1>4, <1>5, <1>6, <1>7, <1>8, <1>9, <1>10, <1>11, <1>12, <1>13, <1>14
  DEF ListenerStep, SendToken

\* The transfers after a step of SendToken for deposit d.
LEMMA ListenerPayments ==
    ASSUME TypeOK, NEW d \in Tx, UNCHANGED payments \/ Broadcast(d), UNCHANGED run
    PROVE  /\ DOMAIN payments \subseteq DOMAIN payments'
           /\ \A i \in DOMAIN payments : payments'[i] = payments[i]
           /\ \A i \in DOMAIN payments' \ DOMAIN payments :
                 /\ i = Len(payments) + 1
                 /\ payments'[i].dep = d
                 /\ payments'[i].run = run
           /\ \A t \in Tx : Paid(t) => Paid(t)'
           /\ \A t \in Tx \ {d} : PaymentsFor(t)' = PaymentsFor(t)
                                /\ (PaidInRun(t)' <=> PaidInRun(t))
           /\ \A t \in Tx : PaymentsFor(t) \subseteq PaymentsFor(t)'
<1>1. CASE UNCHANGED payments
  BY <1>1 DEF Paid, PaymentsFor, PaidInRun, Mined
<1>2. CASE Broadcast(d)
  <2>1. /\ DOMAIN payments' = DOMAIN payments \cup {Len(payments) + 1}
        /\ Len(payments) + 1 \notin DOMAIN payments
        /\ \A i \in DOMAIN payments : payments'[i] = payments[i]
        /\ payments'[Len(payments) + 1].dep = d
        /\ payments'[Len(payments) + 1].run = run
    <3>1. /\ DOMAIN payments' = DOMAIN payments \cup {Len(payments) + 1}
          /\ Len(payments) + 1 \notin DOMAIN payments
          /\ \A i \in DOMAIN payments : payments'[i] = payments[i]
          /\ payments'[Len(payments) + 1] =
                [dep |-> d, run |-> run, status |-> "pending"]
      BY <1>2, BroadcastFacts DEF TypeOK
    <3> QED
      BY <3>1
  <2>2. \A t \in Tx : PaymentsFor(t) \subseteq PaymentsFor(t)'
    BY <2>1 DEF PaymentsFor
  <2>3. \A t \in Tx : Paid(t) => Paid(t)'
    BY <2>1, <2>2 DEF Paid, Mined, PaymentsFor
  <2>4. ASSUME NEW t \in Tx \ {d}
        PROVE  PaymentsFor(t)' = PaymentsFor(t) /\ (PaidInRun(t)' <=> PaidInRun(t))
    <3>1. PaymentsFor(t)' = PaymentsFor(t)
      BY <2>1 DEF PaymentsFor
    <3> QED
      BY <2>1, <3>1 DEF PaidInRun, PaymentsFor
  <2> QED
    BY <2>1, <2>2, <2>3, <2>4
<1> QED
  BY <1>1, <1>2

\* The listener that moves keeps its own bookkeeping in order.
LEMMA ProgressListener ==
    ASSUME IInv, NEW l \in Listener, ListenerStep(l)
    PROVE  ProgressInv(l)'
<1> DEFINE d == lmsg[l].tx
<1> USE DEF ProgressInv, BusyPc, Goto, Fail, Return
<1>1. TypeOK /\ ProgressInv(l) /\ HeldInv(l)
  BY DEF IInv
<1>2. d \in Tx /\ UNCHANGED <<up, run>>
  BY <1>1, ListenerFrame
<1>3. \A k \in Listener : lpc[k] \in ListenerPc
  BY <1>1 DEF TypeOK, ReceiverTypeOK
<1>4. /\ lpc \in [Listener -> ListenerPc] /\ DOMAIN lmsg = Listener /\ DOMAIN lpay = Listener
  BY <1>1 DEF TypeOK, ReceiverTypeOK
<1> USE DEF PaidInRun, PaymentsFor, Mined
<1>5. CASE GetBersSwapHistory(l)
  BY <1>1, <1>2, <1>4, <1>5 DEF GetBersSwapHistory, PayUnlessRecorded
<1>6. CASE lpc'[l] = "failed"
  BY <1>6
<1>7. CASE Transfer(l)
  <2>1. /\ Len(payments) + 1 \in DOMAIN payments'
        /\ payments'[Len(payments) + 1] =
              [dep |-> d, run |-> run, status |-> "pending"]
    BY <1>1, <1>2, <1>7, BroadcastFacts DEF Transfer, TypeOK
  <2>2. lpc'[l] = "wait" /\ lmsg' = lmsg /\ lpay'[l] = Len(payments) + 1 /\ history' = history
    BY <1>4, <1>7 DEF Transfer
  <2>3. lpay'[l] \in PaymentsFor(d)'
    BY <2>1, <2>2
  <2> QED
    BY <1>1, <1>7, <2>2, <2>3 DEF Transfer
<1>8. CASE WaitAndReturnTxReceipt(l)
  BY <1>1, <1>2, <1>4, <1>8 DEF WaitAndReturnTxReceipt
<1>9. CASE StoreBlockOpen(l)
  BY <1>1, <1>2, <1>4, <1>9 DEF StoreBlockOpen
<1>10. CASE StoreBlockWrite(l)
  BY <1>1, <1>2, <1>4, <1>10 DEF StoreBlockWrite
<1>11. CASE CreateSwapHistoryTx(l)
  BY <1>1, <1>2, <1>4, <1>11 DEF CreateSwapHistoryTx
<1>12. CASE \/ GetBersSwapHistoryFailed(l) \/ TransferFailed(l) \/ WaitTimedOut(l)
            \/ StoreBlockFailed(l) \/ CreateSwapHistoryTxFailed(l)
  BY <1>4, <1>6, <1>12 DEF GetBersSwapHistoryFailed, TransferFailed, WaitTimedOut,
       StoreBlockFailed, CreateSwapHistoryTxFailed
<1> QED
  BY <1>5, <1>7, <1>8, <1>9, <1>10, <1>11, <1>12 DEF ListenerStep, SendToken

LEMMA InvListener ==
    ASSUME IInv, NEW l \in Listener, ListenerStep(l)
    PROVE  IInv'
<1> DEFINE d == lmsg[l].tx
<1>1. TypeOK /\ TypeOK'
  BY TypeListener DEF IInv
<1>2. /\ lpc[l] \in BusyPc /\ d \in Tx
      /\ UNCHANGED <<chainVars, up, run, senderVars>>
      /\ \A k \in Listener \ {l} : /\ lpc'[k] = lpc[k]
                                  /\ lmsg'[k] = lmsg[k]
                                  /\ lpay'[k] = lpay[k]
      /\ \/ lpc'[l] = "select" /\ lmsg'[l] = NoMsg /\ d \in history'
         \/ lpc'[l] \in BusyPc \cup {"failed"} /\ lmsg'[l] = lmsg[l]
      /\ \/ history' = history
         \/ lpc[l] = "record" /\ history' = history \cup {d}
      /\ \/ UNCHANGED payments
         \/ lpc[l] = "transfer" /\ Broadcast(d)
      /\ \/ blockFile' \in {blockFile, EmptyFile}
         \/ lpc[l] = "write" /\ blockFile' = lmsg[l].block
  BY <1>1, ListenerFrame
<1>3. \A t : (Passed(t)' <=> Passed(t)) /\ (Confirmed(t)' <=> Confirmed(t))
  BY <1>2 DEF chainVars, senderVars, Passed, Confirmed, DepositMessage, NewDepositMessage,
              DepositRecipient
<1>4. lmsg[l] # NoMsg /\ Passed(d) /\ Confirmed(d) /\ lmsg[l].block = blockOf[d]
  BY <1>1, <1>2, PassedConfirmed DEF IInv, HeldInv
<1>5. \A k \in Listener \ {l} : lmsg[k] # NoMsg => lmsg[k].tx \in Tx \ {d}
  BY <1>1, <1>4 DEF IInv, DistinctInv, TypeOK, ReceiverTypeOK, Messages
<1>6. /\ DOMAIN payments \subseteq DOMAIN payments'
      /\ \A i \in DOMAIN payments : payments'[i] = payments[i]
      /\ \A i \in DOMAIN payments' \ DOMAIN payments :
            /\ i = Len(payments) + 1
            /\ payments'[i].dep = d
            /\ payments'[i].run = run
      /\ \A t \in Tx : Paid(t) => Paid(t)'
      /\ \A t \in Tx \ {d} : PaymentsFor(t)' = PaymentsFor(t)
                           /\ (PaidInRun(t)' <=> PaidInRun(t))
      /\ \A t \in Tx : PaymentsFor(t) \subseteq PaymentsFor(t)'
  BY <1>1, <1>2, ListenerPayments
<1>7. ProcessInv'
  BY <1>1, <1>2 DEF IInv, ProcessInv, senderVars, BusyPc
<1>8. ScanInv'
  BY <1>2 DEF IInv, ScanInv, senderVars, chainVars, FilterLogs, Ready, DepositMessage,
              NewDepositMessage, DepositRecipient
<1>9. \A k \in Listener : HeldInv(k)'
  <2> TAKE k \in Listener
  <2>1. CASE k = l
    BY <1>2, <1>3, <1>4, <2>1 DEF HeldInv, BusyPc, chainVars
  <2>2. CASE k # l
    BY <1>2, <1>3, <2>2 DEF IInv, HeldInv, chainVars
  <2> QED
    BY <2>1, <2>2
<1>10. \A k \in Listener : ProgressInv(k)'
  <2> TAKE k \in Listener
  <2>1. CASE k = l
    BY <2>1, ProgressListener
  <2>2. CASE k # l
    <3>1. ProgressInv(k) /\ HeldInv(k)
      BY DEF IInv
    <3>2. lpc[k] \in BusyPc => lmsg[k].tx \in Tx \ {d}
      BY <1>5, <2>2, <3>1 DEF HeldInv
    <3>3. lpay[k] \in DOMAIN payments /\ Mined(lpay[k]) => Mined(lpay[k])'
      BY <1>2, <1>6, <2>2 DEF Mined
    <3> QED
      BY <1>2, <1>6, <2>2, <3>1, <3>2, <3>3 DEF ProgressInv, BusyPc, PaymentsFor
  <2> QED
    BY <2>1, <2>2
<1>11. DistinctInv'
  BY <1>2, <1>4 DEF IInv, DistinctInv
<1>12. PaymentInv' /\ PaymentsConfirmed'
  <2>1. run \in 1..run /\ UNCHANGED <<up, run>>
    BY <1>1, <1>2 DEF IInv, ProcessInv, BusyPc, TypeOK, RuntimeTypeOK
  <2> QED
    BY <1>2, <1>3, <1>4, <1>6, <2>1 DEF IInv, PaymentInv, PaymentsConfirmed
<1>13. OnePaymentPerRun'
  <2>1. lpc[l] = "transfer" => \A i \in DOMAIN payments :
           payments[i].dep = d => payments[i].run # run
    BY DEF IInv, ProgressInv, PaidInRun, PaymentsFor
  <2>2. UNCHANGED payments \/ lpc[l] = "transfer"
    BY <1>2
  <2> QED
    BY <1>6, <2>1, <2>2 DEF IInv, OnePaymentPerRun
<1>14. HistoryImpliesPaid'
  <2>1. lpc[l] = "record" => Paid(d)
    BY DEF IInv, ProgressInv, BusyPc, Paid
  <2> QED
    BY <1>1, <1>2, <1>6, <2>1 DEF IInv, HistoryImpliesPaid, TypeOK, ReceiverTypeOK
<1>15. CheckpointSound'
  <2>1. lpc[l] = "write" => Paid(d)
    BY DEF IInv, ProgressInv, BusyPc, Paid
  <2> QED
    BY <1>2, <1>4, <1>6, <2>1, FileAssumption DEF IInv, CheckpointSound, chainVars
<1>16. PassedAccounted'
  <2>1. history \subseteq history'
    BY <1>2
  <2>2. \A t \in Tx, k \in Listener \ {l} : Holds(k, t) => Holds(k, t)'
    BY <1>2 DEF Holds
  <2>3. \A t \in Tx : Holds(l, t) => Holds(l, t)' \/ t \in history'
    BY <1>2 DEF Holds
  <2> QED
    BY <1>3, <2>1, <2>2, <2>3 DEF IInv, PassedAccounted
<1> QED
  BY <1>1, <1>7, <1>8, <1>9, <1>10, <1>11, <1>12, <1>13, <1>14, <1>15, <1>16 DEF IInv

LEMMA InvDeliver ==
    ASSUME IInv, NEW l \in Listener, Deliver(l)
    PROVE  IInv'
<1> PICK m \in msgs : SendMsg(m) /\ Receive(l, m)
  BY DEF Deliver
<1> DEFINE d == m.tx
<1>1. TypeOK /\ TypeOK'
  BY TypeDeliver DEF IInv
<1>2. /\ UNCHANGED <<chainVars, up, run, payments, history, blockFile, lpay>>
      /\ UNCHANGED <<spc, startBlock, currentBlock, retry, logs>>
      /\ spc = "send" /\ msgs' = msgs \ {m}
  BY DEF Deliver, SendMsg, Receive
<1>3. /\ m \in Messages /\ d \in Tx /\ m = DepositMessage(d)
      /\ blockOf[d] = currentBlock /\ blockOf[d] # 0
  BY DEF IInv, ScanInv, FilterLogs, TypeOK, SenderTypeOK
<1>4. m.block = currentBlock /\ m.receiver = DepositRecipient(d)
  BY <1>3 DEF DepositMessage, NewDepositMessage
<1>5. ValidateStruct(m)
  BY <1>3, <1>4, RecipientType DEF ValidateStruct
<1>6. /\ lpc[l] = "select" /\ lpc'[l] = "history" /\ lmsg'[l] = m
      /\ \A k \in Listener \ {l} : lpc'[k] = lpc[k] /\ lmsg'[k] = lmsg[k]
  BY <1>1, <1>5 DEF Receive, Goto, TypeOK, ReceiverTypeOK
<1>7. ~Passed(d)
  BY <1>1, <1>2, <1>3 DEF Passed, TypeOK, SenderTypeOK
<1>8. \A t : DepositMessage(t)' = DepositMessage(t) /\ DepositMessage(t).tx = t
  BY <1>2 DEF DepositMessage, NewDepositMessage, DepositRecipient
<1>9. \A t : Passed(t)' <=> (Passed(t) \/ t = d)
  <2>1. startBlock <= currentBlock
    BY DEF IInv, ScanInv
  <2>2. \A t : DepositMessage(t) = m <=> t = d
    BY <1>3, <1>8
  <2>3. \A t : Passed(t)' <=> /\ blockOf[t] # 0
                             /\ startBlock <= blockOf[t]
                             /\ \/ blockOf[t] < currentBlock
                                \/ /\ blockOf[t] = currentBlock
                                   /\ spc = "send"
                                   /\ DepositMessage(t) \notin msgs \ {m}
    BY <1>2, <1>8 DEF Passed, chainVars
  <2> QED
    BY <1>2, <1>3, <2>1, <2>2, <2>3 DEF Passed
<1>10. \A k \in Listener : lmsg[k] # NoMsg => Passed(lmsg[k].tx) /\ lmsg[k].tx # d
  BY <1>7 DEF IInv, HeldInv
<1>11. m # NoMsg
  BY <1>3, NoMsgAssumption
<1>12. ProcessInv'
  BY <1>2, <1>6 DEF IInv, ProcessInv
<1>13. ScanInv'
  <2>1. FilterLogs(currentBlock)' = FilterLogs(currentBlock) /\ Ready(currentBlock)' = Ready(currentBlock)
    BY <1>2 DEF FilterLogs, Ready, chainVars
  <2> QED
    BY <1>2, <1>8, <2>1 DEF IInv, ScanInv, chainVars, Ready
<1>14. \A k \in Listener : HeldInv(k)'
  BY <1>2, <1>3, <1>4, <1>6, <1>9, <1>11 DEF IInv, HeldInv, BusyPc, chainVars
<1>15. ~PaidInRun(d)
  <2>1. up
    BY <1>2 DEF IInv, ProcessInv
  <2> QED
    BY <1>7, <2>1 DEF IInv, PaymentInv, PaidInRun, PaymentsFor
<1>16. \A k \in Listener : ProgressInv(k)'
  <2> TAKE k \in Listener
  <2>1. CASE k = l
    BY <1>2, <1>6, <1>15, <2>1 DEF ProgressInv, BusyPc, PaidInRun, PaymentsFor
  <2>2. CASE k # l
    BY <1>2, <1>6, <2>2 DEF IInv, ProgressInv, BusyPc, PaidInRun, PaymentsFor, Mined
  <2> QED
    BY <2>1, <2>2
<1>17. DistinctInv'
  BY <1>6, <1>10 DEF IInv, DistinctInv
<1>18. PaymentInv' /\ PaymentsConfirmed' /\ OnePaymentPerRun'
  BY <1>2, <1>9 DEF IInv, PaymentInv, PaymentsConfirmed, OnePaymentPerRun, Confirmed, chainVars
<1>19. HistoryImpliesPaid' /\ CheckpointSound'
  BY <1>2 DEF IInv, HistoryImpliesPaid, CheckpointSound, Paid, PaymentsFor, Mined, chainVars
<1>20. PassedAccounted'
  <2>1. Holds(l, d)'
    BY <1>6, <1>11 DEF Holds, BusyPc
  <2>2. \A t \in Tx, k \in Listener : Holds(k, t) => Holds(k, t)'
    BY <1>6 DEF Holds, BusyPc
  <2> QED
    BY <1>2, <1>9, <2>1, <2>2 DEF IInv, PassedAccounted
<1> QED
  BY <1>1, <1>12, <1>13, <1>14, <1>16, <1>17, <1>18, <1>19, <1>20 DEF IInv

\* A start, a crash or an exit: what is in memory is gone, the rest stays.
LEMMA InvProcess ==
    ASSUME IInv, Start \/ Crash \/ Exit
    PROVE  IInv'
<1>1. TypeOK /\ TypeOK'
  BY TypeProcess DEF IInv
<1>2. UNCHANGED <<chainVars, blockFile, history, payments>>
  BY DEF Start, Crash, Exit, Down
<1>3. /\ logs' = {} /\ msgs' = {} /\ startBlock' = currentBlock'
      /\ \A l \in Listener : lmsg'[l] = NoMsg
      /\ \/ ~up /\ up' /\ run' = run + 1 /\ spc' = "poll"
            /\ \A l \in Listener : lpc'[l] = "select"
         \/ ~up' /\ run' = run /\ spc' = "off" /\ \A l \in Listener : lpc'[l] = "off"
  BY DEF Start, Crash, Exit, Down, StartSender, StopSender, StartListeners, StopListeners,
         ResetListeners
<1>4. ProcessInv'
  BY <1>1, <1>3 DEF ProcessInv, TypeOK, RuntimeTypeOK
<1>5. ScanInv'
  BY <1>1, <1>3 DEF ScanInv, TypeOK, SenderTypeOK
<1>6. \A l \in Listener : HeldInv(l)' /\ ProgressInv(l)'
  BY <1>3 DEF HeldInv, ProgressInv, BusyPc
<1>7. DistinctInv'
  BY <1>3 DEF DistinctInv
<1>8. PaymentInv'
  BY <1>1, <1>2, <1>3, PaymentTypes DEF IInv, PaymentInv, TypeOK, RuntimeTypeOK
<1>9. PaymentsConfirmed' /\ OnePaymentPerRun' /\ HistoryImpliesPaid' /\ CheckpointSound'
  BY <1>2 DEF IInv, PaymentsConfirmed, OnePaymentPerRun, HistoryImpliesPaid, CheckpointSound,
              Confirmed, Paid, PaymentsFor, Mined, chainVars
<1>10. \A t \in Tx : ~Passed(t)'
  BY <1>1, <1>3 DEF Passed, TypeOK, SenderTypeOK, ChainTypeOK
<1>11. PassedAccounted'
  BY <1>10 DEF PassedAccounted
<1> QED
  BY <1>1, <1>4, <1>5, <1>6, <1>7, <1>8, <1>9, <1>11 DEF IInv

LEMMA InvKlaytn ==
    ASSUME IInv, KlaytnStep
    PROVE  IInv'
<1>1. TypeOK /\ TypeOK'
  BY TypeChains DEF IInv
<1>2. UNCHANGED <<chainVars, up, run, senderVars, receiverVars>>
  BY DEF KlaytnStep, bridgeVars
<1>3. /\ DOMAIN payments' = DOMAIN payments
      /\ \A j \in DOMAIN payments : /\ payments'[j].dep = payments[j].dep
                                    /\ payments'[j].run = payments[j].run
                                    /\ Mined(j) => Mined(j)'
  BY <1>1, SettleFacts DEF KlaytnStep, MinePayment, RevertPayment, TypeOK
<1>4. \A t : /\ PaymentsFor(t)' = PaymentsFor(t)
             /\ PaidInRun(t)' <=> PaidInRun(t)
             /\ Paid(t) => Paid(t)'
  <2>1. \A t : PaymentsFor(t)' = PaymentsFor(t)
    BY <1>3 DEF PaymentsFor
  <2> QED
    BY <1>2, <1>3, <2>1 DEF PaidInRun, Paid, PaymentsFor
<1>5. \A t : (Passed(t)' <=> Passed(t)) /\ (Confirmed(t)' <=> Confirmed(t))
  BY <1>2 DEF chainVars, senderVars, Passed, Confirmed, DepositMessage, NewDepositMessage,
              DepositRecipient
<1>6. ProcessInv' /\ DistinctInv'
  BY <1>2 DEF IInv, ProcessInv, DistinctInv, senderVars, receiverVars
<1>7. ScanInv'
  BY <1>2 DEF IInv, ScanInv, senderVars, chainVars, FilterLogs, Ready, DepositMessage,
              NewDepositMessage, DepositRecipient
<1>8. \A l \in Listener : HeldInv(l)'
  BY <1>2, <1>5 DEF IInv, HeldInv, receiverVars, chainVars
<1>9. \A l \in Listener : ProgressInv(l)'
  BY <1>2, <1>3, <1>4 DEF IInv, ProgressInv, receiverVars, BusyPc, PaymentsFor
<1>10. PaymentInv' /\ PaymentsConfirmed' /\ OnePaymentPerRun'
  BY <1>2, <1>3, <1>5 DEF IInv, PaymentInv, PaymentsConfirmed, OnePaymentPerRun
<1>11. HistoryImpliesPaid' /\ CheckpointSound'
  BY <1>2, <1>4 DEF IInv, HistoryImpliesPaid, CheckpointSound, receiverVars, chainVars
<1>12. PassedAccounted'
  BY <1>2, <1>5 DEF IInv, PassedAccounted, Holds, receiverVars
<1> QED
  BY <1>1, <1>6, <1>7, <1>8, <1>9, <1>10, <1>11, <1>12 DEF IInv

LEMMA InvStep == IInv /\ [Next]_vars => IInv'
<1> SUFFICES ASSUME IInv, [Next]_vars PROVE IInv'
  OBVIOUS
<1>1. CASE UNCHANGED vars
  <2>1. UNCHANGED <<chainVars, runtimeVars, senderVars, receiverVars, payments>>
    BY <1>1 DEF vars
  <2> USE <2>1 DEF chainVars, runtimeVars, senderVars, receiverVars
  <2>2. TypeOK'
    BY <1>1, TypeStep DEF IInv
  <2>3. ProcessInv' /\ ScanInv' /\ DistinctInv'
    BY DEF IInv, ProcessInv, ScanInv, DistinctInv, FilterLogs, Ready, DepositMessage,
           NewDepositMessage, DepositRecipient
  <2>4. \A t : Passed(t)' <=> Passed(t)
    BY DEF Passed, DepositMessage, NewDepositMessage, DepositRecipient
  <2>5. \A l \in Listener : HeldInv(l)' /\ ProgressInv(l)'
    BY <2>4 DEF IInv, HeldInv, ProgressInv, PaidInRun, PaymentsFor, Mined
  <2>6. PaymentInv' /\ PaymentsConfirmed' /\ OnePaymentPerRun'
    BY <2>4 DEF IInv, PaymentInv, PaymentsConfirmed, OnePaymentPerRun, Confirmed
  <2>7. HistoryImpliesPaid' /\ CheckpointSound' /\ PassedAccounted'
    BY <2>4 DEF IInv, HistoryImpliesPaid, CheckpointSound, PassedAccounted, Holds, Paid,
                PaymentsFor, Mined
  <2> QED
    BY <2>2, <2>3, <2>5, <2>6, <2>7 DEF IInv
<1>2. CASE Start \/ Crash \/ Exit
  BY <1>2, InvProcess
<1>3. CASE BridgeStep
  BY <1>3, InvSender, InvDeliver, InvListener DEF BridgeStep
<1>4. CASE BerithStep
  BY <1>4, InvBerith
<1>5. CASE KlaytnStep
  BY <1>5, InvKlaytn
<1> QED
  BY <1>1, <1>2, <1>3, <1>4, <1>5 DEF Next

\* The inductive invariant holds in every reachable state.
THEOREM Invariance == Spec => []IInv
  BY InvInit, InvStep, PTL DEF Spec

(***************************************************************************)
(* The theorems.                                                           *)
(***************************************************************************)

\* Every row of the history table stands for a mined transfer.
THEOREM HistorySound == Spec => []HistoryImpliesPaid
<1>1. IInv => HistoryImpliesPaid
  BY DEF IInv
<1> QED
  BY <1>1, Invariance, PTL

\* No transfer is ever made for a deposit that a reorganisation can undo.
THEOREM OnlyConfirmedPaid == Spec => []PaymentsConfirmed
<1>1. IInv => PaymentsConfirmed
  BY DEF IInv
<1> QED
  BY <1>1, Invariance, PTL

\* Two racing listeners never pay for one deposit in one run of the process.
THEOREM NoDoublePaymentInRun == Spec => []OnePaymentPerRun
<1>1. IInv => OnePaymentPerRun
  BY DEF IInv
<1> QED
  BY <1>1, Invariance, PTL

LEMMA BoundedByRuns == IInv => TransfersBounded
<1> SUFFICES ASSUME IInv, NEW t \in Tx PROVE Cardinality(PaymentsFor(t)) <= run
  BY DEF TransfersBounded
<1> DEFINE runOf == [i \in PaymentsFor(t) |-> payments[i].run]
<1>1. run \in Nat
  BY DEF IInv, TypeOK, RuntimeTypeOK
<1>2. runOf \in [PaymentsFor(t) -> 1..run]
  BY DEF IInv, PaymentInv, PaymentsFor
<1>3. \A i, j \in PaymentsFor(t) : runOf[i] = runOf[j] => i = j
  BY DEF IInv, OnePaymentPerRun, PaymentsFor
<1>4. runOf \in Injection(PaymentsFor(t), 1..run)
  BY <1>2, <1>3 DEF Injection, IsInjective
<1>5. IsFiniteSet(1..run) /\ Cardinality(1..run) = run
  BY <1>1, FS_Interval
<1> QED
  BY <1>4, <1>5, FS_Injection

\* Crashes and restarts cost at most one transfer of a deposit each.
THEOREM RepeatsBounded == Spec => []TransfersBounded
  BY BoundedByRuns, Invariance, PTL

\* A log is still in its block when its transaction is looked up: what the
\* sender reads is buried too deep for a reorganisation between the two calls.
THEOREM LookupFindsDeposit == Spec => []LogsInBlock
<1>1. IInv => LogsInBlock
  BY DEF IInv, ScanInv, LogsInBlock, FilterLogs
<1> QED
  BY <1>1, Invariance, PTL

\* pollBlocks never leaves a deposit behind that nobody holds or has recorded.
THEOREM NoDepositDropped == Spec => []Accounted
<1>1. IInv => Accounted
  BY DEF IInv, PassedAccounted, Passed, Accounted
<1> QED
  BY <1>1, Invariance, PTL

\* The block file only ever names the block of a deposit that was paid.
THEOREM CheckpointNeverAhead == Spec => []CheckpointSound
<1>1. IInv => CheckpointSound
  BY DEF IInv
<1> QED
  BY <1>1, Invariance, PTL

\* Only a listener that did not find the row broadcasts.
LEMMA RecordedStep ==
    IInv /\ [Next]_vars => [\A t \in history : PaymentsFor(t)' = PaymentsFor(t)]_vars
<1> SUFFICES ASSUME IInv, Next
             PROVE  \A t \in history : PaymentsFor(t)' = PaymentsFor(t)
  OBVIOUS
<1>1. \A t \in history : t \in Tx
  BY DEF IInv, TypeOK, ReceiverTypeOK
<1>2. CASE UNCHANGED payments
  BY <1>2 DEF PaymentsFor
<1>3. CASE KlaytnStep
  BY <1>3, SettleFacts
  DEF IInv, TypeOK, KlaytnStep, MinePayment, RevertPayment, PaymentsFor
<1>4. ASSUME NEW l \in Listener, ListenerStep(l)
      PROVE  \A t \in history : PaymentsFor(t)' = PaymentsFor(t)
  <2>1. TypeOK /\ ProgressInv(l)
    BY DEF IInv
  <2>2. UNCHANGED payments \/ (lpc[l] = "transfer" /\ Broadcast(lmsg[l].tx))
    BY <1>4, <2>1, ListenerFrame
  <2>3. CASE lpc[l] = "transfer" /\ Broadcast(lmsg[l].tx)
    <3>1. lmsg[l].tx \in Tx /\ lmsg[l].tx \notin history /\ UNCHANGED run
      BY <1>4, <2>1, <2>3, ListenerFrame DEF ProgressInv, BusyPc
    <3> QED
      BY <1>1, <2>1, <2>3, <3>1, ListenerPayments
  <2> QED
    BY <1>2, <2>2, <2>3
<1> QED
  BY <1>2, <1>3, <1>4
  DEF Next, BridgeStep, Start, Crash, Exit, Down, SenderStep, Deliver, Receive, BerithStep

\* A recorded deposit is never paid again, in this run or in a later one.
THEOREM RecordedIsFinal == Spec => NoPayAfterHistory
  BY RecordedStep, Invariance, PTL DEF Spec, NoPayAfterHistory
=============================================================================
