-------------------------- MODULE LifecycleProofs --------------------------
(***************************************************************************)
(* A bridge that may be stopped in the middle of its work keeps the        *)
(* inductive invariant of Bridge and still implements Swap.                *)
(***************************************************************************)
EXTENDS Lifecycle, SwapProofs

\* The steps of Stop, and what the goroutines at work notice of them, move
\* program counters only: the sender to its end, listeners to a failure.
LEMMA InvStopped ==
    ASSUME IInv, faults' \in Nat,
           UNCHANGED <<chainVars, up, run, startBlock, currentBlock, retry, logs, msgs>>,
           UNCHANGED <<lmsg, lpay, blockFile, history, payments>>,
           spc' = spc \/ (spc = "poll" /\ spc' = "ended"),
           lpc' \in [Listener -> ListenerPc],
           \A l \in Listener :
              lpc'[l] = lpc[l] \/ (lpc[l] \in {"select"} \cup BusyPc /\ lpc'[l] = "failed")
    PROVE  IInv'
<1> USE DEF chainVars
<1>1. TypeOK'
  <2>1. TypeOK
    BY DEF IInv
  <2>2. ChainTypeOK' /\ ReceiverTypeOK' /\ KlaytnTypeOK'
    BY <2>1 DEF TypeOK, ChainTypeOK, ReceiverTypeOK, KlaytnTypeOK
  <2>3. RuntimeTypeOK'
    <3>1. up' \in BOOLEAN
      BY <2>1, Zenon DEF TypeOK, RuntimeTypeOK
    <3> QED
      BY <2>1, <3>1 DEF TypeOK, RuntimeTypeOK
  <2>4. SenderTypeOK'
    BY <2>1 DEF TypeOK, SenderTypeOK, SenderPc
  <2>5. \A l \in Listener : lpc'[l] \in BusyPc => lmsg'[l] \in Messages
    BY <2>1 DEF TypeOK, BusyPc
  <2> QED
    BY <2>2, <2>3, <2>4, <2>5 DEF TypeOK
<1>2. ProcessInv'
  BY DEF IInv, ProcessInv, BusyPc
<1>3. ScanInv'
  <2>1. \A t : DepositMessage(t)' = DepositMessage(t)
    BY DEF DepositMessage, NewDepositMessage, DepositRecipient
  <2>2. FilterLogs(currentBlock)' = FilterLogs(currentBlock)
        /\ (Ready(currentBlock)' <=> Ready(currentBlock))
    BY DEF FilterLogs, Ready
  <2> QED
    BY <2>1, <2>2 DEF IInv, ScanInv
<1>4. \A t : Passed(t)' <=> Passed(t)
  BY DEF Passed, DepositMessage, NewDepositMessage, DepositRecipient
<1>5. \A t : /\ PaymentsFor(t)' = PaymentsFor(t)
             /\ PaidInRun(t)' <=> PaidInRun(t)
             /\ Paid(t)' <=> Paid(t)
             /\ Confirmed(t)' <=> Confirmed(t)
  BY DEF PaymentsFor, PaidInRun, Paid, Mined, Confirmed
<1>6. \A l \in Listener : HeldInv(l)'
  BY <1>4 DEF IInv, HeldInv, BusyPc
<1>7. \A l \in Listener : ProgressInv(l)'
  BY <1>5 DEF IInv, ProgressInv, BusyPc, Mined
<1>8. DistinctInv' /\ PaymentInv' /\ PaymentsConfirmed' /\ OnePaymentPerRun'
  BY <1>4, <1>5 DEF IInv, DistinctInv, PaymentInv, PaymentsConfirmed, OnePaymentPerRun
<1>9. HistoryImpliesPaid' /\ CheckpointSound'
  BY <1>5 DEF IInv, HistoryImpliesPaid, CheckpointSound
<1>10. PassedAccounted'
  <2>1. \A l \in Listener, t \in Tx : Holds(l, t) => Holds(l, t)'
    BY DEF Holds, BusyPc
  <2> QED
    BY <1>4, <2>1 DEF IInv, PassedAccounted
<1> QED
  BY <1>1, <1>2, <1>3, <1>6, <1>7, <1>8, <1>9, <1>10 DEF IInv

\* The steps that Bridge does not have.
StoppingStep ==
    \/ CallStop \/ StopStep \/ PollStopped
    \/ \E l \in Listener : StoreClosed(l)

LEMMA InvStopping == IInv /\ StoppingStep => IInv'
<1> SUFFICES ASSUME IInv, StoppingStep PROVE IInv'
  OBVIOUS
<1> USE DEF vars, chainVars, runtimeVars, senderVars, receiverVars
<1>1. faults \in Nat /\ lpc \in [Listener -> ListenerPc]
  BY DEF IInv, TypeOK, RuntimeTypeOK, ReceiverTypeOK
<1>2. CASE CallStop \/ SenderStop \/ SetIsStopped \/ StoreStop \/ PollStopped
  BY <1>1, <1>2, InvStopped
  DEF CallStop, SenderStop, SetIsStopped, StoreStop, PollStopped, Fault, NoFault
<1>3. ASSUME NEW l \in Listener, ReceiverStop(l) \/ StoreClosed(l)
      PROVE  IInv'
  <2>1. /\ lpc[l] \in {"select"} \cup BusyPc
        /\ lpc' = [lpc EXCEPT ![l] = "failed"]
        /\ UNCHANGED <<lmsg, lpay, blockFile, history, payments>>
        /\ UNCHANGED <<chainVars, runtimeVars, senderVars>>
    BY <1>3 DEF ReceiverStop, StoreClosed, Fail, Goto, NoFault, BusyPc
  <2>2. /\ lpc' \in [Listener -> ListenerPc]
        /\ \A k \in Listener : lpc'[k] = lpc[k] \/ (k = l /\ lpc'[k] = "failed")
    BY <1>1, <2>1 DEF ListenerPc
  <2> QED
    BY <1>1, <2>1, <2>2, InvStopped
<1> QED
  BY <1>2, <1>3 DEF StoppingStep, StopStep

\* A step of Lifecycle is a step of Bridge, or one of the steps above.
LEMMA LifeStep == LifeNext => Next \/ StoppingStep
  BY DEF LifeNext, StoppingStep, LifeStart, LifeExit, LifeCrash, LifeWorld,
         PollUnlessStopped, LifeDeliver, ListenUnlessClosed, Next, BridgeStep

LEMMA LifeInvStep == IInv /\ [LifeNext]_lifeVars => IInv'
<1>1. IInv /\ UNCHANGED lifeVars => IInv'
  BY InvStep DEF lifeVars
<1>2. IInv /\ Next => IInv'
  BY InvStep
<1> QED
  BY <1>1, <1>2, LifeStep, InvStopping

\* The inductive invariant of the bridge holds although Stop may close the
\* store and end a listener at any moment.
THEOREM StopKeepsInvariant == LifeSpec => []IInv
<1>1. LifeInit => IInv
  BY InvInit DEF LifeInit
<1> QED
  BY <1>1, LifeInvStep, PTL DEF LifeSpec

LEMMA LifeSwapStep == IInv /\ [LifeNext]_lifeVars => [Promise!Next]_Promise!swapVars
<1>1. UNCHANGED lifeVars => UNCHANGED vars
  BY DEF lifeVars
<1>2. StoppingStep => UNCHANGED Promise!swapVars
  <2> SUFFICES ASSUME StoppingStep PROVE UNCHANGED Promise!swapVars
    OBVIOUS
  <2>1. UNCHANGED <<chainVars, run, history, payments>>
    BY DEF StoppingStep, StopStep, CallStop, SenderStop, SetIsStopped, StoreStop, ReceiverStop,
           PollStopped, StoreClosed, vars, runtimeVars, receiverVars
  <2> QED
    BY <2>1, SwapStutter
<1> QED
  BY <1>1, <1>2, SwapStep, LifeStep

\* A bridge that is stopped and started keeps the promise of Swap.
THEOREM StopRefinement == LifeSpec => ImplementsSwap
<1>1. LifeInit => Promise!Init
  BY SwapInit DEF LifeInit
<1> QED
  BY <1>1, LifeSwapStep, StopKeepsInvariant, PTL DEF LifeSpec, ImplementsSwap, Promise!Spec

\* However it is stopped, no deposit behind pollBlocks is unrecorded and in
\* nobody's hands.
THEOREM StopDropsNoDeposit == LifeSpec => []Accounted
<1>1. IInv => Accounted
  BY DEF IInv, PassedAccounted, Passed, Accounted
<1> QED
  BY <1>1, StopKeepsInvariant, PTL

\* What the two databases and the chain say of payments stays true under
\* Stop: rows stand for mined transfers, transfers for confirmed deposits, one
\* in a run for each, and the block file names a deposit that was paid.
THEOREM StopKeepsPayments ==
    LifeSpec => [](/\ HistoryImpliesPaid /\ PaymentsConfirmed /\ OnePaymentPerRun
                   /\ CheckpointSound /\ TransfersBounded)
<1>1. IInv => /\ HistoryImpliesPaid /\ PaymentsConfirmed /\ OnePaymentPerRun
              /\ CheckpointSound /\ TransfersBounded
  BY BoundedByRuns DEF IInv
<1> QED
  BY <1>1, StopKeepsInvariant, PTL

\* A listener that meets the closed database does not take it for an empty
\* one: what has a row is not paid again.
THEOREM StopKeepsRecorded == LifeSpec => NoPayAfterHistory
<1>1. IInv /\ [LifeNext]_lifeVars => [\A t \in history : PaymentsFor(t)' = PaymentsFor(t)]_vars
  <2>1. StoppingStep => UNCHANGED payments
    BY DEF StoppingStep, StopStep, CallStop, SenderStop, SetIsStopped, StoreStop, ReceiverStop,
           PollStopped, StoreClosed, vars
  <2>2. UNCHANGED payments => \A t \in history : PaymentsFor(t)' = PaymentsFor(t)
    BY DEF PaymentsFor
  <2>3. UNCHANGED lifeVars => UNCHANGED vars
    BY DEF lifeVars
  <2> QED
    BY <2>1, <2>2, <2>3, RecordedStep, LifeStep
<1> QED
  BY <1>1, StopKeepsInvariant, PTL DEF LifeSpec, NoPayAfterHistory

LEMMA LifeLaunchStep == IInv /\ [LifeNext]_lifeVars => [Process!Next]_Process!launchVars
<1>1. UNCHANGED lifeVars => UNCHANGED vars
  BY DEF lifeVars
<1>2. StoppingStep => UNCHANGED Process!launchVars
  BY DEF StoppingStep, StopStep, CallStop, SenderStop, SetIsStopped, StoreStop, ReceiverStop,
         PollStopped, StoreClosed, vars, chainVars, runtimeVars, senderVars, receiverVars,
         Process!launchVars
<1> QED
  BY <1>1, <1>2, LaunchStep, LifeStep

\* A bridge that was stopped starts again where one that crashed would.
THEOREM StopStartsWhereItMay == LifeSpec => ImplementsLaunch
<1>1. LifeInit => Process!Init
  BY LaunchInit DEF LifeInit
<1> QED
  BY <1>1, LifeLaunchStep, StopKeepsInvariant, PTL DEF LifeSpec, ImplementsLaunch, Process!Spec

\* The sender, the listeners and the goroutine in Stop stay in their types.
THEOREM StopTyped == LifeSpec => [](TypeOK /\ StopTypeOK)
<1>1. LifeInit => StopTypeOK
  BY DEF LifeInit, NotStopped, StopTypeOK, StopPc
<1>2. StopTypeOK /\ [LifeNext]_lifeVars => StopTypeOK'
  BY DEF StopTypeOK, StopPc, LifeNext, LifeStart, LifeExit, LifeCrash, LifeWorld, CallStop,
         StopStep, SenderStop, SetIsStopped, StoreStop, ReceiverStop, AdvanceStop, PollStopped,
         PollUnlessStopped, LifeDeliver, ListenUnlessClosed, StoreClosed, lifeVars, stopVars
<1>3. IInv => TypeOK
  BY DEF IInv
<1> QED
  BY <1>1, <1>2, <1>3, StopKeepsInvariant, PTL DEF LifeSpec
=============================================================================
