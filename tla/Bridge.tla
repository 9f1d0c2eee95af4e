------------------------------- MODULE Bridge -------------------------------
(***************************************************************************)
(* The bridge process (bridge/bridge/bridge.go and main.go): one sender    *)
(* goroutine and two listeners on one unbuffered channel, between the      *)
(* Berith chain, the Klaytn chain, the block file and the history table.   *)
(* The process may crash or exit at any point and be started again.        *)
(***************************************************************************)
EXTENDS SenderChain, ReceiverChain, FiniteSets

CONSTANT IsLoaded    \* the --load flag

ASSUME LoadAssumption == IsLoaded \in BOOLEAN

\* What blockConfirmations is for: no reorganisation replaces a block that
\* the sender chain already reads.
ASSUME FinalityAssumption == MaxReorg <= Confirmations

bridgeVars == <<up, run, senderVars, receiverVars>>
vars == <<chainVars, runtimeVars, senderVars, receiverVars, payments>>

Init ==
    /\ ChainInit
    /\ up = FALSE /\ run = 0 /\ faults = 0
    /\ SenderOff /\ ListenersOff /\ StoreInit
    /\ payments = <<>>

(***************************************************************************)
(* The process.                                                            *)
(***************************************************************************)

\* A start after the stored block instead of at it (to break StartBlock).
StartBlockNext ==
    CASE ~IsLoaded         -> height
      [] blockFile = NoFile -> 0
      [] OTHER              -> blockFile + 1

StartBlock ==
    CASE ~IsLoaded         -> height
      [] blockFile = NoFile -> 0
      [] OTHER              -> blockFile

\* NewBridge and Start.  With --load a file that does not parse is a panic.
Start ==
    /\ ~up
    /\ IsLoaded => blockFile # EmptyFile
    /\ up' = TRUE /\ run' = run + 1
    /\ StartSender(StartBlock)
    /\ StartListeners
    /\ UNCHANGED <<chainVars, faults, blockFile, history, payments>>

Down ==
    /\ up
    /\ up' = FALSE
    /\ StopSender /\ StopListeners
    /\ UNCHANGED <<chainVars, run, blockFile, history, payments>>

Crash == Down /\ Fault("crash")

\* Start returns the first error that pollBlocks or the main listener sends,
\* and main exits.  Nobody receives the error of the other listener.
Exit == Down /\ (spc = "ended" \/ lpc[Main] = "failed") /\ NoFault

\* One send of SendMsgs meets one receive of a listener.
Deliver(l) ==
    /\ \E m \in msgs : SendMsg(m) /\ Receive(l, m)
    /\ UNCHANGED <<chainVars, up, run>>

SenderStep == PollStep /\ UNCHANGED <<chainVars, up, run, receiverVars, payments>>

ListenerStep(l) == SendToken(l) /\ UNCHANGED <<chainVars, up, run, senderVars>>

BridgeStep == SenderStep \/ \E l \in Listener : Deliver(l) \/ ListenerStep(l)

(***************************************************************************)
(* The two chains.                                                         *)
(***************************************************************************)

BerithStep ==
    /\ (MineBlock /\ NoFault) \/ (Reorg /\ Fault("reorg"))
    /\ UNCHANGED <<bridgeVars, payments>>

KlaytnStep ==
    /\ \E i \in DOMAIN payments : MinePayment(i) \/ RevertPayment(i)
    /\ UNCHANGED <<chainVars, bridgeVars>>

Next == Start \/ Crash \/ Exit \/ BridgeStep \/ BerithStep \/ KlaytnStep

Spec == Init /\ [][Next]_vars

\* Go runs every goroutine that can go on; Klaytn mines what is in its pool;
\* start_bridge.sh starts the process again.  Nothing forces Berith to mine.
Fairness ==
    /\ WF_vars(Start) /\ WF_vars(Exit)
    /\ WF_vars(SenderStep)
    /\ \A l \in Listener : WF_vars(Deliver(l)) /\ WF_vars(ListenerStep(l))
    /\ WF_vars(\E i \in DOMAIN payments : MinePayment(i)
                                          /\ UNCHANGED <<chainVars, bridgeVars>>)

FairSpec == Spec /\ Fairness
-----------------------------------------------------------------------------
(***************************************************************************)
(* Properties.                                                             *)
(***************************************************************************)

\* Every variable has its type.
TypeOK ==
    /\ ChainTypeOK /\ RuntimeTypeOK /\ SenderTypeOK
    /\ ReceiverTypeOK /\ KlaytnTypeOK
    /\ \A l \in Listener : lpc[l] \in BusyPc => lmsg[l] \in Messages

Confirmed(t) == blockOf[t] # 0 /\ height >= blockOf[t] + Confirmations

PaymentsFor(t) == {i \in DOMAIN payments : payments[i].dep = t}

Paid(t) == \E i \in PaymentsFor(t) : Mined(i)

Holds(l, t) == lpc[l] \in BusyPc \cup {"failed"} /\ lmsg[l] # NoMsg /\ lmsg[l].tx = t

\* When TransactionByHash is asked for the transaction of a log, some time
\* after FetchEventLogs, the log is still in the block it was fetched from: no
\* deposit is skipped as pending, and none is announced with a wrong block.
LogsInBlock == spc = "lookup" => \A t \in logs : blockOf[t] = currentBlock

\* A row of the history table stands for a transfer that was mined: an insert
\* never happens on the strength of a pending or reverted one.
HistoryImpliesPaid == \A t \in history : Paid(t)

\* Tokens move only for deposits that are buried under blockConfirmations
\* blocks, now and for ever: a reorganisation never takes the deposit back
\* from under a payment.
PaymentsConfirmed == \A i \in DOMAIN payments : Confirmed(payments[i].dep)

\* Although two listeners race for messages and read the history before they
\* write it, one run of the process never pays twice for one deposit.
OnePaymentPerRun ==
    \A i, j \in DOMAIN payments :
       /\ payments[i].dep = payments[j].dep
       /\ payments[i].run = payments[j].run
       => i = j

\* What a process that ends between a transfer and its row can cost: a deposit
\* is paid again at most once for each time the process was started.
TransfersBounded == \A t \in Tx : Cardinality(PaymentsFor(t)) <= run

\* No deposit falls through: once pollBlocks has gone past its block, a
\* deposit is in the history table or in the hands of a listener that works
\* on it or gave up on it.
Accounted ==
    \A t \in Tx :
       (blockOf[t] # 0 /\ startBlock <= blockOf[t] /\ blockOf[t] < currentBlock)
          => t \in history \/ \E l \in Listener : Holds(l, t)

\* The number in the block file is the block of a deposit that was paid, so a
\* restart never begins past every block that was paid for.
CheckpointSound ==
    blockFile \in Nat => \E t \in Tx : blockOf[t] = blockFile /\ Paid(t)

\* A deposit with a row in the history table is never paid again, whatever
\* was lost in a crash and however often its block is scanned again.
NoPayAfterHistory ==
    [][\A t \in history : PaymentsFor(t)' = PaymentsFor(t)]_vars

\* While no listener can fail and the process does not crash, every deposit
\* that is confirmed is recorded in the end.
EveryDepositRecorded ==
    \A t \in Tx : [](Confirmed(t) => <>(t \in history))

\* pollBlocks never stays blocked on the channel: a listener comes back to
\* receive, or the process exits.
SenderGetsThrough == []<>(spc # "send")
=============================================================================
