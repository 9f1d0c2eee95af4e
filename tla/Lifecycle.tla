----------------------------- MODULE Lifecycle -----------------------------
(***************************************************************************)
(* Bridge.Stop (bridge.go) with SenderChain.Stop, ReceiverChain.Stop and   *)
(* Store.Stop, against a bridge that is at work.  Stop is called from a    *)
(* goroutine of its own, once in a run; the program ends when Start        *)
(* returns, as main does.  Every other step is the one of Bridge.          *)
(***************************************************************************)
EXTENDS BridgeInv

VARIABLES
    stopPc,      \* where Bridge.Stop is: "idle" or its next statement
    isStopped    \* the flag of pollBlocks; "taken": the watcher has the signal

stopVars == <<stopPc, isStopped>>
lifeVars == <<vars, stopVars>>

StopPc == {"idle", "sender", "store", "receiver", "done"}

StopTypeOK == stopPc \in StopPc /\ isStopped \in {"clear", "taken", "set"}

\* sql.DB.Close is irrevocable.
StoreOpen == stopPc \notin {"receiver", "done"}

NotStopped == stopPc = "idle" /\ isStopped = "clear"

LifeInit == Init /\ NotStopped

(***************************************************************************)
(* The statements of Bridge.Stop.                                          *)
(***************************************************************************)
AdvanceStop(from, to) == stopPc = from /\ stopPc' = to

CallStop ==
    /\ up /\ AdvanceStop("idle", "sender")
    /\ Fault("stop")
    /\ UNCHANGED <<isStopped, chainVars, up, run, senderVars, receiverVars, payments>>

\* s.stop is unbuffered: the send meets the watcher goroutine of pollBlocks,
\* which takes one signal and is gone.
SenderStop ==
    /\ AdvanceStop("sender", "store")
    /\ isStopped = "clear" /\ isStopped' = "taken"
    /\ UNCHANGED vars

SetIsStoppedShadowed == isStopped = "taken" /\ UNCHANGED lifeVars

\* The watcher sets the flag some time after Stop has gone on.
SetIsStopped ==
    /\ isStopped = "taken" /\ isStopped' = "set"
    /\ UNCHANGED <<stopPc, vars>>

StoreStop ==
    /\ AdvanceStop("store", "receiver")
    /\ UNCHANGED <<isStopped, vars>>

\* r.stop is unbuffered too and both listeners select on it: one of them
\* takes the signal and returns, the other never hears of it.
ReceiverStop(l) ==
    /\ AdvanceStop("receiver", "done")
    /\ lpc[l] = "select"
    /\ Fail(l)
    /\ UNCHANGED <<isStopped, chainVars, runtimeVars, senderVars, blockFile, history, payments>>

(***************************************************************************)
(* What the goroutines at work notice of it.                               *)
(***************************************************************************)

\* The head of the loop.  Nobody but pollBlocks reads the flag.
PollStopped ==
    /\ spc = "poll" /\ isStopped = "set"
    /\ spc' = "ended"
    /\ NoFault
    /\ UNCHANGED <<stopVars, chainVars, up, run, receiverVars, payments,
                   startBlock, currentBlock, retry, logs, msgs>>

PollUnlessStopped ==
    /\ spc = "poll" => isStopped # "set"
    /\ SenderStep
    /\ UNCHANGED stopVars

ClosedStoreLooksEmpty(l) ==
    /\ ~StoreOpen /\ lpc[l] = "history"
    /\ PayAlways(l)
    /\ NoFault
    /\ UNCHANGED <<stopVars, chainVars, up, run, senderVars, blockFile, history, payments>>

ClosedStoreIgnored(l) ==
    /\ ~StoreOpen /\ lpc[l] \in {"history", "record"}
    /\ Return(l)
    /\ NoFault
    /\ UNCHANGED <<stopVars, chainVars, up, run, senderVars, blockFile, history, payments>>

\* Every query on the closed database is an error.
StoreClosed(l) ==
    /\ ~StoreOpen /\ lpc[l] \in {"history", "record"}
    /\ Fail(l)
    /\ NoFault
    /\ UNCHANGED <<stopVars, chainVars, up, run, senderVars, blockFile, history, payments>>

ListenUnlessClosed(l) ==
    /\ lpc[l] \in {"history", "record"} => StoreOpen
    /\ ListenerStep(l)
    /\ UNCHANGED stopVars

LifeDeliver(l) == Deliver(l) /\ UNCHANGED stopVars

LifeStart == Start /\ UNCHANGED stopVars

LifeExit == Exit /\ stopPc' = "idle" /\ isStopped' = "clear"

LifeCrash == Crash /\ stopPc' = "idle" /\ isStopped' = "clear"

LifeWorld == (BerithStep \/ KlaytnStep) /\ UNCHANGED stopVars

StopStep ==
    \/ SenderStop \/ SetIsStopped \/ StoreStop
    \/ \E l \in Listener : ReceiverStop(l)

LifeNext ==
    \/ LifeStart \/ LifeExit \/ LifeCrash \/ LifeWorld
    \/ CallStop \/ StopStep
    \/ PollStopped \/ PollUnlessStopped
    \/ \E l \in Listener : LifeDeliver(l) \/ ListenUnlessClosed(l) \/ StoreClosed(l)

LifeSpec == LifeInit /\ [][LifeNext]_lifeVars

\* The fairness of Bridge, and of the goroutine in Stop and the watcher.
LifeFairness ==
    /\ WF_lifeVars(LifeStart) /\ WF_lifeVars(LifeExit)
    /\ WF_lifeVars(StopStep) /\ WF_lifeVars(SetIsStopped)
    /\ WF_lifeVars(PollStopped \/ PollUnlessStopped)
    /\ \A l \in Listener :
          WF_lifeVars(LifeDeliver(l)) /\ WF_lifeVars(ListenUnlessClosed(l) \/ StoreClosed(l))
    /\ WF_lifeVars(LifeWorld /\ \E i \in DOMAIN payments : MinePayment(i))

LifeFairSpec == LifeSpec /\ LifeFairness
-----------------------------------------------------------------------------
(***************************************************************************)
(* Properties.                                                             *)
(***************************************************************************)

\* A call of Stop ends the program, wherever the sender and the listeners
\* are: whoever does not take a signal fails on the closed database or is
\* left behind by a Start that returns.  Stop itself may hang.
StopEndsProcess == stopPc = "sender" ~> ~up
=============================================================================
