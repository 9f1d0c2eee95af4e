--------------------------- MODULE ReceiverChain ---------------------------
(***************************************************************************)
(* bridge/bridge/receiver.go with blockstore.go and store/: goroutines     *)
(* running listen(), which take one message at a time from the unbuffered  *)
(* msgChan and pay for it.  The code runs two: NewReceiverChain starts one *)
(* and drops its result, Bridge.Start starts the other and returns when it *)
(* ends.  They share the channel, the block file and the history table.    *)
(***************************************************************************)
EXTENDS KlaytnChain

CONSTANTS
    Listener,     \* the goroutines in listen()
    Main,         \* the one of Bridge.Start
    Background,   \* the one of NewReceiverChain
    NoMsg,        \* the value of a message variable that holds no message
    NoFile,       \* the block file does not exist
    EmptyFile     \* the block file exists and holds no byte

ASSUME ListenerAssumption == Listener = {Main, Background} /\ Main # Background
ASSUME NoMsgAssumption == NoMsg \notin Messages
ASSUME FileAssumption ==
    NoFile \notin Nat /\ EmptyFile \notin Nat /\ NoFile # EmptyFile

VARIABLES
    lpc,         \* where each listener is: see ListenerPc
    lmsg,        \* the message it works on, or failed on
    lpay,        \* the transfer it has broadcast, an index of payments
    blockFile,   \* content of <blockstore>/<chain>.block
    history      \* sender_tx_hash column of bers_swap_hist

receiverVars == <<lpc, lmsg, lpay, blockFile, history>>

\* "select": blocked in select; the others name the next call of SendToken,
\* "write" being the second half of StoreBlock's os.WriteFile.
BusyPc == {"history", "transfer", "wait", "store", "write", "record"}
ListenerPc == {"off", "select", "failed"} \cup BusyPc

ReceiverTypeOK ==
    /\ lpc \in [Listener -> ListenerPc]
    /\ lmsg \in [Listener -> Messages \cup {NoMsg}]
    /\ lpay \in [Listener -> Nat]
    /\ blockFile \in Nat \cup {NoFile, EmptyFile}
    /\ history \subseteq Tx

ListenersOff ==
    /\ lpc = [l \in Listener |-> "off"]
    /\ lmsg = [l \in Listener |-> NoMsg]
    /\ lpay = [l \in Listener |-> 0]

StoreInit == blockFile = NoFile /\ history = {}

Goto(l, pc) == lpc' = [lpc EXCEPT ![l] = pc]

\* SendToken is over without an error: back to the select.
Return(l) == /\ Goto(l, "select")
             /\ lmsg' = [lmsg EXCEPT ![l] = NoMsg]
             /\ lpay' = [lpay EXCEPT ![l] = 0]

\* listen() returns the error of SendToken; the message is lost with it.
Fail(l) == Goto(l, "failed") /\ UNCHANGED <<lmsg, lpay>>

\* A message arrives; one the validator refuses is dropped.
Receive(l, m) ==
    /\ lpc[l] = "select"
    /\ IF ValidateStruct(m)
         THEN Goto(l, "history") /\ lmsg' = [lmsg EXCEPT ![l] = m]
         ELSE UNCHANGED <<lpc, lmsg>>
    /\ UNCHANGED <<lpay, blockFile, history, payments>>

PayAlways(l) == Goto(l, "transfer") /\ UNCHANGED <<lmsg, lpay>>

\* What SendToken does with the row it has read.
PayUnlessRecorded(l) ==
    IF lmsg[l].tx \in history
      THEN Return(l)
      ELSE Goto(l, "transfer") /\ UNCHANGED <<lmsg, lpay>>

GetBersSwapHistory(l) ==
    /\ lpc[l] = "history"
    /\ PayUnlessRecorded(l)
    /\ NoFault
    /\ UNCHANGED <<blockFile, history, payments>>

GetBersSwapHistoryFailed(l) ==
    /\ lpc[l] = "history"
    /\ Fail(l)
    /\ Fault("db")
    /\ UNCHANGED <<blockFile, history, payments>>

\* erc20Contract.Transfer up to the broadcast.
Transfer(l) ==
    /\ lpc[l] = "transfer"
    /\ Broadcast(lmsg[l].tx)
    /\ Goto(l, "wait")
    /\ lpay' = [lpay EXCEPT ![l] = Len(payments) + 1]
    /\ NoFault
    /\ UNCHANGED <<lmsg, blockFile, history>>

\* It returns an error: nothing reached the pool, or the answer was lost.
TransferFailed(l) ==
    /\ lpc[l] = "transfer"
    /\ Broadcast(lmsg[l].tx) \/ UNCHANGED payments
    /\ Fail(l)
    /\ Fault("send")
    /\ UNCHANGED <<blockFile, history>>

WaitIgnoresStatus(l) ==
    /\ lpc[l] = "wait"
    /\ payments[lpay[l]].status # "pending"
    /\ Goto(l, "store")
    /\ NoFault
    /\ UNCHANGED <<lmsg, lpay, blockFile, history, payments>>

\* The receipt is there: Transact and SendToken both wait for it, in a row.
WaitAndReturnTxReceipt(l) ==
    /\ lpc[l] = "wait"
    /\ payments[lpay[l]].status # "pending"
    /\ Goto(l, IF Mined(lpay[l]) THEN "store" ELSE "failed")
    /\ NoFault
    /\ UNCHANGED <<lmsg, lpay, blockFile, history, payments>>

\* "tx did not appear": 50 attempts, 5 seconds apart, were not enough.
WaitTimedOut(l) ==
    /\ lpc[l] = "wait"
    /\ Fail(l)
    /\ Fault("timeout")
    /\ UNCHANGED <<blockFile, history, payments>>

\* os.WriteFile opens the file with O_TRUNC, then writes the digits.
StoreBlockOpen(l) ==
    /\ lpc[l] = "store"
    /\ blockFile' = EmptyFile
    /\ Goto(l, "write")
    /\ NoFault
    /\ UNCHANGED <<lmsg, lpay, history, payments>>

StoreNextBlock(l) ==
    /\ lpc[l] = "write"
    /\ blockFile' = lmsg[l].block + 1
    /\ Goto(l, "record")
    /\ NoFault
    /\ UNCHANGED <<lmsg, lpay, history, payments>>

StoreBlockWrite(l) ==
    /\ lpc[l] = "write"
    /\ blockFile' = lmsg[l].block
    /\ Goto(l, "record")
    /\ NoFault
    /\ UNCHANGED <<lmsg, lpay, history, payments>>

StoreBlockFailed(l) ==
    /\ lpc[l] \in {"store", "write"}
    /\ Fail(l)
    /\ Fault("disk")
    /\ UNCHANGED <<blockFile, history, payments>>

\* The insert; a row with the same primary key makes it fail.
CreateSwapHistoryTx(l) ==
    /\ lpc[l] = "record"
    /\ IF lmsg[l].tx \in history THEN Fail(l) ELSE Return(l)
    /\ history' = history \cup {lmsg[l].tx}
    /\ NoFault
    /\ UNCHANGED <<blockFile, payments>>

\* It returns an error: rolled back, or committed and the answer was lost.
CreateSwapHistoryTxFailed(l) ==
    /\ lpc[l] = "record"
    /\ history' \in {history, history \cup {lmsg[l].tx}}
    /\ Fail(l)
    /\ Fault("db")
    /\ UNCHANGED <<blockFile, payments>>

\* NewReceiverChain and Bridge.Start put the listeners to work.
ResetListeners(pc) ==
    /\ lpc' = [l \in Listener |-> pc]
    /\ lmsg' = [l \in Listener |-> NoMsg]
    /\ lpay' = [l \in Listener |-> 0]

StartBackgroundOnly ==
    /\ lpc' = [l \in Listener |-> IF l = Background THEN "select" ELSE "off"]
    /\ lmsg' = [l \in Listener |-> NoMsg]
    /\ lpay' = [l \in Listener |-> 0]

StartListeners == ResetListeners("select")

StopListeners == ResetListeners("off")

\* One step of SendToken in listener l.
SendToken(l) ==
    \/ GetBersSwapHistory(l) \/ GetBersSwapHistoryFailed(l)
    \/ Transfer(l) \/ TransferFailed(l)
    \/ WaitAndReturnTxReceipt(l) \/ WaitTimedOut(l)
    \/ StoreBlockOpen(l) \/ StoreBlockWrite(l) \/ StoreBlockFailed(l)
    \/ CreateSwapHistoryTx(l) \/ CreateSwapHistoryTxFailed(l)
=============================================================================
