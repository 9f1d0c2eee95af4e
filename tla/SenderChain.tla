---------------------------- MODULE SenderChain ----------------------------
(***************************************************************************)
(* bridge/bridge/sender.go: the goroutine that polls the Berith chain      *)
(* block by block and hands one message per Deposit event to the receiver  *)
(* chain over the unbuffered msgChan.  The slice of logs and the slice of  *)
(* messages of a block are sets: the order inside one block is left open.  *)
(***************************************************************************)
EXTENDS BerithChain, Runtime

CONSTANTS
    Confirmations,     \* blockConfirmations of the configuration
    BlockRetryLimit    \* failures in a row after which pollBlocks gives up

ASSUME SenderAssumption ==
    /\ Confirmations \in Nat
    /\ BlockRetryLimit \in Nat \ {0}

VARIABLES
    spc,            \* where pollBlocks is: see SenderPc
    startBlock,     \* the block the present run started from
    currentBlock,   \* the block being polled
    retry,          \* failures left before pollBlocks returns
    logs,           \* transactions of the block not looked up yet
    msgs            \* messages of the block not handed over yet

senderVars == <<spc, startBlock, currentBlock, retry, logs, msgs>>

SenderPc == {"off", "poll", "fetch", "lookup", "send", "ended"}

SenderTypeOK ==
    /\ spc \in SenderPc
    /\ startBlock \in Nat
    /\ currentBlock \in Nat
    /\ retry \in 0..BlockRetryLimit
    /\ spc \in {"fetch", "lookup", "send"} => retry # 0
    /\ logs \subseteq Tx
    /\ msgs \subseteq Messages

SenderOff ==
    /\ spc = "off"
    /\ startBlock = 0 /\ currentBlock = 0 /\ retry = 0
    /\ logs = {} /\ msgs = {}

DepositMessage(t) == NewDepositMessage(currentBlock, t, DepositRecipient(t))

\* The distance to the latest block that pollBlocks asks for.
ReadyOffByOne(b) == height + 1 >= b + Confirmations
Ready(b) == height >= b + Confirmations

SkipBlock == /\ Fault("rpc")
             /\ currentBlock' = currentBlock + 1
             /\ spc' = "poll"
             /\ logs' = {} /\ msgs' = {}
             /\ UNCHANGED <<startBlock, retry>>

\* A failed RPC costs a retry and sends pollBlocks back to the loop head.
RetryPoll == /\ Fault("rpc")
             /\ retry' = retry - 1
             /\ spc' = "poll"
             /\ logs' = {} /\ msgs' = {}
             /\ UNCHANGED <<startBlock, currentBlock>>

LatestBlockFailedUnchecked == spc = "poll" /\ RetryPoll

LatestBlockFailed == spc = "poll" /\ retry # 0 /\ RetryPoll

LatestBlockNumber ==
    /\ spc = "poll" /\ retry # 0
    /\ Ready(currentBlock)
    /\ spc' = "fetch"
    /\ NoFault
    /\ UNCHANGED <<startBlock, currentBlock, retry, logs, msgs>>

FetchEventLogs ==
    /\ spc = "fetch"
    /\ logs' = FilterLogs(currentBlock)
    /\ spc' = IF logs' = {} THEN "send" ELSE "lookup"
    /\ NoFault
    /\ UNCHANGED <<startBlock, currentBlock, retry, msgs>>

FetchEventLogsFailed == spc = "fetch" /\ RetryPoll

\* TransactionByHash for one log.  A transaction that a reorganisation made
\* pending again since FetchEventLogs is skipped.
TransactionByHash(t) ==
    /\ spc = "lookup"
    /\ t \in logs
    /\ logs' = logs \ {t}
    /\ msgs' = IF blockOf[t] = 0 THEN msgs ELSE msgs \cup {DepositMessage(t)}
    /\ spc' = IF logs' = {} THEN "send" ELSE "lookup"
    /\ NoFault
    /\ UNCHANGED <<startBlock, currentBlock, retry>>

TransactionByHashFailed == spc = "lookup" /\ RetryPoll

\* One send of SendMsgs; the rendezvous with a listener is in Bridge.
SendMsg(m) ==
    /\ spc = "send"
    /\ m \in msgs
    /\ msgs' = msgs \ {m}
    /\ NoFault
    /\ UNCHANGED <<spc, startBlock, currentBlock, retry, logs>>

NextBlockEarly ==
    /\ spc = "send"
    /\ currentBlock' = currentBlock + 1
    /\ retry' = BlockRetryLimit
    /\ spc' = "poll" /\ msgs' = {}
    /\ NoFault
    /\ UNCHANGED <<startBlock, logs>>

NextBlock ==
    /\ spc = "send" /\ msgs = {}
    /\ currentBlock' = currentBlock + 1
    /\ retry' = BlockRetryLimit
    /\ spc' = "poll"
    /\ NoFault
    /\ UNCHANGED <<startBlock, logs, msgs>>

\* "retries exceeded": pollBlocks closes the client and returns an error.
RetriesExceeded ==
    /\ spc = "poll" /\ retry = 0
    /\ spc' = "ended"
    /\ NoFault
    /\ UNCHANGED <<startBlock, currentBlock, retry, logs, msgs>>

\* NewSenderChain starts at block b; NewBridge and Start put it to work.
StartSender(b) ==
    /\ spc' = "poll"
    /\ startBlock' = b /\ currentBlock' = b
    /\ retry' = BlockRetryLimit
    /\ logs' = {} /\ msgs' = {}

StopSender ==
    /\ spc' = "off"
    /\ startBlock' = 0 /\ currentBlock' = 0 /\ retry' = 0
    /\ logs' = {} /\ msgs' = {}

PollStep ==
    \/ LatestBlockNumber \/ LatestBlockFailed
    \/ FetchEventLogs \/ FetchEventLogsFailed
    \/ (\E t \in Tx : TransactionByHash(t)) \/ TransactionByHashFailed
    \/ NextBlock \/ RetriesExceeded
=============================================================================
