----------------------------- MODULE Transactor -----------------------------
(***************************************************************************)
(* transaction/transactor.go and the nonce of connection/connection.go:    *)
(* the two listeners of a receiver chain share one EvmClient, whose cached *)
(* nonce is protected by nonceLock.  A caller is a listener inside         *)
(* erc20Contract.Transfer; when the call fails the listener is gone.       *)
(*                                                                         *)
(* The account's transactions are nonces here: mined of them are mined,    *)
(* pool holds those a node has accepted and not mined yet, with gaps.      *)
(***************************************************************************)
EXTENDS Runtime, Sequences

CONSTANTS
    Caller,      \* the goroutines that call Transact
    Free,        \* the value of lock when nobody holds it
    NoNonce,     \* c.nonce == nil
    MaxCalls,    \* bound: how many calls a behaviour has
    MaxNonce,    \* bound: no view of the account's nonce is above it
    Lagging      \* a node may answer before it has seen the latest broadcasts

ASSUME CallerAssumption == Free \notin Caller
ASSUME NonceAssumption == NoNonce \notin Nat
ASSUME BoundAssumption == MaxCalls \in Nat /\ MaxNonce \in Nat /\ Lagging \in BOOLEAN

VARIABLES
    lock,       \* who holds nonceLock
    nonce,      \* c.nonce
    tpc,        \* where each caller is: see TransactPc
    txNonce,    \* the nonce a caller has read
    calls,      \* the number of calls so far
    mined, pool,
    own         \* ghost: nonces of this process's acknowledged broadcasts

nodeVars == <<mined, pool>>
transactorVars == <<up, run, faults, lock, nonce, tpc, txNonce, calls, mined, pool, own>>

\* Locked names the calls made under nonceLock.
Locked == {"nonce", "price", "send", "increase"}
TransactPc == {"idle", "lock", "wait", "failed"} \cup Locked

TypeOK ==
    /\ RuntimeTypeOK
    /\ lock \in Caller \cup {Free}
    /\ nonce \in Nat \cup {NoNonce}
    /\ tpc \in [Caller -> TransactPc]
    /\ txNonce \in [Caller -> Nat \cup {NoNonce}]
    /\ calls \in Nat /\ mined \in Nat /\ pool \subseteq Nat
    /\ own \in Seq(Nat)

FreshProcess ==
    /\ lock' = Free /\ nonce' = NoNonce
    /\ tpc' = [c \in Caller |-> "idle"]
    /\ txNonce' = [c \in Caller |-> NoNonce]
    /\ own' = <<>>

Init ==
    /\ up = TRUE /\ run = 1 /\ faults = 0
    /\ lock = Free /\ nonce = NoNonce
    /\ tpc = [c \in Caller |-> "idle"]
    /\ txNonce = [c \in Caller |-> NoNonce]
    /\ calls = 0 /\ mined = 0 /\ pool = {} /\ own = <<>>

\* What PendingNonceAt may answer: as far as the account's transactions go
\* without a gap, or less when the node lags behind.
PendingNonces ==
    {n \in mined..MaxNonce : /\ \A k \in mined..(n - 1) : k \in pool
                             /\ Lagging \/ n \notin pool}

\* The cached nonce after UnsafeNonce has seen the answer p.
Refresh(p) == IF nonce = NoNonce \/ nonce < p THEN p ELSE nonce

Goto(c, pc) == tpc' = [tpc EXCEPT ![c] = pc]

Unlock(c, pc) == Goto(c, pc) /\ lock' = Free

\* SendToken calls Transfer.
Call(c) ==
    /\ up /\ tpc[c] = "idle" /\ calls < MaxCalls
    /\ Goto(c, "lock")
    /\ calls' = calls + 1
    /\ UNCHANGED <<up, run, faults, lock, nonce, txNonce, nodeVars, own>>

LockNonce(c) ==
    /\ tpc[c] = "lock" /\ lock = Free
    /\ lock' = c
    /\ Goto(c, "nonce")
    /\ UNCHANGED <<up, run, faults, nonce, txNonce, calls, nodeVars, own>>

\* UnsafeNonce.  A failed RPC leaves a cached nonce in use; without one the
\* eleventh failure returns nil, and no error: the inner err shadows it.
UnsafeNonce(c) ==
    /\ tpc[c] = "nonce"
    /\ \/ \E p \in PendingNonces : nonce' = Refresh(p)
       \/ nonce' = nonce
    /\ txNonce' = [txNonce EXCEPT ![c] = nonce']
    /\ Goto(c, "price")
    /\ UNCHANGED <<up, run, faults, lock, calls, nodeVars, own>>

GasPrice(c) ==
    /\ tpc[c] = "price"
    /\ Goto(c, "send")
    /\ UNCHANGED <<up, run, faults, lock, nonce, txNonce, calls, nodeVars, own>>

GasPriceFailedLocked(c) ==
    /\ tpc[c] = "price"
    /\ Goto(c, "failed")
    /\ UNCHANGED <<up, run, faults, lock, nonce, txNonce, calls, nodeVars, own>>

GasPriceFailed(c) ==
    /\ tpc[c] = "price"
    /\ Unlock(c, "failed")
    /\ UNCHANGED <<up, run, faults, nonce, txNonce, calls, nodeVars, own>>

\* TxFabric is called with n.Uint64(): a nil n is a panic.
NilNonce(c) ==
    /\ tpc[c] = "send" /\ txNonce[c] = NoNonce
    /\ up' = FALSE
    /\ FreshProcess
    /\ UNCHANGED <<run, faults, calls, nodeVars>>

UnlockBeforeIncrease(c) ==
    /\ tpc[c] = "send" /\ txNonce[c] # NoNonce
    /\ txNonce[c] >= mined
    /\ pool' = pool \cup {txNonce[c]}
    /\ own' = Append(own, txNonce[c])
    /\ Unlock(c, "increase")
    /\ UNCHANGED <<up, run, faults, nonce, txNonce, calls, mined>>

\* A node accepts a nonce that is not mined; one that is in its pool already
\* replaces the transaction there.
SignAndSendTransaction(c) ==
    /\ tpc[c] = "send" /\ txNonce[c] # NoNonce
    /\ txNonce[c] >= mined
    /\ pool' = pool \cup {txNonce[c]}
    /\ own' = Append(own, txNonce[c])
    /\ Goto(c, "increase")
    /\ UNCHANGED <<up, run, faults, lock, nonce, txNonce, calls, mined>>

\* It returns an error: refused, or accepted and the answer was lost.
SignAndSendFailed(c) ==
    /\ tpc[c] = "send" /\ txNonce[c] # NoNonce
    /\ pool' \in {pool} \cup {pool \cup {n} : n \in {txNonce[c]} \ 0..(mined - 1)}
    /\ Unlock(c, "failed")
    /\ UNCHANGED <<up, run, faults, nonce, txNonce, calls, mined, own>>

IncreaseForgotten(c) ==
    /\ tpc[c] = "increase"
    /\ \E p \in PendingNonces : nonce' = Refresh(p)
    /\ Unlock(c, "wait")
    /\ UNCHANGED <<up, run, faults, txNonce, calls, nodeVars, own>>

\* UnsafeIncreaseNonce asks the node again before it adds one.
UnsafeIncreaseNonce(c) ==
    /\ tpc[c] = "increase"
    /\ \/ \E p \in PendingNonces : nonce' = Refresh(p) + 1
       \/ nonce' = nonce + 1
    /\ Unlock(c, "wait")
    /\ UNCHANGED <<up, run, faults, txNonce, calls, nodeVars, own>>

\* WaitAndReturnTxReceipt finds the receipt, or does not in 50 attempts.
WaitAndReturnTxReceipt(c) ==
    /\ tpc[c] = "wait"
    /\ \/ txNonce[c] < mined /\ Goto(c, "idle")
       \/ Goto(c, "failed")
    /\ txNonce' = [txNonce EXCEPT ![c] = NoNonce]
    /\ UNCHANGED <<up, run, faults, lock, nonce, calls, nodeVars, own>>

Transact(c) ==
    \/ LockNonce(c) \/ UnsafeNonce(c)
    \/ GasPrice(c) \/ GasPriceFailed(c)
    \/ NilNonce(c) \/ SignAndSendTransaction(c) \/ SignAndSendFailed(c)
    \/ UnsafeIncreaseNonce(c) \/ WaitAndReturnTxReceipt(c)

\* The node mines the account's next transaction.
Mine ==
    /\ mined \in pool
    /\ mined' = mined + 1 /\ pool' = pool \ {mined}
    /\ UNCHANGED <<up, run, faults, lock, nonce, tpc, txNonce, calls, own>>

\* The owner's account is used by something other than this process.
OtherSend ==
    /\ Fault("other")
    /\ \E n \in PendingNonces : n \notin pool /\ pool' = pool \cup {n}
    /\ UNCHANGED <<up, run, lock, nonce, tpc, txNonce, calls, mined, own>>

Crash ==
    /\ up /\ Fault("crash")
    /\ up' = FALSE
    /\ FreshProcess
    /\ UNCHANGED <<run, calls, nodeVars>>

Restart ==
    /\ ~up
    /\ up' = TRUE /\ run' = run + 1
    /\ UNCHANGED <<faults, lock, nonce, tpc, txNonce, calls, nodeVars, own>>

Next ==
    \/ \E c \in Caller : Call(c) \/ Transact(c)
    \/ Mine \/ OtherSend \/ Crash \/ Restart

Spec == Init /\ [][Next]_transactorVars

\* A goroutine that can go on does; sync.Mutex lets nobody wait for ever.
FairSpec ==
    /\ Spec
    /\ \A c \in Caller : WF_transactorVars(Transact(c)) /\ SF_transactorVars(LockNonce(c))
-----------------------------------------------------------------------------
(***************************************************************************)
(* Properties.                                                             *)
(***************************************************************************)

\* Two broadcasts that the node acknowledged to one process never carry the
\* same nonce, so that no payment takes the place of another one.
IncreasingNonces ==
    \A i, j \in DOMAIN own : i < j => own[i] < own[j]

\* Every call gets nonceLock and returns, whichever way the calls before it
\* ended: each error path gives the lock back.
EveryCallReturns ==
    \A c \in Caller : tpc[c] = "lock" ~> tpc[c] \in {"idle", "failed"}

\* nonceLock is held by the one caller between LockNonce and UnlockNonce.
LockInv == \A c \in Caller : tpc[c] \in Locked <=> lock = c

\* The nonce that was read is still the cached one when it is used, and above
\* every nonce used before; only between the broadcast and the increase is it
\* the last one used.
CachedInv ==
    /\ own # <<>> => nonce # NoNonce
    /\ \A c \in Caller :
          /\ tpc[c] \in {"price", "send", "increase"} => txNonce[c] = nonce
          /\ tpc[c] = "increase" => nonce # NoNonce
    /\ \A i \in DOMAIN own :
          \/ own[i] < nonce
          \/ /\ own[i] = nonce /\ i = Len(own)
             /\ \E c \in Caller : tpc[c] = "increase"

\* The inductive invariant.
NonceInv == TypeOK /\ LockInv /\ CachedInv /\ IncreasingNonces

\* connection.go:159: the pending nonce "is the nonce that should be used for
\* the next transaction".  No broadcast leaves a gap below its nonce.
NoNonceGap ==
    [][\A c \in Caller :
          own' # own => \A k \in mined..(own'[Len(own')] - 1) : k \in pool]_transactorVars
=============================================================================
