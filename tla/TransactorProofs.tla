-------------------------- MODULE TransactorProofs --------------------------
(***************************************************************************)
(* Theorems about Transactor for every number of callers, of calls and of  *)
(* faults, and for nodes that lag behind as well as for those that do not. *)
(***************************************************************************)
EXTENDS Transactor, SequenceTheorems, TLAPS

LEMMA NonceInit == Init => NonceInv
<1> SUFFICES ASSUME Init PROVE NonceInv
  OBVIOUS
<1>1. TypeOK
  BY EmptySeq DEF Init, TypeOK, RuntimeTypeOK, TransactPc
<1>2. LockInv
  BY CallerAssumption DEF Init, LockInv, Locked
<1>3. CachedInv /\ IncreasingNonces
  BY DEF Init, CachedInv, IncreasingNonces
<1> QED
  BY <1>1, <1>2, <1>3 DEF NonceInv

\* A view of the node never makes the cached nonce smaller.
LEMMA RefreshFacts ==
    ASSUME TypeOK, NEW p \in PendingNonces
    PROVE  /\ Refresh(p) \in Nat
           /\ nonce # NoNonce => Refresh(p) >= nonce
<1>1. p \in Nat
  BY BoundAssumption DEF PendingNonces, TypeOK
<1> QED
  BY <1>1 DEF Refresh, TypeOK

\* A process that is gone leaves no caller, no lock and no cached nonce.
LEMMA NonceFresh ==
    ASSUME NonceInv, FreshProcess, up' \in BOOLEAN, faults' \in Nat,
           UNCHANGED <<run, calls, nodeVars>>
    PROVE  NonceInv'
<1>1. TypeOK'
  BY EmptySeq DEF FreshProcess, NonceInv, TypeOK, RuntimeTypeOK, TransactPc, nodeVars
<1>2. LockInv'
  BY CallerAssumption DEF FreshProcess, LockInv, Locked
<1>3. CachedInv' /\ IncreasingNonces'
  BY DEF FreshProcess, CachedInv, IncreasingNonces
<1> QED
  BY <1>1, <1>2, <1>3 DEF NonceInv

\* A step of a caller that leaves the cached nonce and the broadcasts alone.
LEMMA NonceQuiet ==
    ASSUME NonceInv, NEW c \in Caller, TypeOK',
           UNCHANGED <<nonce, own>>,
           \A d \in Caller \ {c} : tpc'[d] = tpc[d] /\ txNonce'[d] = txNonce[d],
           tpc[c] # "increase", tpc'[c] # "increase",
           tpc'[c] \in {"price", "send"} => txNonce'[c] = nonce,
           \/ lock' = lock /\ (tpc'[c] \in Locked <=> tpc[c] \in Locked)
           \/ lock = Free /\ lock' = c /\ tpc'[c] \in Locked
           \/ lock = c /\ lock' = Free /\ tpc'[c] \notin Locked
    PROVE  NonceInv'
<1>1. LockInv'
  BY CallerAssumption DEF NonceInv, LockInv
<1>2. CachedInv'
  BY DEF NonceInv, CachedInv
<1>3. IncreasingNonces'
  BY DEF NonceInv, IncreasingNonces
<1> QED
  BY <1>1, <1>2, <1>3 DEF NonceInv

\* Nobody else is under the lock, so nobody else has read the nonce.
LEMMA NonceRead ==
    ASSUME NonceInv, NEW c \in Caller, UnsafeNonce(c)
    PROVE  NonceInv'
<1>1. /\ TypeOK /\ tpc[c] = "nonce"
      /\ lock = c /\ \A d \in Caller \ {c} : tpc[d] \notin Locked
  BY DEF NonceInv, UnsafeNonce, LockInv, Locked
<1>2. nonce' \in Nat \cup {NoNonce} /\ (nonce # NoNonce => nonce' \in Nat /\ nonce' >= nonce)
  BY <1>1, RefreshFacts DEF UnsafeNonce, TypeOK
<1>3. /\ tpc'[c] = "price" /\ txNonce'[c] = nonce'
      /\ \A d \in Caller \ {c} : tpc'[d] = tpc[d] /\ txNonce'[d] = txNonce[d]
      /\ UNCHANGED <<up, run, faults, lock, calls, mined, pool, own>>
  BY <1>1 DEF UnsafeNonce, Goto, TypeOK, nodeVars
<1>4. TypeOK'
  BY <1>1, <1>2, <1>3 DEF UnsafeNonce, Goto, TypeOK, RuntimeTypeOK, TransactPc, Locked
<1>5. LockInv'
  BY <1>1, <1>3 DEF NonceInv, LockInv, Locked
<1>6. \A i \in DOMAIN own : own[i] \in Nat /\ nonce # NoNonce /\ nonce \in Nat /\ own[i] < nonce
  BY <1>1, NonceAssumption DEF NonceInv, CachedInv, Locked, TypeOK
<1>7. CachedInv'
  <2>1. own # <<>> => nonce' # NoNonce
    BY <1>1, <1>2, NonceAssumption DEF NonceInv, CachedInv
  <2>2. \A i \in DOMAIN own : own[i] < nonce'
    BY <1>2, <1>6
  <2> QED
    BY <1>1, <1>3, <2>1, <2>2 DEF CachedInv, Locked
<1>8. IncreasingNonces'
  BY <1>3 DEF NonceInv, IncreasingNonces
<1> QED
  BY <1>4, <1>5, <1>7, <1>8 DEF NonceInv

\* The nonce of an acknowledged broadcast is above all those before it.
LEMMA NonceSend ==
    ASSUME NonceInv, NEW c \in Caller, SignAndSendTransaction(c)
    PROVE  NonceInv'
<1>1. /\ TypeOK /\ tpc[c] = "send" /\ txNonce[c] = nonce /\ nonce \in Nat
      /\ \A d \in Caller \ {c} : tpc[d] \notin Locked
  BY DEF NonceInv, SignAndSendTransaction, LockInv, CachedInv, TypeOK, Locked
<1>2. /\ tpc'[c] = "increase"
      /\ \A d \in Caller \ {c} : tpc'[d] = tpc[d]
      /\ own' = Append(own, nonce)
      /\ UNCHANGED <<up, run, faults, lock, nonce, txNonce, calls, mined>>
  BY <1>1 DEF SignAndSendTransaction, Goto, TypeOK
<1>3. /\ own' \in Seq(Nat) /\ Len(own') = Len(own) + 1
      /\ DOMAIN own' = DOMAIN own \cup {Len(own')} /\ Len(own') \notin DOMAIN own
      /\ own'[Len(own')] = nonce
      /\ \A i \in DOMAIN own : own'[i] = own[i] /\ i < Len(own') /\ i \in Nat
  BY <1>1, <1>2 DEF TypeOK
<1>4. TypeOK'
  BY <1>1, <1>2, <1>3
  DEF SignAndSendTransaction, Goto, TypeOK, RuntimeTypeOK, TransactPc, Locked
<1>5. LockInv'
  BY <1>1, <1>2 DEF NonceInv, LockInv, Locked
<1>6. \A i \in DOMAIN own : own[i] < nonce
  BY <1>1 DEF NonceInv, CachedInv, Locked
<1>7. CachedInv'
  <2>1. nonce # NoNonce
    BY <1>1, NonceAssumption
  <2>2. \A d \in Caller : tpc'[d] \in {"price", "send", "increase"} => d = c
    BY <1>1, <1>2 DEF Locked
  <2> QED
    BY <1>1, <1>2, <1>3, <1>6, <2>1, <2>2 DEF CachedInv
<1>8. IncreasingNonces'
  <2> SUFFICES ASSUME NEW i \in DOMAIN own', NEW j \in DOMAIN own', i < j
               PROVE  own'[i] < own'[j]
    BY DEF IncreasingNonces
  <2>1. i \in DOMAIN own
    BY <1>1, <1>3 DEF TypeOK
  <2>2. CASE j \in DOMAIN own
    BY <1>3, <2>1, <2>2 DEF NonceInv, IncreasingNonces
  <2>3. CASE j = Len(own')
    BY <1>3, <1>6, <2>1, <2>3
  <2> QED
    BY <1>3, <2>2, <2>3
<1> QED
  BY <1>4, <1>5, <1>7, <1>8 DEF NonceInv

\* The increase puts the cached nonce above the one just used.
LEMMA NonceIncrease ==
    ASSUME NonceInv, NEW c \in Caller, UnsafeIncreaseNonce(c)
    PROVE  NonceInv'
<1>1. /\ TypeOK /\ tpc[c] = "increase" /\ lock = c /\ nonce # NoNonce /\ nonce \in Nat
      /\ \A d \in Caller \ {c} : tpc[d] \notin Locked
  BY DEF NonceInv, UnsafeIncreaseNonce, LockInv, CachedInv, TypeOK, Locked
<1>2. nonce' \in Nat /\ nonce' > nonce
  <2>1. ASSUME NEW p \in PendingNonces, nonce' = Refresh(p) + 1
        PROVE  nonce' \in Nat /\ nonce' > nonce
    BY <1>1, <2>1, RefreshFacts
  <2> QED
    BY <1>1, <2>1 DEF UnsafeIncreaseNonce
<1>3. /\ tpc'[c] = "wait" /\ lock' = Free
      /\ \A d \in Caller \ {c} : tpc'[d] = tpc[d]
      /\ UNCHANGED <<up, run, faults, txNonce, calls, mined, pool, own>>
  BY <1>1 DEF UnsafeIncreaseNonce, Unlock, Goto, TypeOK, nodeVars
<1>4. TypeOK'
  BY <1>1, <1>2, <1>3
  DEF UnsafeIncreaseNonce, Unlock, Goto, TypeOK, RuntimeTypeOK, TransactPc, Locked
<1>5. LockInv'
  BY <1>1, <1>3, CallerAssumption DEF NonceInv, LockInv, Locked
<1>6. \A i \in DOMAIN own : own[i] \in Nat /\ own[i] <= nonce
  BY <1>1 DEF NonceInv, CachedInv, TypeOK
<1>7. CachedInv'
  BY <1>1, <1>2, <1>3, <1>6, NonceAssumption DEF NonceInv, CachedInv, Locked
<1>8. IncreasingNonces'
  BY <1>3 DEF NonceInv, IncreasingNonces
<1> QED
  BY <1>4, <1>5, <1>7, <1>8 DEF NonceInv

\* The steps of a caller that neither read, use nor increase the nonce.
LEMMA NonceOther ==
    ASSUME NonceInv, NEW c \in Caller,
           \/ Call(c) \/ LockNonce(c) \/ GasPrice(c) \/ GasPriceFailed(c)
           \/ SignAndSendFailed(c) \/ WaitAndReturnTxReceipt(c)
    PROVE  NonceInv'
<1> USE DEF Goto, Unlock, Locked, nodeVars
<1>1. TypeOK /\ LockInv /\ CachedInv
  BY DEF NonceInv
<1>2. TypeOK'
  <2>1. pool' \subseteq Nat
    BY <1>1 DEF Call, LockNonce, GasPrice, GasPriceFailed, SignAndSendFailed,
                WaitAndReturnTxReceipt, TypeOK
  <2> QED
    BY <1>1, <2>1 DEF Call, LockNonce, GasPrice, GasPriceFailed, SignAndSendFailed,
                      WaitAndReturnTxReceipt, TypeOK, RuntimeTypeOK, TransactPc
<1>3. CASE Call(c)
  BY <1>1, <1>2, <1>3, NonceQuiet DEF Call, TypeOK
<1>4. CASE LockNonce(c)
  BY <1>1, <1>2, <1>4, NonceQuiet DEF LockNonce, TypeOK
<1>5. CASE GasPrice(c)
  BY <1>1, <1>2, <1>5, NonceQuiet DEF GasPrice, TypeOK, CachedInv
<1>6. CASE GasPriceFailed(c)
  BY <1>1, <1>2, <1>6, NonceQuiet DEF GasPriceFailed, TypeOK, LockInv
<1>7. CASE SignAndSendFailed(c)
  BY <1>1, <1>2, <1>7, NonceQuiet DEF SignAndSendFailed, TypeOK, LockInv
<1>8. CASE WaitAndReturnTxReceipt(c)
  BY <1>1, <1>2, <1>8, NonceQuiet DEF WaitAndReturnTxReceipt, TypeOK
<1> QED
  BY <1>3, <1>4, <1>5, <1>6, <1>7, <1>8

\* The node, other users of the account, and the process as a whole.
LEMMA NonceEnvironment ==
    ASSUME NonceInv, Mine \/ OtherSend \/ Crash \/ Restart \/ \E c \in Caller : NilNonce(c)
    PROVE  NonceInv'
<1>1. TypeOK /\ faults' \in Nat
  BY DEF NonceInv, Mine, OtherSend, Crash, Restart, NilNonce, Fault, TypeOK, RuntimeTypeOK
<1>2. CASE Crash \/ \E c \in Caller : NilNonce(c)
  BY <1>1, <1>2, NonceFresh DEF Crash, NilNonce, nodeVars
<1>3. CASE Mine \/ OtherSend \/ Restart
  <2>1. UNCHANGED <<lock, nonce, tpc, txNonce, calls, own>>
    BY <1>3 DEF Mine, OtherSend, Restart
  <2>2. mined' \in Nat /\ pool' \subseteq Nat
    <3>1. mined \in Nat /\ pool \subseteq Nat /\ PendingNonces \subseteq Nat
      BY <1>1, BoundAssumption DEF TypeOK, PendingNonces
    <3>2. CASE Mine
      BY <3>1, <3>2 DEF Mine
    <3>3. CASE OtherSend
      BY <3>1, <3>3 DEF OtherSend
    <3>4. CASE Restart
      BY <3>1, <3>4 DEF Restart, nodeVars
    <3> QED
      BY <1>3, <3>2, <3>3, <3>4
  <2>3. RuntimeTypeOK'
    <3>1. up' \in BOOLEAN
      BY <1>1, <1>3, Zenon DEF Mine, OtherSend, Restart, TypeOK, RuntimeTypeOK
    <3>2. run' \in Nat
      BY <1>1, <1>3 DEF Mine, OtherSend, Restart, TypeOK, RuntimeTypeOK
    <3> QED
      BY <1>1, <3>1, <3>2 DEF RuntimeTypeOK
  <2> QED
    BY <1>1, <2>1, <2>2, <2>3
    DEF NonceInv, TypeOK, LockInv, CachedInv, IncreasingNonces
<1> QED
  BY <1>2, <1>3

LEMMA NonceStep == NonceInv /\ [Next]_transactorVars => NonceInv'
<1>1. NonceInv /\ UNCHANGED transactorVars => NonceInv'
  BY DEF transactorVars, NonceInv, TypeOK, RuntimeTypeOK, LockInv, CachedInv, IncreasingNonces
<1> QED
  BY <1>1, NonceRead, NonceSend, NonceIncrease, NonceOther, NonceEnvironment
  DEF Next, Transact

\* The lock discipline around the cached nonce is an invariant.
THEOREM NonceInvariance == Spec => []NonceInv
  BY NonceInit, NonceStep, PTL DEF Spec

\* No nonce is acknowledged twice to one process, however its callers race
\* and whatever view of the account the nodes give it.
THEOREM NonceNeverReused == Spec => []IncreasingNonces
<1>1. NonceInv => IncreasingNonces
  BY DEF NonceInv
<1> QED
  BY <1>1, NonceInvariance, PTL
=============================================================================
