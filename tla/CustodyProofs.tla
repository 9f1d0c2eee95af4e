---------------------------- MODULE CustodyProofs ----------------------------
(***************************************************************************)
(* Proofs about the contracts and the bridge between them, for every set   *)
(* of accounts, supply, amount, value of a transaction and number of       *)
(* restarts.  The bridge takes the steps of Swap, and no more is used of   *)
(* it here.                                                                *)
(***************************************************************************)
EXTENDS TotalProofs

\* Each event carries its own place in the log as its number.
Numbered ==
    /\ Len(events) = depositNonce
    /\ \A i \in DOMAIN events : events[i].nonce = i

CustodyInv == CustodyTypeOK /\ Numbered

\* A transfer that the contract lets through leaves every balance a natural
\* number.
LEMMA MovedType ==
    ASSUME balances \in [Account -> Nat], NEW from \in Account, NEW to \in Account,
           NEW v \in Nat, v <= balances[from]
    PROVE  Moved(from, to, v) \in [Account -> Nat]
<1> DEFINE debited == [balances EXCEPT ![from] = @ - v]
<1>1. balances[from] - v \in Nat
  OBVIOUS
<1>2. debited \in [Account -> Nat]
  BY <1>1
<1>3. debited[to] + v \in Nat
  BY <1>2
<1> QED
  BY <1>2, <1>3 DEF Moved

\* What a deposit of the invariant looks like.
LEMMA EventType ==
    ASSUME CustodyInv
    PROVE  /\ DOMAIN events = 1..Len(events) /\ Len(events) \in Nat
           /\ DOMAIN values = DOMAIN events
           /\ IsFiniteSet(DOMAIN events)
           /\ \A i \in DOMAIN events : /\ events[i].recipient \in Account
                                       /\ events[i].amount \in Nat
                                       /\ MessageAmount(i) \in Nat
<1>1. /\ events \in Seq(DepositEvents)
      /\ values \in Seq(Nat) /\ Len(values) = Len(events)
  BY DEF CustodyInv, CustodyTypeOK, ContractsTypeOK
<1>2. DOMAIN events = 1..Len(events) /\ Len(events) \in Nat /\ DOMAIN values = DOMAIN events
  BY <1>1
<1>3. IsFiniteSet(DOMAIN events)
  BY <1>2, FS_Interval
<1>4. ASSUME NEW i \in DOMAIN events
      PROVE  events[i].amount \in Nat /\ events[i].recipient \in Account /\ values[i] \in Nat
  <2>1. events[i] \in DepositEvents /\ values[i] \in Nat
    BY <1>1, <1>2
  <2> QED
    BY <2>1 DEF DepositEvents
<1> QED
  BY <1>2, <1>3, <1>4 DEF MessageAmount

\* Initially the log is empty and every variable well typed.
LEMMA InitInv == Init => CustodyInv
<1> SUFFICES ASSUME Init PROVE CustodyInv
  OBVIOUS
<1>1. /\ balances \in [Account -> Nat] /\ paused \in BOOLEAN
      /\ owner \in [Contract -> Account \cup {ZeroAddress}]
  BY ContractsAssumption DEF Init, ContractsInit
<1>2. events = <<>> /\ depositNonce = 0 /\ swapBalance = 0
  BY DEF Init, ContractsInit
<1>3. /\ depositNonce \in 0..MaxUint64 /\ swapBalance \in Nat
      /\ events \in Seq(DepositEvents)
  BY <1>2, ContractsAssumption
<1>4. /\ withdrawn \in Nat /\ values \in Seq(Nat) /\ Len(values) = Len(events)
      /\ epoch \in Nat /\ transfers \in Nat
      /\ issued = {} /\ settled = {} /\ reverted = {} /\ recorded = {}
  BY <1>2 DEF Init
<1>5. Numbered
  <2>1. Len(<<>>) = 0 /\ DOMAIN <<>> = {}
    OBVIOUS
  <2> QED
    BY <1>2, <2>1 DEF Numbered
<1> QED
  BY <1>1, <1>3, <1>4, <1>5 DEF CustodyInv, CustodyTypeOK, ContractsTypeOK

\* Neither the log nor the bridge's records are touched by what users and
\* owners do with the token.
LEMMA TokenStep ==
    ASSUME CustodyInv,
           owner' \in [Contract -> Account \cup {ZeroAddress}],
           paused' \in BOOLEAN, balances' \in [Account -> Nat],
           UNCHANGED <<depositNonce, swapBalance, events, withdrawn, values, bridgeVars>>
    PROVE  CustodyInv'
BY DEF bridgeVars, CustodyInv, CustodyTypeOK, ContractsTypeOK, Numbered

LEMMA DepositKeeps == CustodyInv /\ DepositCoins => CustodyInv'
<1> SUFFICES ASSUME CustodyInv, DepositCoins PROVE CustodyInv'
  OBVIOUS
<1>1. PICK c \in Account, to \in Account \cup {ZeroAddress}, v \in Amounts, w \in Values :
          /\ Deposit(c, to, v)
          /\ values' = Append(values, w) /\ UNCHANGED <<withdrawn, bridgeVars>>
  BY DEF DepositCoins, ExecuteTransaction
<1> DEFINE e == [nonce |-> depositNonce + 1, recipient |-> Recipient(c, to), amount |-> v]
<1>2. v \in Nat /\ w \in Nat /\ Recipient(c, to) \in Account
  BY CustodyAssumption DEF Recipient
<1>3. depositNonce \in Nat /\ MaxUint64 \in Nat /\ depositNonce + 1 \in 0..MaxUint64
  BY <1>1, ContractsAssumption DEF Deposit, CustodyInv, CustodyTypeOK, ContractsTypeOK
<1>4. e \in DepositEvents
  BY <1>2, <1>3 DEF DepositEvents
<1>5. events' = Append(events, e)
  BY <1>1 DEF Deposit
<1>6. events \in Seq(DepositEvents) /\ events' \in Seq(DepositEvents)
  BY <1>4, <1>5 DEF CustodyInv, CustodyTypeOK, ContractsTypeOK
<1>7. /\ Len(events') = depositNonce'
      /\ \A i \in DOMAIN events' : events'[i].nonce = i
  BY <1>1, <1>3, <1>4, <1>5, <1>6 DEF Deposit, CustodyInv, Numbered
<1>8. values' \in Seq(Nat) /\ Len(values') = Len(events')
  BY <1>1, <1>2, <1>5, <1>6 DEF CustodyInv, CustodyTypeOK
<1>9. DOMAIN events \subseteq DOMAIN events'
  BY <1>5, <1>6
<1>10. swapBalance' \in Nat /\ withdrawn' \in Nat /\ depositNonce' \in 0..MaxUint64
  BY <1>1, <1>2, <1>3 DEF Deposit, CustodyInv, CustodyTypeOK, ContractsTypeOK
<1>11. UNCHANGED <<owner, paused, balances>>
  BY <1>1 DEF Deposit, tokenVars
<1>12. /\ issued' \subseteq (DOMAIN events') \X (0..epoch')
       /\ recorded' \subseteq DOMAIN events'
  BY <1>1, <1>9 DEF bridgeVars, CustodyInv, CustodyTypeOK
<1>13. /\ epoch' \in Nat /\ transfers' \in Nat
       /\ settled' \subseteq issued' /\ reverted' \subseteq issued'
       /\ settled' \cap reverted' = {}
  BY <1>1 DEF bridgeVars, CustodyInv, CustodyTypeOK
<1>14. ContractsTypeOK'
  BY <1>6, <1>10, <1>11 DEF CustodyInv, CustodyTypeOK, ContractsTypeOK
<1>15. CustodyTypeOK'
  BY <1>8, <1>10, <1>12, <1>13, <1>14 DEF CustodyTypeOK
<1> QED
  BY <1>7, <1>15 DEF CustodyInv, Numbered

LEMMA WithdrawKeeps == CustodyInv /\ Withdraw => CustodyInv'
BY DEF Withdraw, ExecuteTransaction, TransferFunds, tokenVars, bridgeVars,
       CustodyInv, CustodyTypeOK, ContractsTypeOK, Numbered

LEMMA UserKeeps == CustodyInv /\ UserStep => CustodyInv'
<1> SUFFICES ASSUME CustodyInv, UserStep PROVE CustodyInv'
  OBVIOUS
<1>1. PICK c \in User, a \in Account, v \in Amounts : Transfer(c, a, v)
  BY DEF UserStep
<1>2. c \in Account /\ v \in Nat
  BY CustodyAssumption DEF User
<1>3. balances' \in [Account -> Nat]
  BY <1>1, <1>2, MovedType DEF Transfer, CanMove, CustodyInv, CustodyTypeOK, ContractsTypeOK
<1> QED
  BY <1>1, <1>3, TokenStep
     DEF UserStep, Transfer, swapVars, CustodyInv, CustodyTypeOK, ContractsTypeOK

LEMMA OwnerKeeps == CustodyInv /\ OwnerStep => CustodyInv'
<1> SUFFICES ASSUME CustodyInv, OwnerStep PROVE CustodyInv'
  OBVIOUS
<1>1. PICK c \in Account :
          \/ Pause(c) \/ Unpause(c)
          \/ \E k \in Contract :
                RenounceOwnership(k, c) \/ \E n \in NewOwner : TransferOwnership(k, c, n)
  BY DEF OwnerStep, ExecuteTransaction
<1>2. UNCHANGED <<withdrawn, values, bridgeVars>>
  BY DEF OwnerStep
<1>3. /\ balances \in [Account -> Nat] /\ paused \in BOOLEAN
      /\ owner \in [Contract -> Account \cup {ZeroAddress}]
  BY DEF CustodyInv, CustodyTypeOK, ContractsTypeOK
<1>4. CASE Pause(c) \/ Unpause(c)
  BY <1>2, <1>3, <1>4, TokenStep DEF Pause, Unpause, swapVars
<1>5. ASSUME NEW k \in Contract, NEW n \in Account \cup {ZeroAddress},
             owner' = [owner EXCEPT ![k] = n], UNCHANGED <<swapVars, tokenVars>>
      PROVE  CustodyInv'
  <2>1. owner' \in [Contract -> Account \cup {ZeroAddress}]
    BY <1>3, <1>5
  <2> QED
    BY <1>2, <1>3, <1>5, <2>1, TokenStep DEF swapVars, tokenVars
<1> QED
  BY <1>1, <1>4, <1>5, CustodyAssumption DEF RenounceOwnership, TransferOwnership

\* The steps of the bridge, one conjunct of the type after the other.
LEMMA BridgeKeeps == CustodyInv /\ BridgeStep => CustodyInv'
<1> SUFFICES ASSUME CustodyInv, BridgeStep PROVE CustodyInv'
  OBVIOUS
<1>1. /\ epoch \in Nat /\ transfers \in Nat
      /\ issued \subseteq (DOMAIN events) \X (0..epoch)
      /\ settled \subseteq issued /\ reverted \subseteq issued
      /\ settled \cap reverted = {}
      /\ recorded \subseteq DOMAIN events
  BY DEF CustodyInv, CustodyTypeOK
<1>2. ASSUME UNCHANGED <<events, depositNonce, swapBalance, owner, paused, withdrawn, values>>,
             balances' \in [Account -> Nat],
             epoch' \in Nat, transfers' \in Nat,
             issued' \subseteq (DOMAIN events) \X (0..epoch'),
             settled' \subseteq issued', reverted' \subseteq issued',
             settled' \cap reverted' = {},
             recorded' \subseteq DOMAIN events
      PROVE  CustodyInv'
  BY <1>2 DEF CustodyInv, CustodyTypeOK, ContractsTypeOK, Numbered
<1>3. balances \in [Account -> Nat]
  BY DEF CustodyInv, CustodyTypeOK, ContractsTypeOK
<1>4. ASSUME NEW i \in DOMAIN events, SendTransfer(i) PROVE CustodyInv'
  <2>1. /\ UNCHANGED <<contractVars, withdrawn, values, reverted, recorded, epoch, settled>>
        /\ issued' = issued \cup {<<i, epoch>>} /\ transfers' = transfers + 1
    BY <1>4 DEF SendTransfer, Promise!Issue
  <2>2. <<i, epoch>> \in (DOMAIN events) \X (0..epoch)
    BY <1>1
  <2> QED
    BY <1>1, <1>2, <1>3, <2>1, <2>2 DEF contractVars, swapVars, tokenVars
<1>5. ASSUME NEW i \in DOMAIN events, CreateSwapHistory(i) PROVE CustodyInv'
  <2>1. /\ UNCHANGED <<contractVars, withdrawn, values, reverted, epoch, issued, transfers, settled>>
        /\ recorded' = recorded \cup {i}
    BY <1>5 DEF CreateSwapHistory, Promise!Record
  <2> QED
    BY <1>1, <1>2, <1>3, <2>1 DEF contractVars, swapVars, tokenVars
<1>6. ASSUME NEW p \in issued, MineTransfer(p) PROVE CustodyInv'
  <2>1. /\ UNCHANGED <<owner, swapVars, paused, withdrawn, values, reverted, recorded,
                       epoch, issued, transfers>>
        /\ p \in Pending /\ settled' = settled \cup {p}
        /\ Transfer(Deployer, events[p[1]].recipient, MessageAmount(p[1]))
    BY <1>6 DEF MineTransfer, Transfer, Promise!Settle
  <2>2. p[1] \in DOMAIN events
    BY <1>1
  <2>3. balances' \in [Account -> Nat]
    BY <1>3, <2>1, <2>2, EventType, MovedType, ContractsAssumption DEF Transfer, CanMove
  <2> QED
    BY <1>1, <1>2, <2>1, <2>3 DEF Pending, swapVars
<1>7. ASSUME NEW p \in issued, RevertTransfer(p) PROVE CustodyInv'
  <2>1. /\ UNCHANGED <<contractVars, withdrawn, values, epoch, issued, transfers, settled, recorded>>
        /\ p \in Pending /\ reverted' = reverted \cup {p}
    BY <1>7 DEF RevertTransfer
  <2> QED
    BY <1>1, <1>2, <1>3, <2>1 DEF Pending, contractVars, swapVars, tokenVars
<1>8. CASE Restart
  <2>1. /\ UNCHANGED <<contractVars, withdrawn, values, reverted, recorded, issued, transfers, settled>>
        /\ epoch' = epoch + 1
    BY <1>8 DEF Restart, Promise!Restart
  <2>2. issued \subseteq (DOMAIN events) \X (0..epoch')
    <3>1. 0..epoch \subseteq 0..epoch'
      BY <1>1, <2>1
    <3> QED
      BY <1>1, <3>1
  <2> QED
    BY <1>1, <1>2, <1>3, <2>1, <2>2 DEF contractVars, swapVars, tokenVars
<1> QED
  BY <1>4, <1>5, <1>6, <1>7, <1>8 DEF BridgeStep

LEMMA StepInv == CustodyInv /\ [Next]_vars => CustodyInv'
<1> SUFFICES ASSUME CustodyInv, [Next]_vars PROVE CustodyInv'
  OBVIOUS
<1>1. CASE UNCHANGED vars
  BY <1>1 DEF vars, contractVars, swapVars, tokenVars, bridgeVars,
              CustodyInv, CustodyTypeOK, ContractsTypeOK, Numbered
<1> QED
  BY <1>1, DepositKeeps, WithdrawKeeps, BridgeKeeps, UserKeeps, OwnerKeeps DEF Next

\* Whatever users, owners and the bridge do with the contracts, no balance
\* goes below zero, and every transfer is one for an event, mined or reverted
\* and not both.
THEOREM CustodyTyped == Spec => []CustodyTypeOK
<1>1. Spec => []CustodyInv
  BY InitInv, StepInv, PTL DEF Spec
<1>2. CustodyInv => CustodyTypeOK
  BY DEF CustodyInv
<1> QED
  BY <1>1, <1>2, PTL

\* No two Deposit events carry the same depositNonce, up to the last one that
\* uint64 holds.
THEOREM DepositNoncesUnique == Spec => []NoncesUnique
<1>1. Spec => []CustodyInv
  BY InitInv, StepInv, PTL DEF Spec
<1>2. CustodyInv => NoncesUnique
  BY DEF CustodyInv, Numbered, NoncesUnique
<1> QED
  BY <1>1, <1>2, PTL
-----------------------------------------------------------------------------
(***************************************************************************)
(* Tokens and coins.                                                       *)
(***************************************************************************)

\* The coins that each deposit brought.
Deposited == [i \in DOMAIN events |-> events[i].amount]

\* The coins that came in are still in BerithSwap or with its owner.
CoinsKept == swapBalance + withdrawn = Total(Deposited, DOMAIN events)

\* The tokens of users are those that settled transfers of the bridge brought.
TokensPaid == Total(balances, User) <= Total(Paid, DOMAIN events)

BackedInv == CustodyInv /\ CoinsKept /\ TokensPaid

LEMMA AccountFinite ==
    ASSUME NEW S \in SUBSET Account
    PROVE  IsFiniteSet(S)
BY CustodyAssumption, FS_Subset

\* A transfer takes from a sum over accounts what it debits there and adds
\* what it credits there, also when the two accounts are one.
LEMMA MovedTotal ==
    ASSUME balances \in [Account -> Nat], NEW from \in Account, NEW to \in Account,
           NEW v \in Nat, v <= balances[from], NEW S \in SUBSET Account
    PROVE  /\ Moved(from, to, v) \in [Account -> Nat]
           /\ Total(Moved(from, to, v), S)
                = Total(balances, S) - (IF from \in S THEN v ELSE 0)
                                     + (IF to \in S THEN v ELSE 0)
<1>1. PICK debited, credited :
          /\ debited = [balances EXCEPT ![from] = balances[from] - v]
          /\ credited = [debited EXCEPT ![to] = debited[to] + v]
          /\ Moved(from, to, v) = credited
  BY DEF Moved
<1>2. IsFiniteSet(S)
  BY AccountFinite
<1>3. /\ debited \in [Account -> Nat] /\ debited[from] = balances[from] - v
      /\ \A y \in Account \ {from} : debited[y] = balances[y]
  BY <1>1
<1>4. /\ credited \in [Account -> Nat] /\ credited[to] = debited[to] + v
      /\ \A y \in Account \ {to} : credited[y] = debited[y]
  BY <1>1, <1>3
<1>5. /\ Total(debited, S) = IF from \in S
                             THEN Total(balances, S) - balances[from] + debited[from]
                             ELSE Total(balances, S)
      /\ Total(credited, S) = IF to \in S
                              THEN Total(debited, S) - debited[to] + credited[to]
                              ELSE Total(debited, S)
  BY <1>2, <1>3, <1>4, TotalChange
<1>6. Total(balances, S) \in Nat /\ balances[from] \in Nat /\ Total(debited, S) \in Nat
  BY <1>2, <1>3, TotalType
<1>7. Total(debited, S) = Total(balances, S) - (IF from \in S THEN v ELSE 0)
  BY <1>3, <1>5, <1>6
<1>8. debited[to] \in Nat
  BY <1>3
<1>9. Total(credited, S) = Total(debited, S) + (IF to \in S THEN v ELSE 0)
  BY <1>4, <1>5, <1>6, <1>8
<1> QED
  BY <1>1, <1>4, <1>7, <1>9

\* Each event is settled a finite number of times, at most once by each run.
LEMMA PaidType ==
    ASSUME CustodyInv
    PROVE  /\ IsFiniteSet(settled) /\ \A i : Times(i) \in Nat
           /\ Paid \in [DOMAIN events -> Nat]
           /\ Deposited \in [DOMAIN events -> Nat]
<1>1. IsFiniteSet(DOMAIN events) /\ IsFiniteSet(0..epoch)
  BY EventType, FS_Interval DEF CustodyInv, CustodyTypeOK
<1>2. IsFiniteSet((DOMAIN events) \X (0..epoch))
  BY <1>1, FS_Product
<1>3. IsFiniteSet(settled)
  <2>1. settled \in SUBSET ((DOMAIN events) \X (0..epoch))
    BY DEF CustodyInv, CustodyTypeOK
  <2> QED
    BY <1>2, <2>1, FS_Subset
<1>4. ASSUME NEW i PROVE Times(i) \in Nat
  <2>1. {p \in settled : p[1] = i} \in SUBSET settled
    OBVIOUS
  <2> QED
    BY <1>3, <2>1, FS_Subset, FS_CardinalityType DEF Times
<1>5. ASSUME NEW i \in DOMAIN events PROVE Times(i) * values[i] \in Nat
  <2>1. values[i] \in Nat
    BY EventType DEF MessageAmount
  <2> QED
    BY <1>4, <2>1
<1>6. Paid \in [DOMAIN events -> Nat]
  BY <1>5 DEF Paid
<1>7. Deposited \in [DOMAIN events -> Nat]
  BY EventType DEF Deposited
<1> QED
  BY <1>3, <1>4, <1>6, <1>7

\* A user moves tokens of its own.
UserMoves ==
    \E from \in User, to \in Account, v \in Nat :
       v <= balances[from] /\ balances' = Moved(from, to, v)

\* Neither an event nor a settled transfer is added, and no coin is lost.
LedgerKept ==
    /\ UNCHANGED <<events, values, settled>>
    /\ swapBalance' + withdrawn' = swapBalance + withdrawn

\* Deposits and mined transfers apart, a step moves tokens of users only.
LEMMA StepKinds ==
    ASSUME CustodyInv, [Next]_vars
    PROVE  \/ DepositCoins
           \/ \E p \in issued : MineTransfer(p)
           \/ LedgerKept /\ (UNCHANGED balances \/ UserMoves)
<1>1. CASE Withdraw
  <2>1. swapBalance \in Nat /\ withdrawn \in Nat
    BY DEF CustodyInv, CustodyTypeOK, ContractsTypeOK
  <2> QED
    BY <1>1, <2>1 DEF Withdraw, ExecuteTransaction, TransferFunds, tokenVars, bridgeVars,
                      LedgerKept
<1>2. CASE UserStep
  <2>1. PICK c \in User, a \in Account, v \in Amounts : Transfer(c, a, v)
    BY <1>2 DEF UserStep
  <2>2. v \in Nat
    BY CustodyAssumption
  <2>3. UserMoves
    BY <2>1, <2>2 DEF Transfer, CanMove, UserMoves
  <2>4. LedgerKept
    BY <1>2, <2>1 DEF UserStep, Transfer, swapVars, bridgeVars, LedgerKept
  <2> QED
    BY <2>3, <2>4
<1>3. CASE OwnerStep
  BY <1>3 DEF OwnerStep, ExecuteTransaction, Pause, Unpause, RenounceOwnership,
              TransferOwnership, swapVars, tokenVars, bridgeVars, LedgerKept
<1>4. CASE UNCHANGED vars
  BY <1>4 DEF vars, contractVars, swapVars, tokenVars, bridgeVars, LedgerKept
<1>5. CASE BridgeStep /\ ~\E p \in issued : MineTransfer(p)
  <2>1. /\ UNCHANGED <<contractVars, withdrawn, values, settled>>
    BY <1>5 DEF BridgeStep, SendTransfer, CreateSwapHistory, RevertTransfer, Restart,
                Promise!Issue, Promise!Record, Promise!Restart
  <2> QED
    BY <2>1 DEF contractVars, swapVars, tokenVars, LedgerKept
<1> QED
  BY <1>1, <1>2, <1>3, <1>4, <1>5 DEF Next

\* Tokens that users move between themselves, or send to the bridge, leave
\* them with no more than they had.
LEMMA UserMovesKeep ==
    ASSUME CustodyInv, UserMoves
    PROVE  Total(balances', User) <= Total(balances, User)
<1>1. PICK from \in User, to \in Account, v \in Nat :
          v <= balances[from] /\ balances' = Moved(from, to, v)
  BY DEF UserMoves
<1>2. balances \in [Account -> Nat] /\ User \in SUBSET Account /\ IsFiniteSet(User)
  BY AccountFinite DEF CustodyInv, CustodyTypeOK, ContractsTypeOK, User
<1>3. Total(balances', User) = Total(balances, User) - v + (IF to \in User THEN v ELSE 0)
  <2>1. from \in Account
    BY <1>1 DEF User
  <2>2. Total(Moved(from, to, v), User)
          = Total(balances, User) - (IF from \in User THEN v ELSE 0)
                                  + (IF to \in User THEN v ELSE 0)
    BY <1>1, <1>2, <2>1, MovedTotal
  <2> QED
    BY <1>1, <2>2
<1>4. Total(balances, User) \in Nat
  BY <1>2, TotalType
<1> QED
  BY <1>1, <1>3, <1>4

\* (n + 1) * w = n * w + w, for the prover.
LEMMA OneMore ==
    ASSUME NEW n \in Nat, NEW w \in Nat
    PROVE  (n + 1) * w = n * w + w
OBVIOUS

\* The transfer that Klaytn executes adds to what was paid for its event as
\* much as it brings to users at the most.
LEMMA MineKeeps ==
    ASSUME BackedInv, NEW p \in issued, MineTransfer(p)
    PROVE  CoinsKept' /\ TokensPaid'
<1> DEFINE i == p[1]
           r == events[i].recipient
           v == MessageAmount(i)
<1>1. CustodyInv
  BY DEF BackedInv
<1>2. /\ p \in Pending /\ settled' = settled \cup {p}
      /\ v <= balances[Deployer] /\ balances' = Moved(Deployer, r, v)
      /\ UNCHANGED <<events, swapBalance, withdrawn, values>>
  BY DEF MineTransfer, Transfer, CanMove, swapVars, Promise!Settle
<1>3. i \in DOMAIN events /\ p \notin settled
  BY <1>1, <1>2 DEF Pending, CustodyInv, CustodyTypeOK
<1>4. r \in Account /\ v \in Nat /\ v = values[i]
  BY <1>1, <1>3, EventType DEF MessageAmount
<1> HIDE DEF r, v
<1>5. balances \in [Account -> Nat] /\ User \in SUBSET Account /\ IsFiniteSet(User)
  BY <1>1, AccountFinite DEF CustodyInv, CustodyTypeOK, ContractsTypeOK, User
<1>6. Deployer \in Account /\ Deployer \notin User
  BY ContractsAssumption DEF User
<1>7. /\ balances' \in [Account -> Nat]
      /\ Total(balances', User) <= Total(balances, User) + v
  <2>1. /\ Moved(Deployer, r, v) \in [Account -> Nat]
        /\ Total(Moved(Deployer, r, v), User)
             = Total(balances, User) - (IF Deployer \in User THEN v ELSE 0)
                                     + (IF r \in User THEN v ELSE 0)
    BY <1>2, <1>4, <1>5, <1>6, MovedTotal
  <2>2. Total(balances, User) \in Nat
    BY <1>5, TotalType
  <2> QED
    BY <1>2, <1>4, <1>6, <2>1, <2>2
<1>8. /\ \A j \in DOMAIN events \ {i} : Times(j)' = Times(j)
      /\ Times(i)' = Times(i) + 1
  <2>1. \A j : j # i => {q \in settled' : q[1] = j} = {q \in settled : q[1] = j}
    BY <1>2
  <2>2. {q \in settled' : q[1] = i} = {q \in settled : q[1] = i} \cup {p}
    BY <1>2
  <2>3. IsFiniteSet({q \in settled : q[1] = i})
    <3>1. {q \in settled : q[1] = i} \in SUBSET settled
      OBVIOUS
    <3> QED
      BY <1>1, <3>1, PaidType, FS_Subset
  <2>4. p \notin {q \in settled : q[1] = i}
    BY <1>3
  <2>5. Cardinality({q \in settled : q[1] = i} \cup {p})
          = Cardinality({q \in settled : q[1] = i}) + 1
    BY <2>3, <2>4, FS_AddElement
  <2> QED
    BY <2>1, <2>2, <2>5 DEF Times
<1>9. /\ \A j \in DOMAIN events \ {i} : Paid'[j] = Paid[j]
      /\ Paid'[i] = Paid[i] + v
  <2>1. Times(i) \in Nat
    BY <1>1, PaidType
  <2>2. (Times(i) + 1) * values[i] = Times(i) * values[i] + values[i]
    BY <1>4, <2>1, OneMore
  <2>3. Paid'[i] = Times(i)' * values[i] /\ Paid[i] = Times(i) * values[i]
    BY <1>2, <1>3 DEF Paid
  <2>4. Paid'[i] = Paid[i] + v
    BY <1>4, <1>8, <2>2, <2>3
  <2>5. \A j \in DOMAIN events \ {i} : Paid'[j] = Paid[j]
    BY <1>2, <1>8 DEF Paid
  <2> QED
    BY <2>4, <2>5
<1>10. Paid \in [DOMAIN events -> Nat] /\ Paid' \in [DOMAIN events -> Nat]
  <2>1. Paid \in [DOMAIN events -> Nat]
    BY <1>1, PaidType
  <2>2. Paid' = [j \in DOMAIN events |-> Paid'[j]]
    BY <1>2 DEF Paid
  <2>3. \A j \in DOMAIN events : Paid'[j] \in Nat
    BY <1>3, <1>4, <1>9, <2>1
  <2> QED
    BY <2>1, <2>2, <2>3
<1>11. Total(Paid', DOMAIN events) = Total(Paid, DOMAIN events) + v
  <2>1. Total(Paid', DOMAIN events) = Total(Paid, DOMAIN events) - Paid[i] + Paid'[i]
    <3>1. IsFiniteSet(DOMAIN events) /\ DOMAIN events \in SUBSET DOMAIN events
      BY <1>1, EventType
    <3>2. PICK g : g = Paid'
      OBVIOUS
    <3>3. g \in [DOMAIN events -> Nat] /\ \A j \in DOMAIN events \ {i} : g[j] = Paid[j]
      BY <1>9, <1>10, <3>2
    <3>4. Total(g, DOMAIN events) = Total(Paid, DOMAIN events) - Paid[i] + g[i]
      BY <1>3, <1>10, <3>1, <3>3, TotalChange
    <3> QED
      BY <3>2, <3>4
  <2>2. Total(Paid, DOMAIN events) \in Nat /\ Paid[i] \in Nat
    BY <1>1, <1>3, <1>10, EventType, TotalType
  <2> QED
    BY <1>4, <1>9, <2>1, <2>2
<1>12. TokensPaid'
  <2>1. /\ Total(balances', User) \in Nat /\ Total(balances, User) \in Nat
        /\ Total(Paid, DOMAIN events) \in Nat
    BY <1>1, <1>5, <1>7, <1>10, EventType, TotalType
  <2>2. Total(balances, User) <= Total(Paid, DOMAIN events)
    BY DEF BackedInv, TokensPaid
  <2>3. Total(balances', User) <= Total(Paid', DOMAIN events)
    BY <1>4, <1>7, <1>11, <2>1, <2>2
  <2> QED
    BY <1>2, <2>3 DEF TokensPaid
<1>13. CoinsKept'
  BY <1>2 DEF BackedInv, CoinsKept, Deposited
<1> QED
  BY <1>12, <1>13

\* A new event is not paid yet, and its coins came in with it.
LEMMA DepositBacked == BackedInv /\ DepositCoins => CoinsKept' /\ TokensPaid'
<1> SUFFICES ASSUME BackedInv, DepositCoins PROVE CoinsKept' /\ TokensPaid'
  OBVIOUS
<1>1. PICK c \in Account, to \in Account \cup {ZeroAddress}, v \in Amounts, w \in Values :
          /\ Deposit(c, to, v)
          /\ values' = Append(values, w) /\ UNCHANGED <<withdrawn, bridgeVars>>
  BY DEF DepositCoins, ExecuteTransaction
<1> DEFINE n == Len(events) + 1
<1>2. CustodyInv /\ CustodyInv'
  BY DepositKeeps DEF BackedInv
<1>3. PICK e : events' = Append(events, e) /\ e.amount = v
  BY <1>1 DEF Deposit
<1>4. /\ swapBalance' = swapBalance + v /\ UNCHANGED <<balances, withdrawn, settled>>
      /\ swapBalance \in Nat /\ withdrawn \in Nat /\ v \in Nat /\ w \in Nat
  BY <1>1, <1>2, CustodyAssumption
     DEF Deposit, tokenVars, bridgeVars, CustodyInv, CustodyTypeOK, ContractsTypeOK
<1>5. /\ events \in Seq(DepositEvents) /\ events' \in Seq(DepositEvents)
      /\ values \in Seq(Nat) /\ Len(values) = Len(events)
  BY <1>2 DEF CustodyInv, CustodyTypeOK, ContractsTypeOK
<1>6. /\ DOMAIN events' = 1..n /\ DOMAIN events = 1..(n - 1) /\ n \in Nat \ {0}
      /\ \A i \in 1..(n - 1) : events'[i] = events[i] /\ values'[i] = values[i]
      /\ events'[n] = e /\ values'[n] = w
  BY <1>1, <1>3, <1>5
<1>7. /\ n \in DOMAIN events' /\ DOMAIN events' \ {n} = DOMAIN events
      /\ DOMAIN events \subseteq DOMAIN events'
  BY <1>6
<1>8. /\ Deposited'[n] = v /\ \A i \in DOMAIN events : Deposited'[i] = Deposited[i]
  BY <1>3, <1>6, <1>7 DEF Deposited
<1>9. /\ Deposited \in [DOMAIN events -> Nat] /\ IsFiniteSet(DOMAIN events)
      /\ Paid \in [DOMAIN events -> Nat]
  BY <1>2, EventType, PaidType
<1>10. IsFiniteSet(DOMAIN events')
  <2>1. DOMAIN events' = 1..n /\ 1 \in Int /\ n \in Int
    BY <1>6
  <2> HIDE DEF n
  <2> QED
    BY <2>1, FS_Interval
<1>11. /\ Deposited' \in [DOMAIN events' -> Nat]
  <2>1. Deposited' = [i \in DOMAIN events' |-> Deposited'[i]]
    BY DEF Deposited
  <2>2. \A i \in DOMAIN events' : Deposited'[i] \in Nat
    BY <1>4, <1>7, <1>8, <1>9
  <2> QED
    BY <2>1, <2>2
<1>12. CoinsKept'
  <2>1. Total(Deposited', DOMAIN events') = v + Total(Deposited', DOMAIN events)
    BY <1>7, <1>8, <1>10, <1>11, TotalTake
  <2>2. Total(Deposited', DOMAIN events) = Total(Deposited, DOMAIN events)
    BY <1>7, <1>8, <1>9, <1>11, TotalAgree
  <2>3. swapBalance + withdrawn = Total(Deposited, DOMAIN events)
    BY DEF BackedInv, CoinsKept
  <2> QED
    BY <1>4, <2>1, <2>2, <2>3 DEF CoinsKept
<1>13. Times(n) = 0
  <2>1. settled \subseteq (DOMAIN events) \X (0..epoch)
    BY <1>2 DEF CustodyInv, CustodyTypeOK
  <2>2. n \notin DOMAIN events
    BY <1>6
  <2>3. {p \in settled : p[1] = n} = {}
    BY <2>1, <2>2
  <2>4. Times(n) = Cardinality({})
    BY <2>3 DEF Times
  <2> HIDE DEF n
  <2> QED
    BY <2>4, FS_EmptySet
<1>14. \A i : Times(i)' = Times(i)
  BY <1>4 DEF Times
<1>15. Paid'[n] = 0 /\ \A i \in DOMAIN events : Paid'[i] = Paid[i]
  <2>1. \A i \in DOMAIN events' : Paid'[i] = Times(i) * values'[i]
    BY <1>14 DEF Paid
  <2>2. \A i \in DOMAIN events : Paid[i] = Times(i) * values[i]
    BY DEF Paid
  <2>3. 0 * w = 0
    BY <1>4
  <2> HIDE DEF n
  <2>4. Paid'[n] = 0 * w
    BY <1>6, <1>7, <1>13, <2>1
  <2>5. \A i \in DOMAIN events : values'[i] = values[i]
    BY <1>6
  <2> QED
    BY <1>7, <2>1, <2>2, <2>3, <2>4, <2>5
<1>16. Paid' \in [DOMAIN events' -> Nat]
  <2>1. Paid' = [i \in DOMAIN events' |-> Paid'[i]]
    BY DEF Paid
  <2>2. \A i \in DOMAIN events' : Paid'[i] \in Nat
    BY <1>7, <1>9, <1>15
  <2> QED
    BY <2>1, <2>2
<1>17. Total(Paid', DOMAIN events') = Total(Paid, DOMAIN events)
  <2>1. Total(Paid', DOMAIN events') = 0 + Total(Paid', DOMAIN events)
    BY <1>7, <1>10, <1>15, <1>16, TotalTake
  <2>2. Total(Paid', DOMAIN events) = Total(Paid, DOMAIN events)
    BY <1>7, <1>9, <1>15, <1>16, TotalAgree
  <2>3. Total(Paid, DOMAIN events) \in Nat
    BY <1>9, TotalType
  <2> QED
    BY <2>1, <2>2, <2>3
<1> QED
  BY <1>4, <1>12, <1>17 DEF BackedInv, TokensPaid

LEMMA StepBacked == BackedInv /\ [Next]_vars => BackedInv'
<1> SUFFICES ASSUME BackedInv, [Next]_vars PROVE BackedInv'
  OBVIOUS
<1>1. CustodyInv /\ CustodyInv'
  BY StepInv DEF BackedInv
<1>2. CASE DepositCoins
  BY <1>1, <1>2, DepositBacked DEF BackedInv
<1>3. CASE \E p \in issued : MineTransfer(p)
  BY <1>1, <1>3, MineKeeps DEF BackedInv
<1>4. CASE LedgerKept /\ (UNCHANGED balances \/ UserMoves)
  <2>1. UNCHANGED <<Paid, Deposited>>
    BY <1>4 DEF LedgerKept, Paid, Times, Deposited
  <2>2. CoinsKept'
    BY <1>4, <2>1 DEF LedgerKept, BackedInv, CoinsKept
  <2>3. /\ balances \in [Account -> Nat] /\ balances' \in [Account -> Nat]
        /\ User \in SUBSET Account /\ IsFiniteSet(User)
    BY <1>1, AccountFinite DEF User, CustodyInv, CustodyTypeOK, ContractsTypeOK
  <2>4. /\ Total(balances, User) \in Nat /\ Total(balances', User) \in Nat
        /\ Total(Paid, DOMAIN events) \in Nat
    BY <1>1, <2>3, EventType, PaidType, TotalType
  <2>5. Total(balances', User) <= Total(balances, User)
    BY <1>1, <1>4, <2>4, UserMovesKeep
  <2>6. TokensPaid'
    <3>1. Total(balances, User) <= Total(Paid, DOMAIN events)
      BY DEF BackedInv, TokensPaid
    <3>2. Total(balances', User) <= Total(Paid, DOMAIN events)
      BY <2>4, <2>5, <3>1
    <3> QED
      BY <1>4, <2>1, <3>2 DEF LedgerKept, TokensPaid
  <2> QED
    BY <1>1, <2>2, <2>6 DEF BackedInv
<1> QED
  BY <1>1, <1>2, <1>3, <1>4, StepKinds

LEMMA InitBacked == Init => BackedInv
<1> SUFFICES ASSUME Init PROVE BackedInv
  OBVIOUS
<1>1. CustodyInv
  BY InitInv
<1>2. events = <<>> /\ swapBalance = 0 /\ withdrawn = 0
  BY DEF Init, ContractsInit
<1>3. /\ Deposited \in [DOMAIN events -> Nat] /\ Paid \in [DOMAIN events -> Nat]
      /\ DOMAIN events = {}
  BY <1>1, <1>2, PaidType
<1>4. Total(Deposited, {}) = 0 /\ Total(Paid, {}) = 0
  BY <1>3, FS_EmptySet, TotalZero
<1>5. Total(balances, User) = 0
  <2>1. balances \in [Account -> Nat]
    BY <1>1 DEF CustodyInv, CustodyTypeOK, ContractsTypeOK
  <2>2. \A a \in User : balances[a] = 0
    BY DEF Init, ContractsInit, User
  <2>3. User \in SUBSET Account /\ IsFiniteSet(User)
    BY AccountFinite DEF User
  <2> QED
    BY <2>1, <2>2, <2>3, TotalZero
<1> QED
  BY <1>1, <1>2, <1>3, <1>4, <1>5 DEF BackedInv, CoinsKept, TokensPaid

\* Users never hold more tokens than the coins that came in, those still in
\* BerithSwap and those its owner withdrew, and the excess of each event: what
\* transfers of several runs for one event, or a transaction worth more than
\* the coins it deposited, paid beyond them.  No order of deposits, withdrawals,
\* pauses, restarts and late executions of transfers adds to that.
THEOREM TokensBacked == Spec => []Backed
<1>1. Spec => []BackedInv
  BY InitBacked, StepBacked, PTL DEF Spec
<1>2. BackedInv => Backed
  <2> SUFFICES ASSUME BackedInv PROVE Backed
    OBVIOUS
  <2>1. CustodyInv
    BY DEF BackedInv
  <2>2. /\ Paid \in [DOMAIN events -> Nat] /\ Deposited \in [DOMAIN events -> Nat]
        /\ IsFiniteSet(DOMAIN events) /\ DOMAIN events \in SUBSET DOMAIN events
    BY <2>1, EventType, PaidType
  <2>3. \A i \in DOMAIN events :
           /\ Excess[i] = IF Paid[i] > Deposited[i] THEN Paid[i] - Deposited[i] ELSE 0
           /\ Paid[i] \in Nat /\ Deposited[i] \in Nat
    BY <2>2 DEF Excess, Deposited
  <2>4. \A i \in DOMAIN events : Excess[i] \in Nat /\ Paid[i] <= Deposited[i] + Excess[i]
    BY <2>3
  <2>5. Excess \in [DOMAIN events -> Nat]
    BY <2>4 DEF Excess
  <2>6. Total(Paid, DOMAIN events)
          <= Total(Deposited, DOMAIN events) + Total(Excess, DOMAIN events)
    BY <2>2, <2>4, <2>5, TotalBound
  <2>7. /\ Total(Paid, DOMAIN events) \in Nat /\ Total(Deposited, DOMAIN events) \in Nat
        /\ Total(Excess, DOMAIN events) \in Nat
    BY <2>2, <2>5, TotalType
  <2>8. Total(balances, User) \in Nat
    BY <2>1, AccountFinite, TotalType DEF CustodyInv, CustodyTypeOK, ContractsTypeOK, User
  <2> QED
    BY <2>6, <2>7, <2>8 DEF BackedInv, CoinsKept, TokensPaid, Backed
<1> QED
  BY <1>1, <1>2, PTL

\* Every event came from an account that called deposit itself.
Direct == \A i \in DOMAIN events : values[i] = events[i].amount

\* Until the bridge is restarted, and as long as accounts call deposit
\* themselves, every token of a user stands for a coin that came in: the bridge
\* may then neither pay an event again nor pay it with another amount.
THEOREM OneRunCovers ==
    Spec => [](epoch = 0 /\ Direct
                 => Total(balances, User) <= swapBalance + withdrawn)
<1>1. Spec => []BackedInv
  BY InitBacked, StepBacked, PTL DEF Spec
<1>2. ASSUME BackedInv, epoch = 0, Direct
      PROVE  Total(balances, User) <= swapBalance + withdrawn
  <2>1. CustodyInv
    BY <1>2 DEF BackedInv
  <2>2. /\ Paid \in [DOMAIN events -> Nat] /\ Deposited \in [DOMAIN events -> Nat]
        /\ IsFiniteSet(DOMAIN events) /\ DOMAIN events \in SUBSET DOMAIN events
    BY <2>1, EventType, PaidType
  <2>3. ASSUME NEW i \in DOMAIN events PROVE Times(i) \in {0, 1}
    <3> DEFINE S == {p \in settled : p[1] = i}
    <3>1. S \in SUBSET {<<i, 0>>}
      <4>1. settled \subseteq (DOMAIN events) \X (0..0)
        BY <1>2, <2>1 DEF CustodyInv, CustodyTypeOK
      <4>2. \A p \in settled : p = <<p[1], 0>>
        BY <4>1
      <4> QED
        BY <4>2
    <3>2. IsFiniteSet({<<i, 0>>}) /\ Cardinality({<<i, 0>>}) = 1
      BY FS_Singleton
    <3>3. Cardinality(S) <= 1 /\ Cardinality(S) \in Nat
      BY <3>1, <3>2, FS_Subset, FS_CardinalityType
    <3> QED
      BY <3>3 DEF Times
  <2>4. ASSUME NEW i \in DOMAIN events PROVE Paid[i] <= Deposited[i] + 0
    <3>1. /\ Paid[i] = Times(i) * values[i] /\ Deposited[i] = values[i]
          /\ values[i] \in Nat
      BY <1>2, <2>1, EventType DEF Paid, Deposited, Direct, MessageAmount
    <3>2. 0 * values[i] = 0 /\ 1 * values[i] = values[i]
      BY <3>1
    <3>3. Paid[i] \in {0, values[i]}
      BY <2>3, <3>1, <3>2
    <3> QED
      BY <3>1, <3>3
  <2>5. PICK none : none = [i \in DOMAIN events |-> 0]
    OBVIOUS
  <2>6. none \in [DOMAIN events -> Nat] /\ \A i \in DOMAIN events : none[i] = 0
    BY <2>5
  <2>7. Total(none, DOMAIN events) = 0
    BY <2>2, <2>6, TotalZero
  <2>8. \A i \in DOMAIN events : Paid[i] <= Deposited[i] + none[i]
    BY <2>4, <2>6
  <2>9. Total(Paid, DOMAIN events)
          <= Total(Deposited, DOMAIN events) + Total(none, DOMAIN events)
    BY <2>2, <2>6, <2>8, TotalBound
  <2>10. /\ Total(Paid, DOMAIN events) \in Nat /\ Total(Deposited, DOMAIN events) \in Nat
         /\ Total(balances, User) \in Nat
    BY <2>1, <2>2, AccountFinite, TotalType
       DEF CustodyInv, CustodyTypeOK, ContractsTypeOK, User
  <2> QED
    BY <1>2, <2>7, <2>9, <2>10 DEF BackedInv, CoinsKept, TokensPaid
<1> QED
  BY <1>1, <1>2, PTL

\* The balances of KBToken add up to its supply after every step: a transfer,
\* also one of an account to itself, makes no token and loses none.
THEOREM SupplyConserved == Spec => []SupplyKept
<1>1. Spec => []CustodyInv
  BY InitInv, StepInv, PTL DEF Spec
<1>2. Init => SupplyKept
  <2> SUFFICES ASSUME Init PROVE SupplyKept
    OBVIOUS
  <2>1. /\ balances \in [Account -> Nat] /\ IsFiniteSet(Account)
        /\ Deployer \in Account /\ balances[Deployer] = Supply
        /\ \A a \in Account \ {Deployer} : balances[a] = 0
    BY CustodyAssumption, ContractsAssumption DEF Init, ContractsInit
  <2>2. Total(balances, Account) = Supply + Total(balances, Account \ {Deployer})
    BY <2>1, TotalTake
  <2>3. Total(balances, Account \ {Deployer}) = 0
    BY <2>1, FS_RemoveElement, TotalZero
  <2> QED
    BY <2>2, <2>3, ContractsAssumption DEF SupplyKept, TotalSupply
<1>3. ASSUME CustodyInv, SupplyKept, [Next]_vars PROVE SupplyKept'
  <2>1. balances \in [Account -> Nat] /\ IsFiniteSet(Account) /\ Account \in SUBSET Account
    BY <1>3, CustodyAssumption DEF CustodyInv, CustodyTypeOK, ContractsTypeOK
  <2>2. Total(balances, Account) = Supply /\ Supply \in Nat
    BY <1>3, ContractsAssumption DEF SupplyKept, TotalSupply
  <2>3. ASSUME NEW from \in Account, NEW to \in Account, NEW v \in Nat,
               v <= balances[from], balances' = Moved(from, to, v)
        PROVE  Total(balances', Account) = Supply
    BY <2>1, <2>2, <2>3, MovedTotal
  <2>4. CASE UNCHANGED balances
    BY <1>3, <2>4 DEF SupplyKept, TotalSupply
  <2>5. CASE UserMoves
    BY <2>3, <2>5 DEF UserMoves, User, SupplyKept, TotalSupply
  <2>6. CASE DepositCoins
    BY <2>4, <2>6 DEF DepositCoins, ExecuteTransaction, Deposit, tokenVars
  <2>7. CASE \E p \in issued : MineTransfer(p)
    <3>1. PICK p \in issued : MineTransfer(p)
      BY <2>7
    <3>2. p[1] \in DOMAIN events
      BY <1>3 DEF CustodyInv, CustodyTypeOK
    <3>3. events[p[1]].recipient \in Account /\ MessageAmount(p[1]) \in Nat
      BY <1>3, <3>2, EventType
    <3> QED
      BY <2>3, <3>1, <3>3, ContractsAssumption
         DEF MineTransfer, Transfer, CanMove, SupplyKept, TotalSupply
  <2> QED
    BY <1>3, <2>4, <2>5, <2>6, <2>7, StepKinds
<1> QED
  BY <1>1, <1>2, <1>3, PTL DEF Spec
==============================================================================
