# Berith Swap in TLA+

The program in `src/` is a one-way bridge. A user calls `deposit()` of the
BerithSwap contract on the Berith chain; the bridge sees the event, waits until
it is buried under enough blocks, and transfers the same amount of KBToken on
the Klaytn chain. This directory holds TLA+ models of it, the TLC runs that check
them, and the proofs that TLAPS checks.

## 1. Inventory

| Part | Source | State it keeps | Operations |
|---|---|---|---|
| Sender chain | `bridge/bridge/sender.go` | current block, retries left, messages of the block | `pollBlocks`, `getDepositEventsForBlock`, `SendMsgs`, `Stop` |
| Receiver chain | `bridge/bridge/receiver.go` | the message each of two listeners works on | `listen` (twice), `SendToken`, `Stop` |
| Bridge | `bridge/bridge/bridge.go`, `main.go` | both chains, the message channel, the error channel | `NewBridge`, `Start`, `Stop`, exit |
| Block store | `bridge/blockstore/blockstore.go` | a file with the last stored block | `StoreBlock`, `TryLoadLatestBlock` |
| History store | `bridge/store/**` | table `bers_swap_hist` | `GetBersSwapHistory`, `CreateSwapHistoryTx` |
| Messages | `bridge/message`, `bridge/util/validator.go` | none | `NewDepositMessage`, `ValidateStruct` |
| EVM client | `bridge/connection/connection.go` | cached nonce, `nonceLock` | RPC wrappers, `UnsafeNonce`, `UnsafeIncreaseNonce` |
| Transactor | `bridge/transaction/**` | none of its own | `Transact`, `NewTransaction` |
| Gas pricing | `bridge/evmgaspricer/**`, `contract_Initializer.go` | the upper limit | `GasPrice`, `estimateGasLondon` |
| BerithSwap, KBToken | `contract/contracts/*.sol`, `bridge/contract/consts` | `depositNonce`, coins; balances, paused, owner | `deposit`, `transferFunds`; the ERC20, `pause`, `unpause` |
| Bindings | `bridge/contract/*.go` | address and ABI | `ExecuteTransaction`, `CallContract` and one method per call |
| Configuration, keys, set-up | `bridge/config`, `bridge/cmd`, `bridge/chain`, `bridge/keypair` | set once at start | `GetConfig`, `NewChain`, `GenerateKeyPair` |

How the parts interact. The sender goroutine and the listeners share one
*unbuffered* Go channel, so a hand-over is a rendezvous. There are **two**
listeners: `NewReceiverChain` starts one with `go rc.listen()` (`receiver.go:60`)
and drops its result, `Bridge.Start` starts the other and returns the first
error that it or the sender reports; `main` then exits. The listeners share the
block file, the history table and, through one `EvmClient`, the cached nonce.
The block file is read at start only (`--load`). `Bridge.Stop` is called by tests
only, from another goroutine; it stops the sender, closes the database and sends one
signal to the listeners. Before any of this runs, `main` builds the parts one after
the other; some errors on the way panic, some are logged and dropped.

What is hard: two listeners that race from the read of a history row to its
insert minutes later; a transfer, a file and a table that are written one
after the other with a possible crash between any two; RPC, database and disk
errors whose effect may or may not have happened; reorganisations of Berith;
a send that blocks when nobody receives; a lock released by hand on six paths;
prices quoted in one block and used in another; a token that its owner may pause
while transfers are under way; a start that may come half up.

What makes each part correct:

- sender chain: reads only blocks that stay, hands over every deposit of a
  block before it moves on, never hands one over twice in a run, and gets on;
- receiver chain: pays a deposit once in a run and never when it is recorded,
  records only what was paid;
- stores: the block file never passes everything that was paid, a row is for ever;
- nonce: no two transfers under one nonce, no nonce left out, the lock returns;
- prices: a transfer is never broadcast at a price that cannot be mined, nor above
  the limit without need;
- contracts: the tokens of users are covered by coins, but for what was paid twice or by
  the value of another contract's caller; nothing is created or lost; events are told
  apart by their numbers;
- start: a bridge that polls has passed every check there is, and a sound setup always
  comes up (an empty token address passes too, see `no_token`);
- the bridge as a whole: it implements the abstract `Swap`, also when it is stopped.

## 2. Modules

| Module | What it models | Builds on |
|---|---|---|
| `Runtime` | process up or down, number of runs, a budget of faults | |
| `Message` | messages and the validator | |
| `BerithChain` | blocks of deposits, reorganisations, `deposit()`, `eth_getLogs` | `Message` |
| `SenderChain` | `pollBlocks` with every call and failure | `BerithChain`, `Runtime` |
| `KlaytnChain` | transfers: pending, mined, reverted | `Message`, `Runtime` |
| `ReceiverChain` | the two listeners, `SendToken`, block file, history table | `KlaytnChain` |
| `Bridge` | the composition: channel, start, exit, crash, restart; its properties | `SenderChain`, `ReceiverChain` |
| `Swap` | the abstract promise of the bridge | |
| `BridgeInv` | the inductive invariant, the refinement mappings to `Swap` and `Launch` | `Bridge`, `Swap`, `Launch` |
| `BridgeClaims` | statements of the repository that the code does not keep | `BridgeInv` |
| `Lifecycle` | `Bridge.Stop` and what the goroutines notice of it | `BridgeInv` |
| `Transactor` | `Transact`, `nonceLock`, the cached nonce, a node's view of the account | `Runtime` |
| `GasPricer` | both gas pricers and the kind of transaction, as operators | |
| `TransactorFees` | the price of every transaction, from the quote to a block | `Transactor`, `GasPricer` |
| `Contracts` | the two contracts, one operation per function | |
| `Custody` | users, owners and a bridge that takes the steps of `Swap`, at the contracts, through the bindings | `Contracts`, `Swap` |
| `Launch` | the abstract start of the process, which `Startup` and `Bridge` both implement | |
| `Startup` | `GetConfig`, `NewBridge` and `Start` step by step | `Launch` |
| `MCBridge`, `MCLifecycle`, `MCTransactor`, `MCFees`, `MCCustody`, `MCStartup` | the instances TLC checks | |
| `BridgeProofs`, `SwapProofs`, `LifecycleProofs`, `TransactorProofs`, `FeesProofs`, `TotalProofs`, `CustodyProofs`, `StartupProofs` | the theorems | TLAPS |

State and actions against the code:

- `spc` is the next call of `pollBlocks` (`poll`: the head of the loop; `fetch`,
  `lookup`: inside `getDepositEventsForBlock`; `send`: inside `SendMsgs`);
  `currentBlock`, `retry`, `logs`, `msgs` are its locals. Any failed call is
  `RetryPoll`: one retry less and back to the head of the loop.
- `lpc[l]` is the next call of `SendToken` in listener `l`, `lmsg[l]` its argument,
  `lpay[l]` the transfer it has made. `os.WriteFile` is two steps, `store`
  (truncate) and `write`. Each error return is a `...Failed` action that ends the
  listener; where the effect may have happened in spite of the error (a broadcast,
  a commit) both outcomes are allowed.
- `Deliver(l)` joins one send of `SendMsgs` and one receive of `listen`. `Exit` is
  the error that `Bridge.Start` returns to `main`. `Crash` may come between any two
  steps; `Start` runs again afterwards, as `start_bridge.sh` in the workflow
  `.github/workflows/build.yaml` does.
- In `Transactor`, `tpc[c]` is the next call of `Transact`; the account is `mined`
  (its nonce) and `pool` (accepted and not mined, with gaps). `PendingNonces` is what
  `eth_getTransactionCount(pending)` may answer; with `Lagging` also less than
  what was broadcast, as behind a load balancer.

- In `Lifecycle`, `stopPc` is the next statement of `Bridge.Stop`, which is called at most
  once in a run. `isStopped` of `pollBlocks` is written by a goroutine without
  synchronisation: between `SenderStop` and `SetIsStopped` the loop may go round any number
  of times. Once `StoreStop` is done, the read and the insert of `SendToken` are
  `StoreClosed`. `ReceiverStop(l)` needs a listener in its `select`; if there is none,
  `Stop` hangs and `StopEndsProcess` says that the process ends in spite of it.
- In `TransactorFees`, each step of `Transact` is the one of `Transactor` together with what it
  does to the price; `Mine` needs a fee cap that covers the base fee of the block.
- In `Contracts` an operation is one successful call; a call that a `require` refuses
  changes nothing and is no step. In `Custody` the pair `<<i, e>>` is the transfer that run
  `e` makes for event `i`: `issued` in one state of KBToken, `settled` or `reverted` in
  another. `events[i].amount` is the coins that came with the event, `values[i]` the value
  of the whole transaction (`tx.Value()`, `sender.go:188`), which is what the bridge pays.
- In `Startup`, `setup` is all that the process finds (files, flags, contracts), and stays; `pc`
  is the constructor that `main` is in. `Panic` is zerolog's, or a nil pointer or index
  out of range in a goroutine; either way the process is gone. A dropped error is a
  disjunct that goes on.

Abstractions, all on data:

- in `Bridge` a deposit (`Tx`) is a transaction in which an account itself calls
  `deposit()`, as `TestDeposit` makes them, so one transaction has one event; amount,
  sender and hash of a message are functions of it and left out. In `Custody` a deposit
  may come through another contract, and its coins differ from the value of the
  transaction;
- the order of the events of a block is left open (a set), which allows more
  than the code does;
- `TransactionByHash` of a hash that a node no longer knows is an `rpc` fault;
- `Transact` and `SendToken` both wait for the same receipt, one after the other:
  one step `WaitAndReturnTxReceipt`; its 50 attempts are the wait itself or
  `WaitTimedOut`;
- in `Bridge` a pause and an empty balance of KBToken are one `revert` (`Custody` tells
  them apart); Klaytn blocks are final;
- in `Bridge` the start is one step, from the block of the file or from the latest one;
  `Startup` shows what that step stands for: both implement `Launch`
  (`ImplementsLaunch` in the runs `startup` and `reorg`);
- in `Custody` the bridge takes the steps of `Swap`, which `Bridge` implements: what it
  may broadcast and record, and that a restart may pay again for what is not recorded.
  Deposits are final at once, for `Bridge` has the reorganisations. The key that deployed
  the contracts is used by the bridge and for the owner's functions, not to hand out
  tokens by hand, without which `Backed` could not hold. Allowances of KBToken are left
  out: nothing in the bridge uses them, and `transferFrom` moves what `transfer` may;
- the two listeners writing the file at the same instant leave one number or the
  other, not a mixture of digits.

## 3. Runs

TLC explores the models with two deposits (`t1`, `t2`; `t2` gives the zero address
as its recipient) and the two listeners. Two deposits are what the two
listeners can hold at once; height 3 with one confirmation gives two readable
blocks, so both deposits may share a block, lie in two or come out of order.
Two faults cover every pair, for example a crash after a lost answer.

| Run | Module and cfg | Bounds | What it shows |
|---|---|---|---|
| `payments` | `MCBridge` | height 3, 1 confirmation, faults `send db timeout disk crash revert`, 2 of them | `HistoryImpliesPaid`, `OnePaymentPerRun`, `Accounted`, `CheckpointSound`, `NoPayAfterHistory`, and that `IInv` is true |
| `reorg` | `MCBridgeReorg` | as above with reorganisations of 1 block, 2 retries, faults `rpc crash reorg timeout` | `PaymentsConfirmed`, `LogsInBlock`, `TransfersBounded`, `IInv`, and the refinements `ImplementsSwap` and `ImplementsLaunch` |
| `live` | `MCBridgeLive` | 3 retries, 2 faults `rpc reorg` | `EveryDepositRecorded` |
| `stop` | `MCLifecycle` | `--load=false`, height 1, 1 retry, faults `stop send rpc crash`, 2 of them | `TypeOK`, `Accounted`, `ImplementsSwap`, `SenderGetsThrough`, `StopEndsProcess` |
| `nonce` | `MCFees` | 3 calls, lagging nodes, 1 fault `other crash`, base fees none, 1, 5 and limit 4 | `IncreasingNonces`, `NonceInv`, `EveryCallReturns`, `StuckOnlyAfterRise`, `LimitKept`, `FeeInv` |
| `startup` | `MCStartup` | every setup with at most three fields wrong, height 2, 2 faults | `StartTypeOK`, `UpIsChecked`, `ComesUp`, `ImplementsLaunch` |
| `contracts` | `MCCustody` | deployer and two users (symmetric), supply 2, two event numbers, amounts 1, values 1 and 2, one restart | `CustodyTypeOK`, `Backed`, `SupplyKept`, `NoncesUnique` |

Every property of these has a mutant in `PROJECT.json`: a definition that a
plausible mistake would change (a dropped guard, an off-by-one, a lock released
too early) and with which TLC finds the property violated.

The runs that must fail compare a statement of the repository with the code:

| Run | Statement | What TLC finds |
|---|---|---|
| `restart_loses` | `flags.go:34`, `main.go:54` | a crash leaves an unpaid deposit below the block of the file |
| `torn_file` | `blockstore.go:65`, `flags.go:34` | an empty file, with which every start panics |
| `paid_twice` | the primary key in `000001_init_bers_swap_table.up.sql` | a crash before the insert, and the next run pays again |
| `nonce_gap` | `connection.go:160` | the second transfer of a run skips a nonce when the node counts the first at once |
| `no_token` | `receiver.go:67-68`, `connection.go:275` (no code at the address is an error) | an empty `erc20Address`: the error is dropped, and the bridge polls with a listener that pays through the zero address |

Further disagreements met on the way have no run of their own:

- `receiver.go:103` logs "stop receiver chain" when `SendToken` fails; the error of the
  background listener goes nowhere, and the main one goes on paying.
- `flags.go:34` speaks of the last deposited block; two listeners that finish out of
  order leave the file below a deposit that is recorded (`CheckpointSound` states what
  does hold).
- `sender.go:125` says "No more retries, goto next block" above code that closes the
  client and returns an error, which ends the process (`RetriesExceeded`).
- `bridge.go:49` says that `Stop` ends both chains; one of the two listeners never gets a
  signal, `Stop` hangs when both have failed, and a stop between a transfer and its
  insert leaves a payment without a row.
- `evmgaspricer.go:54` gives the fee cap as base fee plus tip; it is twice the base fee
  plus tip. `contract_Initializer.go:19` calls the limit one on the whole fee; a base fee
  above the limit is paid all the same (`LimitKept`). With a base fee equal to the limit
  the cap has no room: the next rise holds the transfer up.
- `connection.go:246` keeps going without a chain id; `newTransactorWithChainID` then
  refuses to sign.
- `SwapContract.GetBalance` asks for `balanceOf`, which BerithSwap does not have: it always
  returns an error (`SwapGetBalance`).
- `flags.go:41` describes a password file of two lines; a newline at its end makes a
  third, for which there is no chain, and `GetConfig` panics (`TooManyLines`).
- `--load=false` does not undo `"IsLoaded": true` of `config.json` (`IsLoaded`).
- `maxGasPrice` is parsed and never used. A negative `blockConfirmations` parses.
- `receiver.go:155` stores `m.Amount.Int64()`, the low 64 bits of an amount in wei as a signed
  number; `bridge_test.go:215` compares the row with coins. From 9.3 coins on the row holds
  another number, which nothing in the bridge reads.
- `swapAddress` left empty, or an RPC that fails in `NewSenderChain`, is a nil pointer in
  the sender goroutine (`PollNil`).

Bounds are `MaxHeight`, `MaxFaults` and `FaultKinds` of the bridge, `MaxCalls`,
`MaxNonce`, `MaxFaults`, `BaseFees` and `Suggestions` of the transactor, `MaxHeight`,
`MaxFaults` and `Setups` of the start, `Amounts`, `Values`,
`NewOwner`, `MaxRuns`, `Supply` and the width of the contracts. The limit of the gas price
is 4; base fees are none, 1
(where the limit cuts the higher of two tips only) and 5 (above the limit), so that each
branch of `estimateGasLondon` meets a rise. Two event numbers and a supply of 2 let both run
out; a value of 2 for a deposit of 1, and one restart, let the bridge pay too much in both
ways there are. Three wrong
fields of a setup are one more than any check of the start looks at together.

`CHECK_DEADLOCK FALSE` stands in every cfg because the bounded chain stops growing,
because calls and amounts run out, and, in the bridge, because an empty block file stops the
process for good; that nobody waits for ever is stated by `SenderGetsThrough`,
`StopEndsProcess`, `EveryCallReturns` and `ComesUp`.

Fairness. Every goroutine that can take a step takes one (Go's scheduler): weak
fairness of `SenderStep`, of `ListenerStep(l)` and `Deliver(l)` for each listener, of
`Exit` and of `Transact(c)`. `Start` is fair because the process is run by a
start script; `MinePayment` because Klaytn mines what is in its pool. Strong
fairness is used once, for `LockNonce`: `sync.Mutex` hands the lock to a waiter
that starves. Nothing forces Berith to mine or faults to happen.
In `Lifecycle` the goroutine that calls `Stop` and the watcher of `pollBlocks` are fair
like every other; in `Startup` `main` goes on and the process is started again.
`EveryDepositRecorded` is about confirmed deposits while no listener can fail; with
listener failures it is false: the message of a failed background listener is lost
until the next start, and the finding of `restart_loses` is that it may be lost for good.

## 4. Proofs

All theorems hold for every number of deposits, heights, retries, callers,
accounts and faults. The assumptions are the named `ASSUME`s. The only ones that are
more than a type are `FinalityAssumption`, `MaxReorg <= Confirmations` (it is what
`blockConfirmations` of the configuration is for, and without it `PaymentsConfirmed` is
false), and `IsFiniteSet(Account)` in `CustodyAssumption` (an address has 20 bytes; a sum
of balances means nothing without it).

`BridgeProofs` proves `Spec => []IInv`, and from it `TypeOK`, `HistoryImpliesPaid`,
`PaymentsConfirmed`, `OnePaymentPerRun`, `Accounted`, `CheckpointSound`, `LogsInBlock`,
`TransfersBounded` and `NoPayAfterHistory`. None of these is inductive alone. The argument:

1. *Scan.* A block that `pollBlocks` reads is confirmed, and a reorganisation stays
   above it (`ReorgFacts`, `ScanBerith`), so `FilterLogs` of it never changes and the
   messages of the block are handed over exactly once: `Passed(t)` becomes true
   when the message of `t` leaves `SendMsgs` and stays true for the run.
2. *Messages.* A listener only holds passed deposits (`HeldInv`), two listeners
   never the same (`DistinctInv`), and a payment of the present run is for a passed
   deposit (`PaymentInv`). So a message that is handed over is for a deposit this
   run has not paid, which gives `OnePaymentPerRun` without looking at the history.
3. *Order inside `SendToken`.* `ProgressInv` carries what each step has
   established to the next: not yet paid, not recorded, paid by `lpay[l]`, mined.
   With `DistinctInv` a recorded deposit is never paid, although the row read at
   the start of `SendToken` is old by then.
4. *Accounting.* `PassedAccounted`: what was handed over is recorded or held.
5. *Restarts.* A transfer carries the number of a run between 1 and the present one
   (`PaymentInv`), and one run makes one transfer for a deposit; so the runs tell the
   transfers for a deposit apart and there are no more of them than runs
   (`TransfersBounded`). This is what is left of "paid once" after the finding of
   `paid_twice`: each start of the process costs at most one more transfer.

`SwapProofs` proves that `Bridge` implements `Swap`: `run` is the epoch, the
confirmed deposits are final, transfers are pairs of deposit and run, rows are
records. A block or a reorganisation is `Confirm`, a broadcast is `Issue`, an
execution `Settle`, an insert `Record`, a start `Restart`; all else stutters. `Swap` counts
the broadcasts (`transfers`), so that a second one of the same run is no stutter. It also
proves that `Bridge` implements `Launch`, the specification that `StartupProofs` proves of
the start seen from `main`: `IInv` is needed for the write of the block file, which
only a running bridge does, and with the number of a block.

`TransactorProofs` proves `Spec => []NonceInv`: the one caller between `LockNonce`
and `UnlockNonce` has read the cached nonce as it still is, and the cached nonce
is above every acknowledged one, except between the broadcast and the increase,
where it is the last. Hence `IncreasingNonces`.

`LifecycleProofs` shows that the steps of `Stop` keep `IInv` and the refinement: each is a
step of `Bridge`, a stutter, or the end of a goroutine that `Bridge` allows only under a
fault; the lemmas of `BridgeProofs` and `SwapProofs` serve for the rest. Everything proved of
the bridge therefore holds of one that is stopped: `StopKeepsPayments`,
`StopKeepsRecorded` (the closed database is an error and not an empty table),
`StopStartsWhereItMay`.

`FeesProofs` shows that `TransactorFees` implements `Transactor`, so that `NonceInv` carries
over, and proves `FeeInv`: `PriceSound` holds of a price where it is quoted (`estimateGasLondon`
branch by branch), and no step changes a price afterwards. `StuckOnlyAfterRise` and
`LimitKept` are arithmetic on `PriceSound`.

`CustodyProofs` proves types and `NoncesUnique` (every number up to `depositNonce` is the
place of its event) for all accounts, supplies, widths and numbers of restarts. It goes on
to the two invariants about money, which compare sums over accounts and over events:

- `SupplyKept` is inductive once `MovedTotal` is known: a transfer changes the sum over
  any set of accounts by what crosses its border, also when sender and receiver are one
  account. The sum over all accounts has no border.
- `Backed` is not inductive. `BackedInv` adds two equations that each step keeps:
  `CoinsKept` (coins in BerithSwap and coins withdrawn are the sum of all events) and
  `TokensPaid` (tokens of users are at most the sum of `Paid`, which is for each event the
  number of settled transfers times the value of its transaction). A transfer that is
  mined adds that value to `Paid` and as many tokens to those of users, or none, if the
  recipient is the bridge itself. What is paid for an event is at most its coins and its
  `Excess`, and the sums follow (`TotalBound`).

`Excess` is the honest part of this: it is where a payment repeated after a crash and a
deposit through another contract leave tokens without coins. `OneRunCovers` states what
remains when neither happens: in the first run, with every deposit a direct call, the
tokens of users are covered by coins and nothing is excepted.

`TotalProofs` supplies the sums. `Total` is a fold over a finite set in an order that
`CHOOSE` fixes, so that nothing about it is immediate but the first step. `TotalUnits`
shows that it is the cardinality of a set with `f[x]` elements for each `x`, by
well-founded induction over the subsets: were the two different somewhere, they would
differ on a least subset, and taking out the chosen element gives a smaller one. All
other facts (any element may be taken out, one changed value, a subset, a bound on each value) are then facts
about finite sets.

`StartupProofs` proves an invariant that says, place by place, what `main` has
established when it gets there: configuration read, sender's key, receiver's key,
block loaded, contract found. At the last place they add up to `Checked` (`OnlyCheckedComesUp`), and `Start` is
the one step of `Launch`. `Checked` is not all that the bridge needs: the run `no_token`
shows the setup that passes and has no token contract.

Only model-checked: the five liveness properties (`EveryDepositRecorded`,
`SenderGetsThrough`, `StopEndsProcess`, `EveryCallReturns`, `ComesUp`), for TLAPS does
not reason about `ENABLED`, and the counterexamples of the findings. Every invariant, action
property and refinement that a passing run checks is also proved.

## 5. Not modelled

- Two `os.WriteFile` calls at the same instant, which may mix the digits of two numbers:
  one number or the other is left in the model.
- `Transactor` and `Bridge` are checked apart. What `Bridge` assumes of a transfer (it is
  broadcast, or an error comes back and either may have happened) is what
  `Transactor` allows; the product of the two is beyond TLC at any useful size.
- A password inside `config.json`, verbosity, logging, and the declarations that sqlc
  generates: no property depends on them.
- Encoding and signing of transactions, decryption of keys: one call that succeeds or
  fails.
- Several Deposit logs in one transaction, when a contract calls `deposit()` more than once:
  `getDepositEventsForBlock` makes a message of each, all with the hash and the value of the
  one transaction, and the history has a row for one of them. The models assume one log per
  transaction.
- The allowances of KBToken, and the amount in a row of the history.
- The bytecode of the contracts; what KBToken inherits is modelled from what its ABI and
  `KBToken.sol` declare.
- Calls nothing uses: `LatestBlock`, `PendingCallContract`, `CallContext`, the query of the
  history by address. The deployment scripts and the tests.
