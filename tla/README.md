# TLA+ models of the ultra-relay bundler

The bundler accepts ERC-4337 userOps over JSON-RPC, keeps them in a mempool,
packs them into bundles, and sends each bundle as a transaction of one of its
executor wallets. It watches the chain, replaces or cancels what gets stuck, and
reports a verdict for every userOp. This directory models the part of it where
several flows share wallets, stores, windows of prices, timers and the chain, in
one process or in several. Paths below are relative to `src/src/` unless they
start with `src/` or `docs/`.

## 1. The system

| Component | State it keeps | Operations that change it |
|---|---|---|
| Sender manager, memory (`executor/senderManager/createMemorySenderManager.ts`) | FIFO list of free wallets, a counting semaphore | `getWallet`, `lockWallet`, `markWalletProcessed` |
| Sender manager, Redis (`createRedisSenderManager.ts`, `flushOnStartUp.ts`) | a queue of addresses shared by instances, the wallets this instance has | the same, and a flush at start |
| Outstanding store, memory (`store/createMemoryOutstandingStore.ts`) | a backlog per sender and nonce key, a priority queue of their heads | `add`, `pop`, `remove`, `popConflicting`, `clear` |
| Outstanding store, Redis (`store/createRedisOutstandingStore.ts`) | the same in sorted sets, changed by Lua scripts | the same |
| Mempool store (`store/createMempoolStore.ts`) | outstanding, processing and submitted userOps per entry point | add, remove and find in each; conflict checks |
| Mempool (`mempool/mempool.ts`) | none of its own | `add`, `process` (a bundling pass), `resubmitUserOps`, `dropUserOps`, `markUserOpsAsSubmitted` |
| Monitor (`mempool/monitoring.ts`) | the status of each userOp, with expiry | `setUserOpStatus` |
| Executor (`executor/executor.ts`, `filterOpsAndEstimateGas.ts`) | none | `bundle`: simulate, drop bad userOps, broadcast, retry |
| Executor manager (`executor/executorManager.ts`) | wallets in quarantine, cancels in flight, timers | `sendBundleToExecutor`, `handleBlock`, `replaceTransaction`, `rotateStuckBundle`, `cancelBundle`, `reconcileQuarantinedWallets` |
| Bundle manager (`executor/bundleManager.ts`, `getBundleStatus.ts`) | the tracked bundles | `trackBundle`, `processIncludedBundle`, `processRevertedBundle`, `getUserOpStatus` |
| Reputation manager (`mempool/reputationManager.ts`) | counters per entity | seen, included, replaced, crashed |
| Gas price manager (`handlers/gasPriceManager.ts`, `utils/minMaxQueue/`) | sliding minimum and maximum of prices, in memory or in Redis | refresh, save, quote, lowest valid price |
| Chain-specific gas managers (`handlers/*Manager.ts`, `utils/preVerificationGasCalulator.ts`) | windows of the oracles of rollups | read, save, `preVerificationGas` |
| Gas estimation (`rpc/estimation/`) | none | binary searches over `eth_call` |
| Validation (`rpc/validation/`, `eth_sendUserOperation.ts`) | none | simulate, trace, check fees, limits, times, authorizations |
| Block watcher and bundling loop (`executor/executorManager.ts`) | the watcher, two timers, the mode | start, stop, `handleBlock`, `setBundlingMode` |
| Receipt cache (`receiptCache/`) | receipts with expiry | cache, find |
| Wallet refill, start-up flush (`validateAndRefill.ts`, `flushOnStartUp.ts`, `executor/utils.ts`) | a timer | refill executors from the utility wallet; replace stuck transactions |
| Shutdown and restoration (`cli/shutDown.ts`, `cli/setupServer.ts`) | a queue for the next instance | dump, restore |
| Event manager, metrics, configuration, transports, contracts | see `PROJECT.json` | outputs and start-up |

**How they interact.** `eth_sendUserOperation` validates a userOp and calls
`Mempool.add`. The bundling loop calls `Mempool.process`, which moves userOps
from outstanding to processing and hands each bundle to
`sendBundleToExecutor`. That takes a wallet from the sender manager, lets the
executor simulate and broadcast, moves the userOps to submitted and has the
bundle tracked. On every block (or on a timer when no block comes) `handleBlock`
looks up receipts and settles, replaces or rotates each tracked bundle. A
settled bundle gives its wallet back; a rotated one leaves its wallet behind
with a cancel, and a wallet whose cancel is not confirmed is quarantined until
the chain shows that nothing is in flight for it. A client has asked for a price
and for an estimate before it sends, and both are held against windows of recent
values that a timer, other clients and, with Redis, other instances fill. With
horizontal scaling instances share the outstanding userOps, the other two stores,
the wallets and the windows; without it an instance that stops publishes what it
has to a queue, and the next one restores it.

**What is hard here.** All flows run on one event loop, so only code between two
awaits is atomic, and a bundle has dozens of awaits. Every one of them may fail,
and each failure must leave the wallet and the userOps in somebody's hands. A
send may succeed although it reports an error. A node may lag, so that a nonce
or a receipt is stale. Transactions get lost, revert, or lose to another
bundler. Replacements, rotations and cancels race with the inclusion of what
they replace. Timers overlap with the calls they started last time. With Redis,
every call is several commands with those of other instances in between. The list with lines is `hazards` in `PROJECT.json`.

**What makes each component correct.**

* Sender manager: semaphore and list agree; no wallet for two bundles; a waiter
  is served.
* Outstanding store: the heads of the backlogs, and only they, are ready; no
  userOp is lost or duplicated; pops follow the fee order.
* Executor and bundle manager: no wallet leaks or is used twice; rotations leave
  half the pool working; a released wallet has nothing in flight at the nonce
  it was stuck at; every userOp has one owner, follows its lifecycle and gets
  one verdict.
* Mempool: what is accepted is somewhere until it has a verdict; what a pass
  takes out it bundles or hands back; the nonces of a sender are in one bundle of
  a pass; records of picked userOps have an owner; bundles obey caps and deposits;
  a pass ends.
* Reputation: counters stay consistent with what was accepted and included.
* Prices: a window answers the minimum and maximum of its recent values; a quote
  and an estimate hold until they expire.
* Safe mode: userOps that are admitted one by one are independent of each other.
* Watching: a bundle that was sent is looked at in time; a bundler that is told
  to stop stops; a bundle is not given up because it bid too little.
* What clients are told: a status is kept for its time, and an included userOp has
  a receipt.
* Wallets: refills fit the need, though nothing waits for them.
* Several instances: no userOp, wallet or value is lost or used twice.

## 2. The modules

| Module | What it is |
|---|---|
| `WalletPool` | abstract: what a sender manager gives those who send |
| `MemorySenderManager` | the memory wallet pool with concurrent callers, shown to implement `WalletPool` |
| `UserOps` | what a userOp is, for the modules below: slots and conflicts |
| `SlotQueue` | the data structure of the memory store and its methods, as operators |
| `OutstandingQueue` | abstract: what a store of outstanding userOps gives the mempool |
| `MemoryOutstanding` | the memory store, shown to implement `OutstandingQueue` |
| `Reputation` | the methods of the reputation manager, as operators |
| `Mempool` | requests, resubmissions and the bundling pass, over `SlotQueue` and `Reputation` |
| `UserOpLifecycle` | abstract: what the bundler promises for each userOp |
| `BundleLifecycle` | bundles from hand-over to verdict, wallets, cancels, quarantine, and the chain; shown to implement `UserOpLifecycle`, and to use the wallets as `WalletPool` allows |
| `MinMaxQueue`, `GasPrices`, `PreVerificationGas`, `GasEstimation`, `TracerRules` | pure parts of admission: windows, prices, data fees, searches, the rules of safe mode |
| `Admission` | a client's way through quote, estimate and submission, with the timer and other clients |
| `Bidding` | the fees of a bundle, from its first send to the last replacement |
| `Clock` | time for the modules with timers |
| `BlockWatch` | when sent bundles are looked at |
| `BundlingLoop` | when bundling passes run |
| `Receipts` | the monitor, the receipt caches and the lookups of clients |
| `WalletUpkeep` | refills of the executors and the flush at start-up |
| `Server` | composes `Admission`, `Bidding`, `BlockWatch`, `BundlingLoop`, `Receipts` and `WalletUpkeep` |
| `RedisOutstanding`, `RedisStores`, `RedisSenderManager`, `RedisMinMaxQueue` | what instances share through Redis |
| `Restoration` | shutdown of one instance and restoration by the next |
| `Instances` | composes these five |
| `Totals` | the sum of a function, for the caps of `Mempool` |
| `MemorySenderManager_proofs`, `MemoryOutstanding_proofs`, `Mempool_proofs`, `BundleLifecycle_proofs` | theorems of these modules, with their refinements |
| `Server_proofs` | theorems of `Admission`, `Bidding`, `BlockWatch`, `BundlingLoop`, `Receipts` and `WalletUpkeep`, and of `Server` |
| `Instances_proofs` | theorems of the five modules over Redis, and of `Instances` |
| `SlotQueue_proofs`, `Totals_proofs` | what operators return, induction, sums and recursion, for the other proofs |
| `MC...` | the instances TLC checks; each has one or more `.cfg` |

### MemorySenderManager and WalletPool

`availableWallets` is the list of the code, `value` and `queue` are the
semaphore of async-mutex, and each caller has a `pc`. `getWallet` and
`lockWallet` are two actions each, before and after the `await` on the semaphore
(`GetWallet`, `TakeFirst`; `LockWallet`, `TakeWanted`/`WantedTaken`), because
other calls run in between. `markWalletProcessed` is `GiveBack`. `ReleaseAgain`
is the second release that `executorManager.ts` can make: a failed pre-flight
frees the wallet (line 453) and, when the requeue throws, `recoverFailedSend`
frees it again, when somebody else may have it. `stolen` records that, only for
the properties: the pool itself cannot tell, and `ExclusiveWallets` says that
nothing else breaks exclusivity. The branch that throws "no more wallets" has no
action; the theorem `GrantedFindsWallet` shows it unreachable.

`WalletPool` is what remains for those who send: a set of free wallets, from which a
user takes one, and to which it gives it back. The list is mapped to the set of its
members. `BundleLifecycle` is written against such a set, and is shown to be a user of
the same pool (`UsesPool`): its users are bundles, and the cancels to which rotated
bundles hand their wallets over (`HandOver`), in the quarantine as well. It releases
no wallet twice (`SecondReleases` is false), since it does not model a requeue that
throws after a failed pre-flight. The sender manager in Redis is no such pool: a crash
loses wallets, and so does a pop by an instance that is not configured with them.

### MemoryOutstanding and OutstandingQueue

Every method of the memory store runs without an await, so each is one action.
The structure and its methods are `SlotQueue`, which `Mempool` uses as well.
The state is the code's: `pendingOps` (sender and nonce key to backlog) and
`priorityQueue`, sorted by `maxFeePerGas`, lowest first, as the code sorts it.
`answer` remembers the last result for the properties. A userOp is a record of
what the store compares. `Spec` calls everything in every order, including the
addition of a userOp that is already there. `InOrderSpec` is a well-behaved
mempool: each sender submits in nonce order, and a bundling pass may hand back
the userOp it popped last (`mempool.ts:1146`).

The three checks that log FATAL errors in the code (lines 162, 300, 310) do not
have actions: `HeadsAreReady` implies that they are unreachable.

### BundleLifecycle and UserOpLifecycle

A *job* is one call of `sendBundleToExecutor` with everything that follows from
it: its replacements, its rotations, its settlement. Its `pc` is the place it
will resume at:

| `pc` | The code is about to |
|---|---|
| `acquire` | await `getWallet` |
| `preflight` | read gas price, base fee and nonce |
| `requeue` | requeue after a failed pre-flight, the wallet already freed |
| `simulate` | run `filterOpsAndEstimateGas` |
| `send` | broadcast |
| `failed` | requeue the recoverable userOps of a send that did not happen |
| `check` | look up the rejected userOps on chain (`getUserOpStatus`) |
| `cancel` | cancel a frontran replacement |
| `drop` | drop the rejected userOps and free the wallet |
| `mark` | `markUserOpsAsSubmitted` and track the bundle |
| `tracked` | wait for `handleBlock` |
| `included`, `reverted`, `revertCheck` | settle a bundle that has a receipt, the wallet already freed |

`bundle` and `rejected` are the userOps it carries, `txs` the transactions of
the current wallet (`transactionHash` and `previousTransactionHashes`), and
`nonce` the recorded `transactionRequest.nonce`, which is not always the nonce
the node got (`BundleTx`). A rotated job starts again at `acquire` with the same
userOps; its old wallet goes on by itself: `cancelsInFlight`, `stuckNonce` and
`cancelsLeft` are the background `cancelBundle`, `quarantined` and
`clearObservations` the quarantine. The stores are sets of userOps; `status` is
the monitor; `dropping` holds the userOps whose `dropUserOps` runs in the
background.

The chain is the environment: `latest` nonces, `pending` transactions,
`minedOk` and `minedBad`, and `foreign` userOps another bundler included.
Whatever fails costs one unit of `faults`, and `FaultKinds` says which failures
may happen at all. That bounds the model and gives liveness its premise: faults
stop.

`UserOpLifecycle` is the promise to a client: a userOp waits, is bundled, waits
again perhaps, and ends with one verdict that never changes, and `included` only
if it is on chain. `Stage` maps the detailed state to it: a userOp in no store
and no flow is `orphaned`, which is no stage, so that losing a userOp breaks the
refinement.

**What is abstracted.**

* The pool is a set of wallets here; its order and the waiting are the subject of
  `MemorySenderManager`.
* Every userOp has a sender and nonce of its own and enters once, so a requeued
  userOp is never refused; conflicts are the subject of `Mempool`.
* Gas prices: a tracked bundle without a receipt may be replaced at any time
  (the price rose, or it stuck), and a replacement may be refused like any
  send; the numbers are the subject of `Bidding`. `maxBundlingGasPrice` is unset. A rotation costs a `stall` fault, since
  it takes a network that ignores a transaction for several replacements; that
  fault also pays for a receipt the node does not serve at that moment;
  `attempts` stops at `MaxStuckAttempts`, where nothing depends on more.
* The detachment of a rotated bundle is part of the rotation: the store wrapper
  logs and swallows errors, so the `catch` around it does not run.
* The receipt a synchronous send returns is looked at in the next step of the
  tracked bundle instead of the same one.
* A stale reading of the pending nonce costs a fault and can happen only as the
  first of a row of readings: the code releases after
  `QUARANTINE_CLEAR_OBSERVATIONS_TO_RELEASE` clear readings on the assumption
  that they are not all stale.
* One reading and its consequence are one step where the code does nothing else
  in between that others could see.
* Writes of the memory stores do not fail. The status write after a broadcast may
  (`markError`), because there the code is written for it. The failures that
  the model leaves out are hazards without a property in `PROJECT.json`.

### Mempool, with SlotQueue and Reputation

`Mempool` is one entry point in safe mode, over the memory stores. These answer
without I/O, so a handler runs until it waits for the chain, and the actions are
the stretches between two such waits:

| Action | Code |
|---|---|
| `Receive`, `Admit` | `addToMempoolIfValid`: the nonce window, the queued branch, the counts that rise before an op is judged, reputation and the role check |
| `Check` | `add` up to its stake read: the stores, the conflicting op that is popped, put back or displaced |
| `Replace`, `Queue`, `StakeReadFails` | the two stake reads and what follows |
| `StartPass`, `SetupBundle` | `getBundles` and `process`: the state of a pass and of one bundle |
| `SelectCarried`, `SelectPopped`, `SelectNothing` | the next userOp, from the carry slot first; `Judge` is `shouldSkip` up to its validation |
| `ValidationFails`, `Validated`, `ReadDeposit`, `SkipUnsponsored`, `Defer`, `Accept` | the rest of it: hand back, carry over or bundle |
| `HandOver`, `HandOverFails`, `BundleReturned`, `Finish` | `onBundle` and the `finally` |
| `MarkSubmitted`, `Requeue`, `Drop`, `Settle` | what the executor does to the stores |

`call` has one entry per client and one per userOp that is resubmitted
(`resubmitUserOps` calls `add` again for each). Copies of one userOp may exist: an
op that was popped is in no store until it is accepted, so the same op sent
meanwhile is queued again. `forsaken` and `stranded` name the userOps that the code
gives up without a verdict (a banned entity at selection; a displaced op whose
removal found nothing more; a read that throws), so that the properties can say
that nothing else is.

Safe mode is the larger behaviour: without it `shouldSkip` returns at once.
`crashedHandleOps` has no caller and is not in `Reputation`; nothing fills the
white and the black list, so they are empty; `validateSenderLimits` is never
called. The reads of `decreaseUserOpSeenStatus` are not awaited by the pass and
count as instant. The debug methods that set and clear reputations are left out.

### Admission and its pure parts

A client asks for a price (`AskPrice`, `Quoted`), for an estimate (`AskEstimate`,
`Estimated`) and submits (`Send`, `Answered`), in this order or without the first
ones. A call reads the node when it starts (`client.got`) and is answered later.
Meanwhile the timer refreshes (`StartRefresh`, `BaseFeeArrives`, `PriceArrives`;
a refresh does not wait for the last one), other clients' estimations fill the
windows (`StartOther`, `OtherArrives`), the node's prices change and time passes.
`windows` has the windows of the code by name; `saves` is the history they are
compared with. The modules below `Admission` hold no state:

* `MinMaxQueue`: the two monotone queues, with expiry on save only. A save of
  zero is ignored, as in the code.
* `GasPrices`: `innerGetGasPrice` with its fallbacks, bump, Polygon's station,
  legacy chains and Hedera's unit, and the lowest valid price.
* `PreVerificationGas`: execution part (with EIP-7623) and data part on Arbitrum,
  Mantle, op-stack, Etherlink and Abstract, as estimated and as required. No code
  saves an L1 fee of the op-stack, so what is required there is next to nothing;
  Abstract uses the current base fee both times.
* `GasEstimation`: the binary search of the simulation contract, its restarts when
  a call runs out of gas, the multipliers, and `validateHandleOp` of v0.6 and v0.7.
* `TracerRules`: the storage, opcode and call rules over a trace. Only the first
  call of an account to the EntryPoint is looked at, as in the code.

`Refusal` is the sequence of checks of `addToMempoolIfValid`. `Timely` keeps the
three versions of the code apart: safe mode asks for 5 seconds of age and 30 of
future, v0.7 asks for `validAfter` even without `expirationCheck`, v0.6 does not.
`AuthValid` is `validateEip7702Auth`; the estimation does not recover the signer.

Abstractions: the node calls of one request are answered from one reading, taken
at its start; signatures are valid; sizes are those of the op with dummy data,
the same at both times; the checks run side by side, and the model lets
the first in a fixed order name the reason, while the client only learns of one.

### Bidding, BlockWatch, BundlingLoop, Receipts

* `Bidding`: one bundle on one wallet. `Bid` is the price of `bundle` (network or
  break-even, multiplied with each attempt, floored over the last one, clamped),
  `Accept` and `Refuse` the loop of `sendHandleOpsTransaction` with its retries,
  `Look` the decision of `potentiallyResubmitBundle`. `recorded` are the fees that
  were asked for, which is what the code keeps; `held` are those of the
  transaction that the node has.
* `BlockWatch`: `NewBlock`, `Poll` and `StaleBlock` are the three ways into
  `handleBlock`; `Broadcast`, `SettleSyncReceipt` and `Track` are the end of a send,
  with `eth_sendRawTransactionSync` or without; `Restore` tracks a bundle and starts
  nothing, as the restoration does (`unwatched`). A run that throws shuts the process
  down only when a block started it (`crashed`).
* `BundlingLoop`: `autoScalingBundling` reschedules itself; `SetManual` and `SetAuto`
  are the debug endpoint, whose answer to "manual" comes two intervals later.
* `Receipts`: `BeginSet` and `EndSet` are `setUserOpStatus` before and after its
  await, `Forget` its timer; the caches, in memory or in Redis; `AskReceipt` to
  `GotReceipt` are `getUserOpReceipt` with its retries against nodes that lag.

They read one `clock`: a timer runs when it is due, before time goes on
(`Clock!Advance`), since the event loop does not skip timers.

### WalletUpkeep

`refill` has one record per call of `validateAndRefillWallets`: it reads the
utility wallet, then the executors one after the other, decides by what it read
first, and sends, through the helper contract all in one transaction, or one after
the other. The timer starts calls whether or not the last one is done. `flush` is
where `flushStuckTransaction` is for each account: it reads the latest and the
pending nonce one after the other, and replaces what is between. The chain mines
the transactions of each account in order (`pooled`). A wallet is the beneficiary
of its bundles, so it may also earn; `earned` and `crossed` are history.

### The modules over Redis

Every command, script and MULTI of Redis is one step, and other instances run in
between.

* `RedisOutstanding`: `pop` is a script, one action (`Pop`, `PopNothing`); `add`,
  `remove` and `popConflicting` read first and write later. `crossed` records the
  slots where a write followed a read that another write had made wrong: there the
  ranking and the slot can part (createRedisOutstandingStore.ts:332-379, 381-462),
  and `SlotsAreConsistent` excepts them. `mistaken` records what `popConflicting`
  returned without having removed it (lines 266, 300). `pop` takes the highest fee,
  while `peek` looks at the lowest rank.
* `RedisStores`: processing and submitted with their three indexes. `addProcessing`
  and `addSubmitted` are not awaited; each store of each instance has a connection,
  `wire`, that keeps its commands in order, which is why a removal never overtakes
  the add before it. Those who crash leave what they held (`abandoned`).
* `RedisSenderManager`: the list is seeded by an instance that finds it empty, even
  while wallets are out (`reseeded`); `Stop` marks all its wallets, in flight or not
  (`freedEarly`); a popped wallet of another instance is lost. After such a pop the
  code shuts the instance down; the model lets `Stop` follow at any time.
* `RedisMinMaxQueue`: every call prunes by a read and a transaction, then reads or
  saves. A failed prune is tolerated, and a save may be written when its value has
  expired (`savedLate`); the property excepts both.
* `Restoration`: two instances that keep their stores in memory. The old one takes
  its snapshot while it still bundles (`lost`), publishes one message per
  EntryPoint, and may take its own message from the queue (`misled`); every message
  has the bundles of all EntryPoints, so a wallet is locked once per message, and
  none of these calls is awaited (`relocked`, `shared`).

## 3. What TLC checks

| Run | Question | Distinct states |
|---|---|---|
| `sender_pool` | do semaphore and list stay in step, implement the abstract pool, and is every waiter served | 111,212 |
| `outstanding` | do backlogs and priority queue agree, and implement the abstract queue | 10,321 |
| `outstanding_conflict` | violation, see below | |
| `outstanding_nonce` | violation, see below | |
| `bundle_safety` | do two concurrent bundles account for every wallet and userOp through any two faults | 1,956,822 |
| `bundle_liveness` | does every userOp get a verdict and every wallet return after any three faults | 151,724 |
| `bundle_stale_nonce` | violation, see below | |
| `bundle_orphan` | violation, see below | |
| `mempool` | do requests, resubmissions and a pass keep every accepted userOp, and does a pass end | 371,329 |
| `mempool_deployment` | violation, see below | |
| `server` | do the parts of one server keep what they tell clients and owe to bundles and wallets | 1,457,559 |
| `instances` | do instances that share Redis, or hand over, lose or double anything | 771,130 |

The properties, by run:

* `sender_pool`: `PermitsMatchList`, `ExclusiveWallets`, the refinement
  `ImplementsPool`, and the liveness property `WaitingIsServed`.
* `outstanding`: `HeadsAreReady` and the refinement `ImplementsQueue`.
* `bundle_safety`: `WalletsAccounted` (each wallet at exactly one place),
  `RotationsCapped` (half the pool keeps bundling), `SingleOwner` (no userOp is
  requeued or dropped while another flow has it), `NoStaleRecords` (no record
  blocks a sender for good), the refinement `FollowsLifecycle`, and the action
  property `ReleasedNonceIsClear`.
* `bundle_liveness`: `EveryOpSettles` and `WalletsReturn`.
* `mempool`: `ChainsDoNotSpan` (ADR 0005), `AcceptedIsHeld` (what the monitor calls
  pending is pending), `StoresHaveOwners`, `PrefundsCovered`, `WithinCaps` (what the
  executor sends against the caps the pass packed by), the action property `PassConserves` (a step of a pass neither loses nor multiplies)
  and the liveness property `PassEnds`.
* `server`, about admission: `WindowsAreExact`, `QuoteStaysValid` and
  `EstimateStaysEnough` (no refusal before what the client was told expires),
  `QuoteIsOrdered`, `EstimateFitsNeed`, `AdmittedAreIndependent`; about the rest:
  `ReplacementStands` (a bundle is not given up because a replacement bid too little),
  `LookedAtInTime`, `ManualIsQuiet`, `StatusIsKept`, `IncludedHasReceipt`,
  `RefillsFitNeed`.
* `instances`: `SlotsAreConsistent` and `PoppedByOne`, `SettledLeavesNothing`,
  `WalletHeldOnce`, `SharedAnswerIsFresh`, `NothingForgotten` and
  `WalletsFollowBundles`.

Several of these except a case that the code does let happen; the exception is a
history variable with the name of the case (`crossed`, `mistaken`, `reseeded`,
`freedEarly`, `savedLate`, `lost`, `misled`, `relocked`, `shared`, `unwatched`,
`forsaken`, `stranded`), so that the property says that nothing else goes wrong.
`WithinCaps` excepts less than one multiple of `gasLimitRoundingMultiple`: a bundle
that the pass fits under the gas cap is rounded up only when it is sent, and in this
run one is sent with 16,779,853 gas, above the cap of 16,777,216, although
`mempool.ts:1018` says that the pass projects what the node sees.

`MemorySenderManager` and `BundleLifecycle` have a type invariant, which is proved
and not run. Each property has a mutant of the code in `PROJECT.json` that breaks it; the mutated definitions stand next to the
ones they mutate and are marked as such.

**Violations.** Five runs show where the code does not do what a comment or a
test says of it.

1. `outstanding_conflict`: `store/index.ts:97` says that `popConflicting`
   removes what it returns. It returns a userOp that waits behind another one
   of its slot, but leaves it there, because `remove` knows only the ready
   userOps. A replacement then has both the old and the new userOp queued.
2. `outstanding_nonce`: `mempool/mempool.test.ts:1936` says that the store has
   the lowest nonce of a sender ready. The nonce sort works on a copy, so a
   userOp that is handed back stands behind the later ones.
3. `bundle_stale_nonce`: `executorManager.ts:1129` says that a wallet is freed
   only when its stuck nonce is settled. If the nonce of the pre-flight was
   stale, the send used another nonce than the one recorded, and the cancel is
   confirmed at once. The run allows only the faults `staleNonce` and `stall`.
4. `bundle_orphan`: `executorManager.ts:396` says that no throw orphans userOps.
   When the status write after a broadcast throws, the userOps that the
   simulation rejected are not dropped and stay in processing. The run allows
   only `simReject` and `markError`.
5. `mempool_deployment`: `src/CONTEXT.md:39` says that at most one deployment of a
   sender may be pending. `add` looks for a conflict, waits for a stake read, and
   then queues: two requests that both looked before either has queued are both
   queued.

The faults of 3 and 4 are left out of the passing runs; every other fault is in.

**Bounds.** Two wallets are the fewest for which a rotation is allowed (the cap
is half the pool), and they let one wallet be stuck while the other carries the
rotated bundle. Two jobs and two userOps give bundles of one and of two, mixed
verdicts in one bundle, two bundles after the same wallet, and two rotations
after the same cap. Two faults in the safety run reach pairs such as a lost
answer and a revert, or a stuck bundle and a foreign inclusion; the liveness run
has three, for one bundle, with two attempts before a rotation and two cancels.
`ClearToRelease` is 2 in both, enough for a stale reading to be followed by a
good one. The wallet pool has three callers for two wallets, so that one waits,
and one second release. The store has five userOps: three nonces in one slot
with two of the same nonce, two deployments of one sender in different
slots, and a second sender that competes by fee; five adds let a userOp be added
twice.

The mempool has four userOps of two senders: a deployment, a dearer replacement
of it, a second nonce of the same sender that reads the storage of the other
sender, and one of that sender. The paymaster pays for one op of a bundle. A
deployment and the other sender's op fit the gas cap of EIP-7825 only without the
margin of 5 %, so one of them is deferred; a deployment and the second nonce, with
its EIP-7702 overhead, fit it with the margin. Two
clients, three requests, two passes and one fault let an op be replaced while a
pass holds it, a bundle come back while a client submits, and a pass fail. (The
branch of `MustWait` for throttled entities is only reached by a carried op there.)

In `server` and `instances` a behaviour is about one part (`subject`), since the
parts share no state; the others stand still in their initial state, of which one
is enough. Admission has a scenario for each kind of chain, with the options that
matter for it, with two background calls and two seconds against an expiry of one,
enough for a value to expire while an answer that would renew it is on its way; safe
mode is checked against a set of traces, one or more for each rule, for all three
versions. Legacy chains have equal floors. A bundle is sent three times, of two
before it rotates, on networks whose prices rise, with a leftover transaction of
an earlier bundle or without. Two bundles and six seconds let the watcher stop
and start again and the watchdog fire twice; two loops and seven seconds let a loop
outlive a change of the mode. Two userOps, two setters and three sets let two sets
overlap with a timer. Two executors, two refills and a flush of one or two left
transactions let a refill be given up while its transfer is pending, and the next
one read the same wallet. The store in Redis has two callers and four ops of two
slots, in all six calls; three wallets and two instances let one wallet be foreign
to one of them; two calls and three values fill a window; the hand-over has two
EntryPoints with an op each.

The bounds are the constants that begin with `Max`, and `maxTasks` of an admission
scenario; those that stand for a number of the code are `MaxNonceGap`,
`MaxBundleCount`, `MaxMempoolUserOps...`, `MaxIncludedBonus`, `MaxBundleInterval`,
`MaxRetries`, `MaxStuckAttempts...`, `MaxCancelAttempts`, `MaxGasPerBundle` and
`MaxUint128`. The safety runs use symmetry: in wallets, jobs and userOps in
`bundle_safety`, and in the identical actors of each part in `server` and
`instances`. Runs with a liveness property do not.

`CHECK_DEADLOCK FALSE` stands where the system may stop with nothing left to do:
in the bundle runs, `outstanding_nonce`, the mempool runs, `server` and `instances`.

**Fairness.** In `MemorySenderManager` a granted caller is resumed (the event
loop runs every settled promise) and a holder gives its wallet back, which is
what `WalletsReturn` shows of the bundles. In `BundleLifecycle` each flow that
waits for the network or a timer is resumed, tracked bundles are looked at again
(blocks, or the stale-block watchdog), cancels and the reconciliation of
quarantined wallets run, and the chain mines something of what is pending for a
wallet. `AcquireWallet` is strongly fair: a wallet may be there and be gone again,
but the semaphore serves its queue in order, as `WaitingIsServed` shows. No
failure is fair, and `Add`, `Forget` and `Frontrun` are not either. Bundles of
the bundling loop start again and again (`StartBundle`). In `Mempool` the pass and
each call go on, for every answer the chain owes arrives or times out; clients and
the executor need not do anything. The other modules state no fairness: where they
say that something happens in time, time itself is part of the model, and does
not pass a timer that is due.

## 4. What is proved

TLAPS proves these for all values of the constants that the assumptions allow. An
invariant seldom carries itself; what was added to make it inductive is said at
each.

`MemorySenderManager_proofs`, from `SenderAssumption` (finitely many callers, no
wallet twice in the configuration):

* `PoolTypes`: `TypeOK`.
* `PermitsAlwaysMatch`: `PermitsMatchList`. By itself it is not inductive: a
  permit that is released goes to the head of the queue, and the count of
  granted callers grows by one only if that caller was waiting and is not in
  the queue twice. The invariant that carries the proof adds
  `QueueMatchesWaiting`, and `HolderHolds` (a caller that works with a wallet has
  one).
* `QueueAlwaysMatches`: `QueueMatchesWaiting`, a conjunct of that invariant.
* `GrantedFindsWallet`: a granted caller finds a wallet in the list
  (`NeverOutOfWallets`), from the same: it makes the right-hand side positive.
* `WalletsExclusive`: `ExclusiveWallets`, which is inductive beside the invariant
  above: a wallet is appended only when the list does not have it, and a second
  release of a wallet somebody holds is recorded in `stolen`.
* `ImplementsThePool`: `ImplementsPool`, from the same. Since the list has no wallet
  twice (`NoDuplicates`), a shift or a splice takes its wallet out of the set of the
  free ones (`TakesOne`), and a push adds it (`GiveBackList`).

`MemoryOutstanding_proofs`, from `OutstandingAssumption` (nonces and fees are
naturals):

* `Typing`: `TypeOK`.
* `HeadsAlwaysReady`: `HeadsAreReady`. `SlotQueue_proofs` shows of each method what
  it returns and that it keeps `QueueOK`: each backlog is of its slot, and the
  priority queue is sorted by fee and has the heads, each once. The insertion needs
  the list sorted, since it puts an op behind as many as pay no more.
* `ImplementsTheQueue`: `ImplementsQueue`. Because the list is sorted, no other ready
  op undercuts what a pop hands out; what the other methods return and leave is what
  `OutstandingQueue` allows.

`BundleLifecycle_proofs`, from `LifecycleAssumption`:

* `LifecycleTypes`, `WalletsNeverLeak`, `RotationsStayCapped`: `TypeOK`,
  `WalletsAccounted`, `RotationsCapped`. Every action is classified by what it
  does to the wallets: it keeps them all in place, takes one from the pool,
  frees one, leaves one behind with a cancel, or settles one. The invariant
  is then proved for these five effects instead of for thirty actions.
* `FollowsThePool`: `UsesPool`, from the same five effects: each is a step of
  `WalletPool` or leaves it alone (TLC agrees on the instance of `bundle_safety`).
* `OneOwner`: `SingleOwner`. The strengthening says that a userOp the mempool has
  not seen is nowhere (`Unseen`), which `Add` needs.
* `NoRecordGoesStale`: `NoStaleRecords`, assuming that `markError` is not in
  `FaultKinds`. The strengthening (`RecordsFollowJob`) says which store may hold
  the userOps of a job at each `pc`. Without the assumption it is false, as
  `bundle_orphan` shows.
* `UserOpsFollowLifecycle`: `Spec => FollowsLifecycle`, under the same assumption.
  Beside `SingleOwner`
  the argument needs where a userOp with a verdict can still be (only in a bundle
  whose job found it on chain and is about to finish, `SettledAreOut`), that a userOp
  without one has a place (`PendingHavePlaces`, which is what rules out
  `orphaned`), and that what a bundle carries was in each of its transactions, so
  that a receipt that says success speaks for all of it (`TxsCoverBundle`).
  Each action is first shown to be one of five things to a userOp
  (`Advances`), then each of these an edge of `UserOpLifecycle` or a stutter.
* `ReleasedAlwaysClear`: `ReleasedNonceIsClear`, assuming `ClearToRelease > 1` (the
  code has 2): with one, a stale reading would release a wallet at once. The invariant
  is that no transaction that can be mined is below the next nonce of its
  account (`PendingAhead`): a nonce that has advanced past the stuck one leaves
  nothing at it.

`Mempool_proofs`, from `MempoolAssumption` and `OpsAssumption`:

* `ChainsNeverSpan`: `ChainsDoNotSpan`. The invariant follows one op through a pass:
  the slots the pass remembers cover all its bundles that are under way
  (`PriorHolds`), an op that is judged is of none of these (`HandIsFree`), and so
  is what is packed (`BundleIsFree`).
* `StoresAlwaysOwned`: `StoresHaveOwners`. It needs to know which of the two stores
  has the ops of a bundle at each stage (`ProcessingOwned`, `SubmittedOwned`).
* `AcceptedAlwaysHeld`: `AcceptedIsHeld`. The property counts the copies of an op over
  queue, pass, executor and resubmissions, and each step is shown to change the count
  at the places it touches and nowhere else. For that the places must be what they
  seem (`HeldInv`): the queue is sound (`QueueOK`), the hand and the carry slot do not
  count one op as two (`HandOK`), no bundle is in progress between bundles
  (`NoneBetween`), and the call of a resubmission is about its own op (`CallsOK`).
* `PassAlwaysConserves`: the action property `PassConserves`, from the same; each step
  of the pass moves one op between the queue, the hand and the bundle.
* `AlwaysWithinCaps`: `WithinCaps` (`AllCapped`: for the bundle being packed and for
  those handed over). The sums are `Total`, whose laws `Totals_proofs` has.
* `PrefundsAlwaysCovered`: `PrefundsCovered`. The invariant (`BudgetInv`) says that what
  the pass remembers of a paymaster's deposit is what the deposit leaves after the
  bundle's prefunds, or that it has not read it and the bundle has none of its ops.

`Server_proofs`:

* `RefillsAlwaysFit`: `RefillsFitNeed`, from `WalletUpkeepAssumption` (the utility
  wallet is no executor, and none starts above its level). It does not see what is
  still on its way. The invariant adds, for each wallet that is not
  `crossed`, that at most one gift is to come (in one refill's list or in one
  transaction of the utility wallet, `OneToCome`), and that there is room for it
  (`HasRoom`: balance and gift together stay within the level and what was earned
  since). A refill that reads a low wallet makes it so; a send moves the gift from
  the list to the pool; mining pays it; whatever else is mined only lowers a balance
  or is counted in `earned`.
* `ManualStaysQuiet`: `ManualIsQuiet`, from `BundlingLoopAssumption`. A loop waits for
  one interval at most (`DueSoon`); what waits when a switch to manual is made is
  therefore due an interval before it is answered (`WaitedBefore`), and finds the
  mode changed.
* `StatusAlwaysKept`: `StatusIsKept`, from `ReceiptsAssumption`. The monitor has lost
  sight of no timer (`TimersAreKnown`), so a set clears the ones there are, and what is
  armed later outlasts the status (`TimersOutlast`).
* `IncludedAlwaysHasReceipt`: `IncludedHasReceipt`, since a status says included only
  after the receipt was stored or lost (`IncludedIsSettling`, `SettlingIsCached`).
* `AlwaysLookedAt`: `LookedAtInTime`, from `BlockWatchAssumption`. While the watcher is
  on, one timer is armed, for an interval or a block time at most (`TimersOn`); while it
  is off, only restored bundles are pending (`Watched`); and between two runs of
  `handleBlock` the timer goes off before the time of a pending bundle is up, or soon
  after the last run has ended (`DueInTime`).

Admission, from `ReadingsAssumption`, `SizesAssumption`, `NeedsAssumption`,
`PricesAssumption` and `TracesAssumption` about the scenarios (numbers are numbers; a chain that is not free
of gas charges for it; the hashes of two senders lie apart):

* `WindowsAlwaysExact`: `WindowsAreExact`. A deque is strictly monotone in value and
  ascends in time (`Monotone`), has for every value saved since some time an entry that
  is no older and no worse (`Covering`), and nothing from before (`Since`). Both deques
  are one lemma: the ranks of the values are the values for the one and their negatives
  for the other. Expiry and the new value cut a prefix and a suffix off, and the lemmas
  (`ExpiredExists`, `KeptExists`, `CutAndFollowed`, `DequeSaves`) say where.
* `QuoteAlwaysStaysValid`: `QuoteStaysValid`, and `QuoteIsAlwaysOrdered`:
  `QuoteIsOrdered`. The latest values of the two windows are those of one price
  (`PriceWindows`), so a quote is a price that was fetched, and both its values were
  saved when the quote says or later (`QuoteInv`). As long as these are recent, the
  minimum of a window is no more than the quote's part, whatever else was saved.
  `PricesAssumption` is what makes this true. If the floors of a legacy chain
  differ, `validateUserOp` refuses a quote it gave (`legacyFees`); if the priority is
  zero on a chain that is not free, the window ignores it, and an older value stays.
* `EstimateAlwaysFits`: `EstimateFitsNeed`, for `CallGasLimitMultiplier <= 100` (the
  option's default is 100; with more, the limit may exceed what the property allows).
  The search is a recursion over its bounds, the calls left and the restarts left; a
  rank of these decreases (`SearchRank`), so the recursion has a solution
  (`RecursionExists` of `Totals_proofs`, `SearchExists`). Along it the lower bound does not
  exceed the need, and the answer not the upper bound (`SearchOK`).
* `EstimateAlwaysEnough`: `EstimateStaysEnough`, for `PvgMultiplier > 100` and
  `OraclesCharge`. The op has the sizes it started with (`SizesInv`), and its
  `preVerificationGas` is the multiplier times two parts (`PricedInv`): one for the
  execution, computed with limits no higher than those the op has now, and one for the
  data, made of values that were saved since `pricedAt`. The first is no less than
  what the op is held to, since a shorter limit makes it more expensive
  (`ExecutionInOrder`). The second is no less either, on each kind of chain for its own
  reason: on Arbitrum, Mantle and Etherlink what is required is computed from the ends
  of windows that the estimate's values are within (`ArbitrumCosts`, `MantleCosts`,
  `RequiredIsLess`), and the two roundings do not matter; on the OP stack it is 1 at
  most, which is why the multiplier, by default 110 (`cli/config/options.ts:252-257`,
  `287-292`), must add something. `OraclesCharge` says that no oracle of
  Arbitrum or Mantle answers zero, and that an op has bytes: a window does not save a
  zero, so the op would be held to values that the estimate did not see. TLC shows the property violated when one answer of Arbitrum is zero.
* `AdmittedStayIndependent`: `AdmittedAreIndependent`. What is accepted in safe mode was
  traced and allowed (`TracedInv`). A slot that an entity without stake may
  use outside of its accounts is associated with its sender: the sender's address or
  within `StructSlots` of a hash of it, and these lie apart for two senders.

Bidding, from `BiddingAssumption` (the prices and the options are numbers):

* `ReplacementAlwaysStands`: `ReplacementStands`, for `DefaultBids`: the node wants a
  bump of 10 %, `transactionUnderpricedMultiplier` is 150 and there are three attempts at
  most (the defaults, `cli/config/options.ts:432-445`). The invariant (`BidInv`) follows
  the rounding of each retry. What the node holds is no more than the record raised by
  all the retries of a send; and a send all of whose refusals were "underpriced" has
  raised what it asked for just as often. What it asked for was the record and a tenth,
  unless the ceiling cut it, so in the end it falls short of a tenth above what
  the node holds by the roundings only, which come to `Rounding` at most
  (`BumpThenRaise`). With four attempts, or a multiplier of 130, they come to more, and
  the property is false. `BiddingSpec` raises by the recursive functions `Multiplier` and
  `PowerOfTwo`; that such functions exist is `IterationExists` of `Totals_proofs`.

`EachIsServed`: a behaviour of `Server` is one of admission, of the bidding and of the
upkeep in any case, and one of the watcher, the passes or the receipts when it is about them;
otherwise these stand still while the clock goes on (`OthersStandStill`).
`ServerIsSafe` concludes that the properties of the run `server`, all twelve, hold of
`Server!Spec`, three of them under the conditions on the options named above.

`Instances_proofs`:

* `WalletAlwaysHeldOnce`: `WalletHeldOnce`, from `RedisSenderManagerAssumption` (an
  instance has finitely many wallets). It counts places; the invariant
  (`InOnePlace`) says place by place that there is only one, and that a wallet in
  use is out of reach, which an `LPUSH` on its way would break.
* `AnswersAlwaysFresh`: `SharedAnswerIsFresh`. After its prune a call finds only values
  that were young when it began, or were saved late, or its prune failed; other calls
  may prune more and save meanwhile (`CallFresh`).
* `SlotsAlwaysConsistent` and `AlwaysPoppedByOne`: `SlotsAreConsistent`,
  `PoppedByOne`. The index by hash and the one of deployments follow the slots
  (`IndexInv`); for a slot that is not `crossed`, what a call has read is still so
  when it writes (`RankInv`); and an op is stored, popped or about to be added, one
  of these, by one caller, unless it is `mistaken` (`HandInv`).
* `SettledAlwaysLeaves`: `SettledLeavesNothing`. The invariant (`Whereabouts`) says by
  the stage of an op what is on which connection about it: nothing while it waits or is
  settled; only adds, from one instance to one store, while it is in that store; and
  while it leaves, adds and then one removal behind them (`EndsIn`).
* `NothingEverForgotten`: `NothingForgotten`. By the state of the old instance, an op is
  in its stores (`StillHeld`), in the part of the snapshot that is not published yet or
  accounted for (`InSnapshot`), or accounted for (`AllAccounted`); and a submitted op is
  in the same message as its bundle (`TravelTogether`).
* `WalletsAlwaysFollow`: `WalletsFollowBundles`, from `RestorationAssumption` (finitely
  many wallets), with at most one bundle on each wallet in the old instance and its
  messages, and as many permits as free wallets in the new one (`WalletsInv`).
* `EachIsShared`: a behaviour of `Instances` is a behaviour of each of the five
  modules, the others stuttering. `InstancesAreSafe` draws the conclusion: all
  properties of the run `instances` hold of `Instances!Spec`.

The others of `Server_proofs` and `Instances_proofs` are about the specification of
a module by itself (`AdmissionSpec`, `BiddingSpec`, `WatchSpec`, `LoopSpec`, `ReceiptsSpec`, `UpkeepSpec`,
`WindowSpec`, `OutstandingSpec`, `StoresSpec`, `WalletsSpec`, `RestorationSpec`).

**Recursion.** The provers cannot use an induction theorem whose parameter is an
operator, so an argument by induction is put into sets: a set of naturals with 0 and
the successor of each of its members is `Nat` (`InductionOnNat`); a non-empty set of
naturals has a least element, one of finite sets a minimal one (`MinimalSubset`),
and the least counterexample gives a contradiction. A function that calls itself at
smaller ranks exists because its approximations up to each rank agree
(`RecursionExists`), and on the naturals because each value is made of the one
before (`IterationExists`). For that, two functions are
written as recursions that the proofs can unfold: `WithoutSlot` of `SlotQueue`, which
does what a filter does, and `Total`.

**Only model-checked.**

Liveness (`EveryOpSettles`, `WalletsReturn`, `WaitingIsServed`, `PassEnds`), since
fairness and ENABLED are out of the prover's reach.

## 5. Not modelled

* The errors of block handling that no code path restores (a base fee read that
  throws after a revert): they are hazards without a property in `PROJECT.json`.
* `BundlerCollectorTracer` runs in the node, and writes the trace that
  `TracerRules` reads; the wallet that the safe validator borrows for its call
  belongs to the pool of `MemorySenderManager`.
* State overrides and the reasons for which an estimation fails; the gas a bundle
  is simulated to use. Its gas limit is `SentGas` of `Mempool`, without the L1
  overhead of Arbitrum, `rpcGasEstimate`, an `executorGasMultiplier` other than 100,
  and the factor of 1.5 after a send with too little intrinsic gas. The pass takes
  none of these into account when it packs, so with them `WithinCaps` says nothing.
* HTTP, websocket and JSON parsing, the read-only methods, the command line and its
  options: input and output, or numbers fixed before anything runs. A failed call
  of a transport is a fault of the models, whose retries the code hides in viem.
* Event manager, metrics and logging, `UtilityWalletMonitor` among them: outputs.
* The EntryPoints and the simulation contracts, whose ABIs are most of
  `types/contracts/`: they run on the chain, of which the models have what the
  bundler sees.

## 6. What could follow

In this order: the mempool over `RedisOutstanding` instead of `SlotQueue`, once TLC
can afford it; a clock in `BundleLifecycle`, to join it with `Bidding` and
`BlockWatch`; and the rounding of a send as a function of its attempts and
multipliers, so that `ReplacementStands` can be stated for other options than the
defaults.
