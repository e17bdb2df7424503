# PonsDesk: a TLA+ model of the market maker

PonsDesk is a desktop program that launches tokens on a bonding curve and makes a market in
them with a set of wallets. This directory models the parts of it whose correctness depends on
the order in which things happen, checks the models with TLC on small instances and proves the
main invariants with TLAPS for every value of the constants.

Paths below are relative to `src/`.

## 1. The system

| Component | State | Operations | Talks to |
| --- | --- | --- | --- |
| Engine (`internal/ponsmm/engine.go`, `target.go`, `decide.go`) | `state`, `retailResponseActive`, `buyRoundRunning`, `pendingBuys`, `distributionRoundRunning`, channels | event loop `Run`; goroutines for accumulation rounds, settlements, batches, sells, startup refresh | wallets, monitor, chain |
| Wallet pool (`internal/ponsmm/wallets.go`) | per wallet: nonce, balances, `txMu`, `sellMu`, `balanceMu` | refreshes, `txParams`, `send`, `Fund`, `CollectETH` | chain |
| Monitor (`internal/ponsmm/monitor.go`, `internal/pons/watch.go`) | own transactions, seen trades, retail position, reserves, `Retail` queue | live feed, replay by block, `onTrade`, `RecordOurBuy/Sell` | engine, chain |
| Service (`internal/control/service.go`, `features.go`) | jobs, strategies, vault | `Start`, `Stop`, `ExitAll`, `ResetStrategy`, `Save/DeleteStrategy`, `LockVault`, `ClearWallets`, `Shutdown`, `runStrategy` | engine, stores, UI |
| Funding (`internal/control/funding_engine.go`, `funding.go`) | tasks with hops, task runs, relay wallets | create, start, stop, delete, hop execution | chain, stores |
| Vault and stores (`internal/vault`, `internal/control/store.go`) | memory and JSON files | unlock, import, retain, save | file system |
| Launch bundle (`internal/ponsmm/bundle.go`) | deposits, bundled buys | prepare, deposit, send window, settle, withdraw | router, chain |
| Router (`contracts/src/PonsMMRouter.sol`) | deposits, launch window, operator | deposit, withdraw, launch, buy within | curve factory |
| Transport, codecs, arithmetic (`internal/pons`) | none | retries, ABI, quotes | chain |
| UI, installers, snipers, GMGN export | - | - | - |

The UI calls the service; the service starts one job (goroutine) per strategy, each with its own
engine, pool and RPC client; the engine reads the chain through the client, hears of outside
trades through the monitor's `Retail` channel and of its own goroutines through
`buySettlements`, `distributionResults` and `exitAllRequests`.

What is hard in it, and what makes each part correct:

- **Engine.** One goroutine decides, many act, and the chain answers late or never. Correct
  means: the count of pending buys is right, the cached balances never hide tokens, a run
  that ends leaves nothing behind, nothing is sold twice, each wallet buys once per cycle,
  an exit is final, a liquidation ends.
- **Wallets.** Buys, approvals and sells of one wallet share a nonce under `txMu`, and refreshes
  move it. Correct means: no nonce is used twice for two accepted transactions and none is
  skipped for good.
- **Monitor.** Trades arrive twice (live and replay), late, or not at all. Correct means: every
  trade counts once, in the position and in the queue.
- **Service.** UI calls race each other and the jobs. Correct means: a wallet serves one live
  strategy, a strategy has one live job, a stopped job is cleaned up once.
- **Funding.** Hops are sent, resent and recorded across failures and restarts. Correct means:
  a run never passes a hop that has left money behind, the record says "running" of what runs and
  of nothing else, and a task that is started again ends.
- **Stores.** Correct means: keys reported stored and launched tokens survive failed writes,
  locks and crashes.
- **Launch and router.** Three parties (makers, treasury, curve) and resubmitted transactions.
  Correct means: the contract's balance covers every deposit, nobody loses ether, an atomic launch
  finds what it spends, what is booked is what is held, and the rest comes home.

The hazards, each at its line, are listed in `PROJECT.json`.

## 2. Plan and state

| | Module | Models | Abstract specification | Proofs |
| --- | --- | --- | --- | --- |
| 1 | `Engine` | event loop, rounds, settlements, batches, sweeps, caches | - | `EngineProofs`: every invariant of its runs, buys per cycle |
| 2 | `Nonce` | `txMu`, `send`, `applyNonces`, approvals, the node's pending transactions | `WalletLog`, an append-only log | `NonceProofs`: types, no gap, order, approvals, refinement |
| 3 | `Service` | UI calls, jobs, reservations, vault and configuration files, crash | - | `ServiceProofs`: every invariant of its run |
| 4 | `Monitor` | live feed, replay, deduplication, position, `Retail` queue | - | `MonitorProofs`: every invariant of its run |
| 5 | `Funding` | routes, hops, retries, task store, crash and restart | - | `FundingProofs`: every invariant of its run |
| 6 | `Router` | the contract: deposits, windows, atomic launch, withdrawals | - | `RouterProofs`: nobody loses, deposits, refunds, operators |
| 7 | `Launch` | v1 and v2 launches in every bundle mode, extends `Router` | - | `LaunchProofs`: every invariant of its run |
| | `Curve` | quotes, target planning, splits, slippage | - | - |

The first seven are done. `MCEngine`, `MCNonce`, `MCService`, `MCMonitor`, `MCFunding` and
`MCLaunch` instantiate them for TLC. `Sums`, which `Funding` and `Router` extend, is the sum of a finite function with its lemmas. What is
left of the plan: a proof of `NoOversellBeforeExit` with a graduation or with a response that buys, where TLC finds it
true; `Curve`, whose functions are arithmetic on large integers (quotes, splits) that unit tests reach well; a
composition of `Service` and `Funding`, which meet in the routing keys only.

`Service` and `Engine` meet in a run: `Service` knows of an engine only that it is attached, is asked to exit
and returns; `Engine` begins when `Run` does. `Monitor` and `Engine` meet in `Retail` and in
the position: `Engine` takes trades from a queue of its own, `Monitor` shows what that queue promises
(`NoLostWakeup`). `Launch` ends where `Engine` begins, with `pendingBuys` taken over from it.

Constants are parameters with named assumptions, each operation is one action, no module with
proofs uses a RECURSIVE operator, and proofs live in modules of their own.

## 3. Engine

`Engine.tla` is `Engine.Run`: `pc` is where the event loop is (the non-blocking drain of
`Retail`, the blocking `select`, a balance refresh, a sweep it waits for), and every `case` of
the `select` is an action. The goroutines are actions of their own: a worker in `buyOnce`
(`worker`), a broadcast buy (`buy`, from the send to the applied settlement), the batch and
its sells (`dist`, `sell["batch"]`), the loop's own sweep (`sell["main"]`), the startup refresh
(`boot`). `chain` is what the token contract says a wallet holds and `cached` is
`Wallet.TokenRaw`. The network reads that matter are split in two steps (read, then store).

Abstractions: one buy is one token unit, a wallet sells all it planned or nothing; prices are
replaced by both outcomes of every comparison, except that a full exit can only be profitable when
tokens are booked; batches take any wallets that hold tokens, not the first of the list;
funds, the chip target, the snipe tax and sequential buying may leave any eligible maker out of
a round; sells run concurrently, which includes every sequential order.

`Faults` and `Races` are parameters. A fault is something the environment does (a lost reply, a
receipt timeout, a failed read or send, a graduation, a cancelled run). A race is a window the
code leaves open: `count` between `pool.send` and `addPendingBuy`, `round` between the check
of the pending buys and `buyRoundMu`. With a race off, the two steps are taken as one.

### Runs

| Run | Instance | Shows |
| --- | --- | --- |
| `engine_strategy` | 2 wallets, 2 buys, 2 retail trades, 1 exit, slow batches of 1 or target sells, no fault | `NoHiddenTokens`, `DoneMeansDrained`, `NoOversellBeforeExit`, `BuyOncePerCycle` |
| `engine_faults` | 1 wallet, 2 buys, 1 retail trade, after a fresh launch, every fault and race | `TypeOK`, `PendingBuysExact` |
| `engine_live` | 1 wallet, 1 buy, 2 retail trades, 1 exit, races, lost replies, failed reads | `LiquidationEnds`, `RetailServed` |
| `engine_exit` | as `engine_strategy` | violates `ExitIsFinal` |

Two wallets are the fewest for which a batch is smaller than the position and a round and a
batch work on different wallets; two buys let one wallet buy again or two buy together; two
trades give a buy and the sell that resumes accumulation, or a buy that starts a distribution
and one that finds it running. The interleavings of the properties need no more actors.

### What the runs show

Where nothing fails and no window is hit, the strategy does what the README of the program
says, with these exceptions. The first has a run, `engine_exit`; the others were found with the same module on
other instances. `NoOversell` and `ClearedStops`
state what fails in 2 and 4; no run checks them.

1. **An exit is not final** (`engine.go:963`). `onRetail` does not look at the state. A retail
   buy handled while an exit is draining turns `ClearAll` into `Distributing`, and a sell after it
   into `Accumulating`: the engine buys again after a one-click exit.
2. **An exit can sell stale tokens** (`wallets.go:251`). `RefreshToken` stores what it read
   without the sell lock. Read before a batch sell is mined and stored after that sell has been
   confirmed, it brings sold tokens back into the cache, and the sweep submits them again. The
   sell reverts, the sweep fails, and a failed exit sweep ends `Run` with an error.
3. **A fresh launch can buy twice** (`engine.go:787`). The startup refresh runs in the background
   and may overwrite a settled balance with an older read.
4. **A late sell leaves a distribution running** (`engine.go:1767`). A sell whose receipt wait ends
   after 90 s stays booked in the cache. Once it is mined every later batch plans the sold
   tokens, reverts, and changes nothing: the wallets are cleared and the strategy does not stop.
   Only an exit, which refreshes the balances first, ends it.

Outside the passing instances other properties fail too, as their hazards say. `EngineProofs` draws the line: its theorems on tokens
are about runs that are

- *calm*: every receipt and balance read arrives, the run is not cancelled, a buy is counted before anything else happens
  (no race `count`), and no launch is refreshing in the background (`Fresh`);
- *steady*: calm, with no round started between the check of the pending buys and its lock (no race `round`), and no
  response to a retail trade that buys;
- *orderly*: steady, with every send arriving and no graduation.

These are windows and failures of the code, not of the proofs. TLC violates `NoHiddenTokens` and `DoneMeansDrained` with any
one of what calm excludes (1 wallet, 2 buys, 2 retail trades); `BuyOncePerCycle` with the race `round` (1 wallet) and
with a response that buys (2 wallets: its support buy and a buy of a round take the same wallet); and
`NoOversellBeforeExit` with the race `round` and with a send that fails (2 wallets). With a graduation (412,806 states) or a
response that buys (10.5 million) `NoOversellBeforeExit` holds on small instances and is not proved. None of this breaks the count of
pending buys, which is checked (and proved) with every fault and race.

### Fairness

`FairSpec` assumes that the chain mines what was broadcast, that RPC calls return and goroutines are
scheduled (weak fairness of each buy's, worker's and sell's next step, of the batch's end and
of the loop's own steps), and that Go's `select` takes a case that is ready again and again
(strong fairness of settlements, batch results, exits and the sell tick: `select` picks
uniformly among ready cases). It assumes nothing of traders, users or the accumulation tick.
`LiquidationEnds` is a claim about that: `Distributing` and `ClearAll` are left, as long as no
receipt wait times out (exception 4).

## 4. Nonce

`Nonce.tla` is one wallet: `nonce` is `Wallet.Nonce`, `txMu` its holder, `signed` and `reply` the
nonce that holder has signed with and what `Client.Send` has answered. Every goroutine that sends
(a buy and its approval prewarm, a sell with `ensureApprove` before it, a WETH unwrap, the prewarm
of existing positions) goes through `Start`, `CheckApproval`, `Sign`, `Deliver` and `Sent` or `Fail`; the
launch burst, router deposits and withdrawals take the same path. A refresh is `Read` (the nonces are
read without a lock) and `Store` (`applyNonces`, under `txMu`). `presigned` is the launch buy of window
mode: `sendWindow` uses its nonce up when it signs it, and `spamUntilReceipt` (`Resend`) submits it
until it has a receipt. `slot` and `mined` are the node (external): it rejects a transaction for a
used nonce or lets one that pays more replace a pending one. It forgets nothing: a node that drops a
pending transaction would leave a gap that nothing in the code closes.

`misled` is history: a failed send left a nonce that is already taken, because the node's
answer lagged, could not be read, or does not count the pre-signed buy.

`WalletLog.tla` is what this is for: an append-only log of transactions in nonce order in which a
sell comes behind an approval, until `misled`. `LogSpec` maps the broadcast and pre-signed
transactions to it.

| Run | Instance | Shows |
| --- | --- | --- |
| `nonce_order` | 2 goroutines, 1 refresh, 3 nonces, with and without a pre-signed buy; refused, lost and lagging answers, rising fees, approval timeouts | `NoGap`, `OrderKept`, `OneApproval`, `LogSpec` |
| `nonce_live` | 1 goroutine, 1 refresh, 3 nonces, another program using the key, refused calls, fair | `TypeOK`, `CatchesUp` |

Three nonces hold a buy, its approval and a sell, in that order or behind a wallet's past or a pre-signed
buy; two goroutines contend for `txMu` while a refresh is between its halves, which is all the races the code
has (wallets share nothing). `MaxNonce` is the only bound.

They show that `txMu` around `applyNonces` matters (without it a refresh and the send it overtook
count the same transaction twice and every later one waits for a nonce that never comes), that advancing only
matters, and that the second look of `ensureApprove` matters. The one way to lose the order is the
error branch of `send` (`wallets.go:311`): it stores the node's answer verbatim, as the
comment on `applyNonces` warns against. With window mode it needs no lagging node: any send refused
before the node has the pre-signed buy resynchronises to that buy's nonce. `SellBehindBuys`, which says that
a sell comes behind all buys of its wallet, is what this breaks; no run checks it.

`FairSpec` describes a liquidation: the distribution ticker starts sells again and again (strong
fairness: a goroutine busy with something else is not asked), a sell is not given up or kept from the mutex
every time (Go's mutexes do not starve), calls return, and the node tells the truth now and then.

## 5. Service

`Service.tla` is what the desktop UI calls (`service.go`, `features.go`) with the two things it keeps on disk: the
configuration (`cfg` in memory, `file` on disk; `control/store.go`) and the vault (`keys`, `vfile`; `vault.go`).
`job` and `used` are the service's tables, `run[r]` is the goroutine of the r-th start
(`runStrategy`: set up, save the launched token, attach the engine, run, finish). `Service.mu`,
`configStore.mu` and the vault's mutex are different locks, and most calls check under one and act under
another, so such a call is two actions (`SaveCheck`/`SaveStrategy`, `StartRead`/`StartRun`,
`ClearCheck`/`Retain`/`ClearConfig`, ...) and `call[c]` holds what it has read in between. A failed write
leaves memory changed (`Write`, `SaveKeys`), as the code does; `Crash` drops memory and keeps the files.

| Run | Instance | Shows |
| --- | --- | --- |
| `service_calls` | 2 strategies, 2 trading keys, 1 routing key, 1 call that edits and 1 that starts or exits at a time, 2 runs, 1 edit, 1 failed write or crash | `TypeOK`, `Exclusive`, `KeysKept`, `AckedKeysDurable`, `BoundTokenStored` |
| `service_exit` | 1 strategy, 1 run, fair | violates `ExitEnds` |

One edit against one start, and one run against another, are what the two-lock calls can interleave with;
the initial states are a new installation and one in use. Strategies and trading keys are symmetric.

What they show. A reservation is taken and released exactly with the run (`Exclusive`), and no key of a live run is
lost, as long as certain calls do not overlap. `lapses` collects the calls that overlapped another one; the
premises name those that break the property, and each is a window of the code:

- `ResetStrategy` checks that no job is live, asks the network for balances and then deletes the job: a job
  started meanwhile loses its entry while its goroutine trades on (`reset`).
- `ClearWallets` looks for running strategies, lists the routing keys and erases the rest under three locks: a
  strategy started in between loses its keys, a routing key imported in between is erased (`clear`).
- `Start` runs a copy of the strategy read before the lock; a save, delete or clear in between is overwritten when
  the launch is stored (`save`, `delete`, `clear`). So is the launch of a run of the same strategy that was
  live when the copy was read (`start`): a start that repeats such a launch, and another one read meanwhile, end with
  an engine on the first token and the second in the file. It takes three runs, which TLC finds when the premise of
  `BoundTokenStored` does not name `start`.
- A failed write is reported, but memory keeps the change until a restart (`write`).

`service_exit`: `ExitAll` waits 45 s for the engine and then gives up, but `exitRequested` stays, so a second
exit and `Stop` are refused and the strategy trades on (finding, `service.go:396`). `ExitReady` also follows
the code in looking the job up again: if the strategy has been started again meanwhile, the newer engine is
asked to exit.

`ClearWallets` is also refused while a funding task runs (`service.go:227`); funding tasks are not part of this module, so that refusal is
left out, which only allows more. The routing keys are a constant, so listing them and the check that precedes it are one step.

Fairness: calls and goroutines are scheduled, and an engine that was cancelled or asked to exit returns (which is
`LiquidationEnds`, with the network it needs). Nothing is assumed of users.

## 6. Monitor

`Monitor.tla` is `monitor.go` over `watch.go` and `v1_watch.go`. `chain` and `head` are the trades of the token and the
last block. A block's trades go to the subscription's channel `live`, which drops what does not fit in curve
mode; a tick replays the blocks `from..upto` (`ReplayHead`, `ReplayFilter`, `ConsumeReplayed`, `ReplayEnd`). Both end in
`Take`, which is `consumeTrade` and the locked part of `onTrade`, and `Push`, the rest of it, which drops
the event when `Retail` is full. `order` is the list of trades consumed (as a set, `seenTrades`), `net` and
`bought` the position. Every trade is one token unit.

| Run | Instance | Shows |
| --- | --- | --- |
| `monitor_replay` | 3 blocks, 3 trades, channels of one place, one sale of ours whose log names a router, fair | `TypeOK`, `CountedOnce`, `NoTradeSkipped`, `NetExact`, `NetNotLow`, `NoLostWakeup`, `EveryTradeCounted` |

A channel of one place overflows with the second trade; three trades are a buy, a sell and one more, in one
transaction or three; the subscription may open, fail at any moment, or never open, and every read may
fail. 304,394 states. In pool mode the logs a subscription had not delivered when it failed are lost with it, as in the client.

What it shows. The position is exact as long as the trades are consumed in chain order, and never too low in any
order. It can be too high: if a first replay fails and the live feed delivers a sell before the replay
brings the buy it sold, the clamp at zero forgets the sell. The engine then waits for a position that no
longer exists. That is why `NetExact` has its premise; the comment in `recoveryStart` that the subscription is
already live does not hold for an HTTP endpoint, whose first trades come from the replay only.

Fairness: the monitor's loop runs and ticks although live trades keep coming (strong fairness of `Tick`: `select`),
and a read that is tried over and over succeeds again and again (strong fairness of `ReadOK`, `FilterOK`).
`EveryTradeCounted` needs both.

## 7. Funding

`Funding.tla` is a funding task (`funding.go`, `funding_engine.go`): its route as a sequence of hops
(`Distribute`, `Withdraw`; a hop maps senders to recipients), the task store, and the goroutine that executes
hop after hop, with one goroutine per sender that reads its balance, reads its nonce and sends what it can.
`pool`, `nonce` and `bal` are the chain (external). `call[t]` counts the calls of `StartFundingTask` that have read the
record, those of `DeleteFundingTask` that have found the task idle, and says whether a start has registered its run: calls of
one task overlap as they like, since no lock of the code covers more than one of these steps. `End` and `RunSave` are the two
steps of `finish`, which other calls may come between as well; `ending` holds what is still to be saved. A write that fails
leaves memory changed, in every call (`Save`). `Refused` is a transfer mined with status 0: only wallets outside the program
can be contracts; it then never has a good receipt and the hop fails.

| Run | Instance | Shows |
| --- | --- | --- |
| `funding_route` | 1 task of either kind, 1 relay, 1 batch layer, 2 slots, 1 start between its read and its reservation at a time, 2 faults, fair | `TypeOK`, `RunsRegistered`, `NothingLeftBehind`, `NoPhantomRun`, `RunIsRecorded`, `EventuallyDone` |

One relay and one batch layer keep every kind of hop (one to one, one to many, many to one); two slots make the relay
split its balance. The real sizes (10 relays, 5 layers) repeat them. A fault is a failed call, a lost answer, a forgotten or refused
transfer, a failed write, a stop, a delete or a crash: two of them are a failure and another one during the
run that makes up for it. A start between its read and its reservation may meet another one that has registered its run, the end of an
earlier run and a delete; more of them (`MaxCalls`) only repeat that, and the inductive invariant behind `NoPhantomRun` and `RunIsRecorded` was
checked with two (561,362 states). `End` waits while an earlier run is about to save the very same state, which is the one
bound on `ending`. 374,211 states. One relay never pays a treasury together with another;
the theorem of section 9 covers every size.

What it shows. "Every hop only moves balances that actually exist on chain" does make restarts safe: a run never
passes a hop that has left more than gas behind, whatever earlier runs left in the node's pool, although
"nonce too low" is taken for success. It relies on the node: `Payable` says that the node refuses, and forgets,
transfers the sender cannot pay. A node that kept them would make every restart collide with a stuck nonce.

`NothingLeftBehind` bounds a sum: the senders of all the hops passed hold together no more than the gas of their transfers.
One sender alone may hold more than its own gas. A sender with no more than the gas of its transfers is passed over; if a transfer
of an earlier run was still in the pool it comes to the next hop after the run has left it, and this may happen hop after hop, as many
times as there are faults, so no bound per wallet holds for every number of faults. What is late at one wallet is missing at another, so the
sum holds. A run that is done but not yet recorded counts too.

The record and the run. `NoPhantomRun` holds whatever overlaps: a record that says "running" has a run, an end about to be saved, or a start whose
own write failed (`unwritten`: the call reports the error, memory says "running" until the next start or restart). The other
direction, `RunIsRecorded`, has two exceptions (`crossed`), both races of the code:

- `finish` unregisters the run before it saves how it ended (`funding_engine.go:220-227`). A start in between has its
  "running" overwritten by the late save, until it saves its next hop.
- `DeleteFundingTask` looks whether the task is active and then deletes it (`funding.go:490-494`) under different locks. A start
  that registers its run in between (`funding_engine.go:170-189`) moves money while its record is gone: "stop the funding
  task before deleting it" is not enforced. The run saves its record again at its next hop and at its end, so it comes
  back, and only a crash before that loses it.

Without `crossed` TLC violates `RunIsRecorded` by either. Neither race breaks `RunsRegistered` or `NothingLeftBehind`.

One task at a time: the deposit and withdraw relays are shared by all tasks, and two that run at once sweep each other's
balances. "Each incoming amount follows one fixed path end to end" does not hold for them, and no property claims it.

Fairness: the chain includes what can be included, goroutines run, and the user starts again what is not done. The last is
an assumption about the user, without which nothing restarts a failed task.

## 8. Router and launch

`Router.tla` is `PonsMMRouter.sol`: every external function that changes state, each call that does not revert as
one step (`Deposit`, `Withdraw`, `BuyAfterLaunch`, `Launch`, `LaunchAndBuyAtomic`, `Receive`). A curve is what the router sees of
it: it takes what it has room for and returns the rest. `RouterSpec` lets any account call anything and
serves the proofs; TLC checks the contract inside `Launch`.

`Launch.tla` extends it with the engine's launch (`launchV1`, `launchV2`, `bundle.go`). `pc` is where the launch is, `park` the
goroutines of `ensureDeposits`, `spam` those of `spamUntilReceipt`, `pend` the settlements, `home` the goroutines of
`withdrawDeposits`. `pool` and `mined` are the chain: `Include` executes a transaction (`Call`), or reverts it when
the call is not possible, or forgets it when its sender cannot pay. Gas costs nothing and only its reserve in sizing
is kept.

| Run | Instance | Shows |
| --- | --- | --- |
| `launch_bundle` | 2 makers, 2 launches in every mode, deposits of an earlier launch, another program with the same router, 1 fault, fair | `TypeOK`, `Solvent`, `NobodyLoses`, `LaunchCovered`, `BookedIsHeld`, `BuysSettle`, `LeftoverReturned` |
| `launch_parks` | 1 atomic launch whose maker has to park, fair | violates `ParkingEnds` |

Two makers let one be filled and the next clamped (`Room` takes less than both spend), or one be parked and the other
excluded; the second launch meets what the first has left. 241,204 states. The factory and the curves are the protocol's own, and a launch
names each wallet once, as the engine does; the contract itself checks neither.

What they show. The router is solvent and nobody loses ether in it, whoever calls. An atomic launch finds the deposits it
spends, also when they are those of an earlier launch that reverted or was not sent; the exception is a launch begun while one that was given up on could
still land (`crossed`), which may spend what the new one counts on. What is booked is what the wallets hold, clamped fills and
reverted launches included, unless a transaction was given up on (`unsure`): a launch that lands after its
120 s wait is booked by nobody. `booked` follows the order of the code: the burst of mode `off` is sent before the opening buy is booked.

A launch that reverts leaves its makers' deposits where they are. `launchV2` means to bring them home (`engine.go:518-526`: "The makers' ETH is still
parked in the router; bring it home") and `withdrawDeposits` says it is for "the spend of a launch that reverted" (`bundle.go:500-501`), but
`WaitReceiptEvery` returns an error for a receipt of status 0 (`v1_launch.go:254-256`), so `engine.go:513-517` stops the resubmissions
and returns: that branch never runs, and neither does the one of `settleBundledBuy` for a reverted buy (`bundle.go:429`), whose receipts come from the same
wait. `LaunchReverted` is what runs. The ether is not lost: it stays
withdrawable by its maker, and the next atomic launch of the same treasury counts on it (`Kept`). `LeftoverReturned` is therefore about launches that
landed; no run checks the comment's promise for those that reverted, which fails with the first revert. The same holds of an atomic launch refused before it is sent.

`launch_parks`: `ensureDeposits` marks the deposit it has sent with `e.monitor`, which is nil until the launch is bound. The
method panics in a goroutine nobody recovers, and the program goes down (finding, `bundle.go:199`): `Panic`. The wait for the deposits' receipts (`bundle.go:207-221`)
is therefore never reached and not modelled; an atomic launch works when the deposits are already parked.

Fairness: goroutines run and the chain includes what it has accepted, unless it forgets it.

## 9. Proofs

Each proof module extends the module it is about, unchanged, and proves for every value of the constants that
satisfies the module's named assumptions (finite sets of wallets or accounts, natural amounts and bounds, a
`None` that is no value). The theorems of `EngineProofs` on tokens and
`NothingLeftBehindCorrect` have a further hypothesis, stated in each. Every inductive
invariant named below was first checked with TLC on the instances of the runs.

`EngineProofs`:

- `TypeCorrect == Spec => []TypeOK`: one lemma per action. Each lemma types the variables the action
  changes, from lemmas about the shapes of updates, and keeps the rest.
- `PendingBuysCounted == Spec => []PendingBuysExact`: the inductive invariant is `TypeOK` with
  `PendingBuysExact` itself. `StageMove` says how a buy's move from stage to stage changes the
  tracked set; `CountUp`, `CountDown` and `CountKept` say what that does to its cardinality; every
  action is one of the three.

On tokens, for any number of wallets, buys, retail trades and exits:

- `NoHiddenTokensCorrect` (calm): `Covered` adds that the stage of a buy tells its fate on the chain (`Known`) and that a refresh
  has read no less than the cache may miss (`ViewCovers`). The one token that can be missing is that of a mined buy whose
  settlement is to come, so a step either touches no token, moves such a buy, or lets a cache catch up with a
  settlement.
- `DoneMeansDrainedCorrect` (calm): `Ends`; an empty cache and a count of zero are, by `Covered` and
  `PendingBuysExact`, an empty chain with nothing in flight.
- `BuyOncePerCycleCorrect` (steady): `Cycle` says that a round begins with nothing pending, that its workers
  are those of free wallets, and that a wallet has one buy under way. It needs `Covered`: a worker reads the cache, and what
  it does not show is a buy of the same wallet, which there is none of.
- `NoOversellCorrect` (orderly): `Sound` says of each wallet that it holds at most one unit, that a sell on its way
  is for that one, that only one of the batch and the loop has one, and that without one the cache promises no more than
  there is; of a buy under way that its wallet has nothing to sell yet. `WalletSound` also says what a liquidation has left
  of a wallet, which is why a refresh during the sweep reads balances that no sell is about to take.

`NonceProofs`:

- `TypeCorrect` and `NonceHasNoGap`: the invariant is `TypeOK` with `GapInv`: what the holder of `txMu` signed
  is the cached nonce (`LockInv`), what a refresh read lies below the node's first unused nonce
  (`ReadInv`), and `NoGap`. `SlotsKept` says that the node forgets nothing; with it a read stays valid.
- `OrderIsKept`: `OrderInv` says that everything broadcast or pre-signed lies below the cached nonce, or
  below the next one while an accepted send has not counted itself.
- `OneApprovalAtATime`: `WatchInv` ties the watched receipt to `approvalSubmitted`.
- `ImplementsLog`: with `GrantInv` (whoever may sell has an approval in the log, the pre-signed buy's
  nonce is its own) each `Deliver` that the node takes is an `Append`, and every other step stutters.

`ServiceProofs`, all the invariants of its run, for any strategies, keys, calls, edits and failures:

- `TypeCorrect`: `Typed` adds that what runs or is called upon names a strategy that exists.
- All the others rest on `OverlapsNoted`, which says that of two calls in progress both are in `lapses`, so that where a
  premise excludes one of them the two halves of a call are one step.
- `ExclusiveCorrect`: `Reserved` ties the three tables together: a live run is the one its job names, a reservation is a
  wallet of a live run's strategy, and a strategy under reset has no run.
- `KeysKeptCorrect`, `AckedKeysDurableCorrect`: `VaultInv` (memory and file differ only after a failed write), `KeptInv`
  (what a start has checked still holds when it acts) and `AckedInv` (a clear in progress keeps what was reported).
- `BoundTokenStoredCorrect`: `Stored` says that from its start to its end the stored strategy is the copy that the run has.
  That is why its premise names starts too (section 5).

`MonitorProofs`, all the invariants of its run, for channels and chains of any length:

- `TypeCorrect`, `EachTradeOnce`, `NoneIsSkipped`, `EngineIsWoken`: `CountInv` adds to the properties that blocks
  and what recovery reads lie below the head (`BlockInv`), and that what a replay has read is seen or about to be
  (`ReplayInv`); the replay may only move on because a trade mined later lies in a later block. `TakeIs`
  reduces `Take` to its three outcomes.
- `NetIsExact`, `NetIsNotLow`: `PositionInv` adds that our own sales are tagged before they are on the chain
  (`OwnInv`) and that no prefix of the chain sells more than was bought (`PrefixInv`). Consumed in order, what is
  seen is such a prefix, so the clamp at zero never bites; in any order it only ever raises the position.
  `HeldInAdd` counts one trade.

`Sums`: `SumOf` is a fold of the community modules, and the library's induction theorems take an operator, which the
provers cannot instantiate. `LeastNatural` gets the principle from a theorem that does not (`WFMin` with `NatLessThanWellFounded`),
for sets of numbers in place of predicates; `SubsetInduction` lifts it to the subsets of a finite set. The fold unfolds
to a recursive function on subsets (`SumOfIs`); that such a function exists (`SumsExist`) is one induction. From there come the
lemmas that `RouterProofs` and `FundingProofs` use: a term taken out, added, changed or moved (`SumMinus`, `SumAdded`, `SumChange`,
`SumMoved`), sums compared term by term (`SumMonotone`, `SumLess`), sums of sequences by their heads.

`FundingProofs`, for any number of relays, batch layers, slots and tasks:

- `TypeCorrect`: the hops of both routes map wallets of the task to wallets of the task (`BeforeIs` and `RelayOfIs` are the
  arithmetic of which relay serves which slot), and a goroutine has at most one amount for each recipient of its hop (`SplitsAre`);
  the node refuses what a sender cannot pay.
- `RunsRegisteredCorrect`, `NoPhantomRunCorrect`, `RunIsRecordedCorrect`: `TidyTask`, of one task: what is registered is either a run or a start that
  is about to save, never both (that is what the reservation is for); a record that says "running" has one of the three causes `NoPhantomRun` names; and a live run
  outside `crossed` is recorded, has no end about to be saved, no delete under way and no failed write behind it, so that no step of another call can take its record
  away. `Unmade` says that a task not yet created has nothing of this. `FaultsOK` bounds the deletes under way by the faults spent, which the type of `call`
  needs.
- `NothingLeftBehindCorrect`, for a task that has its wallets to itself: `Remains` is the strengthening. While a hop is executed
  without a failure, what is `Counted` are the senders of the hops passed and those of this hop that have read their balance. Their ether, less
  the amounts not yet sent (`Unsent`) and those sent and not yet confirmed (`Unmined`), is at most the gas of their transfers
  (`Settled`). A sender enters the sum when it reads its balance, with no more than its gas beyond the amounts it is to send; a send moves
  an amount from one term to the other; inclusion, of a transfer of this run or of an earlier one, takes from a
  counted sender at least as much as it gives to another. A hop is passed when nothing is owed any more, which leaves the property. It
  needs that wallets have a place on the route (`IsRoute`, from `Depth` for distributions and `Height` for
  withdrawals), so that money only flows onwards, that the pool holds only transfers of the route (`Ordered`), and that
  what a sender has sent lies below its next nonce (`OnWork`). The hypothesis, one task, is the code's own limit: tasks share the relays
  (section 7).

`RouterProofs`:

- `DepositsAreThere`, `NobodyEverLoses`, `RefundIsFree`, `OperatorIsKept`: `RouterInv` is the types, `totalDeposits` as the sum of the
  deposits, `held >= totalDeposits` (so that `_refundFree`, which returns all that is not deposited, never takes from a
  deposit) and that what is parked has an operator. One lemma per function; `FillsFit` shows that what a curve fills of the buys
  of an atomic launch adds up to no more than it has room for.

`LaunchProofs`:

- `TypeCorrect`: `TypeInv`, with `Inv` for what belongs to the router; the invariant also says where a buy may still have no amount (a window launch before it is sent).
- `NobodyLosesByLaunching`, `SolventByLaunching`, `OperatorIsKeptByLaunching`: `RouterStepKeeps` shows that every step of a launch
  leaves the router alone, is one of its calls or the curve's own, or is a new block; `Named` says that transactions
  name the program's accounts and curves.
- `LaunchIsCovered`: a launch that reverts takes nothing, so what it leaves parked is there for the next one; only a launch that
  landed starts withdrawals, and nothing is launched after it (`HomeInv`). `CoverInv` also says that a launch is not mined before it is sent (`AgeInv`), that what a maker's
  goroutine keeps is parked (`ParkInv`), that from the sizing to the sending nothing that takes from a deposit
  is under way, and then only the launch (`QuietInv`), and that the spends are covered in between (`SpendInv`).

- `BooksAreRight`: `Owing(w)` is the transaction whose tokens are still to be booked for `w`: a settlement under way, the launch, or
  the window buy. `DueInv` says that without one what is booked is what is held, and with one the difference is what that
  one has given. It is inductive because nothing else can give tokens to a wallet of ours (`LiveInv`; a buy whose launch reverted is `Stale`
  and fails), which needs that nothing is sent twice (`SeenInv`), that a transaction has one receipt and a curve one launch
  (`ReceiptInv`), and where each kind of transaction can be under way (`StageInv`).
  The books are compared only once a landed launch is booked, which in mode `off` is after its burst; the settlements
  start after that.

What making the proofs changed in the models: they showed parts of a split that no call of the code returns, a run that was done
and no longer looked at by `NothingLeftBehind`, a bound of it per wallet that enough late transfers break, and the premise of
`BoundTokenStored` that starts need.

Model-checked only:

- liveness (`LiquidationEnds`, `RetailServed`, `CatchesUp`, `EveryTradeCounted`, `EventuallyDone`, `BuysSettle`,
  `LeftoverReturned`): fairness and ENABLED are beyond the prover;
- `NoOversellBeforeExit` with a graduation or a response that buys, as said in section 3.

## 10. Not modelled

The components with status `not_modelled` in `PROJECT.json`, and parts of the others:

- Curve, slippage and sizing arithmetic: pure functions on large integers. The models replace them by both
  outcomes of every comparison (`Engine`) or by small amounts with the same clamps (`Router`, `Launch`).
- RPC transport and receipts: no state of their own; the callers' actions have their outcomes (refused, lost, late,
  timed out).
- Round statistics: sums shown to the user. Only booked tokens feed back into decisions, and `Engine` keeps them.
- Codecs, address prediction, unit conversion: encoding.
- The standalone snipers and the pool monitor are not used by the desktop program.
- GMGN export, user interface, installers: no state worth checking.
- Of the wallet pool: `Fund` and `CollectETH`, which nothing calls, and the ether balances.
- Of the monitor: reserves and prices. Of the launch: gas estimation, address prediction, snipe-tax exemptions.
- Of the vault: encryption and the temporary file with its rename, taken to be atomic.
- Of the router: upgrades; of the contracts, the read-only lens.
