------------------------------- MODULE Engine -------------------------------
(***************************************************************************)
(* The market-making engine of internal/ponsmm: the event loop of          *)
(* Engine.Run, the goroutines it starts (accumulation workers, buy         *)
(* settlements, the distribution batch, per-wallet sells, the startup      *)
(* refresh) and the chain they act on.                                     *)
(*                                                                         *)
(* One buy is worth one token unit.  `chain' is what the token contract    *)
(* says a wallet holds, `cached' is Wallet.TokenRaw, what the engine       *)
(* believes.  The gap between the two is what this module is about.        *)
(***************************************************************************)
EXTENDS Integers, Sequences, FiniteSets

CONSTANTS
  Wallets,     \* Pool.All(): the treasury and the makers
  Makers,      \* Pool.Makers: the wallets that accumulate
  MaxBuys,     \* bound: buys broadcast over the whole run
  MaxRetail,   \* bound: outside trades seen over the whole run
  MaxExits,    \* bound: one-click exits asked for (0 or 1)
  BatchSizes,  \* the sizes a distribution batch may be drawn with (4..6 in the code)
  Responses,   \* what cfg.RetailResponse may be: see ResponseKinds
  Fresh,       \* e.freshLaunch: this run follows a launch made by the same engine
  Faults,      \* what the environment may do: see FaultKinds
  Races        \* unprotected windows of the code the scheduler may hit: see RaceKinds

\* Slow batches, or the target mode with a zero, negative or positive ratio.
ResponseKinds == {"batch", "freeze", "sell", "buy"}

FaultKinds == {"lostReply",  \* a broadcast reaches the node, its reply does not reach us
               "timeout",    \* WaitReceipt gives up after 90 s
               "readError",  \* a balance read fails
               "sendError",  \* a sell's approval or broadcast fails
               "graduate",   \* the v2 curve graduates while the engine runs
               "stop"}       \* the run's context is cancelled (Service.Stop)

RaceKinds == {"count",   \* engine.go:1409-1415, a buy is broadcast and not yet counted
              "round"}   \* engine.go:1022-1046, pending buys checked, round not yet begun

ASSUME ConstantsAssumption ==
  /\ IsFiniteSet(Wallets) /\ Wallets # {}
  /\ Makers \subseteq Wallets
  /\ MaxBuys \in Nat /\ MaxRetail \in Nat /\ MaxExits \in Nat
  /\ BatchSizes \subseteq Nat \ {0} /\ BatchSizes # {}
  /\ Responses \subseteq ResponseKinds
  /\ Fresh \in BOOLEAN
  /\ Faults \subseteq FaultKinds
  /\ Races \subseteq RaceKinds

BuyIds == 1..MaxBuys
Owners == {"main", "batch"}      \* who sells: the event loop, or the batch goroutine
Buyers == {"round", "target"}    \* who buys: an accumulation round, a target response

VARIABLES
  response,   \* cfg.RetailResponseName() and the sign of cfg.RetailTargetRatio
  state,      \* e.state
  active,     \* e.retailResponseActive
  pc,         \* where the event loop is, see Places
  job,        \* what a sweep in progress is for
  sweepErr,   \* some sell of the sweep in progress failed
  retail,     \* the Retail channel
  trades,     \* outside trades so far (bound only)
  retailNet,  \* monitor.retailNet, in trades
  exits,      \* exits asked for so far (bound only)
  exitAsked,  \* an ExitAll caller waits in exitAllRequests
  round,      \* [st, cancelled]: buyRoundRunning, how far it is, its context
  worker,     \* per buyer and wallet: "idle" or "preflight" in buyOnce
  buy,        \* every broadcast buy: its wallet, its place in the engine, its fate
  pendingBuys,\* e.pendingBuys
  dist,       \* the distribution round: "idle", "selling" or its result is queued
  batchSize,  \* e.distributionBatchSize
  sell,       \* per owner and wallet: the sellOnceWithQuote call in progress
  stray,      \* tokens of a sell given up on that may still be mined
  view,       \* balances a refresh in progress of the event loop has read
  boot,       \* balances the background startup refresh has read
  chain,      \* token balances on chain
  cached,     \* Wallet.TokenRaw
  booked,     \* monitor.ourTokens
  graduated,  \* the curve has graduated
  ctxDone     \* the run's context is cancelled

loopVars  == <<state, active, pc, job, sweepErr, view>>
inputVars == <<response, retail, trades, retailNet, exits, exitAsked, graduated, ctxDone>>
buyVars   == <<round, worker, buy, pendingBuys>>
sellVars  == <<dist, batchSize, sell, stray>>
bookVars  == <<cached, booked>>
vars == <<loopVars, inputVars, buyVars, sellVars, bookVars, boot, chain>>

States == {"Accumulating", "Distributing", "ClearAll", "Done"}
Places == {"drain",      \* the non-blocking read of Retail that opens an iteration
           "select",     \* the blocking select over every channel
           "roundCheck", \* pending buys were zero, buyRoundMu not yet taken
           "refresh",    \* RefreshToken has read the balances, not yet stored them
           "sweep",      \* waiting for the sells of sellWalletsFast
           "stopped"}    \* Run has returned
Jobs == {"none", "retail", "tick", "exit", "settle"}

\* Stages of a buy inside the engine; Tracked are those pendingBuys counts.
Tracked == {"approving", "settling", "ok", "err"}
Stages  == Tracked \cup {"unused", "sent", "lost", "applied"}
Fates   == {"wire", "ok", "reverted"}
SellSteps == {"idle", "planned", "sent", "ok", "reverted"}

None == [st |-> "idle", amt |-> 0]
NoView == [w \in Wallets |-> 0]
Held(bal) == {w \in Wallets : bal[w] > 0}
TrackedBuys == {b \in BuyIds : buy[b].st \in Tracked}
Smaller(m, n) == IF m < n THEN m ELSE n
MinusUnclamped(m, n) == m - n    \* Mutant: no clamp at zero.
Minus(m, n) == IF m > n THEN m - n ELSE 0

\* Mutant: pending buys are forgotten.
DrainedCache(bal, pending) == Held(bal) = {}

\* Nothing pending and nothing cached: the test before every end of a run.
Drained(bal, pending) == pending = 0 /\ Held(bal) = {}

Running == pc # "stopped"
\* After every handler: Run returns when the handler left the state Done.
Loop(s) == IF s = "Done" THEN "stopped" ELSE "drain"

-----------------------------------------------------------------------------
(* Outside the engine: retail traders, the user, the curve, the chain.     *)

\* onTrade: an outside trade moves the retail net position and is queued.
RetailTrade(kind) ==
  /\ Running /\ trades < MaxRetail
  /\ trades' = trades + 1
  /\ retailNet' = IF kind = "buy" THEN retailNet + 1 ELSE Minus(retailNet, 1)
  /\ retail' = Append(retail, kind)
  /\ UNCHANGED <<loopVars, buyVars, sellVars, bookVars, boot, chain,
                 response, exits, exitAsked, graduated, ctxDone>>

\* ExitAll: the caller blocks on the unbuffered request channel.
AskExit ==
  /\ Running /\ exits < MaxExits /\ ~exitAsked
  /\ exits' = exits + 1 /\ exitAsked' = TRUE
  /\ UNCHANGED <<loopVars, buyVars, sellVars, bookVars, boot, chain,
                 response, retail, trades, retailNet, graduated, ctxDone>>

Graduate ==
  /\ "graduate" \in Faults /\ ~graduated /\ graduated' = TRUE
  /\ UNCHANGED <<loopVars, buyVars, sellVars, bookVars, boot, chain,
                 response, retail, trades, retailNet, exits, exitAsked, ctxDone>>

CancelRun ==
  /\ "stop" \in Faults /\ Running /\ ~ctxDone /\ ctxDone' = TRUE
  /\ UNCHANGED <<loopVars, buyVars, sellVars, bookVars, boot, chain,
                 response, retail, trades, retailNet, exits, exitAsked, graduated>>

\* A broadcast buy is mined: it fills or it reverts.  Only a revert is left
\* once the curve has graduated.
MineBuy(b) ==
  /\ buy[b].st # "unused" /\ buy[b].tx = "wire"
  /\ \/ /\ ~graduated
        /\ buy' = [buy EXCEPT ![b].tx = "ok"]
        /\ chain' = [chain EXCEPT ![buy[b].w] = @ + 1]
     \/ /\ buy' = [buy EXCEPT ![b].tx = "reverted"]
        /\ UNCHANGED chain
  /\ UNCHANGED <<loopVars, inputVars, sellVars, bookVars, boot,
                 round, worker, pendingBuys>>

\* A broadcast sell is mined.  The 99.99% slippage tolerance leaves two
\* reasons to revert: too few tokens, or a graduated curve.
MineSell(o, w) ==
  /\ sell[o][w].st = "sent"
  /\ IF chain[w] >= sell[o][w].amt /\ ~graduated
     THEN /\ sell' = [sell EXCEPT ![o][w].st = "ok"]
          /\ chain' = [chain EXCEPT ![w] = @ - sell[o][w].amt]
     ELSE sell' = [sell EXCEPT ![o][w].st = "reverted"] /\ UNCHANGED chain
  /\ UNCHANGED <<loopVars, inputVars, buyVars, bookVars, boot,
                 dist, batchSize, stray>>

\* A sell whose confirmation timed out is mined late, or dropped.
MineStray(w) ==
  /\ stray[w] > 0
  /\ stray' = [stray EXCEPT ![w] = 0]
  /\ \/ chain[w] >= stray[w] /\ ~graduated /\ chain' = [chain EXCEPT ![w] = @ - stray[w]]
     \/ UNCHANGED chain
  /\ UNCHANGED <<loopVars, inputVars, buyVars, bookVars, boot, dist, batchSize, sell>>

-----------------------------------------------------------------------------
(* Buying: buyOnce in a worker goroutine, then settleBuy in another one.   *)

Cancelled(o) == ctxDone \/ pc = "stopped" \/ (o = "round" /\ round.cancelled)

\* A worker gives the buy up: a failed read or quote, a rejected broadcast, a
\* graduated curve, or its context was cancelled.
AbandonBuy(o, w) ==
  /\ worker[o][w] = "preflight"
  /\ worker' = [worker EXCEPT ![o][w] = "idle"]
  /\ UNCHANGED <<loopVars, inputVars, sellVars, bookVars, boot, chain,
                 round, buy, pendingBuys>>

\* pool.send accepted the buy.  Without the "count" race addPendingBuy is taken
\* to follow before anything else runs.
Broadcast(o, w, b) ==
  /\ worker[o][w] = "preflight" /\ ~Cancelled(o)
  /\ buy[b].st = "unused" /\ \A c \in BuyIds : c < b => buy[c].st # "unused"
  /\ worker' = [worker EXCEPT ![o][w] = "idle"]
  /\ IF "count" \in Races
     THEN /\ buy' = [buy EXCEPT ![b] = [st |-> "sent", w |-> w, by |-> o, tx |-> "wire"]]
          /\ UNCHANGED pendingBuys
     ELSE /\ buy' = [buy EXCEPT ![b] = [st |-> "approving", w |-> w, by |-> o, tx |-> "wire"]]
          /\ pendingBuys' = pendingBuys + 1
  /\ UNCHANGED <<loopVars, inputVars, sellVars, bookVars, boot, chain, round>>

\* addPendingBuy, once pool.send has returned.
CountBuy(b) ==
  /\ buy[b].st = "sent"
  /\ buy' = [buy EXCEPT ![b].st = "approving"]
  /\ pendingBuys' = pendingBuys + 1
  /\ UNCHANGED <<loopVars, inputVars, sellVars, bookVars, boot, chain, round, worker>>

\* Mutant: the buy is counted before the send and a failed send is not undone.
LoseReplyCounted(b) ==
  /\ "lostReply" \in Faults /\ buy[b].st = "sent"
  /\ buy' = [buy EXCEPT ![b].st = "lost"]
  /\ pendingBuys' = pendingBuys + 1
  /\ UNCHANGED <<loopVars, inputVars, sellVars, bookVars, boot, chain, round, worker>>

\* pool.send returned an error for a buy the node has: buyOnce returns it and
\* nobody waits for the receipt.
LoseReply(b) ==
  /\ "lostReply" \in Faults /\ buy[b].st = "sent"
  /\ buy' = [buy EXCEPT ![b].st = "lost"]
  /\ UNCHANGED <<loopVars, inputVars, sellVars, bookVars, boot, chain,
                 round, worker, pendingBuys>>

\* The approval behind the buy is queued (or failed, which is only logged) and
\* settleBuy starts.
StartSettling(b) ==
  /\ buy[b].st = "approving"
  /\ buy' = [buy EXCEPT ![b].st = "settling"]
  /\ UNCHANGED <<loopVars, inputVars, sellVars, bookVars, boot, chain,
                 round, worker, pendingBuys>>

\* Mutant: the receipt's status is tested the wrong way round.
QueueSettlementInverted(b) ==
  /\ Running /\ buy[b].st = "settling" /\ buy[b].tx # "wire"
  /\ buy' = [buy EXCEPT ![b].st = IF buy[b].tx = "ok" THEN "err" ELSE "ok"]
  /\ UNCHANGED <<loopVars, inputVars, sellVars, bookVars, boot, chain,
                 round, worker, pendingBuys>>

\* settleBuy has the receipt, or gives up, and queues the settlement.  The
\* channel (1024 deep) never fills here.  When the run is being cancelled the
\* settlement may as well be dropped: the action is then not taken.
QueueSettlement(b) ==
  /\ Running /\ buy[b].st = "settling"
  /\ \/ buy[b].tx = "ok" /\ buy' = [buy EXCEPT ![b].st = "ok"]
     \/ buy[b].tx = "reverted" /\ buy' = [buy EXCEPT ![b].st = "err"]
     \/ ("timeout" \in Faults \/ ctxDone) /\ buy' = [buy EXCEPT ![b].st = "err"]
  /\ UNCHANGED <<loopVars, inputVars, sellVars, bookVars, boot, chain,
                 round, worker, pendingBuys>>

\* The last worker of the accumulation round has returned.
EndRound ==
  /\ round.st = "buying"
  /\ \A w \in Wallets : worker["round"][w] = "idle"
  /\ \A b \in BuyIds : buy[b].by = "round" => buy[b].st \notin {"sent", "approving"}
  /\ round' = [st |-> "idle", cancelled |-> FALSE]
  /\ UNCHANGED <<loopVars, inputVars, sellVars, bookVars, boot, chain,
                 worker, buy, pendingBuys>>

-----------------------------------------------------------------------------
(* Selling: sellOnceWithQuote, one call per owner and wallet.              *)

\* sellWalletsFast plans every wallet of S for its cached balance.
Plan(o, S, bal) ==
  [sell EXCEPT ![o] = [w \in Wallets |->
     IF w \in S THEN [st |-> "planned", amt |-> bal[w]] ELSE sell[o][w]]]

\* Mutant: sells of a wallet are not serialized.
SellMuFreeAlways(w) == TRUE

\* w.sellMu is held from the broadcast to the end of the call.
SellMuFree(w) == \A o \in Owners : sell[o][w].st \in {"idle", "planned"}

\* Under sellMu the cached balance is read again: nothing left means nothing
\* to do, and a stale plan is cut down to what is left.
StartSell(o, w) ==
  /\ sell[o][w].st = "planned" /\ SellMuFree(w)
  /\ sell' = [sell EXCEPT ![o][w] =
                IF cached[w] = 0 THEN None
                ELSE [st |-> "sent", amt |-> Smaller(sell[o][w].amt, cached[w])]]
  /\ UNCHANGED <<loopVars, inputVars, buyVars, bookVars, boot, chain,
                 dist, batchSize, stray>>

\* WaitReceipt returns an error for a reverted sell: nothing is booked, the
\* cached balance stays as it was and the sweep has failed.
RevertSell(o, w) ==
  /\ sell[o][w].st = "reverted"
  /\ sell' = [sell EXCEPT ![o][w] = None]
  /\ sweepErr' = (sweepErr \/ o = "main")
  /\ UNCHANGED <<state, active, pc, job, view, inputVars, buyVars, bookVars, boot,
                 chain, dist, batchSize, stray>>

\* The call returns an error and leaves the balances as they were.  A tx that
\* was broadcast and given up on may still be mined.
FailSell(o, w) ==
  /\ \/ /\ sell[o][w].st = "planned" /\ SellMuFree(w) /\ cached[w] > 0
        /\ "sendError" \in Faults \/ ctxDone \/ ~Running
        /\ UNCHANGED stray
     \/ /\ sell[o][w].st = "ok" /\ ("timeout" \in Faults \/ ctxDone \/ ~Running)
        /\ UNCHANGED stray
     \/ /\ sell[o][w].st = "sent" /\ ("timeout" \in Faults \/ ctxDone \/ ~Running) /\ stray[w] = 0
        /\ stray' = [stray EXCEPT ![w] = sell[o][w].amt]
  /\ sell' = [sell EXCEPT ![o][w] = None]
  /\ sweepErr' = (sweepErr \/ o = "main")
  /\ UNCHANGED <<state, active, pc, job, view, inputVars, buyVars, bookVars, boot,
                 chain, dist, batchSize>>

\* The receipt is in: the balance is read back (or the planned amount
\* subtracted) and the sell is booked for the quoted amount.
ConfirmSell(o, w) ==
  /\ sell[o][w].st = "ok"
  /\ \/ cached' = [cached EXCEPT ![w] = chain[w]]
     \/ "readError" \in Faults /\ cached' = [cached EXCEPT ![w] = Minus(@, sell[o][w].amt)]
  /\ booked' = Minus(booked, sell[o][w].amt)
  /\ sell' = [sell EXCEPT ![o][w] = None]
  /\ UNCHANGED <<loopVars, inputVars, buyVars, boot, chain, dist, batchSize, stray>>

\* The batch goroutine has sold its wallets, or a target response has placed
\* its buys, and reports on distributionResults.
EndBatch ==
  /\ dist = "selling"
  /\ \A w \in Wallets : sell["batch"][w].st = "idle" /\ worker["target"][w] = "idle"
  /\ \A b \in BuyIds : buy[b].by = "target" => buy[b].st \notin {"sent", "approving"}
  /\ dist' = "result"
  /\ UNCHANGED <<loopVars, inputVars, buyVars, bookVars, boot, chain,
                 batchSize, sell, stray>>

\* startDistributionRoundQuoted, reached in state Distributing only: a round
\* already running, an empty position, or a batch of at most `size' wallets (0:
\* the size is drawn now).  Decides state, active, dist, batchSize and sell.
StartBatch(bal, pending, size) ==
  \/ /\ dist # "idle" \/ (Held(bal) = {} /\ ~Drained(bal, pending))
     /\ state' = "Distributing" /\ active' = TRUE /\ batchSize' = size
     /\ UNCHANGED <<dist, sell>>
  \/ /\ dist = "idle" /\ Drained(bal, pending)
     /\ state' = "Done" /\ active' = FALSE /\ batchSize' = size
     /\ UNCHANGED <<dist, sell>>
  \/ /\ dist = "idle" /\ Held(bal) # {}
     /\ state' = "Distributing" /\ active' = TRUE /\ dist' = "selling"
     /\ batchSize' \in IF size = 0 THEN BatchSizes ELSE {size}
     /\ \E S \in SUBSET Held(bal) :
          /\ Cardinality(S) = Smaller(batchSize', Cardinality(Held(bal)))
          /\ sell' = Plan("batch", S, bal)

-----------------------------------------------------------------------------
(* The event loop of Run.                                                  *)

\* interruptBuys cancels the context of the round in progress.
Interrupt == round' = [round EXCEPT !.cancelled = round.st # "idle"]

\* Mutant: holding the token does not use the wallet's buy up.
EligibleAll == Makers

Eligible == {w \in Makers : cached[w] = 0}    \* buyEligibleMakers

\* Every wallet of S starts a buyOnce for the buyer o.
Assign(o, S) ==
  [worker EXCEPT ![o] = [w \in Wallets |-> IF w \in S THEN "preflight" ELSE worker[o][w]]]

\* planTargetResponse: nothing to do, or a batch of sells, or support buys.
\* The target buys run under the run's context, which interruptBuys spares.
TargetResponse ==
  \/ UNCHANGED <<dist, sell, worker>>
  \/ /\ response = "sell" /\ dist = "idle"
     /\ \E S \in (SUBSET Held(cached)) \ {{}} : sell' = Plan("batch", S, cached)
     /\ dist' = "selling" /\ UNCHANGED worker
  \/ /\ response = "buy" /\ dist = "idle"
     /\ \E S \in (SUBSET Eligible) \ {{}} :
          worker' = Assign("target", S)
     /\ dist' = "selling" /\ UNCHANGED sell

\* onRetail, a buy.  The full exit can only be worth more than it cost when the
\* monitor has tokens booked; beyond that the price decides.
OnRetailBuy ==
  /\ pc \in {"drain", "select"} /\ retail # <<>> /\ Head(retail) = "buy"
  /\ retail' = Tail(retail)
  /\ Interrupt
  /\ \/ /\ booked > 0                                        \* profitable: clear all
        /\ state' = "ClearAll" /\ active' = FALSE
        /\ sell' = Plan("main", Held(cached), cached)
        /\ pc' = "sweep" /\ job' = "retail"
        /\ UNCHANGED <<dist, batchSize, worker>>
     \/ /\ response # "batch" /\ TargetResponse               \* the state is kept
        /\ pc' = "drain" /\ UNCHANGED <<state, active, job, batchSize>>
     \/ /\ response = "batch" /\ active                       \* already responding
        /\ state' = "Distributing" /\ pc' = "drain"
        /\ UNCHANGED <<active, job, dist, batchSize, sell, worker>>
     \/ /\ response = "batch" /\ ~active
        /\ StartBatch(cached, pendingBuys, 0)
        /\ pc' = Loop(state') /\ UNCHANGED <<job, worker>>
  /\ UNCHANGED <<response, sweepErr, view, trades, retailNet, exits, exitAsked, graduated,
                 ctxDone, buy, pendingBuys, stray, bookVars, boot, chain>>

OnRetailSell ==
  /\ pc \in {"drain", "select"} /\ retail # <<>> /\ Head(retail) = "sell"
  /\ retail' = Tail(retail) /\ pc' = "drain"
  /\ IF active /\ state = "Distributing"
     THEN state' = "Accumulating" /\ active' = FALSE
     ELSE UNCHANGED <<state, active>>
  /\ UNCHANGED <<response, job, sweepErr, view, trades, retailNet, exits, exitAsked, graduated,
                 ctxDone, buyVars, sellVars, bookVars, boot, chain>>

\* Mutant: the iteration does not start by draining Retail.
NoRetailQueuedSkipped ==
  /\ pc = "drain" /\ pc' = "select"
  /\ UNCHANGED <<state, active, job, sweepErr, view, inputVars, buyVars, sellVars,
                 bookVars, boot, chain>>

\* The Retail channel is empty: on to the blocking select.
NoRetailQueued ==
  /\ pc = "drain" /\ retail = <<>> /\ pc' = "select"
  /\ UNCHANGED <<state, active, job, sweepErr, view, inputVars, buyVars, sellVars,
                 bookVars, boot, chain>>

\* applyBuySettlement.
ApplySettlement(b) ==
  LET w == buy[b].w
      left == Minus(pendingBuys, 1)
      finish(bal) == /\ state' = IF state = "ClearAll" /\ Drained(bal, left) THEN "Done" ELSE state
                     /\ pc' = Loop(state')
                     /\ UNCHANGED <<active, job, dist, batchSize, sell>>
  IN /\ pc = "select" /\ buy[b].st \in {"ok", "err"}
     /\ buy' = [buy EXCEPT ![b].st = "applied"]
     /\ pendingBuys' = left
     /\ \/ /\ buy[b].st = "err" /\ UNCHANGED bookVars /\ finish(cached)
        \/ /\ buy[b].st = "ok" /\ booked' = booked + 1
           /\ \/ cached' = [cached EXCEPT ![w] = chain[w]]
              \/ "readError" \in Faults /\ UNCHANGED cached
           /\ \/ /\ state = "ClearAll" /\ cached'[w] > 0
                 /\ sell' = Plan("main", {w}, cached')
                 /\ pc' = "sweep" /\ job' = "settle"
                 /\ UNCHANGED <<state, active, dist, batchSize>>
              \/ /\ state = "Distributing" /\ active
                 /\ StartBatch(cached', left, batchSize)
                 /\ pc' = Loop(state') /\ UNCHANGED job
              \/ /\ state = "ClearAll" => cached'[w] = 0
                 /\ ~(state = "Distributing" /\ active)
                 /\ finish(cached')
     /\ UNCHANGED <<sweepErr, view, inputVars, round, worker, stray, boot, chain>>

\* applyDistributionResult.
ApplyBatchResult ==
  /\ pc = "select" /\ dist = "result" /\ dist' = "idle"
  /\ IF state = "Distributing" /\ Drained(cached, pendingBuys)
     THEN state' = "Done" /\ active' = FALSE
     ELSE UNCHANGED <<state, active>>
  /\ pc' = Loop(state')
  /\ UNCHANGED <<job, sweepErr, view, inputVars, buyVars, batchSize, sell, stray,
                 bookVars, boot, chain>>

\* exitAllRequests: state ClearAll, then exitAllStep starts with RefreshToken.
ExitAll ==
  /\ pc = "select" /\ exitAsked /\ exitAsked' = FALSE
  /\ Interrupt
  /\ state' = "ClearAll" /\ pc' = "refresh" /\ job' = "exit" /\ view' = chain
  /\ UNCHANGED <<active, sweepErr, response, retail, trades, retailNet, exits, graduated, ctxDone,
                 worker, buy, pendingBuys, sellVars, bookVars, boot, chain>>

\* sellTick in ClearAll: clearAllStep also starts with RefreshToken.
SellTickClearAll ==
  /\ pc = "select" /\ state = "ClearAll"
  /\ pc' = "refresh" /\ job' = "tick" /\ view' = chain
  /\ UNCHANGED <<state, active, sweepErr, inputVars, buyVars, sellVars, bookVars,
                 boot, chain>>

\* RefreshToken stores what it read (or failed), and the sweep is planned.
EndRefresh ==
  /\ pc = "refresh"
  /\ cached' = view \/ ("readError" \in Faults /\ UNCHANGED cached)
  /\ sell' = Plan("main", Held(cached'), cached')
  /\ pc' = "sweep" /\ view' = NoView
  /\ UNCHANGED <<state, active, job, sweepErr, inputVars, buyVars, dist, batchSize,
                 stray, booked, boot, chain>>

\* sellAllFast or sellWalletFast has returned: an exit that failed ends Run
\* with an error, any other failure is logged; finishDrainIfEmpty.
EndSweep ==
  /\ pc = "sweep" /\ \A w \in Wallets : sell["main"][w].st = "idle"
  /\ sweepErr' = FALSE /\ job' = "none"
  /\ IF /\ state = "ClearAll" /\ Drained(cached, pendingBuys)
        /\ sweepErr => job = "settle"
     THEN state' = "Done" /\ pc' = "stopped"
     ELSE /\ pc' = IF sweepErr /\ job = "exit" THEN "stopped" ELSE "drain"
          /\ UNCHANGED state
  /\ UNCHANGED <<active, view, inputVars, buyVars, sellVars, bookVars, boot, chain>>

SellTickDistribute ==
  /\ pc = "select" /\ state = "Distributing"
  /\ StartBatch(cached, pendingBuys, batchSize)
  /\ pc' = Loop(state')
  /\ UNCHANGED <<job, sweepErr, view, inputVars, buyVars, stray, bookVars, boot, chain>>

\* pumpPausedForRetailHold.
PumpPaused == response \in {"freeze", "sell"} /\ retailNet > 0

BeginRound ==
  /\ round' = IF round.st = "idle" THEN [st |-> "starting", cancelled |-> FALSE] ELSE round
  /\ pc' = "drain"

\* accTick: startAccumulationRound.
AccTick ==
  /\ pc = "select" /\ state = "Accumulating"
  /\ IF pendingBuys > 0 \/ PumpPaused THEN pc' = "drain" /\ UNCHANGED round
     ELSE IF "round" \in Races THEN pc' = "roundCheck" /\ UNCHANGED round
     ELSE BeginRound
  /\ UNCHANGED <<state, active, job, sweepErr, view, inputVars, worker, buy,
                 pendingBuys, sellVars, bookVars, boot, chain>>

\* buyRoundMu is taken after the check of the pending buys.
BeginCheckedRound ==
  /\ pc = "roundCheck" /\ BeginRound
  /\ UNCHANGED <<state, active, job, sweepErr, view, inputVars, worker, buy,
                 pendingBuys, sellVars, bookVars, boot, chain>>

\* accumulateStep: the makers that buy in this round.  Funds, the chip target,
\* the snipe tax, graduation and sequential buying may leave any of them out.
PickMakers ==
  /\ round.st = "starting"
  /\ round' = [round EXCEPT !.st = "buying"]
  /\ \E S \in SUBSET Eligible :
       worker' = Assign("round", S)
  /\ UNCHANGED <<loopVars, inputVars, buy, pendingBuys, sellVars, bookVars, boot, chain>>

\* reserveTick on a graduated v2 curve.
ReserveTick ==
  /\ pc = "select" /\ graduated
  /\ state' = "Done" /\ pc' = "stopped"
  /\ UNCHANGED <<active, job, sweepErr, view, inputVars, buyVars, sellVars, bookVars,
                 boot, chain>>

Shutdown ==
  /\ pc = "select" /\ ctxDone /\ Interrupt /\ pc' = "stopped"
  /\ UNCHANGED <<state, active, job, sweepErr, view, inputVars, worker, buy, pendingBuys,
                 sellVars, bookVars, boot, chain>>

\* The background RefreshSnapshot of a fresh launch: one read, one store.
BootRead ==
  /\ Running /\ boot.st = "todo" /\ boot' = [st |-> "read", bal |-> chain]
  /\ UNCHANGED <<loopVars, inputVars, buyVars, sellVars, bookVars, chain>>

BootStore ==
  /\ Running /\ boot.st = "read" /\ boot' = [st |-> "done", bal |-> NoView]
  /\ cached' = boot.bal \/ ("readError" \in Faults /\ UNCHANGED cached)
  /\ UNCHANGED <<loopVars, inputVars, buyVars, sellVars, booked, chain>>

Finished == pc = "stopped" /\ UNCHANGED vars

-----------------------------------------------------------------------------

\* Run starts bound to a token: with whatever the wallets hold, all of it known
\* and (for an existing pair) booked; or, on a fresh launch, with the launch's
\* burst buys broadcast and counted and the startup refresh still to come.
Init ==
  /\ response \in Responses
  /\ state = "Accumulating" /\ active = FALSE
  /\ pc = "drain" /\ job = "none" /\ sweepErr = FALSE /\ view = NoView
  /\ retail = <<>> /\ trades = 0 /\ retailNet = 0
  /\ exits = 0 /\ exitAsked = FALSE /\ graduated = FALSE /\ ctxDone = FALSE
  /\ round = [st |-> "idle", cancelled |-> FALSE]
  /\ worker = [o \in Buyers |-> [w \in Wallets |-> "idle"]]
  /\ dist = "idle" /\ batchSize = 0
  /\ sell = [o \in Owners |-> [w \in Wallets |-> None]]
  /\ stray = [w \in Wallets |-> 0]
  /\ chain \in [Wallets -> {0, 1}] /\ cached = chain
  /\ booked = Cardinality(Held(chain))
  /\ boot = [st |-> IF Fresh THEN "todo" ELSE "done", bal |-> NoView]
  /\ \E S \in SUBSET BuyIds, f \in [BuyIds -> Wallets] :
       /\ S # {} => Fresh
       /\ \A b \in S : \A c \in BuyIds : c < b => c \in S
       /\ \A b, c \in S : b # c => f[b] # f[c]
       /\ \A b \in BuyIds : IF b \in S THEN f[b] \in Makers /\ chain[f[b]] = 0
                            ELSE f[b] = CHOOSE w \in Wallets : TRUE
       /\ buy = [b \in BuyIds |-> [st |-> IF b \in S THEN "settling" ELSE "unused",
                                   w |-> f[b], by |-> "round", tx |-> "wire"]]
       /\ pendingBuys = Cardinality(S)

Environment ==
  \/ \E k \in {"buy", "sell"} : RetailTrade(k)
  \/ AskExit \/ Graduate \/ CancelRun
  \/ \E b \in BuyIds : MineBuy(b)
  \/ \E o \in Owners, w \in Wallets : MineSell(o, w)
  \/ \E w \in Wallets : MineStray(w)

Goroutines ==
  \/ \E o \in Buyers, w \in Wallets : AbandonBuy(o, w) \/ \E b \in BuyIds : Broadcast(o, w, b)
  \/ \E b \in BuyIds : CountBuy(b) \/ LoseReply(b) \/ StartSettling(b) \/ QueueSettlement(b)
  \/ \E o \in Owners, w \in Wallets : StartSell(o, w) \/ RevertSell(o, w) \/ FailSell(o, w)
                                      \/ ConfirmSell(o, w)
  \/ PickMakers \/ EndRound \/ EndBatch \/ BootRead \/ BootStore

EventLoop ==
  \/ OnRetailBuy \/ OnRetailSell \/ NoRetailQueued
  \/ \E b \in BuyIds : ApplySettlement(b)
  \/ ApplyBatchResult \/ ExitAll \/ EndRefresh \/ EndSweep
  \/ SellTickClearAll \/ SellTickDistribute \/ AccTick \/ BeginCheckedRound
  \/ ReserveTick \/ Shutdown

Next == Environment \/ Goroutines \/ EventLoop \/ Finished

Spec == Init /\ [][Next]_vars

\* The chain mines, RPC calls return and goroutines get scheduled.  Go's select
\* picks uniformly among the ready cases, so a case that is ready again and
\* again is taken: strong fairness.  No trader, user or accumulation tick has
\* to act.
BuyStep(b) == MineBuy(b) \/ CountBuy(b) \/ StartSettling(b) \/ QueueSettlement(b)
SellStep(o, w) == StartSell(o, w) \/ MineSell(o, w) \/ ConfirmSell(o, w) \/ RevertSell(o, w)
WorkerStep(o, w) == AbandonBuy(o, w) \/ \E b \in BuyIds : Broadcast(o, w, b)
LoopStep == OnRetailBuy \/ OnRetailSell \/ NoRetailQueued \/ EndRefresh \/ EndSweep \/ BeginCheckedRound

Fairness ==
  /\ \A b \in BuyIds : WF_vars(BuyStep(b)) /\ SF_vars(ApplySettlement(b))
  /\ \A o \in Buyers, w \in Makers : WF_vars(WorkerStep(o, w))
  /\ \A o \in Owners, w \in Wallets : WF_vars(SellStep(o, w))
  /\ WF_vars(PickMakers \/ EndRound) /\ WF_vars(EndBatch) /\ WF_vars(LoopStep)
  /\ SF_vars(ApplyBatchResult) /\ SF_vars(ExitAll)
  /\ SF_vars(SellTickClearAll \/ SellTickDistribute)

FairSpec == Spec /\ Fairness

-----------------------------------------------------------------------------
BuyType == [st : Stages, w : Wallets, by : Buyers, tx : Fates]

TypeOK ==
  /\ response \in Responses
  /\ state \in States /\ active \in BOOLEAN
  /\ pc \in Places /\ job \in Jobs /\ sweepErr \in BOOLEAN
  /\ retail \in Seq({"buy", "sell"})
  /\ trades \in Nat /\ retailNet \in Nat /\ exits \in Nat
  /\ exitAsked \in BOOLEAN /\ graduated \in BOOLEAN /\ ctxDone \in BOOLEAN
  /\ round \in [st : {"idle", "starting", "buying"}, cancelled : BOOLEAN]
  /\ worker \in [Buyers -> [Wallets -> {"idle", "preflight"}]]
  /\ buy \in [BuyIds -> BuyType]
  /\ pendingBuys \in Nat
  /\ dist \in {"idle", "selling", "result"} /\ batchSize \in BatchSizes \cup {0}
  /\ sell \in [Owners -> [Wallets -> [st : SellSteps, amt : Nat]]]
  /\ stray \in [Wallets -> Nat]
  /\ view \in [Wallets -> Nat]
  /\ boot \in [st : {"todo", "read", "done"}, bal : [Wallets -> Nat]]
  /\ chain \in [Wallets -> Nat] /\ cached \in [Wallets -> Nat] /\ booked \in Nat

\* The counter that holds back the next accumulation round and every transition
\* to Done is exactly the number of counted buys whose settlement has not been
\* applied: no path loses or double-counts one, and the floor at zero in
\* finishPendingBuy never hides a surplus decrement.
PendingBuysExact == pendingBuys = Cardinality(TrackedBuys)

\* Tokens the cache does not show are those of a buy whose settlement is still
\* to be applied.  This is what makes the empty-cache tests of
\* finishDrainIfEmpty and of the distribution sound.
NoHiddenTokens ==
  \A w \in Wallets : chain[w] > cached[w] =>
    \E b \in TrackedBuys : buy[b].w = w /\ buy[b].tx = "ok"

\* A run that ends in Done because the position is empty leaves nothing behind:
\* no tokens, and no buy that could still bring some.
DoneMeansDrained ==
  (pc = "stopped" /\ state = "Done" /\ ~graduated) =>
     /\ \A w \in Wallets : chain[w] = 0
     /\ \A b \in BuyIds : buy[b].st # "unused" => buy[b].tx # "wire"

\* engine.go:1709: under the per-wallet sell lock a stale plan cannot submit
\* more than remains.
NoOversell ==
  \A o \in Owners, w \in Wallets : sell[o][w].st = "sent" => sell[o][w].amt <= chain[w]

\* The same while no one-click exit has been asked for: without the balance
\* refresh of an exit, the batch and the sweep never oversell a wallet between
\* them.
NoOversellBeforeExit == exits = 0 => NoOversell

\* README: each maker wallet buys exactly once per cycle.  A buy is broadcast
\* only from a wallet that holds nothing and has no other buy under way.
BuyOncePerCycle ==
  [][\A b \in BuyIds : buy[b].st = "unused" /\ buy'[b].st # "unused" =>
       /\ chain[buy'[b].w] = 0
       /\ \A c \in BuyIds : buy[c].w = buy'[b].w => buy[c].st \in {"unused", "applied"}]_vars

\* README: one-click exit stops normal strategy decisions.
ExitIsFinal == exits > 0 /\ ~exitAsked => state \in {"ClearAll", "Done"}

\* A liquidation never hangs: it ends the run, or a retail sell resumes
\* accumulation.
LiquidationEnds ==
  (Running /\ state \in {"Distributing", "ClearAll"}) ~> (~Running \/ state = "Accumulating")

\* README: if all our wallets are cleared before the retail position exits, the
\* strategy stops.
ClearedStops ==
  (Running /\ state = "Distributing" /\ pendingBuys = 0 /\ \A w \in Wallets : chain[w] = 0)
    ~> (~Running \/ state # "Distributing" \/ pendingBuys > 0)

\* A queued outside trade is handled, whatever else is queued.
RetailServed == (retail # <<>>) ~> (retail = <<>> \/ ~Running)
=============================================================================
