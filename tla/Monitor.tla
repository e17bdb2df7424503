------------------------------ MODULE Monitor ------------------------------
(***************************************************************************)
(* The trade monitor (internal/ponsmm/monitor.go) over the log             *)
(* subscription and the log filter of internal/pons/watch.go and           *)
(* v1_watch.go.  The chain's trades reach the monitor live, through a      *)
(* channel that drops what does not fit and ends when the subscription     *)
(* does, and again through a replay of block ranges every tick.  Each is   *)
(* taken once, moves the outsiders' position and is queued for the engine. *)
(*                                                                         *)
(* Every trade is of one token unit: the position counts trades.           *)
(***************************************************************************)
EXTENDS Integers, Sequences, FiniteSets, SequencesExt, FiniteSetsExt

CONSTANTS
  Own,         \* our sales whose log names no wallet of ours, only a router
  None,
  MaxBlocks,   \* bound: blocks
  MaxTrades,   \* bound: trades on the chain
  LiveCap,     \* what the subscription's channel holds (64)
  RetailCap    \* what the Retail channel holds (4096)

ASSUME ConstantsAssumption ==
  /\ MaxBlocks \in Nat /\ MaxTrades \in Nat
  /\ LiveCap \in Nat \ {0} /\ RetailCap \in Nat \ {0}
  /\ None \notin Int
  /\ Own \cap {"buy", "sell"} = {}

\* A swap log.  second: it is the second log of its transaction.
Kinds == {"buy", "sell"} \cup Own
Trade == [kind : Kinds, block : 1..MaxBlocks, second : BOOLEAN]
\* The trades of a transaction that makes any.
Transactions == {<<k>> : k \in Kinds} \cup {<<k, l>> : k, l \in {"buy", "sell"}}
Ids == 1..MaxTrades   \* a trade is known by its place on the chain

VARIABLES
  chain, head,     \* the trades so far and the number of the last block
  tagged, sent,    \* Monitor.ownTx and the own sales that have been broadcast
  curveMode, startBlock,
  sub, live,       \* the subscription and its channel
  pc,              \* where Run is: see Places
  ready, from, upto, todo,  \* recovery: the next block, the head read, the logs to consume
  order,           \* the trades consumed, in order; as a set, seenTrades
  net, bought,     \* retailNetTokens, retailBuyTokens
  pushing,         \* the trade counted in them but not yet in the Retail channel
  retail,          \* the Retail channel
  looked           \* the position when the engine last handled a RetailEvent

chainVars == <<chain, head>>
sendVars == <<tagged, sent>>
startVars == <<curveMode, startBlock>>
recovery == <<ready, from, upto>>
position == <<order, net, bought>>
vars == <<chainVars, sendVars, startVars, sub, live, pc, recovery, todo, position, pushing, retail, looked>>

Places == {"watch", "start", "loop", "tick", "filter", "consume"}

Seen == Range(order)
Held(ids) == Cardinality({i \in ids : chain[i].kind = "buy"})
             - Cardinality({i \in ids : chain[i].kind = "sell"})

-----------------------------------------------------------------------------
(* The chain and our sales.                                                *)

\* The trades of a block's transaction: outsiders sell what they have bought,
\* and a sale of ours has been broadcast.
Fits(kinds) ==
  /\ Len(chain) + Len(kinds) <= MaxTrades
  /\ \A i \in 1..Len(kinds) :
       kinds[i] = "sell" =>
         Held(1..Len(chain)) + Cardinality({j \in 1..(i - 1) : kinds[j] = "buy"})
           > Cardinality({j \in 1..(i - 1) : kinds[j] = "sell"})
  /\ \A o \in Own : kinds = <<o>> => o \in sent /\ \A i \in 1..Len(chain) : chain[i].kind # o

\* In curve mode what does not fit the channel is dropped.  (In pool mode the
\* subscription's goroutine waits and the logs stay with the RPC client.)
Delivered(new) ==
  LET room == LiveCap - Len(live)
  IN IF sub # "open" THEN live
     ELSE IF curveMode /\ room < Len(new) THEN live \o SubSeq(new, 1, room)
     ELSE live \o new

Mine(kinds) ==
  /\ head < MaxBlocks
  /\ Fits(kinds)
  /\ head' = head + 1
  /\ chain' = chain \o [i \in 1..Len(kinds) |->
                          [kind |-> kinds[i], block |-> head + 1, second |-> i = 2]]
  /\ live' = Delivered([i \in 1..Len(kinds) |-> Len(chain) + i])
  /\ UNCHANGED <<sendVars, startVars, sub, pc, recovery, todo, position, pushing, retail, looked>>

\* Mutant: the sale is not tagged.
SendUntagged(o) ==
  /\ o \notin sent
  /\ sent' = sent \cup {o}
  /\ UNCHANGED <<chainVars, tagged, startVars, sub, live, pc, recovery, todo, position,
                 pushing, retail, looked>>
\* executeSell: MarkOurTx, then send.
Send(o) ==
  /\ o \notin sent
  /\ tagged' = tagged \cup {o}
  /\ sent' = sent \cup {o}
  /\ UNCHANGED <<chainVars, startVars, sub, live, pc, recovery, todo, position,
                 pushing, retail, looked>>

-----------------------------------------------------------------------------
(* Run, runCurve: subscribe, recoveryStart, a first replay, then the loop.  *)

\* An HTTP endpoint, or an error: nil.
Watch(opens) ==
  /\ pc = "watch"
  /\ sub' = IF opens THEN "open" ELSE "none"
  /\ pc' = "start"
  /\ UNCHANGED <<chainVars, sendVars, startVars, live, recovery, todo, position, pushing, retail, looked>>

\* What the channel holds is still read; of what is behind it, with the RPC client,
\* some or all is lost.
SubscriptionFails ==
  /\ sub = "open"
  /\ sub' = "closed"
  /\ \E n \in 0..Len(live) : (n >= LiveCap \/ n = Len(live)) /\ live' = SubSeq(live, 1, n)
  /\ UNCHANGED <<chainVars, sendVars, startVars, pc, recovery, todo, position,
                 pushing, retail, looked>>

Tick ==
  /\ pc = "loop"
  /\ pc' = IF ready THEN "tick" ELSE "start"
  /\ UNCHANGED <<chainVars, sendVars, startVars, sub, live, recovery, todo, position,
                 pushing, retail, looked>>

\* Mutant: an existing pair is recovered from the block after the next one.
RecoveryStartLate(ok) ==
  /\ pc = "start"
  /\ IF startBlock > 0 \/ ok
       THEN /\ ready' = TRUE
            /\ from' = IF startBlock > 0 THEN startBlock + 1 ELSE head + 1
            /\ pc' = "tick"
       ELSE pc' = "loop" /\ UNCHANGED <<ready, from>>
  /\ UNCHANGED <<chainVars, sendVars, startVars, sub, live, upto, todo, position,
                 pushing, retail, looked>>
\* ok: the head can be read.
RecoveryStart(ok) ==
  /\ pc = "start"
  /\ IF startBlock > 0 \/ ok
       THEN /\ ready' = TRUE
            /\ from' = IF startBlock > 0 THEN startBlock ELSE head + 1
            /\ pc' = "tick"
       ELSE pc' = "loop" /\ UNCHANGED <<ready, from>>
  /\ UNCHANGED <<chainVars, sendVars, startVars, sub, live, upto, todo, position,
                 pushing, retail, looked>>

\* replayPool, replayCurve: the head first,
ReplayHead(ok) ==
  /\ pc = "tick"
  /\ IF ok /\ head >= from THEN upto' = head /\ pc' = "filter"
                           ELSE pc' = "loop" /\ UNCHANGED upto
  /\ UNCHANGED <<chainVars, sendVars, startVars, sub, live, ready, from, todo, position,
                 pushing, retail, looked>>

\* Mutant: the block after the head is taken as read even if the filter fails.
ReplayFilterSkips(ok) ==
  /\ pc = "filter"
  /\ todo' = IF ok THEN {i \in 1..Len(chain) : chain[i].block \in from..upto} ELSE {}
  /\ pc' = "consume"
  /\ UNCHANGED <<chainVars, sendVars, startVars, sub, live, recovery, position,
                 pushing, retail, looked>>
\* then the logs up to it,
ReplayFilter(ok) ==
  /\ pc = "filter"
  /\ IF ok THEN /\ todo' = {i \in 1..Len(chain) : chain[i].block \in from..upto}
                /\ pc' = "consume"
           ELSE pc' = "loop" /\ UNCHANGED todo
  /\ UNCHANGED <<chainVars, sendVars, startVars, sub, live, recovery, position,
                 pushing, retail, looked>>

\* and when they are consumed the next replay begins behind them.
ReplayEnd ==
  /\ pc = "consume"
  /\ todo = {} /\ pushing = None
  /\ from' = upto + 1
  /\ pc' = "loop"
  /\ UNCHANGED <<chainVars, sendVars, startVars, sub, live, ready, upto, todo, position,
                 pushing, retail, looked>>

\* Mutant: what has been seen is counted again.
TakeAgain(i) ==
  LET sale == chain[i].kind # "buy"
      left == IF sale THEN net - 1 ELSE net + 1
  IN IF chain[i].kind \in tagged
       THEN order' = Append(order, i) /\ UNCHANGED <<net, bought, pushing>>
       ELSE /\ order' = Append(order, i)
            /\ net' = IF left < 0 THEN 0 ELSE left
            /\ bought' = IF ~sale THEN bought + 1 ELSE IF left <= 0 THEN 0 ELSE bought
            /\ pushing' = i
\* Mutant: a flat position keeps its average.
TakeKeepsAverage(i) ==
  LET sale == chain[i].kind # "buy"
      left == IF sale THEN net - 1 ELSE net + 1
  IN IF i \in Seen
       THEN UNCHANGED <<order, net, bought, pushing>>
       ELSE /\ order' = Append(order, i)
            /\ IF chain[i].kind \in tagged
                 THEN UNCHANGED <<net, bought, pushing>>
                 ELSE /\ net' = IF left < 0 THEN 0 ELSE left
                      /\ bought' = IF ~sale THEN bought + 1 ELSE IF left < 0 THEN 0 ELSE bought
                      /\ pushing' = i
\* Mutant: trades are told apart by their transaction only.
TakeByTransaction(i) ==
  LET sale == chain[i].kind # "buy"
      left == IF sale THEN net - 1 ELSE net + 1
  IN IF i \in Seen \/ (chain[i].second /\ i - 1 \in Seen)
       THEN UNCHANGED <<order, net, bought, pushing>>
       ELSE /\ order' = Append(order, i)
            /\ IF chain[i].kind \in tagged
                 THEN UNCHANGED <<net, bought, pushing>>
                 ELSE /\ net' = IF left < 0 THEN 0 ELSE left
                      /\ bought' = IF ~sale THEN bought + 1 ELSE IF left <= 0 THEN 0 ELSE bought
                      /\ pushing' = i
\* Mutant: the position is not clamped.
TakeUnclamped(i) ==
  LET sale == chain[i].kind # "buy"
      left == IF sale THEN net - 1 ELSE net + 1
  IN IF i \in Seen
       THEN UNCHANGED <<order, net, bought, pushing>>
       ELSE /\ order' = Append(order, i)
            /\ IF chain[i].kind \in tagged
                 THEN UNCHANGED <<net, bought, pushing>>
                 ELSE /\ net' = left
                      /\ bought' = IF ~sale THEN bought + 1 ELSE IF left <= 0 THEN 0 ELSE bought
                      /\ pushing' = i
\* consumeTrade and the locked part of onTrade.  A tagged sale is ours.
Take(i) ==
  LET sale == chain[i].kind # "buy"
      left == IF sale THEN net - 1 ELSE net + 1
  IN IF i \in Seen
       THEN UNCHANGED <<order, net, bought, pushing>>
       ELSE /\ order' = Append(order, i)
            /\ IF chain[i].kind \in tagged
                 THEN UNCHANGED <<net, bought, pushing>>
                 ELSE /\ net' = IF left < 0 THEN 0 ELSE left
                      /\ bought' = IF ~sale THEN bought + 1 ELSE IF left <= 0 THEN 0 ELSE bought
                      /\ pushing' = i

\* In the order of the logs.
ConsumeReplayed ==
  /\ pc = "consume"
  /\ pushing = None
  /\ \E i \in todo :
       /\ \A j \in todo : i <= j
       /\ Take(i)
       /\ todo' = todo \ {i}
  /\ UNCHANGED <<chainVars, sendVars, startVars, sub, live, pc, recovery, retail, looked>>

ConsumeLive ==
  /\ pc = "loop"
  /\ pushing = None
  /\ live # <<>>
  /\ Take(Head(live))
  /\ live' = Tail(live)
  /\ UNCHANGED <<chainVars, sendVars, startVars, sub, pc, recovery, todo, retail, looked>>

\* Mutant: only buys are reported to the engine.
PushBuys ==
  /\ pushing # None
  /\ retail' = IF Len(retail) < RetailCap /\ chain[pushing].kind = "buy"
               THEN Append(retail, pushing) ELSE retail
  /\ pushing' = None
  /\ UNCHANGED <<chainVars, sendVars, startVars, sub, live, pc, recovery, todo, position, looked>>
\* The rest of onTrade, without the lock: dropped when the channel is full.
Push ==
  /\ pushing # None
  /\ retail' = IF Len(retail) < RetailCap THEN Append(retail, pushing) ELSE retail
  /\ pushing' = None
  /\ UNCHANGED <<chainVars, sendVars, startVars, sub, live, pc, recovery, todo, position, looked>>

\* The engine's onRetail: Snapshot.
OnRetail ==
  /\ retail # <<>>
  /\ retail' = Tail(retail)
  /\ looked' = net
  /\ UNCHANGED <<chainVars, sendVars, startVars, sub, live, pc, recovery, todo, position, pushing>>

-----------------------------------------------------------------------------

Init ==
  /\ chain = <<>> /\ head = 0
  /\ tagged = {} /\ sent = {}
  /\ curveMode \in BOOLEAN
  /\ startBlock \in {0, 1}   \* an existing pair, or the launch is in block 1
  /\ sub = "none" /\ live = <<>>
  /\ pc = "watch"
  /\ ready = FALSE /\ from = 0 /\ upto = 0 /\ todo = {}
  /\ order = <<>> /\ net = 0 /\ bought = 0
  /\ pushing = None
  /\ retail = <<>> /\ looked = 0

ReadOK == RecoveryStart(TRUE) \/ ReplayHead(TRUE)
FilterOK == ReplayFilter(TRUE)
Loop == Tick \/ ConsumeReplayed \/ ConsumeLive \/ Push \/ ReplayEnd

Next ==
  \/ \E kinds \in Transactions : Mine(kinds)
  \/ \E o \in Own : Send(o)
  \/ \E ok \in BOOLEAN : Watch(ok) \/ RecoveryStart(ok) \/ ReplayHead(ok) \/ ReplayFilter(ok)
  \/ SubscriptionFails
  \/ Loop
  \/ OnRetail

\* The monitor's goroutine runs and ticks although live trades keep coming; a
\* read that is tried over and over succeeds again and again.
Fairness ==
  /\ WF_vars(\E ok \in BOOLEAN : Watch(ok) \/ RecoveryStart(ok) \/ ReplayHead(ok) \/ ReplayFilter(ok))
  /\ SF_vars(Tick) /\ WF_vars(ConsumeReplayed) /\ WF_vars(Push) /\ WF_vars(ReplayEnd)
  /\ SF_vars(ReadOK) /\ SF_vars(FilterOK)

Spec == Init /\ [][Next]_vars
FairSpec == Spec /\ Fairness

-----------------------------------------------------------------------------

TypeOK ==
  /\ chain \in Seq(Trade) /\ head \in 0..MaxBlocks
  /\ tagged \subseteq Own /\ sent \subseteq Own
  /\ curveMode \in BOOLEAN /\ startBlock \in {0, 1}
  /\ sub \in {"none", "open", "closed"} /\ live \in Seq(1..Len(chain))
  /\ pc \in Places
  /\ ready \in BOOLEAN /\ from \in 0..(MaxBlocks + 1) /\ upto \in 0..MaxBlocks
  /\ todo \subseteq 1..Len(chain) /\ order \in Seq(1..Len(chain))
  /\ net \in Nat /\ bought \in Nat
  /\ pushing \in 1..Len(chain) \cup {None}
  /\ retail \in Seq(1..Len(chain)) /\ looked \in Nat

\* Live delivery and replay overlap, yet no trade is counted twice (consumeTrade).
CountedOnce == \A i, j \in 1..Len(order) : i # j => order[i] # order[j]

\* A block that recovery has passed has no trade that was not consumed: what the
\* live channel drops, or a failed read leaves out, is not skipped (replayCurve).
NoTradeSkipped ==
  startBlock > 0 /\ ready =>
    \A i \in 1..Len(chain) : chain[i].block \in startBlock..(from - 1) => i \in Seen

\* "retail net token holding (their buys - sells)", as long as the trades have been
\* consumed in chain order: what clamping at zero cannot disturb, and our own
\* sales do not enter.
NetExact == (\A i \in 1..Len(order) : order[i] = i) => net = Held(Seen)

\* In whatever order: the position is never below what was consumed of it (a
\* retail position is not overlooked), and flat exactly when its average is gone.
NetNotLow ==
  /\ net >= Held(Seen) /\ bought >= net
  /\ net = 0 <=> bought = 0

\* No change of the position is lost on the engine, although trades are dropped
\* from a full Retail channel: it has seen the position, or an event is queued.
NoLostWakeup == looked = net \/ retail # <<>> \/ pushing # None

\* Every trade since the launch is consumed in the end, whatever the subscription
\* drops and although it ends and reads fail.
EveryTradeCounted ==
  \A i \in Ids : (startBlock > 0 /\ i <= Len(chain)) ~> (i \in Seen)
=============================================================================
