------------------------------- MODULE Launch -------------------------------
(***************************************************************************)
(* A launch and its maker buys (internal/ponsmm/engine.go, launchV1 and      *)
(* launchV2; bundle.go) on top of the router: "off" buys in a burst behind   *)
(* the launch's receipt, "window" sends pre-signed buys again and again      *)
(* along with the launch, "atomic" parks the makers' ether in the router and *)
(* buys inside the launch transaction.                                       *)
(***************************************************************************)
EXTENDS Router

CONSTANTS
  Makers,        \* Pool.Makers, in their order
  Treasury,
  Other,         \* another program's treasury, to which a maker may have parked
  Modes,         \* subset of {"v1", "off", "window", "atomic"}
  ConcurrentBuys,
  BundleBuyCount,
  Window,        \* BundleMaxBlocks
  DevBuy,        \* DevBuyETH
  EarlierDeposit,
  Gas,           \* what sizing keeps back for a transaction's gas
  MaxFaults      \* bound: refused or lost sends, forgotten or reverted launches, timeouts

MakerSet == Range(Makers)
ASSUME LaunchAssumption ==
  /\ Makers \in Seq(Accounts) \ {<<>>}
  /\ Accounts = MakerSet \cup {Treasury, Other}
  /\ Treasury \notin MakerSet /\ Other \notin MakerSet /\ Other # Treasury
  /\ Modes \subseteq {"v1", "off", "window", "atomic"}
  /\ 0 \in Curves /\ Curves \subseteq Nat
  /\ \A w \in MakerSet : Funds[w] >= EarlierDeposit
  /\ {EarlierDeposit, BundleBuyCount, Window, DevBuy, Gas, MaxFaults} \subseteq Nat /\ ConcurrentBuys \in BOOLEAN

VARIABLES
  pool, mined,    \* transactions accepted, and their receipts
  attempt,        \* launches begun; each creates a curve of its own (a random salt)
  mode, pc,
  buys,           \* bundle.buys: the spend of each of its makers
  park,           \* where each goroutine of ensureDeposits is
  spam,           \* pre-signed buys that are sent until they have a receipt
  pend,           \* buys whose settlement is awaited
  home,           \* makers whose withdrawDeposits is under way
  booked,         \* tokens the engine has booked for each wallet
  unsure,         \* wallets of transactions that were given up on
  crossed,        \* this launch began while one that was given up on could still land
  faults

localVars == <<mode, pc, buys, park, spam, pend, home, booked>>
vars == <<routerVars, pool, mined, attempt, localVars, unsure, crossed, faults>>

Fault == faults > 0 /\ faults' = faults - 1
NoBuys == [w \in {} |-> 0]

Tx(op, from) ==
  [op |-> op, from |-> from, curve |-> attempt, value |-> 0, quoteIn |-> 0, buys |-> <<>>]
Mined(tx) == \E r \in mined : r.tx = tx
Receipt(tx) == CHOOSE r \in mined : r.tx = tx
\* No receipt is to come: the node has forgotten the transaction.
Gone(tx) == tx \notin pool \cup spam /\ ~Mined(tx)

-----------------------------------------------------------------------------
(* The chain.                                                               *)

\* Without the router: the official launch, and the curve's own buy.
OfficialLaunch(tx) ==
  LET s == tx.from  c == tx.curve  fill == OpeningFill(tx.quoteIn)
  IN /\ LaunchTerms(s, c, tx.quoteIn, s, tx.value)
     /\ left' = [left EXCEPT ![c] = Room - fill]
     /\ tokens' = [tokens EXCEPT ![s] = @ + fill]
     /\ paid' = [paid EXCEPT ![s] = @ + Fee + fill]
     /\ eth' = [eth EXCEPT ![s] = @ - Fee - fill]
     /\ UNCHANGED <<held, launchBlock, deposits, operatorOf, totalDeposits, block>>

CurveBuy(tx) ==
  LET s == tx.from  c == tx.curve  fill == Least(tx.value, left[c])
  IN /\ tx.value \in 1..eth[s]
     /\ left[c] > 0
     /\ left' = [left EXCEPT ![c] = @ - fill]
     /\ tokens' = [tokens EXCEPT ![s] = @ + fill]
     /\ paid' = [paid EXCEPT ![s] = @ + fill]
     /\ eth' = [eth EXCEPT ![s] = @ - fill]
     /\ UNCHANGED <<held, launchBlock, deposits, operatorOf, totalDeposits, block>>

Call(tx) ==
  LET s == tx.from
  IN \/ tx.op = "deposit" /\ Deposit(s, Treasury, tx.value)
     \/ tx.op = "withdraw" /\ Withdraw(s, 0)
     \/ tx.op = "launch" /\ OfficialLaunch(tx)
     \/ tx.op = "buy" /\ CurveBuy(tx)
     \/ tx.op = "routerLaunch" /\ Launch(s, tx.curve, tx.quoteIn, s, tx.value)
     \/ tx.op = "routerBuy" /\ BuyAfterLaunch(s, tx.curve, Window, s, tx.value)
     \/ tx.op = "atomic" /\ LaunchAndBuyAtomic(s, tx.curve, tx.quoteIn, s, tx.value, tx.buys)

UnchangedByChain == <<attempt, localVars, unsure, crossed>>

Reverts(tx) == tx.value <= eth[tx.from] /\ ~ENABLED Call(tx)

\* A transaction is included, or reverts, or can no longer be paid and is forgotten.
Include(tx) ==
  /\ tx \in pool
  /\ pool' = pool \ {tx}
  /\ \/ /\ Call(tx)
        /\ mined' = mined \cup {[tx |-> tx, ok |-> TRUE,
                                 fills |-> [w \in Accounts |-> tokens'[w] - tokens[w]]]}
     \/ /\ Reverts(tx)
        /\ mined' = mined \cup {[tx |-> tx, ok |-> FALSE, fills |-> NoBuys]}
        /\ UNCHANGED routerVars
     \/ tx.value > eth[tx.from] /\ UNCHANGED <<routerVars, mined>>
  /\ UNCHANGED <<UnchangedByChain, faults>>

\* The official contracts refuse a launch, or the node forgets a transaction.
Refuse(tx) ==
  /\ Fault
  /\ tx \in pool
  /\ pool' = pool \ {tx}
  /\ \/ UNCHANGED mined
     \/ tx.op \in {"launch", "routerLaunch", "atomic"}
        /\ mined' = mined \cup {[tx |-> tx, ok |-> FALSE, fills |-> NoBuys]}
  /\ unsure' = IF tx.op = "withdraw" THEN unsure \cup {tx.from} ELSE unsure
  /\ UNCHANGED <<routerVars, attempt, localVars, crossed>>

\* The other program launches with what a maker has parked for it.
OtherLaunch(w) ==
  /\ Fault
  /\ ~Launched(0)
  /\ LET tx == [Tx("atomic", Other) EXCEPT !.curve = 0, !.value = Fee,
                                          !.buys = << [wallet |-> w, quoteIn |-> 1] >>]
     IN ~Mined(tx) /\ pool' = pool \cup {tx}
  /\ unsure' = unsure \cup {w}
  /\ UNCHANGED <<routerVars, mined, attempt, localVars, crossed>>

-----------------------------------------------------------------------------
(* Sizing, bundleBuySpend: half of what the wallet has beyond its gas.      *)

Spend(w) == (eth[w] - Gas) \div 2

Sized(ws) == [w \in {w \in ws : Spend(w) > 0} |-> Spend(w)]

First(n) == {Makers[i] : i \in 1..Least(n, Len(Makers))}
\* All makers with ether at once, or the first one only.
BurstMakers ==
  {Makers[i] : i \in {i \in DOMAIN Makers :
     /\ eth[Makers[i]] > 0
     /\ ConcurrentBuys \/ \A j \in 1..(i - 1) : eth[Makers[j]] = 0}}

Fail == pc' = "failed"

\* ensureLaunchFunds
Unaffordable == eth[Treasury] < Fee + DevBuy

\* Preflight and prepareLaunchBundle; a window launch sizes its buys when it is sent.
Prepare(m) ==
  /\ pc \in {"idle", "failed"}
  /\ attempt + 1 \in Curves
  /\ attempt' = attempt + 1
  /\ mode' = m
  /\ crossed' = \E tx \in pool : tx.op = "atomic" /\ tx.from = Treasury
  /\ LET sized == CASE m = "atomic" -> Sized(BurstMakers)
                    [] m = "window" -> [w \in First(BundleBuyCount) |-> 0]
                    [] OTHER -> NoBuys
     IN /\ buys' = sized
        /\ IF Unaffordable \/ (m \in {"window", "atomic"} /\ sized = NoBuys)
             THEN Fail /\ UNCHANGED park
             ELSE /\ pc' = IF m = "atomic" THEN "park" ELSE "send"
                  /\ park' = IF m = "atomic" THEN [w \in DOMAIN sized |-> "read"] ELSE park
  /\ UNCHANGED <<routerVars, pool, mined, spam, pend, home, booked, unsure, faults>>

\* ensureDeposits, a goroutine per maker.  What is missing is deposited less the
\* gas of the deposit.
Missing(w) == buys[w] - deposits[w]
UnchangedByPark == <<routerVars, mined, attempt, mode, spam, pend, booked, unsure, crossed>>

Parked(w, stage) == park' = [park EXCEPT ![w] = stage]

\* Mutant: whoever the operator is.
CountedOnAlways(w) == TRUE

CountedOn(w) == deposits[w] > 0 => operatorOf[w] = Treasury

DepositTx(w) == [Tx("deposit", w) EXCEPT !.value = Missing(w) - Gas]

\* Locked to another operator, or not worth a deposit, or the quote or the send
\* fails (or its answer is lost).
Excluded(w) ==
  /\ pc = "park" /\ park[w] = "read"
  /\ \/ ~CountedOn(w) /\ UNCHANGED <<pool, faults>>
     \/ Missing(w) \in 1..Gas /\ deposits[w] = 0 /\ UNCHANGED <<pool, faults>>
     \/ /\ Fault
        /\ CountedOn(w) /\ Missing(w) > 0
        /\ UNCHANGED pool \/ (Missing(w) > Gas /\ pool' = pool \cup {DepositTx(w)})
  /\ Parked(w, "dropped")
  /\ UNCHANGED <<UnchangedByPark, pc, buys, home>>

Kept(w) ==
  /\ pc = "park" /\ park[w] = "read" /\ CountedOn(w)
  /\ \/ Missing(w) <= 0 /\ UNCHANGED buys
     \/ Missing(w) \in 1..Gas /\ deposits[w] > 0 /\ buys' = [buys EXCEPT ![w] = deposits[w]]
  /\ Parked(w, "kept")
  /\ UNCHANGED <<UnchangedByPark, pool, pc, home, faults>>

\* The deposit is sent; MarkOurTx is then called on the monitor, which does not
\* exist before the launch is bound, and the program goes down with every
\* goroutine of it.
SendDeposit(w) ==
  /\ pc = "park" /\ park[w] = "read" /\ CountedOn(w)
  /\ Missing(w) > Gas
  /\ pool' = pool \cup {DepositTx(w)}
  /\ Parked(w, "sent")
  /\ UNCHANGED <<UnchangedByPark, pc, buys, home, faults>>

Panic(w) ==
  /\ pc = "park" /\ park[w] = "sent"
  /\ pc' = "idle"
  /\ buys' = NoBuys /\ park' = NoBuys /\ home' = {}
  /\ UNCHANGED <<UnchangedByPark, pool, faults>>

DepositReadFails(w) ==
  /\ Fault
  /\ pc = "park" /\ park[w] = "read" /\ "sent" \notin Range(park)
  /\ Fail
  /\ park' = NoBuys
  /\ UNCHANGED <<UnchangedByPark, pool, buys, home>>

ParkingOver ==
  /\ pc = "park"
  /\ \A w \in DOMAIN park : park[w] \in {"kept", "dropped"}
  /\ buys' = [w \in {w \in DOMAIN park : park[w] = "kept"} |-> buys[w]]
  /\ IF buys' = NoBuys THEN Fail ELSE pc' = "send"
  /\ park' = NoBuys
  /\ UNCHANGED <<UnchangedByPark, pool, home, faults>>

-----------------------------------------------------------------------------
(* Sending the launch, and its receipt.                                     *)

\* The buys in the makers' order.
AtomicBuys ==
  [i \in {i \in DOMAIN Makers : Makers[i] \in DOMAIN buys} |->
     [wallet |-> Makers[i], quoteIn |-> buys[Makers[i]]]]

LaunchTx ==
  LET op == CASE mode = "window" -> "routerLaunch" [] mode = "atomic" -> "atomic" [] OTHER -> "launch"
  IN [Tx(op, Treasury) EXCEPT !.value = Fee + DevBuy, !.quoteIn = DevBuy,
                              !.buys = IF mode = "atomic" THEN AtomicBuys ELSE <<>>]

BuyTx(w, spend) ==
  [Tx(IF mode = "window" THEN "routerBuy" ELSE "buy", w) EXCEPT !.value = spend]
BuyTxs(spends) == {BuyTx(w, spends[w]) : w \in DOMAIN spends}

\* sendWindow sizes the buys and sends the launch before them.
SendLaunch ==
  /\ pc = "send"
  /\ IF mode = "window" THEN buys' = Sized(DOMAIN buys) ELSE UNCHANGED buys
  /\ IF mode = "window" /\ buys' = NoBuys
       THEN Fail /\ UNCHANGED <<pool, spam>>
       ELSE /\ pc' = "sent"
            /\ pool' = pool \cup {LaunchTx}
            /\ spam' = IF mode = "window" THEN BuyTxs(buys') ELSE spam
  /\ UNCHANGED <<routerVars, mined, attempt, mode, park, pend, home, booked, unsure, crossed, faults>>

\* The send is refused, or its answer is lost.
SendFails ==
  /\ Fault
  /\ pc = "send"
  /\ Fail
  /\ \/ UNCHANGED <<pool, unsure>>
     \/ pool' = pool \cup {LaunchTx} /\ unsure' = unsure \cup DOMAIN buys \cup {Treasury}
  /\ UNCHANGED <<routerVars, mined, attempt, mode, buys, park, spam, pend, home, booked, crossed>>

\* spamUntilReceipt
Resend(tx) ==
  /\ tx \in spam
  /\ IF Mined(tx) THEN spam' = spam \ {tx} /\ UNCHANGED pool
                  ELSE pool' = pool \cup {tx} /\ pool' # pool /\ UNCHANGED spam
  /\ UNCHANGED <<routerVars, mined, attempt, mode, pc, buys, park, pend, home, booked, unsure, crossed, faults>>

Book(r, ws) == booked' = [w \in Accounts |-> booked[w] + IF w \in ws THEN r.fills[w] ELSE 0]

\* Mutant: of the first maker only.
HomewardOfFirst == DOMAIN buys \cap {Makers[1]}

Homeward == DOMAIN buys

\* The launch has landed: bound, its opening buy booked (v1: by Run's first
\* refresh of the balances); the makers' buys are settled from its receipt
\* (settleAtomicBuys), awaited, or sent now, before anything is booked.
LaunchLanded ==
  /\ pc = "sent" /\ Mined(LaunchTx) /\ Receipt(LaunchTx).ok
  /\ IF mode = "off"
       THEN pc' = "burst" /\ buys' = Sized(BurstMakers) /\ UNCHANGED booked
       ELSE /\ pc' = "running" /\ UNCHANGED buys
            /\ Book(Receipt(LaunchTx), {Treasury} \cup IF mode = "atomic" THEN DOMAIN buys ELSE {})
  /\ pend' = pend \cup IF mode = "window" THEN BuyTxs(buys) ELSE {}
  /\ home' = home \cup IF mode = "atomic" THEN Homeward ELSE {}
  /\ UNCHANGED <<routerVars, pool, mined, attempt, mode, park, spam, unsure, crossed, faults>>

\* Reverted: WaitReceiptEvery returns an error for it too, so the resubmissions
\* stop and nothing else is done (what follows the check of the receipt's status
\* is never reached): the makers' deposits stay where they are.
LaunchReverted ==
  /\ pc = "sent" /\ Mined(LaunchTx) /\ ~Receipt(LaunchTx).ok
  /\ Fail
  /\ spam' = {}
  /\ UNCHANGED <<routerVars, pool, mined, attempt, mode, buys, park, pend, home, booked, unsure, crossed, faults>>

\* No receipt in 120 s: the launch and the buys sent with it may still land.
LaunchTimeout ==
  /\ pc = "sent" /\ ~Mined(LaunchTx)
  /\ IF Gone(LaunchTx) THEN UNCHANGED faults ELSE Fault
  /\ Fail
  /\ spam' = {}
  /\ unsure' = unsure \cup DOMAIN buys \cup {Treasury}
  /\ UNCHANGED <<routerVars, pool, mined, attempt, mode, buys, park, pend, home, booked, crossed>>

\* Mutant: the spend is booked, whatever the curve returned of it.
GotSpend(tx) == IF Receipt(tx).ok THEN tx.value ELSE 0

\* A revert is a miss, and costs no ether.
Got(tx) == IF Receipt(tx).ok THEN Receipt(tx).fills[tx.from] ELSE 0

\* launchBuyBurst
BurstBuy(w, ok) ==
  /\ pc = "burst" /\ w \in DOMAIN buys
  /\ buys' = [x \in DOMAIN buys \ {w} |-> buys[x]]
  /\ IF ok THEN /\ pool' = pool \cup {BuyTx(w, buys[w])} /\ pend' = pend \cup {BuyTx(w, buys[w])}
                /\ UNCHANGED faults
           ELSE Fault /\ UNCHANGED <<pool, pend>>
  /\ UNCHANGED <<routerVars, mined, attempt, mode, pc, park, spam, home, booked, unsure, crossed>>

\* The burst is out: only now is the opening buy booked.
BurstOver ==
  /\ pc = "burst" /\ buys = NoBuys
  /\ pc' = "running"
  /\ booked' = [booked EXCEPT ![Treasury] = @ + Got(LaunchTx)]
  /\ UNCHANGED <<routerVars, pool, mined, attempt, mode, buys, park, spam, pend, home, unsure, crossed, faults>>

-----------------------------------------------------------------------------
(* Settlement and the way home.                                             *)

UnchangedBySettle == <<routerVars, pool, mined, attempt, mode, pc, buys, park, spam, home, crossed>>

Final(tx) == Mined(tx)

\* settleBundledBuy, settleBuy: goroutines that start once the launch is booked.
Settle(tx) ==
  /\ pc # "burst"
  /\ tx \in pend /\ Final(tx)
  /\ pend' = pend \ {tx}
  /\ booked' = [booked EXCEPT ![tx.from] = @ + Got(tx)]
  /\ UNCHANGED <<UnchangedBySettle, unsure, faults>>

\* Mutant: only a transaction the node still knows is given up on.
SettleTimeoutOfKnown(tx) ==
  /\ Fault
  /\ pc # "burst"
  /\ tx \in pend /\ ~Mined(tx) /\ ~Gone(tx)
  /\ pend' = pend \ {tx}
  /\ unsure' = unsure \cup {tx.from}
  /\ UNCHANGED <<UnchangedBySettle, booked>>

\* No receipt in 90 s.
SettleTimeout(tx) ==
  /\ pc # "burst"
  /\ tx \in pend /\ ~Mined(tx)
  /\ IF Gone(tx) THEN UNCHANGED faults ELSE Fault
  /\ pend' = pend \ {tx}
  /\ unsure' = unsure \cup {tx.from}
  /\ UNCHANGED <<UnchangedBySettle, booked>>

\* withdrawDeposits, a goroutine per maker of a landed launch; one whose call fails
\* leaves the deposit where it is.
Home(w, ok) ==
  /\ w \in home
  /\ home' = home \ {w}
  /\ pool' = IF ok /\ deposits[w] # 0 THEN pool \cup {Tx("withdraw", w)} ELSE pool
  /\ IF ok THEN UNCHANGED <<unsure, faults>> ELSE Fault /\ unsure' = unsure \cup {w}
  /\ UNCHANGED <<routerVars, mined, attempt, mode, pc, buys, park, spam, pend, booked, crossed>>

-----------------------------------------------------------------------------

\* What the wallets ws have left in the router for an operator.
EarlierDeposits(for, ws) ==
  LET parked == [a \in Accounts |-> IF a \in ws THEN EarlierDeposit ELSE 0]
  IN /\ eth = [a \in Accounts |-> Funds[a] - parked[a]]
     /\ deposits = parked
     /\ operatorOf = [a \in Accounts |-> IF a \in ws THEN for ELSE None]
     /\ totalDeposits = Cardinality(ws) * EarlierDeposit /\ held = totalDeposits

\* Earlier launches may have left deposits: every maker's for this treasury, or one
\* maker's for the other program.
Init ==
  /\ \/ \E ws \in {{}, {Makers[1]}, MakerSet} : EarlierDeposits(Treasury, ws)
     \/ EarlierDeposits(Other, {Makers[1]})
  /\ launchBlock = [c \in Curves |-> 0]
  /\ left = [c \in Curves |-> 0]
  /\ tokens = [a \in Accounts |-> 0] /\ paid = tokens /\ booked = tokens
  /\ block = 1
  /\ pool = {} /\ mined = {}
  /\ attempt = 0 /\ mode = None /\ pc = "idle"
  /\ buys = NoBuys /\ park = NoBuys
  /\ spam = {} /\ pend = {} /\ home = {}
  /\ unsure = {} /\ crossed = FALSE
  /\ faults = MaxFaults

NextBlock == Tick /\ UNCHANGED <<pool, mined, UnchangedByChain, faults>>

Program ==
  \/ SendLaunch \/ LaunchLanded \/ LaunchReverted \/ LaunchTimeout
  \/ ParkingOver \/ BurstOver
  \/ \E w \in DOMAIN park : Excluded(w) \/ Kept(w) \/ SendDeposit(w) \/ Panic(w)
  \/ \E w \in DOMAIN buys : BurstBuy(w, TRUE)

Next ==
  \/ \E m \in Modes : Prepare(m)
  \/ Program
  \/ \E w \in DOMAIN park : DepositReadFails(w)
  \/ SendFails
  \/ \E w \in DOMAIN buys : BurstBuy(w, FALSE)
  \/ \E w \in home, ok \in BOOLEAN : Home(w, ok)
  \/ \E tx \in spam : Resend(tx)
  \/ \E tx \in pend : Settle(tx) \/ SettleTimeout(tx)
  \/ \E tx \in pool : Include(tx) \/ Refuse(tx)
  \/ \E w \in MakerSet : OtherLaunch(w)
  \/ NextBlock

\* Goroutines run and the chain includes what it has accepted.
Fairness ==
  /\ WF_vars(Program)
  /\ WF_vars(\E tx \in spam : Resend(tx))
  /\ WF_vars(\E tx \in pend : Settle(tx) \/ SettleTimeout(tx))
  /\ WF_vars(\E w \in home : Home(w, TRUE))
  /\ WF_vars(\E tx \in pool : Include(tx))

Spec == Init /\ [][Next]_vars
FairSpec == Spec /\ Fairness

-----------------------------------------------------------------------------

TypeOK ==
  /\ eth \in [Accounts -> Nat] /\ deposits \in [Accounts -> Nat] /\ held \in Nat
  /\ operatorOf \in [Accounts -> Accounts \cup {None}] /\ totalDeposits \in Nat
  /\ launchBlock \in [Curves -> Nat] /\ left \in [Curves -> Nat]
  /\ tokens \in [Accounts -> Nat] /\ paid \in [Accounts -> Nat] /\ booked \in [Accounts -> Nat]
  /\ mode \in Modes \cup {None}
  /\ pc \in {"idle", "park", "send", "sent", "burst", "running", "failed"}
  /\ DOMAIN buys \subseteq MakerSet /\ \A w \in DOMAIN buys : buys[w] \in Nat /\ (buys[w] = 0 => mode = "window" /\ pc \in {"send", "failed"})
  /\ DOMAIN park \subseteq MakerSet /\ \A w \in DOMAIN park : park[w] \in {"read", "sent", "kept", "dropped"}
  /\ home \subseteq MakerSet /\ unsure \subseteq Accounts /\ {tx.from : tx \in pend} \subseteq MakerSet

\* ensureDeposits: an atomic launch that is under way finds every maker's spend
\* deposited, with the treasury as its operator, so it does not revert for want
\* of it, also when it counts on what a launch that reverted or was not sent has
\* left there; unless one that was given up on could still land when it began.
LaunchCovered ==
  \A tx \in pool : tx.op = "atomic" /\ tx.from = Treasury /\ ~crossed =>
    \A i \in DOMAIN tx.buys :
      operatorOf[tx.buys[i].wallet] = Treasury /\ deposits[tx.buys[i].wallet] >= tx.buys[i].quoteIn

\* Once its launch is decided and booked and its buys are settled, what the engine
\* has booked for a wallet is what the wallet holds on the chain: clamped fills,
\* missed windows and earlier launches that reverted included (settleBundledBuy,
\* settleAtomicBuys, settleBuy).  Wallets of a transaction that was given up on
\* are left out.
BookedIsHeld ==
  \A w \in MakerSet \cup {Treasury} :
    w \notin unsure /\ pc \notin {"sent", "burst"} /\ (\A tx \in pend : tx.from # w) => booked[w] = tokens[w]

\* Every buy that was broadcast is settled in the end, so pendingBuys is not
\* above zero for ever (spamUntilReceipt, WaitReceiptEvery).
BuysSettle == (pend # {}) ~> (pend = {})

\* What an atomic launch leaves of the makers' deposits is returned to them,
\* unless a call fails on the way (withdrawDeposits).
LeftoverReturned ==
  (pc = "running" /\ mode = "atomic")
    ~> (\A w \in DOMAIN buys : deposits[w] = 0 \/ w \in unsure)

\* "ensureDeposits makes sure every maker has at least its spend parked [...],
\* sending deposits for the shortfall and waiting for them to confirm": parking
\* ends with the launch being sent or refused.
ParkingEnds == (pc = "park") ~> (pc \in {"send", "failed"})
=============================================================================
