---------------------------- MODULE EngineProofs ----------------------------
(***************************************************************************)
(* Theorems about Engine, for every set of wallets and every bound: its     *)
(* types and the count of pending buys, under every response, fault and     *)
(* race; then what the cache may miss, when a run is really over, how often *)
(* a wallet buys and how much it sells.                                     *)
(*                                                                         *)
(* The latter do not hold under every fault, race and response.  Each      *)
(* theorem names the runs it is about: Calm, the Steady among them, the    *)
(* Orderly among those.                                                    *)
(***************************************************************************)
EXTENDS Engine, FiniteSetTheorems, TLAPS

-----------------------------------------------------------------------------
(* The helpers of the module.                                              *)

LEMMA BuyIdsFinite == IsFiniteSet(BuyIds) /\ BuyIds \subseteq Nat
  BY FS_Interval, ConstantsAssumption DEF BuyIds

LEMMA MinusType == \A m, n \in Nat : Minus(m, n) \in Nat
  BY DEF Minus

LEMMA SmallerType == \A m, n \in Nat : Smaller(m, n) \in Nat
  BY DEF Smaller

\* A plan of sells is well typed when the balances it is made from are.
LEMMA PlanType ==
  ASSUME TypeOK, NEW o \in Owners, NEW S \in SUBSET Wallets,
         NEW bal \in [Wallets -> Nat]
  PROVE  Plan(o, S, bal) \in [Owners -> [Wallets -> [st : SellSteps, amt : Nat]]]
  BY DEF TypeOK, Plan, SellSteps

LEMMA NoneType == None \in [st : SellSteps, amt : Nat]
  BY DEF None, SellSteps

LEMMA NoViewType == NoView \in [Wallets -> Nat]
  BY DEF NoView

LEMMA HeldFinite ==
  ASSUME NEW bal PROVE IsFiniteSet(Held(bal)) /\ Held(bal) \subseteq Wallets
  BY FS_Subset, ConstantsAssumption DEF Held

-----------------------------------------------------------------------------
(* Type correctness.                                                       *)

LEMMA TypeInit == Init => TypeOK
  <1> SUFFICES ASSUME Init PROVE TypeOK
    OBVIOUS
  <1> USE DEF Init, States, Places, Jobs, SellSteps
  <1>1. booked \in Nat
    BY HeldFinite, FS_CardinalityType
  <1>2. buy \in [BuyIds -> BuyType] /\ pendingBuys \in Nat
    <2>1. PICK S \in SUBSET BuyIds, f \in [BuyIds -> Wallets] :
            /\ buy = [b \in BuyIds |-> [st |-> IF b \in S THEN "settling" ELSE "unused",
                                        w |-> f[b], by |-> "round", tx |-> "wire"]]
            /\ pendingBuys = Cardinality(S)
      OBVIOUS
    <2>2. IsFiniteSet(S)
      BY BuyIdsFinite, FS_Subset
    <2>3. pendingBuys \in Nat
      BY <2>1, <2>2, FS_CardinalityType
    <2>4. buy \in [BuyIds -> BuyType]
      BY <2>1 DEF BuyType, Stages, Tracked, Buyers, Fates
    <2> QED
      BY <2>3, <2>4
  <1>3. chain \in [Wallets -> Nat] /\ cached \in [Wallets -> Nat]
    OBVIOUS
  <1>4. sell \in [Owners -> [Wallets -> [st : SellSteps, amt : Nat]]]
    BY NoneType
  <1>5. retail \in Seq({"buy", "sell"})
    OBVIOUS
  <1> QED
    BY <1>1, <1>2, <1>3, <1>4, <1>5, NoViewType DEF TypeOK

-----------------------------------------------------------------------------
\* The shapes of the updates of `buy' and `sell'.
LEMMA StageType ==
  ASSUME TypeOK, NEW b \in BuyIds, NEW s \in Stages
  PROVE  [buy EXCEPT ![b].st = s] \in [BuyIds -> BuyType]
  BY DEF TypeOK, BuyType

LEMMA FateType ==
  ASSUME TypeOK, NEW b \in BuyIds, NEW f \in Fates
  PROVE  [buy EXCEPT ![b].tx = f] \in [BuyIds -> BuyType]
  BY DEF TypeOK, BuyType

LEMMA SellUpdateType ==
  ASSUME TypeOK, NEW o \in Owners, NEW w \in Wallets, NEW r \in [st : SellSteps, amt : Nat]
  PROVE  [sell EXCEPT ![o][w] = r] \in [Owners -> [Wallets -> [st : SellSteps, amt : Nat]]]
  BY DEF TypeOK

LEMMA SellStepType ==
  ASSUME TypeOK, NEW o \in Owners, NEW w \in Wallets, NEW s \in SellSteps
  PROVE  [sell EXCEPT ![o][w].st = s] \in [Owners -> [Wallets -> [st : SellSteps, amt : Nat]]]
  <1> DEFINE r == [sell[o][w] EXCEPT !.st = s]
  <1>0. sell[o][w] \in [st : SellSteps, amt : Nat]
    BY DEF TypeOK
  <1>1. r \in [st : SellSteps, amt : Nat]
    BY <1>0
  <1>2. [sell EXCEPT ![o][w].st = s] = [sell EXCEPT ![o][w] = r]
    BY DEF TypeOK
  <1> QED
    BY <1>1, <1>2, SellUpdateType

LEMMA SpendType ==
  ASSUME NEW f \in [Wallets -> Nat], NEW w \in Wallets, NEW a \in Nat, f[w] >= a
  PROVE  [f EXCEPT ![w] = @ - a] \in [Wallets -> Nat]
  OBVIOUS

LEMMA AssignType ==
  ASSUME TypeOK, NEW o \in Buyers, NEW S \in SUBSET Eligible
  PROVE  Assign(o, S) \in [Buyers -> [Wallets -> {"idle", "preflight"}]]
  BY DEF TypeOK, Assign

LEMMA WorkerType ==
  ASSUME TypeOK, NEW o \in Buyers, NEW w \in Wallets
  PROVE  [worker EXCEPT ![o][w] = "idle"] \in [Buyers -> [Wallets -> {"idle", "preflight"}]]
  BY DEF TypeOK

LEMMA RetailTradeType ==
  ASSUME TypeOK, NEW k \in {"buy", "sell"}, RetailTrade(k)
  PROVE  TypeOK'
  <1>1. retailNet' \in Nat
    BY MinusType DEF RetailTrade, TypeOK
  <1>2. trades' \in Nat /\ retail' \in Seq({"buy", "sell"})
    BY DEF RetailTrade, TypeOK
  <1>3. UNCHANGED <<loopVars, buyVars, sellVars, bookVars, boot, chain, response, exits,
                    exitAsked, graduated, ctxDone>>
    BY DEF RetailTrade
  <1> QED
    BY <1>1, <1>2, <1>3 DEF TypeOK, loopVars, buyVars, sellVars, bookVars

LEMMA AskExitType ==
  ASSUME TypeOK, AskExit
  PROVE  TypeOK'
  <1>1. exits' \in Nat /\ exitAsked' \in BOOLEAN
    BY DEF AskExit, TypeOK
  <1>2. UNCHANGED <<loopVars, buyVars, sellVars, bookVars, boot, chain, response, retail,
                    trades, retailNet, graduated, ctxDone>>
    BY DEF AskExit
  <1> QED
    BY <1>1, <1>2 DEF TypeOK, loopVars, buyVars, sellVars, bookVars

LEMMA GraduateType ==
  ASSUME TypeOK, Graduate
  PROVE  TypeOK'
  <1>1. graduated' \in BOOLEAN
    BY DEF Graduate
  <1>2. UNCHANGED <<loopVars, buyVars, sellVars, bookVars, boot, chain, response, retail,
                    trades, retailNet, exits, exitAsked, ctxDone>>
    BY DEF Graduate
  <1> QED
    BY <1>1, <1>2 DEF TypeOK, loopVars, buyVars, sellVars, bookVars

LEMMA CancelRunType ==
  ASSUME TypeOK, CancelRun
  PROVE  TypeOK'
  <1>1. ctxDone' \in BOOLEAN
    BY DEF CancelRun
  <1>2. UNCHANGED <<loopVars, buyVars, sellVars, bookVars, boot, chain, response, retail,
                    trades, retailNet, exits, exitAsked, graduated>>
    BY DEF CancelRun
  <1> QED
    BY <1>1, <1>2 DEF TypeOK, loopVars, buyVars, sellVars, bookVars

LEMMA MineBuyType ==
  ASSUME TypeOK, NEW b \in BuyIds, MineBuy(b)
  PROVE  TypeOK'
  <1>1. buy' \in [BuyIds -> BuyType]
    BY FateType DEF MineBuy, Fates
  <1>2. chain' \in [Wallets -> Nat]
    BY SMTT(30) DEF MineBuy, TypeOK, BuyType
  <1>3. UNCHANGED <<loopVars, inputVars, sellVars, bookVars, boot, round, worker,
                    pendingBuys>>
    BY DEF MineBuy
  <1> QED
    BY <1>1, <1>2, <1>3 DEF TypeOK, loopVars, inputVars, sellVars, bookVars

LEMMA MineSellType ==
  ASSUME TypeOK, NEW o \in Owners, NEW w \in Wallets, MineSell(o, w)
  PROVE  TypeOK'
  <1>1. sell' \in [Owners -> [Wallets -> [st : SellSteps, amt : Nat]]]
    <2>1. "ok" \in SellSteps /\ "reverted" \in SellSteps
      BY DEF SellSteps
    <2>2. /\ [sell EXCEPT ![o][w].st = "ok"] \in [Owners -> [Wallets -> [st : SellSteps, amt : Nat]]]
          /\ [sell EXCEPT ![o][w].st = "reverted"] \in [Owners -> [Wallets -> [st : SellSteps, amt : Nat]]]
      BY <2>1, SellStepType
    <2> QED
      BY <2>2 DEF MineSell
  <1>2. sell[o][w].amt \in Nat /\ chain \in [Wallets -> Nat]
    BY DEF TypeOK
  <1>3. chain' \in [Wallets -> Nat]
    BY <1>2, SpendType DEF MineSell
  <1>4. UNCHANGED <<loopVars, inputVars, buyVars, bookVars, boot, dist, batchSize, stray>>
    BY DEF MineSell
  <1> QED
    BY <1>1, <1>2, <1>3, <1>4 DEF TypeOK, loopVars, inputVars, buyVars, bookVars

LEMMA MineStrayType ==
  ASSUME TypeOK, NEW w \in Wallets, MineStray(w)
  PROVE  TypeOK'
  <1>1. stray' \in [Wallets -> Nat]
    BY DEF MineStray, TypeOK
  <1>2. chain' \in [Wallets -> Nat]
    <2>1. stray[w] \in Nat /\ chain \in [Wallets -> Nat]
      BY DEF TypeOK
    <2> QED
      BY <2>1, SpendType DEF MineStray
  <1>3. UNCHANGED <<loopVars, inputVars, buyVars, bookVars, boot, dist, batchSize, sell>>
    BY DEF MineStray
  <1> QED
    BY <1>1, <1>2, <1>3 DEF TypeOK, loopVars, inputVars, buyVars, bookVars

LEMMA AbandonBuyType ==
  ASSUME TypeOK, NEW o \in Buyers, NEW w \in Wallets, AbandonBuy(o, w)
  PROVE  TypeOK'
  <1>1. worker' \in [Buyers -> [Wallets -> {"idle", "preflight"}]]
    BY WorkerType DEF AbandonBuy
  <1>2. UNCHANGED <<loopVars, inputVars, sellVars, bookVars, boot, chain, round, buy,
                    pendingBuys>>
    BY DEF AbandonBuy
  <1> QED
    BY <1>1, <1>2 DEF TypeOK, loopVars, inputVars, sellVars, bookVars

LEMMA BroadcastType ==
  ASSUME TypeOK, NEW o \in Buyers, NEW w \in Wallets, NEW b \in BuyIds, Broadcast(o, w, b)
  PROVE  TypeOK'
  <1>1. worker' \in [Buyers -> [Wallets -> {"idle", "preflight"}]]
    BY WorkerType DEF Broadcast
  <1>2. buy' \in [BuyIds -> BuyType]
    <2>1. \A s \in {"sent", "approving"} : [st |-> s, w |-> w, by |-> o, tx |-> "wire"] \in BuyType
      BY DEF BuyType, Stages, Tracked, Fates
    <2> QED
      BY <2>1 DEF Broadcast, TypeOK
  <1>3. pendingBuys' \in Nat
    BY DEF Broadcast, TypeOK
  <1>4. UNCHANGED <<loopVars, inputVars, sellVars, bookVars, boot, chain, round>>
    BY DEF Broadcast
  <1> QED
    BY <1>1, <1>2, <1>3, <1>4 DEF TypeOK, loopVars, inputVars, sellVars, bookVars

LEMMA CountBuyType ==
  ASSUME TypeOK, NEW b \in BuyIds, CountBuy(b)
  PROVE  TypeOK'
  <1>1. buy' \in [BuyIds -> BuyType]
    BY StageType DEF CountBuy, Stages, Tracked
  <1>2. pendingBuys' \in Nat
    BY DEF CountBuy, TypeOK
  <1>3. UNCHANGED <<loopVars, inputVars, sellVars, bookVars, boot, chain, round, worker>>
    BY DEF CountBuy
  <1> QED
    BY <1>1, <1>2, <1>3 DEF TypeOK, loopVars, inputVars, sellVars, bookVars

LEMMA LoseReplyType ==
  ASSUME TypeOK, NEW b \in BuyIds, LoseReply(b)
  PROVE  TypeOK'
  <1>1. buy' \in [BuyIds -> BuyType]
    BY StageType DEF LoseReply, Stages, Tracked
  <1>2. UNCHANGED <<loopVars, inputVars, sellVars, bookVars, boot, chain, round, worker,
                    pendingBuys>>
    BY DEF LoseReply
  <1> QED
    BY <1>1, <1>2 DEF TypeOK, loopVars, inputVars, sellVars, bookVars

LEMMA StartSettlingType ==
  ASSUME TypeOK, NEW b \in BuyIds, StartSettling(b)
  PROVE  TypeOK'
  <1>1. buy' \in [BuyIds -> BuyType]
    BY StageType DEF StartSettling, Stages, Tracked
  <1>2. UNCHANGED <<loopVars, inputVars, sellVars, bookVars, boot, chain, round, worker,
                    pendingBuys>>
    BY DEF StartSettling
  <1> QED
    BY <1>1, <1>2 DEF TypeOK, loopVars, inputVars, sellVars, bookVars

LEMMA QueueSettlementType ==
  ASSUME TypeOK, NEW b \in BuyIds, QueueSettlement(b)
  PROVE  TypeOK'
  <1>1. buy' \in [BuyIds -> BuyType]
    <2>1. "ok" \in Stages /\ "err" \in Stages
      BY DEF Stages, Tracked
    <2>2. /\ [buy EXCEPT ![b].st = "ok"] \in [BuyIds -> BuyType]
          /\ [buy EXCEPT ![b].st = "err"] \in [BuyIds -> BuyType]
      BY <2>1, StageType
    <2> QED
      BY <2>2 DEF QueueSettlement
  <1>2. UNCHANGED <<loopVars, inputVars, sellVars, bookVars, boot, chain, round, worker,
                    pendingBuys>>
    BY DEF QueueSettlement
  <1> QED
    BY <1>1, <1>2 DEF TypeOK, loopVars, inputVars, sellVars, bookVars

LEMMA EndRoundType ==
  ASSUME TypeOK, EndRound
  PROVE  TypeOK'
  <1>1. round' \in [st : {"idle", "starting", "buying"}, cancelled : BOOLEAN]
    BY DEF EndRound
  <1>2. UNCHANGED <<loopVars, inputVars, sellVars, bookVars, boot, chain, worker, buy,
                    pendingBuys>>
    BY DEF EndRound
  <1> QED
    BY <1>1, <1>2 DEF TypeOK, loopVars, inputVars, sellVars, bookVars

LEMMA StartSellType ==
  ASSUME TypeOK, NEW o \in Owners, NEW w \in Wallets, StartSell(o, w)
  PROVE  TypeOK'
  <1>1. [st |-> "sent", amt |-> Smaller(sell[o][w].amt, cached[w])] \in [st : SellSteps, amt : Nat]
    BY DEF TypeOK, Smaller, SellSteps
  <1>2. sell' \in [Owners -> [Wallets -> [st : SellSteps, amt : Nat]]]
    BY <1>1, NoneType, SellUpdateType DEF StartSell
  <1>3. UNCHANGED <<loopVars, inputVars, buyVars, bookVars, boot, chain, dist, batchSize,
                    stray>>
    BY DEF StartSell
  <1> QED
    BY <1>1, <1>2, <1>3 DEF TypeOK, loopVars, inputVars, buyVars, bookVars

LEMMA RevertSellType ==
  ASSUME TypeOK, NEW o \in Owners, NEW w \in Wallets, RevertSell(o, w)
  PROVE  TypeOK'
  <1>1. sell' \in [Owners -> [Wallets -> [st : SellSteps, amt : Nat]]]
    BY NoneType, SellUpdateType DEF RevertSell
  <1>2. sweepErr' \in BOOLEAN
    BY DEF RevertSell, TypeOK
  <1>3. UNCHANGED <<state, active, pc, job, view, inputVars, buyVars, bookVars, boot,
                    chain, dist, batchSize, stray>>
    BY DEF RevertSell
  <1> QED
    BY <1>1, <1>2, <1>3, SMTT(30) DEF TypeOK, inputVars, buyVars, bookVars

LEMMA FailSellType ==
  ASSUME TypeOK, NEW o \in Owners, NEW w \in Wallets, FailSell(o, w)
  PROVE  TypeOK'
  <1>1. sell' \in [Owners -> [Wallets -> [st : SellSteps, amt : Nat]]]
    BY NoneType, SellUpdateType DEF FailSell
  <1>2. sell[o][w].amt \in Nat
    BY DEF TypeOK
  <1>3. stray' \in [Wallets -> Nat]
    BY <1>2 DEF FailSell, TypeOK
  <1>4. sweepErr' \in BOOLEAN
    BY DEF FailSell, TypeOK
  <1>5. UNCHANGED <<state, active, pc, job, view, inputVars, buyVars, bookVars, boot, chain,
                    dist, batchSize>>
    BY DEF FailSell
  <1> QED
    BY <1>1, <1>2, <1>3, <1>4, <1>5 DEF TypeOK, inputVars, buyVars, bookVars

LEMMA ConfirmSellType ==
  ASSUME TypeOK, NEW o \in Owners, NEW w \in Wallets, ConfirmSell(o, w)
  PROVE  TypeOK'
  <1>1. sell' \in [Owners -> [Wallets -> [st : SellSteps, amt : Nat]]]
    BY NoneType, SellUpdateType DEF ConfirmSell
  <1>2. sell[o][w].amt \in Nat
    BY DEF TypeOK
  <1>3. cached' \in [Wallets -> Nat]
    <2>1. Minus(cached[w], sell[o][w].amt) \in Nat
      BY <1>2, MinusType DEF TypeOK
    <2> QED
      BY <2>1 DEF ConfirmSell, TypeOK
  <1>4. booked' \in Nat
    BY <1>2, MinusType DEF ConfirmSell, TypeOK
  <1>5. UNCHANGED <<loopVars, inputVars, buyVars, boot, chain, dist, batchSize, stray>>
    BY DEF ConfirmSell
  <1> QED
    BY <1>1, <1>2, <1>3, <1>4, <1>5 DEF TypeOK, loopVars, inputVars, buyVars

LEMMA EndBatchType ==
  ASSUME TypeOK, EndBatch
  PROVE  TypeOK'
  <1>1. dist' \in {"idle", "selling", "result"}
    BY DEF EndBatch
  <1>2. UNCHANGED <<loopVars, inputVars, buyVars, bookVars, boot, chain, batchSize, sell,
                    stray>>
    BY DEF EndBatch
  <1> QED
    BY <1>1, <1>2 DEF TypeOK, loopVars, inputVars, buyVars, bookVars

LEMMA PickMakersType ==
  ASSUME TypeOK, PickMakers
  PROVE  TypeOK'
  <1>1. round' \in [st : {"idle", "starting", "buying"}, cancelled : BOOLEAN]
    BY DEF PickMakers, TypeOK
  <1>2. worker' \in [Buyers -> [Wallets -> {"idle", "preflight"}]]
    BY AssignType DEF PickMakers, Buyers
  <1>3. UNCHANGED <<loopVars, inputVars, buy, pendingBuys, sellVars, bookVars, boot, chain>>
    BY DEF PickMakers
  <1> QED
    BY <1>1, <1>2, <1>3 DEF TypeOK, loopVars, inputVars, sellVars, bookVars

LEMMA BootReadType ==
  ASSUME TypeOK, BootRead
  PROVE  TypeOK'
  <1>1. boot' \in [st : {"todo", "read", "done"}, bal : [Wallets -> Nat]]
    BY DEF BootRead, TypeOK
  <1>2. UNCHANGED <<loopVars, inputVars, buyVars, sellVars, bookVars, chain>>
    BY DEF BootRead
  <1> QED
    BY <1>1, <1>2 DEF TypeOK, loopVars, inputVars, buyVars, sellVars, bookVars

LEMMA BootStoreType ==
  ASSUME TypeOK, BootStore
  PROVE  TypeOK'
  <1>1. boot' \in [st : {"todo", "read", "done"}, bal : [Wallets -> Nat]]
    BY NoViewType DEF BootStore
  <1>2. cached' \in [Wallets -> Nat]
    BY DEF BootStore, TypeOK
  <1>3. UNCHANGED <<loopVars, inputVars, buyVars, sellVars, booked, chain>>
    BY DEF BootStore
  <1> QED
    BY <1>1, <1>2, <1>3 DEF TypeOK, loopVars, inputVars, buyVars, sellVars

-----------------------------------------------------------------------------
LEMMA StartBatchType ==
  ASSUME TypeOK, NEW bal \in [Wallets -> Nat], NEW pending \in Nat,
         NEW size \in BatchSizes \cup {0}, StartBatch(bal, pending, size)
  PROVE  /\ state' \in States /\ active' \in BOOLEAN
         /\ dist' \in {"idle", "selling", "result"}
         /\ batchSize' \in BatchSizes \cup {0}
         /\ sell' \in [Owners -> [Wallets -> [st : SellSteps, amt : Nat]]]
  <1>1. \A S \in SUBSET Held(bal) :
          Plan("batch", S, bal) \in [Owners -> [Wallets -> [st : SellSteps, amt : Nat]]]
    BY PlanType DEF Owners, Held
  <1> QED
    BY <1>1 DEF StartBatch, TypeOK, States

LEMMA LoopType == \A s \in States : Loop(s) \in Places
  BY DEF Loop, Places

LEMMA InterruptType ==
  ASSUME TypeOK, Interrupt
  PROVE  round' \in [st : {"idle", "starting", "buying"}, cancelled : BOOLEAN]
  BY DEF TypeOK, Interrupt

LEMMA TargetResponseType ==
  ASSUME TypeOK, TargetResponse
  PROVE  /\ dist' \in {"idle", "selling", "result"}
         /\ sell' \in [Owners -> [Wallets -> [st : SellSteps, amt : Nat]]]
         /\ worker' \in [Buyers -> [Wallets -> {"idle", "preflight"}]]
  <1>1. \A S \in SUBSET Held(cached) :
          Plan("batch", S, cached) \in [Owners -> [Wallets -> [st : SellSteps, amt : Nat]]]
    BY PlanType DEF Owners, Held, TypeOK
  <1>2. \A S \in SUBSET Eligible :
          Assign("target", S) \in [Buyers -> [Wallets -> {"idle", "preflight"}]]
    BY AssignType DEF Buyers
  <1>3. /\ dist \in {"idle", "selling", "result"}
        /\ sell \in [Owners -> [Wallets -> [st : SellSteps, amt : Nat]]]
        /\ worker \in [Buyers -> [Wallets -> {"idle", "preflight"}]]
    BY DEF TypeOK
  <1>4. CASE UNCHANGED <<dist, sell, worker>>
    BY <1>3, <1>4
  <1>5. ASSUME NEW S \in SUBSET Held(cached), sell' = Plan("batch", S, cached),
               dist' = "selling", UNCHANGED worker
        PROVE  /\ dist' \in {"idle", "selling", "result"}
               /\ sell' \in [Owners -> [Wallets -> [st : SellSteps, amt : Nat]]]
               /\ worker' \in [Buyers -> [Wallets -> {"idle", "preflight"}]]
    BY <1>1, <1>3, <1>5
  <1>6. ASSUME NEW S \in SUBSET Eligible, worker' = Assign("target", S),
               dist' = "selling", UNCHANGED sell
        PROVE  /\ dist' \in {"idle", "selling", "result"}
               /\ sell' \in [Owners -> [Wallets -> [st : SellSteps, amt : Nat]]]
               /\ worker' \in [Buyers -> [Wallets -> {"idle", "preflight"}]]
    BY <1>2, <1>3, <1>6
  <1> QED
    BY <1>4, <1>5, <1>6 DEF TargetResponse

LEMMA TailType ==
  ASSUME TypeOK, retail # <<>> PROVE Tail(retail) \in Seq({"buy", "sell"})
  BY DEF TypeOK

LEMMA OnRetailBuyType ==
  ASSUME TypeOK, OnRetailBuy
  PROVE  TypeOK'
  <1>1. retail' \in Seq({"buy", "sell"})
    BY TailType DEF OnRetailBuy
  <1>2. round' \in [st : {"idle", "starting", "buying"}, cancelled : BOOLEAN]
    BY InterruptType DEF OnRetailBuy
  <1>3. /\ state' \in States /\ active' \in BOOLEAN /\ pc' \in Places /\ job' \in Jobs
        /\ dist' \in {"idle", "selling", "result"}
        /\ batchSize' \in BatchSizes \cup {0}
        /\ sell' \in [Owners -> [Wallets -> [st : SellSteps, amt : Nat]]]
        /\ worker' \in [Buyers -> [Wallets -> {"idle", "preflight"}]]
    <2>1. CASE /\ state' = "ClearAll" /\ active' = FALSE
               /\ sell' = Plan("main", Held(cached), cached)
               /\ pc' = "sweep" /\ job' = "retail"
               /\ UNCHANGED <<dist, batchSize, worker>>
      BY <2>1, PlanType DEF TypeOK, Held, Owners, States, Places, Jobs
    <2>2. CASE TargetResponse /\ pc' = "drain" /\ UNCHANGED <<state, active, job, batchSize>>
      BY <2>2, TargetResponseType DEF TypeOK, Places
    <2>3. CASE /\ state' = "Distributing" /\ pc' = "drain"
               /\ UNCHANGED <<active, job, dist, batchSize, sell, worker>>
      BY <2>3 DEF TypeOK, States, Places
    <2>4. CASE StartBatch(cached, pendingBuys, 0) /\ pc' = Loop(state') /\ UNCHANGED <<job, worker>>
      BY <2>4, StartBatchType, LoopType DEF TypeOK
    <2> QED
      BY <2>1, <2>2, <2>3, <2>4 DEF OnRetailBuy
  <1>4. UNCHANGED <<response, sweepErr, view, trades, retailNet, exits, exitAsked, graduated,
                    ctxDone, buy, pendingBuys, stray, bookVars, boot, chain>>
    BY DEF OnRetailBuy
  <1> QED
    BY <1>1, <1>2, <1>3, <1>4 DEF TypeOK, bookVars

LEMMA OnRetailSellType ==
  ASSUME TypeOK, OnRetailSell
  PROVE  TypeOK'
  <1>1. retail' \in Seq({"buy", "sell"})
    BY TailType DEF OnRetailSell
  <1>2. state' \in States /\ active' \in BOOLEAN /\ pc' \in Places
    BY DEF OnRetailSell, TypeOK, States, Places
  <1>3. UNCHANGED <<response, job, sweepErr, view, trades, retailNet, exits, exitAsked, graduated,
                    ctxDone, buyVars, sellVars, bookVars, boot, chain>>
    BY DEF OnRetailSell
  <1> QED
    BY <1>1, <1>2, <1>3 DEF TypeOK, buyVars, sellVars, bookVars

LEMMA NoRetailQueuedType ==
  ASSUME TypeOK, NoRetailQueued
  PROVE  TypeOK'
  <1>1. pc' \in Places
    BY DEF NoRetailQueued, Places
  <1>2. UNCHANGED <<state, active, job, sweepErr, view, inputVars, buyVars, sellVars,
                    bookVars, boot, chain>>
    BY DEF NoRetailQueued
  <1> QED
    BY <1>1, <1>2 DEF TypeOK, inputVars, buyVars, sellVars, bookVars

LEMMA ApplySettlementType ==
  ASSUME TypeOK, NEW b \in BuyIds, ApplySettlement(b)
  PROVE  TypeOK'
  <1> DEFINE w == buy[b].w
             left == Minus(pendingBuys, 1)
  <1>0. w \in Wallets /\ left \in Nat
    BY MinusType DEF TypeOK, BuyType
  <1>1. buy' \in [BuyIds -> BuyType]
    BY StageType DEF ApplySettlement, Stages
  <1>2. pendingBuys' \in Nat
    BY <1>0 DEF ApplySettlement
  <1>3. cached' \in [Wallets -> Nat] /\ booked' \in Nat
    <2>1. \/ UNCHANGED bookVars
          \/ /\ booked' = booked + 1
             /\ cached' = [cached EXCEPT ![w] = chain[w]] \/ UNCHANGED cached
      BY DEF ApplySettlement
    <2>2. cached \in [Wallets -> Nat] /\ chain \in [Wallets -> Nat] /\ booked \in Nat
      BY DEF TypeOK
    <2>3. [cached EXCEPT ![w] = chain[w]] \in [Wallets -> Nat]
      BY <1>0, <2>2
    <2> QED
      BY <2>1, <2>2, <2>3 DEF bookVars
  <1>4. /\ state' \in States /\ active' \in BOOLEAN /\ pc' \in Places /\ job' \in Jobs
        /\ dist' \in {"idle", "selling", "result"}
        /\ batchSize' \in BatchSizes \cup {0}
        /\ sell' \in [Owners -> [Wallets -> [st : SellSteps, amt : Nat]]]
    <2>1. CASE /\ state' = "Done" \/ state' = state
               /\ pc' = Loop(state') /\ UNCHANGED <<active, job, dist, batchSize, sell>>
      <3>1. state' \in States
        BY <2>1 DEF TypeOK, States
      <3> QED
        BY <2>1, <3>1, LoopType DEF TypeOK
    <2>2. CASE /\ sell' = Plan("main", {w}, cached')
               /\ pc' = "sweep" /\ job' = "settle"
               /\ UNCHANGED <<state, active, dist, batchSize>>
      <3>1. sell' \in [Owners -> [Wallets -> [st : SellSteps, amt : Nat]]]
        BY <1>0, <1>3, <2>2, PlanType DEF Owners
      <3> QED
        BY <2>2, <3>1 DEF TypeOK, Places, Jobs
    <2>3. CASE StartBatch(cached', left, batchSize) /\ pc' = Loop(state') /\ UNCHANGED job
      <3>1. batchSize \in BatchSizes \cup {0}
        BY DEF TypeOK
      <3> QED
        BY <1>0, <1>3, <2>3, <3>1, StartBatchType, LoopType DEF TypeOK
    <2> QED
      BY <2>1, <2>2, <2>3 DEF ApplySettlement
  <1>5. UNCHANGED <<sweepErr, view, inputVars, round, worker, stray, boot, chain>>
    BY DEF ApplySettlement
  <1> QED
    BY <1>1, <1>2, <1>3, <1>4, <1>5 DEF TypeOK, inputVars

LEMMA ApplyBatchResultType ==
  ASSUME TypeOK, ApplyBatchResult
  PROVE  TypeOK'
  <1>1. state' \in States /\ active' \in BOOLEAN /\ dist' \in {"idle", "selling", "result"}
    BY DEF ApplyBatchResult, TypeOK, States
  <1>2. pc' \in Places
    BY <1>1, LoopType DEF ApplyBatchResult
  <1>3. UNCHANGED <<job, sweepErr, view, inputVars, buyVars, batchSize, sell, stray,
                    bookVars, boot, chain>>
    BY DEF ApplyBatchResult
  <1> QED
    BY <1>1, <1>2, <1>3 DEF TypeOK, inputVars, buyVars, bookVars

LEMMA ExitAllType ==
  ASSUME TypeOK, ExitAll
  PROVE  TypeOK'
  <1>1. round' \in [st : {"idle", "starting", "buying"}, cancelled : BOOLEAN]
    BY InterruptType DEF ExitAll
  <1>2. /\ state' \in States /\ pc' \in Places /\ job' \in Jobs /\ exitAsked' \in BOOLEAN
        /\ view' \in [Wallets -> Nat]
    BY DEF ExitAll, TypeOK, States, Places, Jobs
  <1>3. UNCHANGED <<active, sweepErr, response, retail, trades, retailNet, exits, graduated, ctxDone,
                    worker, buy, pendingBuys, sellVars, bookVars, boot, chain>>
    BY DEF ExitAll
  <1> QED
    BY <1>1, <1>2, <1>3 DEF TypeOK, sellVars, bookVars

LEMMA SellTickClearAllType ==
  ASSUME TypeOK, SellTickClearAll
  PROVE  TypeOK'
  <1>1. pc' \in Places /\ job' \in Jobs /\ view' \in [Wallets -> Nat]
    BY DEF SellTickClearAll, TypeOK, Places, Jobs
  <1>2. UNCHANGED <<state, active, sweepErr, inputVars, buyVars, sellVars, bookVars, boot, chain>>
    BY DEF SellTickClearAll
  <1> QED
    BY <1>1, <1>2 DEF TypeOK, inputVars, buyVars, sellVars, bookVars

LEMMA EndRefreshType ==
  ASSUME TypeOK, EndRefresh
  PROVE  TypeOK'
  <1>1. cached' \in [Wallets -> Nat]
    BY DEF EndRefresh, TypeOK
  <1>2. sell' \in [Owners -> [Wallets -> [st : SellSteps, amt : Nat]]]
    BY <1>1, PlanType DEF EndRefresh, Owners, Held
  <1>3. pc' \in Places /\ view' \in [Wallets -> Nat]
    BY NoViewType DEF EndRefresh, Places
  <1>4. UNCHANGED <<state, active, job, sweepErr, inputVars, buyVars, dist, batchSize,
                    stray, booked, boot, chain>>
    BY DEF EndRefresh
  <1> QED
    BY <1>1, <1>2, <1>3, <1>4 DEF TypeOK, inputVars, buyVars

LEMMA EndSweepType ==
  ASSUME TypeOK, EndSweep
  PROVE  TypeOK'
  <1>1. state' \in States /\ pc' \in Places /\ job' \in Jobs /\ sweepErr' \in BOOLEAN
    BY DEF EndSweep, TypeOK, States, Places, Jobs
  <1>2. UNCHANGED <<active, view, inputVars, buyVars, sellVars, bookVars, boot, chain>>
    BY DEF EndSweep
  <1> QED
    BY <1>1, <1>2 DEF TypeOK, inputVars, buyVars, sellVars, bookVars

LEMMA SellTickDistributeType ==
  ASSUME TypeOK, SellTickDistribute
  PROVE  TypeOK'
  <1>1. /\ state' \in States /\ active' \in BOOLEAN
        /\ dist' \in {"idle", "selling", "result"}
        /\ batchSize' \in BatchSizes \cup {0}
        /\ sell' \in [Owners -> [Wallets -> [st : SellSteps, amt : Nat]]]
    BY StartBatchType DEF SellTickDistribute, TypeOK
  <1>2. pc' \in Places
    BY <1>1, LoopType DEF SellTickDistribute
  <1>3. UNCHANGED <<job, sweepErr, view, inputVars, buyVars, stray, bookVars, boot, chain>>
    BY DEF SellTickDistribute
  <1> QED
    BY <1>1, <1>2, <1>3 DEF TypeOK, inputVars, buyVars, bookVars

LEMMA BeginRoundType ==
  ASSUME TypeOK, BeginRound
  PROVE  /\ round' \in [st : {"idle", "starting", "buying"}, cancelled : BOOLEAN]
         /\ pc' \in Places
  BY DEF TypeOK, BeginRound, Places

LEMMA AccTickType ==
  ASSUME TypeOK, AccTick
  PROVE  TypeOK'
  <1>1. /\ round' \in [st : {"idle", "starting", "buying"}, cancelled : BOOLEAN]
        /\ pc' \in Places
    BY BeginRoundType DEF AccTick, TypeOK, Places
  <1>2. UNCHANGED <<state, active, job, sweepErr, view, inputVars, worker, buy,
                    pendingBuys, sellVars, bookVars, boot, chain>>
    BY DEF AccTick
  <1> QED
    BY <1>1, <1>2 DEF TypeOK, inputVars, sellVars, bookVars

LEMMA BeginCheckedRoundType ==
  ASSUME TypeOK, BeginCheckedRound
  PROVE  TypeOK'
  <1>1. /\ round' \in [st : {"idle", "starting", "buying"}, cancelled : BOOLEAN]
        /\ pc' \in Places
    BY BeginRoundType DEF BeginCheckedRound
  <1>2. UNCHANGED <<state, active, job, sweepErr, view, inputVars, worker, buy,
                    pendingBuys, sellVars, bookVars, boot, chain>>
    BY DEF BeginCheckedRound
  <1> QED
    BY <1>1, <1>2 DEF TypeOK, inputVars, sellVars, bookVars

LEMMA ReserveTickType ==
  ASSUME TypeOK, ReserveTick
  PROVE  TypeOK'
  <1>1. state' \in States /\ pc' \in Places
    BY DEF ReserveTick, States, Places
  <1>2. UNCHANGED <<active, job, sweepErr, view, inputVars, buyVars, sellVars, bookVars,
                    boot, chain>>
    BY DEF ReserveTick
  <1> QED
    BY <1>1, <1>2 DEF TypeOK, inputVars, buyVars, sellVars, bookVars

LEMMA ShutdownType ==
  ASSUME TypeOK, Shutdown
  PROVE  TypeOK'
  <1>1. round' \in [st : {"idle", "starting", "buying"}, cancelled : BOOLEAN]
    BY InterruptType DEF Shutdown
  <1>2. pc' \in Places
    BY DEF Shutdown, Places
  <1>3. UNCHANGED <<state, active, job, sweepErr, view, inputVars, worker, buy, pendingBuys,
                    sellVars, bookVars, boot, chain>>
    BY DEF Shutdown
  <1> QED
    BY <1>1, <1>2, <1>3 DEF TypeOK, inputVars, sellVars, bookVars

LEMMA TypeStep == TypeOK /\ [Next]_vars => TypeOK'
  <1> SUFFICES ASSUME TypeOK, [Next]_vars PROVE TypeOK'
    OBVIOUS
  <1>1. CASE Environment
    BY <1>1, RetailTradeType, AskExitType, GraduateType, CancelRunType, MineBuyType,
       MineSellType, MineStrayType DEF Environment
  <1>2. CASE Goroutines
    BY <1>2, AbandonBuyType, BroadcastType, CountBuyType, LoseReplyType, StartSettlingType,
       QueueSettlementType, StartSellType, RevertSellType, FailSellType, ConfirmSellType, PickMakersType,
       EndRoundType, EndBatchType, BootReadType, BootStoreType DEF Goroutines
  <1>3. CASE EventLoop
    BY <1>3, OnRetailBuyType, OnRetailSellType, NoRetailQueuedType, ApplySettlementType,
       ApplyBatchResultType, ExitAllType, EndRefreshType, EndSweepType, SellTickClearAllType,
       SellTickDistributeType, AccTickType, BeginCheckedRoundType, ReserveTickType,
       ShutdownType DEF EventLoop
  <1>4. CASE UNCHANGED vars
    BY <1>4 DEF TypeOK, vars, loopVars, inputVars, buyVars, sellVars, bookVars
  <1> QED
    BY <1>1, <1>2, <1>3, <1>4 DEF Next, Finished

\* Every reachable state of the engine is well typed: no counter goes below zero
\* (finishPendingBuy, subtractToken and monitor.RecordOurSell all clamp), and
\* the loop is never at a place Run does not have.
THEOREM TypeCorrect == Spec => []TypeOK
  <1> QED
    BY TypeInit, TypeStep, PTL DEF Spec

-----------------------------------------------------------------------------
(* The count of pending buys.                                              *)

LEMMA TrackedFinite == IsFiniteSet(TrackedBuys) /\ TrackedBuys \subseteq BuyIds
  BY BuyIdsFinite, FS_Subset DEF TrackedBuys

\* A buy that moves from stage to stage enters, keeps or leaves the tracked buys.
LEMMA StageMove ==
  ASSUME TypeOK, NEW b \in BuyIds, NEW s \in Stages, buy' = [buy EXCEPT ![b].st = s]
  PROVE  TrackedBuys' = IF s \in Tracked THEN TrackedBuys \cup {b} ELSE TrackedBuys \ {b}
  <1>1. \A c \in BuyIds : buy'[c].st = IF c = b THEN s ELSE buy[c].st
    BY DEF TypeOK, BuyType
  <1> QED
    BY <1>1 DEF TrackedBuys

\* One more buy is counted, or one of the counted is done with.
LEMMA CountUp ==
  ASSUME TypeOK, PendingBuysExact, NEW b \in BuyIds, b \notin TrackedBuys,
         TrackedBuys' = TrackedBuys \cup {b}, pendingBuys' = pendingBuys + 1
  PROVE  PendingBuysExact'
  BY TrackedFinite, FS_AddElement DEF PendingBuysExact

LEMMA CountDown ==
  ASSUME TypeOK, PendingBuysExact, NEW b \in TrackedBuys,
         TrackedBuys' = TrackedBuys \ {b}, pendingBuys' = Minus(pendingBuys, 1)
  PROVE  PendingBuysExact'
  <1>1. Cardinality(TrackedBuys \ {b}) = Cardinality(TrackedBuys) - 1
    BY TrackedFinite, FS_RemoveElement
  <1>2. Cardinality(TrackedBuys \ {b}) \in Nat /\ Cardinality(TrackedBuys) \in Nat
    BY TrackedFinite, FS_Subset, FS_CardinalityType
  <1> QED
    BY <1>1, <1>2 DEF PendingBuysExact, Minus

LEMMA CountKept ==
  ASSUME PendingBuysExact, TrackedBuys' = TrackedBuys, pendingBuys' = pendingBuys
  PROVE  PendingBuysExact'
  BY DEF PendingBuysExact

LEMMA PendingBuysInit == Init => PendingBuysExact
  <1> SUFFICES ASSUME Init PROVE PendingBuysExact
    OBVIOUS
  <1>1. PICK S \in SUBSET BuyIds, f \in [BuyIds -> Wallets] :
          /\ buy = [b \in BuyIds |-> [st |-> IF b \in S THEN "settling" ELSE "unused",
                                      w |-> f[b], by |-> "round", tx |-> "wire"]]
          /\ pendingBuys = Cardinality(S)
    BY DEF Init
  <1>2. TrackedBuys = S
    BY <1>1 DEF TrackedBuys, Tracked
  <1> QED
    BY <1>1, <1>2 DEF PendingBuysExact

LEMMA PendingBuysStep == TypeOK /\ PendingBuysExact /\ [Next]_vars => PendingBuysExact'
  <1> SUFFICES ASSUME TypeOK, PendingBuysExact, [Next]_vars PROVE PendingBuysExact'
    OBVIOUS
  <1>1. CASE UNCHANGED <<buy, pendingBuys>>
    BY <1>1, CountKept DEF TrackedBuys
  <1>2. ASSUME NEW b \in BuyIds, MineBuy(b) PROVE PendingBuysExact'
    <2>1. \A c \in BuyIds : buy'[c].st = buy[c].st
      <3>1. PICK f \in Fates : buy' = [buy EXCEPT ![b].tx = f]
        BY <1>2 DEF MineBuy, Fates
      <3>2. buy \in [BuyIds -> BuyType]
        BY DEF TypeOK
      <3> QED
        BY <3>1, <3>2 DEF BuyType
    <2> QED
      BY <1>2, <2>1, CountKept DEF MineBuy, TrackedBuys
  <1>3. ASSUME NEW o \in Buyers, NEW w \in Wallets, NEW b \in BuyIds, Broadcast(o, w, b)
        PROVE  PendingBuysExact'
    <2>1. b \notin TrackedBuys
      BY <1>3 DEF Broadcast, TrackedBuys, Tracked
    <2>2. CASE /\ buy' = [buy EXCEPT ![b] = [st |-> "sent", w |-> w, by |-> o, tx |-> "wire"]]
               /\ UNCHANGED pendingBuys
      <3>1. \A c \in BuyIds : buy'[c].st = IF c = b THEN "sent" ELSE buy[c].st
        BY <2>2 DEF TypeOK
      <3>2. TrackedBuys' = TrackedBuys
        BY <2>1, <3>1 DEF TrackedBuys, Tracked
      <3> QED
        BY <2>2, <3>2, CountKept
    <2>3. CASE /\ buy' = [buy EXCEPT ![b] = [st |-> "approving", w |-> w, by |-> o, tx |-> "wire"]]
               /\ pendingBuys' = pendingBuys + 1
      <3>1. \A c \in BuyIds : buy'[c].st = IF c = b THEN "approving" ELSE buy[c].st
        BY <2>3 DEF TypeOK
      <3>2. TrackedBuys' = TrackedBuys \cup {b}
        BY <2>1, <3>1 DEF TrackedBuys, Tracked
      <3> QED
        BY <2>1, <2>3, <3>2, CountUp
    <2> QED
      BY <1>3, <2>2, <2>3 DEF Broadcast
  <1>4. ASSUME NEW b \in BuyIds, CountBuy(b) PROVE PendingBuysExact'
    <2>1. b \notin TrackedBuys
      BY <1>4 DEF CountBuy, TrackedBuys, Tracked
    <2>2. TrackedBuys' = TrackedBuys \cup {b}
      BY <1>4, StageMove DEF CountBuy, Stages, Tracked
    <2> QED
      BY <1>4, <2>1, <2>2, CountUp DEF CountBuy
  <1>5. ASSUME NEW b \in BuyIds, LoseReply(b) PROVE PendingBuysExact'
    <2>1. b \notin TrackedBuys
      BY <1>5 DEF LoseReply, TrackedBuys, Tracked
    <2>2. TrackedBuys' = TrackedBuys \ {b}
      BY <1>5, StageMove DEF LoseReply, Stages, Tracked
    <2> QED
      BY <1>5, <2>1, <2>2, CountKept DEF LoseReply
  <1>6. ASSUME NEW b \in BuyIds, StartSettling(b) PROVE PendingBuysExact'
    <2>1. b \in TrackedBuys
      BY <1>6 DEF StartSettling, TrackedBuys, Tracked
    <2>2. TrackedBuys' = TrackedBuys \cup {b}
      BY <1>6, StageMove DEF StartSettling, Stages, Tracked
    <2> QED
      BY <1>6, <2>1, <2>2, CountKept DEF StartSettling
  <1>7. ASSUME NEW b \in BuyIds, QueueSettlement(b) PROVE PendingBuysExact'
    <2>1. b \in TrackedBuys
      BY <1>7 DEF QueueSettlement, TrackedBuys, Tracked
    <2>2. PICK s \in {"ok", "err"} : buy' = [buy EXCEPT ![b].st = s]
      BY <1>7 DEF QueueSettlement
    <2>3. s \in Stages /\ s \in Tracked
      BY DEF Stages, Tracked
    <2>4. TrackedBuys' = TrackedBuys \cup {b}
      BY <2>2, <2>3, StageMove
    <2> QED
      BY <1>7, <2>1, <2>4, CountKept DEF QueueSettlement
  <1>8. ASSUME NEW b \in BuyIds, ApplySettlement(b) PROVE PendingBuysExact'
    <2>1. b \in TrackedBuys
      BY <1>8 DEF ApplySettlement, TrackedBuys, Tracked
    <2>2. TrackedBuys' = TrackedBuys \ {b}
      BY <1>8, StageMove DEF ApplySettlement, Stages, Tracked
    <2> QED
      BY <1>8, <2>1, <2>2, CountDown DEF ApplySettlement
  <1>9. CASE Environment
    BY <1>1, <1>2, <1>9 DEF Environment, RetailTrade, AskExit, Graduate, CancelRun, MineSell,
       MineStray, buyVars
  <1>10. CASE Goroutines
    BY <1>1, <1>3, <1>4, <1>5, <1>6, <1>7, <1>10 DEF Goroutines, AbandonBuy, StartSell, RevertSell, FailSell,
       ConfirmSell, PickMakers, EndRound, EndBatch, BootRead, BootStore, buyVars
  <1>11. CASE EventLoop
    BY <1>1, <1>8, <1>11 DEF EventLoop, OnRetailBuy, OnRetailSell, NoRetailQueued,
       ApplyBatchResult, ExitAll, EndRefresh, EndSweep, SellTickClearAll, SellTickDistribute,
       AccTick, BeginCheckedRound, ReserveTick, Shutdown, buyVars
  <1>12. CASE UNCHANGED vars
    BY <1>1, <1>12 DEF vars, buyVars
  <1> QED
    BY <1>9, <1>10, <1>11, <1>12 DEF Next, Finished

\* e.pendingBuys, which holds back the next accumulation round and every end of
\* a run, always equals the number of counted buys not yet settled, whatever the
\* faults, the races and the number of wallets, and the clamp in
\* finishPendingBuy never acts.
THEOREM PendingBuysCounted == Spec => []PendingBuysExact
  <1>1. Init => TypeOK /\ PendingBuysExact
    BY TypeInit, PendingBuysInit
  <1>2. TypeOK /\ PendingBuysExact /\ [Next]_vars => (TypeOK /\ PendingBuysExact)'
    BY TypeStep, PendingBuysStep
  <1> QED
    BY <1>1, <1>2, PTL DEF Spec

-----------------------------------------------------------------------------
(* What the chain's steps do to the balances and to a buy.                 *)

LEMMA BalanceTypes ==
  ASSUME TypeOK
  PROVE  /\ chain \in [Wallets -> Nat] /\ stray \in [Wallets -> Nat]
         /\ \A o \in Owners, w \in Wallets : sell[o][w].amt \in Nat
         /\ buy \in [BuyIds -> [st : Stages, w : Wallets, by : Buyers, tx : Fates]]
  BY DEF TypeOK, BuyType

\* A buy moves to the stage s.
LEMMA StageOnly ==
  ASSUME TypeOK, NEW b \in BuyIds, NEW s \in Stages, buy' = [buy EXCEPT ![b].st = s]
  PROVE  \A c \in BuyIds : /\ buy'[c].w = buy[c].w /\ buy'[c].tx = buy[c].tx
                           /\ buy'[c].st = IF c = b THEN s ELSE buy[c].st
  BY BalanceTypes

\* A buy meets its fate on the chain.
LEMMA FateOnly ==
  ASSUME TypeOK, NEW b \in BuyIds, NEW f \in Fates, buy' = [buy EXCEPT ![b].tx = f]
  PROVE  \A c \in BuyIds : /\ buy'[c].st = buy[c].st /\ buy'[c].w = buy[c].w
                           /\ buy'[c].tx = IF c = b THEN f ELSE buy[c].tx
  BY BalanceTypes

\* A sell that is mined, in time or late, takes tokens away.
LEMMA SpendLess ==
  ASSUME TypeOK, NEW w \in Wallets, NEW n \in Nat,
         chain' = [chain EXCEPT ![w] = @ - n] \/ UNCHANGED chain
  PROVE  \A x \in Wallets : chain'[x] <= chain[x]
  BY BalanceTypes

LEMMA SellTakes ==
  ASSUME TypeOK, NEW o \in Owners, NEW w \in Wallets, MineSell(o, w)
  PROVE  \A x \in Wallets : chain'[x] <= chain[x]
  <1>1. chain' = [chain EXCEPT ![w] = @ - sell[o][w].amt] \/ UNCHANGED chain
    BY DEF MineSell
  <1> QED
    BY <1>1, BalanceTypes, SpendLess

LEMMA StrayTakes ==
  ASSUME TypeOK, NEW w \in Wallets, MineStray(w)
  PROVE  \A x \in Wallets : chain'[x] <= chain[x]
  <1>1. chain' = [chain EXCEPT ![w] = @ - stray[w]] \/ UNCHANGED chain
    BY DEF MineStray
  <1> QED
    BY <1>1, BalanceTypes, SpendLess

-----------------------------------------------------------------------------
(* Tokens the cache does not show.                                         *)

\* The runs the next theorems are about: every receipt and every balance read
\* arrives, the run is not cancelled, a buy is counted before anything else
\* happens, and no launch's startup refresh is in the background.  A sell may
\* still fail to be sent, a reply be lost and the curve graduate.
Calm ==
  /\ "count" \notin Races
  /\ Faults \cap {"timeout", "readError", "stop"} = {}
  /\ ~Fresh

\* The stage a buy has reached tells what has become of it on the chain.
FateKnown(b) ==
  /\ buy[b].st \notin {"sent", "lost"}
  /\ buy[b].st = "ok" => buy[b].tx = "ok"
  /\ buy[b].st = "err" => buy[b].tx = "reverted"
  /\ buy[b].st = "applied" => buy[b].tx # "wire"

Known ==
  /\ \A b \in BuyIds : FateKnown(b)
  /\ boot.st = "done" /\ ~ctxDone

\* A buy of the wallet w has been mined and its settlement is still to come.
Unsettled(w) == \E b \in TrackedBuys : buy[b].w = w /\ buy[b].tx = "ok"

\* The balances a refresh has read miss no more than the cache may.
ViewCovers == pc = "refresh" => \A w \in Wallets : chain[w] > view[w] => Unsettled(w)

Covered == Known /\ NoHiddenTokens /\ ViewCovers

LEMMA HiddenIs == NoHiddenTokens <=> \A w \in Wallets : chain[w] > cached[w] => Unsettled(w)
  BY DEF NoHiddenTokens, Unsettled

\* A step that takes no mined buy away from a wallet keeps it unsettled.
LEMMA StillUnsettled ==
  ASSUME NEW w \in Wallets, Unsettled(w),
         \A c \in TrackedBuys : buy[c].w = w /\ buy[c].tx = "ok" =>
           buy'[c].st \in Tracked /\ buy'[c].w = w /\ buy'[c].tx = "ok"
  PROVE  Unsettled(w)'
  BY DEF Unsettled, TrackedBuys

LEMMA SameUnsettled ==
  ASSUME UNCHANGED buy PROVE \A w \in Wallets : Unsettled(w)' = Unsettled(w)
  BY DEF Unsettled, TrackedBuys

LEMMA CoveredInit ==
  ASSUME Calm, Init PROVE Covered
  <1>1. PICK S \in SUBSET BuyIds, f \in [BuyIds -> Wallets] :
          /\ S # {} => Fresh
          /\ buy = [b \in BuyIds |-> [st |-> IF b \in S THEN "settling" ELSE "unused",
                                      w |-> f[b], by |-> "round", tx |-> "wire"]]
    BY DEF Init
  <1>2. Known
    BY <1>1 DEF Init, Calm, Known, FateKnown
  <1>3. NoHiddenTokens
    <2>1. chain \in [Wallets -> {0, 1}] /\ cached = chain
      BY DEF Init
    <2>2. \A w \in Wallets : ~(chain[w] > cached[w])
      BY <2>1
    <2> QED
      BY <2>2 DEF NoHiddenTokens
  <1>4. ViewCovers
    BY DEF Init, ViewCovers
  <1> QED
    BY <1>2, <1>3, <1>4 DEF Covered

\* A buy that moves from stage to stage, its fate known.
LEMMA StageKnown ==
  ASSUME TypeOK, Known, NEW b \in BuyIds, NEW s \in Stages, buy' = [buy EXCEPT ![b].st = s],
         UNCHANGED <<boot, ctxDone>>,
         s \notin {"sent", "lost"},
         s = "ok" => buy[b].tx = "ok",
         s = "err" => buy[b].tx = "reverted",
         s = "applied" => buy[b].tx # "wire"
  PROVE  Known'
  <1>1. \A c \in BuyIds : /\ buy'[c].st = IF c = b THEN s ELSE buy[c].st
                          /\ buy'[c].tx = buy[c].tx /\ buy'[c].w = buy[c].w
    BY DEF TypeOK, BuyType
  <1>2. \A c \in BuyIds : FateKnown(c)'
    BY <1>1 DEF Known, FateKnown
  <1> QED
    BY <1>2 DEF Known

LEMMA StageUnsettled ==
  ASSUME TypeOK, NEW b \in BuyIds, NEW s \in Stages, buy' = [buy EXCEPT ![b].st = s],
         NEW w \in Wallets, Unsettled(w), s \in Tracked \/ buy[b].w # w \/ buy[b].tx # "ok"
  PROVE  Unsettled(w)'
  <1>1. \A c \in BuyIds : /\ buy'[c].st = IF c = b THEN s ELSE buy[c].st
                          /\ buy'[c].tx = buy[c].tx /\ buy'[c].w = buy[c].w
    BY DEF TypeOK, BuyType
  <1>2. TrackedBuys \subseteq BuyIds /\ \A c \in TrackedBuys : buy[c].st \in Tracked
    BY DEF TrackedBuys
  <1> QED
    BY <1>1, <1>2, StillUnsettled

LEMMA MineBuyCovered ==
  ASSUME TypeOK, Covered, NEW b \in BuyIds, MineBuy(b) PROVE Covered'
  <1> DEFINE v == buy[b].w
  <1>1. b \in TrackedBuys /\ v \in Wallets
    BY DEF MineBuy, Covered, Known, FateKnown, TypeOK, BuyType, TrackedBuys, Stages
  <1>2. PICK f \in {"ok", "reverted"} :
          /\ buy' = [buy EXCEPT ![b].tx = f]
          /\ f = "ok" => chain' = [chain EXCEPT ![buy[b].w] = @ + 1]
          /\ f # "ok" => chain' = chain
    BY DEF MineBuy
  <1>3. \A c \in BuyIds : /\ buy'[c].st = buy[c].st /\ buy'[c].w = buy[c].w
                          /\ buy'[c].tx = IF c = b THEN f ELSE buy[c].tx
    <2>1. f \in Fates
      BY DEF Fates
    <2> QED
      BY <1>2, <2>1, FateOnly
  <1>4. UNCHANGED <<pc, view, boot, ctxDone, cached>>
    BY DEF MineBuy, loopVars, inputVars, bookVars
  <1>5. buy[b].tx = "wire"
    BY DEF MineBuy
  <1>6. Known'
    <2>1. ASSUME NEW c \in BuyIds PROVE FateKnown(c)'
      <3>1. FateKnown(c)
        BY DEF Covered, Known
      <3> QED
        BY <1>3, <1>5, <3>1, <1>1, <1>2 DEF FateKnown
    <2> QED
      BY <1>4, <2>1 DEF Covered, Known
  <1>7. ASSUME NEW w \in Wallets, Unsettled(w) PROVE Unsettled(w)'
    <2>1. \A c \in TrackedBuys : c \in BuyIds /\ buy[c].st \in Tracked
      BY DEF TrackedBuys
    <2> QED
      BY <1>3, <1>5, <1>7, <2>1, StillUnsettled
  <1>8. \A w \in Wallets : w = v /\ f = "ok" => Unsettled(w)'
    BY <1>1, <1>3 DEF Unsettled, TrackedBuys
  <1>9. \A w \in Wallets : w # v \/ f # "ok" => chain'[w] = chain[w]
    BY <1>2 DEF TypeOK
  <1>10. NoHiddenTokens'
    <2>1. ASSUME NEW w \in Wallets, chain'[w] > cached'[w] PROVE Unsettled(w)'
      <3>1. CASE w = v /\ f = "ok"
        BY <1>8, <3>1
      <3>2. CASE w # v \/ f # "ok"
        <4>1. chain[w] > cached[w]
          BY <1>4, <1>9, <2>1, <3>2
        <4>2. Unsettled(w)
          BY <4>1, HiddenIs DEF Covered
        <4> QED
          BY <1>7, <4>2
      <3> QED
        BY <3>1, <3>2
    <2> QED
      BY <2>1 DEF NoHiddenTokens, Unsettled
  <1>11. ViewCovers'
    <2>1. ASSUME NEW w \in Wallets, pc = "refresh", chain'[w] > view'[w] PROVE Unsettled(w)'
      <3>1. CASE w = v /\ f = "ok"
        BY <1>8, <3>1
      <3>2. CASE w # v \/ f # "ok"
        <4>1. chain[w] > view[w]
          BY <1>4, <1>9, <2>1, <3>2
        <4>2. Unsettled(w)
          BY <2>1, <4>1 DEF Covered, ViewCovers
        <4> QED
          BY <1>7, <4>2
      <3> QED
        BY <3>1, <3>2
    <2> QED
      BY <1>4, <2>1 DEF ViewCovers
  <1> QED
    BY <1>6, <1>10, <1>11 DEF Covered

\* Tokens that leave a wallet uncover none.
LEMMA SpendCovered ==
  ASSUME TypeOK, Covered, \A w \in Wallets : chain'[w] \in Nat /\ chain'[w] <= chain[w],
         UNCHANGED <<buy, boot, ctxDone, cached, pc, view>>
  PROVE  Covered'
  <1>1. \A w \in Wallets : Unsettled(w)' = Unsettled(w)
    BY SameUnsettled
  <1>2. Known'
    BY DEF Covered, Known, FateKnown
  <1>3. \A w \in Wallets : cached[w] \in Nat /\ chain[w] \in Nat /\ view[w] \in Nat
    BY DEF TypeOK
  <1>4. \A w \in Wallets : chain'[w] > cached'[w] => Unsettled(w)'
    <2> SUFFICES ASSUME NEW w \in Wallets, chain'[w] > cached'[w] PROVE Unsettled(w)'
      OBVIOUS
    <2>1. chain[w] > cached[w]
      BY <1>3
    <2> QED
      BY <1>1, <2>1, HiddenIs DEF Covered
  <1>5. pc = "refresh" => \A w \in Wallets : chain'[w] > view'[w] => Unsettled(w)'
    <2> SUFFICES ASSUME NEW w \in Wallets, pc = "refresh", chain'[w] > view'[w]
                 PROVE  Unsettled(w)'
      OBVIOUS
    <2>1. chain[w] > view[w]
      BY <1>3
    <2> QED
      BY <1>1, <2>1 DEF Covered, ViewCovers
  <1> QED
    BY <1>2, <1>4, <1>5 DEF Covered, NoHiddenTokens, Unsettled, ViewCovers

\* The event loop goes on without touching buys, tokens or the cache; it is not
\* left refreshing.
LEMMA LoopCovered ==
  ASSUME Covered, UNCHANGED <<buy, boot, ctxDone, cached, chain>>, pc' # "refresh"
  PROVE  Covered'
  BY DEF Covered, Known, FateKnown, NoHiddenTokens, ViewCovers, TrackedBuys

LEMMA IdleCovered ==
  ASSUME Covered, UNCHANGED <<buy, boot, ctxDone, cached, chain, pc, view>>
  PROVE  Covered'
  BY DEF Covered, Known, FateKnown, NoHiddenTokens, ViewCovers, TrackedBuys, Unsettled

\* A refresh starts with what the chain holds.
LEMMA RefreshCovered ==
  ASSUME TypeOK, Covered, UNCHANGED <<buy, boot, ctxDone, cached, chain>>, view' = chain
  PROVE  Covered'
  <1>1. \A w \in Wallets : ~(chain'[w] > view'[w])
    BY DEF TypeOK
  <1> QED
    BY <1>1 DEF Covered, Known, FateKnown, NoHiddenTokens, ViewCovers, TrackedBuys

LEMMA EndRefreshCovered ==
  ASSUME Calm, Covered, EndRefresh PROVE Covered'
  <1>1. cached' = view /\ pc = "refresh" /\ pc' = "sweep"
    BY DEF EndRefresh, Calm
  <1>2. UNCHANGED <<buy, boot, ctxDone, chain>>
    BY DEF EndRefresh, inputVars, buyVars
  <1> QED
    BY <1>1, <1>2 DEF Covered, Known, FateKnown, NoHiddenTokens, ViewCovers, TrackedBuys, Unsettled

LEMMA BroadcastCovered ==
  ASSUME Calm, TypeOK, Covered, NEW o \in Buyers, NEW v \in Wallets, NEW b \in BuyIds,
         Broadcast(o, v, b)
  PROVE  Covered'
  <1>1. buy' = [buy EXCEPT ![b] = [st |-> "approving", w |-> v, by |-> o, tx |-> "wire"]]
    BY DEF Broadcast, Calm
  <1>2. \A c \in BuyIds : buy'[c] = IF c = b THEN [st |-> "approving", w |-> v, by |-> o, tx |-> "wire"]
                                    ELSE buy[c]
    BY <1>1 DEF TypeOK
  <1>3. buy[b].st = "unused"
    BY DEF Broadcast
  <1>4. UNCHANGED <<boot, ctxDone, cached, chain, pc, view>>
    BY DEF Broadcast, loopVars, inputVars, bookVars
  <1>5. Known'
    <2>1. ASSUME NEW c \in BuyIds PROVE FateKnown(c)'
      BY <1>2 DEF Covered, Known, FateKnown
    <2> QED
      BY <1>4, <2>1 DEF Covered, Known
  <1>6. ASSUME NEW w \in Wallets, Unsettled(w) PROVE Unsettled(w)'
    <2>1. \A c \in TrackedBuys : c \in BuyIds /\ buy[c].st \in Tracked /\ c # b
      BY <1>3 DEF TrackedBuys, Tracked
    <2> QED
      BY <1>2, <1>6, <2>1, StillUnsettled
  <1>7. \A w \in Wallets : chain'[w] > cached'[w] => Unsettled(w)'
    BY <1>4, <1>6, HiddenIs DEF Covered
  <1>8. ViewCovers'
    BY <1>4, <1>6 DEF Covered, ViewCovers
  <1> QED
    BY <1>5, <1>7, <1>8 DEF Covered, NoHiddenTokens, Unsettled

\* A buy that moves to another counted stage.
LEMMA StageCovered ==
  ASSUME TypeOK, Covered, NEW b \in BuyIds, NEW s \in Tracked, buy' = [buy EXCEPT ![b].st = s],
         s = "ok" => buy[b].tx = "ok",
         s = "err" => buy[b].tx = "reverted",
         UNCHANGED <<boot, ctxDone, cached, chain, pc, view>>
  PROVE  Covered'
  <1>1. s \in Stages /\ s \notin {"sent", "lost"} /\ s # "applied"
    BY DEF Stages, Tracked
  <1>2. Known'
    BY <1>1, StageKnown DEF Covered
  <1>3. \A w \in Wallets : Unsettled(w) => Unsettled(w)'
    BY <1>1, StageUnsettled
  <1>4. \A w \in Wallets : chain'[w] > cached'[w] => Unsettled(w)'
    BY <1>3, HiddenIs DEF Covered
  <1>5. ViewCovers'
    BY <1>3 DEF Covered, ViewCovers
  <1> QED
    BY <1>2, <1>4, <1>5 DEF Covered, NoHiddenTokens, Unsettled

LEMMA QueueSettlementCovered ==
  ASSUME Calm, TypeOK, Covered, NEW b \in BuyIds, QueueSettlement(b) PROVE Covered'
  <1>1. PICK s \in {"ok", "err"} :
          /\ buy' = [buy EXCEPT ![b].st = s]
          /\ s = "ok" => buy[b].tx = "ok"
          /\ s = "err" => buy[b].tx = "reverted"
    BY DEF QueueSettlement, Calm, Covered, Known
  <1>2. UNCHANGED <<boot, ctxDone, cached, chain, pc, view>>
    BY DEF QueueSettlement, loopVars, inputVars, bookVars
  <1>3. s \in Tracked
    BY DEF Tracked
  <1> QED
    BY <1>1, <1>2, <1>3, StageCovered

LEMMA ConfirmSellCovered ==
  ASSUME Calm, TypeOK, Covered, NEW o \in Owners, NEW v \in Wallets, ConfirmSell(o, v)
  PROVE  Covered'
  <1>1. cached' = [cached EXCEPT ![v] = chain[v]]
    BY DEF ConfirmSell, Calm
  <1>2. UNCHANGED <<buy, boot, ctxDone, chain, pc, view>>
    BY DEF ConfirmSell, loopVars, inputVars, buyVars
  <1>3. \A w \in Wallets : cached'[w] = IF w = v THEN chain[w] ELSE cached[w]
    BY <1>1 DEF TypeOK
  <1>4. \A w \in Wallets : Unsettled(w)' = Unsettled(w)
    BY <1>2, SameUnsettled
  <1>5. \A w \in Wallets : chain'[w] > cached'[w] => Unsettled(w)'
    <2> SUFFICES ASSUME NEW w \in Wallets, chain[w] > cached'[w] PROVE Unsettled(w)
      BY <1>2, <1>4
    <2>1. chain[w] \in Nat
      BY DEF TypeOK
    <2>2. chain[w] > cached[w]
      BY <1>3, <2>1
    <2> QED
      BY <2>2, HiddenIs DEF Covered
  <1>6. Known' /\ ViewCovers'
    BY <1>2, <1>4 DEF Covered, Known, FateKnown, ViewCovers
  <1> QED
    BY <1>5, <1>6 DEF Covered, NoHiddenTokens, Unsettled

\* A filled buy's settlement reads the wallet's balance back.
LEMMA ApplySettlementCovered ==
  ASSUME Calm, TypeOK, Covered, NEW b \in BuyIds, ApplySettlement(b) PROVE Covered'
  <1> DEFINE v == buy[b].w
  <1>1. v \in Wallets /\ FateKnown(b)
    BY DEF TypeOK, BuyType, Covered, Known
  <1>2. buy' = [buy EXCEPT ![b].st = "applied"] /\ UNCHANGED <<boot, ctxDone, chain>>
    BY DEF ApplySettlement, inputVars
  <1>3. "applied" \in Stages
    BY DEF Stages
  <1>4. buy[b].tx # "wire" /\ (buy[b].st = "ok" \/ buy[b].tx # "ok")
    BY <1>1 DEF ApplySettlement, FateKnown
  <1>5. Known'
    BY <1>2, <1>3, <1>4, StageKnown DEF Covered
  <1>6. /\ buy[b].st = "ok" => cached' = [cached EXCEPT ![v] = chain[v]]
        /\ buy[b].st # "ok" => cached' = cached
    BY DEF ApplySettlement, Calm, bookVars
  <1>7. \A w \in Wallets : \/ cached'[w] = chain[w]
                           \/ cached'[w] = cached[w] /\ (w # v \/ buy[b].tx # "ok")
    BY <1>1, <1>4, <1>6 DEF TypeOK
  <1>8. \A w \in Wallets : chain'[w] > cached'[w] => Unsettled(w)'
    <2> SUFFICES ASSUME NEW w \in Wallets, chain[w] > cached'[w] PROVE Unsettled(w)'
      BY <1>2
    <2>1. chain[w] \in Nat
      BY DEF TypeOK
    <2>2. cached'[w] = cached[w] /\ (w # v \/ buy[b].tx # "ok")
      BY <1>7, <2>1
    <2>3. Unsettled(w)
      BY <2>2, HiddenIs DEF Covered
    <2> QED
      BY <1>2, <1>3, <2>2, <2>3, StageUnsettled
  <1>9. pc' # "refresh"
    BY DEF ApplySettlement, Loop
  <1> QED
    BY <1>5, <1>8, <1>9 DEF Covered, NoHiddenTokens, Unsettled, ViewCovers

LEMMA CoveredStep ==
  ASSUME Calm, TypeOK, TypeOK', Covered, [Next]_vars PROVE Covered'
  <1>1. ASSUME NEW b \in BuyIds, LoseReply(b) PROVE FALSE
    BY <1>1 DEF LoseReply, Covered, Known, FateKnown
  <1>2. ASSUME NEW b \in BuyIds, CountBuy(b) PROVE FALSE
    BY <1>2 DEF CountBuy, Covered, Known, FateKnown
  <1>3. ASSUME NEW b \in BuyIds, StartSettling(b) PROVE Covered'
    <2>1. "settling" \in Tracked
      BY DEF Tracked
    <2> QED
      BY <1>3, <2>1, StageCovered DEF StartSettling, loopVars, inputVars, bookVars
  <1>4. ASSUME NEW o \in Owners, NEW w \in Wallets, MineSell(o, w) PROVE Covered'
    <2>1. UNCHANGED <<buy, boot, ctxDone, cached, pc, view>>
      BY <1>4 DEF MineSell, loopVars, inputVars, buyVars, bookVars
    <2>2. \A x \in Wallets : chain'[x] \in Nat /\ chain'[x] <= chain[x]
      BY <1>4, SellTakes DEF TypeOK
    <2> QED
      BY <2>1, <2>2, SpendCovered
  <1>5. ASSUME NEW w \in Wallets, MineStray(w) PROVE Covered'
    <2>1. UNCHANGED <<buy, boot, ctxDone, cached, pc, view>>
      BY <1>5 DEF MineStray, loopVars, inputVars, buyVars, bookVars
    <2>2. \A x \in Wallets : chain'[x] \in Nat /\ chain'[x] <= chain[x]
      BY <1>5, StrayTakes DEF TypeOK
    <2> QED
      BY <2>1, <2>2, SpendCovered
  <1>6. CASE Environment
    <2>1. ASSUME RetailTrade("buy") \/ RetailTrade("sell") \/ AskExit \/ Graduate \/ CancelRun
          PROVE Covered'
      <3>1. UNCHANGED <<buy, boot, ctxDone, cached, chain, pc, view>>
        BY <2>1 DEF RetailTrade, AskExit, Graduate, CancelRun, Calm, loopVars, buyVars, bookVars
      <3> QED
        BY <3>1, IdleCovered
    <2> QED
      BY <1>4, <1>5, <1>6, <2>1, MineBuyCovered DEF Environment
  <1>7. CASE Goroutines
    <2>1. ASSUME NEW o \in Buyers, NEW w \in Wallets, AbandonBuy(o, w) PROVE Covered'
      BY <2>1, IdleCovered DEF AbandonBuy, loopVars, inputVars, bookVars
    <2>2. ASSUME NEW o \in Owners, NEW w \in Wallets,
                 StartSell(o, w) \/ RevertSell(o, w) \/ FailSell(o, w)
          PROVE Covered'
      BY <2>2, IdleCovered DEF StartSell, RevertSell, FailSell, loopVars, inputVars, buyVars, bookVars
    <2>3. ASSUME PickMakers \/ EndRound \/ EndBatch PROVE Covered'
      BY <2>3, IdleCovered DEF PickMakers, EndRound, EndBatch, loopVars, inputVars, buyVars, bookVars
    <2>4. ~BootRead /\ ~BootStore
      BY DEF BootRead, BootStore, Covered, Known
    <2> QED
      BY <1>1, <1>2, <1>3, <1>7, <2>1, <2>2, <2>3, <2>4, BroadcastCovered, QueueSettlementCovered,
         ConfirmSellCovered DEF Goroutines
  <1>8. CASE EventLoop
    <2>1. ASSUME \/ OnRetailBuy \/ OnRetailSell \/ NoRetailQueued \/ ApplyBatchResult \/ EndSweep
                 \/ SellTickDistribute \/ AccTick \/ BeginCheckedRound \/ ReserveTick \/ Shutdown
          PROVE Covered'
      <3>1. UNCHANGED <<buy, boot, ctxDone, cached, chain>>
        BY <2>1 DEF OnRetailBuy, OnRetailSell, NoRetailQueued, ApplyBatchResult, EndSweep,
           SellTickDistribute, AccTick, BeginCheckedRound, ReserveTick, Shutdown, inputVars,
           buyVars, bookVars
      <3>2. pc' # "refresh"
        BY <2>1 DEF OnRetailBuy, OnRetailSell, NoRetailQueued, ApplyBatchResult, EndSweep,
           SellTickDistribute, AccTick, BeginCheckedRound, ReserveTick, Shutdown, Loop, BeginRound
      <3> QED
        BY <3>1, <3>2, LoopCovered
    <2>2. ASSUME ExitAll \/ SellTickClearAll PROVE Covered'
      BY <2>2, RefreshCovered DEF ExitAll, SellTickClearAll, inputVars, buyVars, bookVars
    <2> QED
      BY <1>8, <2>1, <2>2, EndRefreshCovered, ApplySettlementCovered DEF EventLoop
  <1>9. CASE UNCHANGED vars
    BY <1>9, IdleCovered DEF vars, loopVars, inputVars, buyVars, bookVars
  <1> QED
    BY <1>6, <1>7, <1>8, <1>9 DEF Next, Finished

\* In a calm run a token the cache does not show is one of a buy whose
\* settlement is still to be applied, whatever the interleaving of workers,
\* sells, balance refreshes and exits: applyBuySettlement, confirmSell and
\* RefreshToken never lose sight of a token between them.
THEOREM NoHiddenTokensCorrect ==
  ASSUME Calm PROVE Spec => []NoHiddenTokens
  <1>1. Init => TypeOK /\ Covered
    BY TypeInit, CoveredInit
  <1>2. TypeOK /\ Covered /\ [Next]_vars => (TypeOK /\ Covered)'
    BY TypeStep, CoveredStep
  <1>3. Covered => NoHiddenTokens
    BY DEF Covered
  <1> QED
    BY <1>1, <1>2, <1>3, PTL DEF Spec

-----------------------------------------------------------------------------
(* The end of a run.                                                       *)

\* Nothing is left: no tokens, and no buy that could still bring some.
Empty ==
  /\ \A w \in Wallets : chain[w] = 0
  /\ \A b \in BuyIds : buy[b].st # "unused" => buy[b].tx # "wire"

\* The state Done is the end of Run.
Ends ==
  /\ state = "Done" => pc = "stopped"
  /\ state = "Done" /\ ~graduated => Empty

LEMMA EndsMeans == Ends => DoneMeansDrained
  BY DEF Ends, Empty, DoneMeansDrained

LEMMA EndsInit == Init => Ends
  BY DEF Init, Ends

\* An empty cache and no pending buy leave nothing, as no token is hidden.
LEMMA DrainedEmpty ==
  ASSUME TypeOK', Covered', PendingBuysExact', Drained(cached', pendingBuys')
  PROVE  Empty'
  <1>1. TrackedBuys' = {}
    <2>1. TrackedBuys' \subseteq BuyIds
      BY DEF TrackedBuys
    <2>2. IsFiniteSet(TrackedBuys')
      BY <2>1, BuyIdsFinite, FS_Subset
    <2>3. Cardinality(TrackedBuys') = 0
      BY DEF Drained, PendingBuysExact
    <2> QED
      BY <2>2, <2>3, FS_EmptySet
  <1>2. ASSUME NEW w \in Wallets PROVE chain'[w] = 0
    <2>1. ~Unsettled(w)'
      BY <1>1 DEF Unsettled
    <2>2. ~(chain'[w] > cached'[w])
      BY <2>1 DEF Covered, NoHiddenTokens, Unsettled
    <2>3. chain'[w] \in Nat /\ cached'[w] \in Nat
      BY DEF TypeOK
    <2>4. ~(cached'[w] > 0)
      BY DEF Drained, Held
    <2> QED
      BY <2>2, <2>3, <2>4
  <1>3. ASSUME NEW b \in BuyIds, buy'[b].st # "unused" PROVE buy'[b].tx # "wire"
    <2>1. buy'[b].st \in Stages /\ buy'[b].st \notin Tracked
      BY <1>1 DEF TypeOK, BuyType, TrackedBuys
    <2>2. FateKnown(b)'
      BY DEF Covered, Known
    <2> QED
      BY <1>3, <2>1, <2>2 DEF Stages, FateKnown
  <1> QED
    BY <1>2, <1>3 DEF Empty

\* A step outside the event loop that brings no token and no buy in flight.
LEMMA OutsideEnds ==
  ASSUME Ends, UNCHANGED <<state, pc>>, graduated => graduated',
         state = "Done" /\ Empty => Empty'
  PROVE  Ends'
  BY DEF Ends

\* The event loop ends the run only with everything drained, or on a graduated
\* curve.
LEMMA LoopEnds ==
  ASSUME TypeOK', Covered', PendingBuysExact', Ends, pc # "stopped",
         state' = "Done" => /\ pc' = "stopped"
                            /\ graduated' \/ Drained(cached', pendingBuys') \/ state = "Done"
  PROVE  Ends'
  BY DrainedEmpty DEF Ends

LEMMA StartBatchEnds ==
  ASSUME NEW bal, NEW pending, NEW size, StartBatch(bal, pending, size)
  PROVE  state' = "Done" => Drained(bal, pending)
  BY DEF StartBatch

LEMMA LoopStops == Loop("Done") = "stopped"
  BY DEF Loop

LEMMA ApplySettlementEnds ==
  ASSUME TypeOK', Covered', PendingBuysExact', Ends, NEW b \in BuyIds, ApplySettlement(b)
  PROVE  Ends'
  <1> DEFINE left == Minus(pendingBuys, 1)
  <1>1. pc = "select" /\ pendingBuys' = left
    BY DEF ApplySettlement
  <1>2. state # "Done"
    BY <1>1 DEF Ends
  <1>3. ASSUME state' = "Done" PROVE pc' = "stopped" /\ Drained(cached', pendingBuys')
    <2> HIDE DEF left
    <2>1. CASE /\ buy[b].st = "err" /\ UNCHANGED cached
               /\ state' = IF state = "ClearAll" /\ Drained(cached, left) THEN "Done" ELSE state
               /\ pc' = Loop(state')
      BY <1>1, <1>2, <1>3, <2>1, LoopStops
    <2>2. CASE /\ state' = IF state = "ClearAll" /\ Drained(cached', left) THEN "Done" ELSE state
               /\ pc' = Loop(state')
      BY <1>1, <1>2, <1>3, <2>2, LoopStops
    <2>3. CASE UNCHANGED state
      BY <1>2, <1>3, <2>3
    <2>4. CASE StartBatch(cached', left, batchSize) /\ pc' = Loop(state')
      BY <1>1, <1>3, <2>4, LoopStops, StartBatchEnds
    <2> QED
      BY <2>1, <2>2, <2>3, <2>4 DEF ApplySettlement, left, bookVars
  <1> QED
    BY <1>1, <1>3, LoopEnds

LEMMA OnRetailBuyEnds ==
  ASSUME TypeOK', Covered', PendingBuysExact', Ends, OnRetailBuy PROVE Ends'
  <1>1. pc \in {"drain", "select"} /\ UNCHANGED <<cached, pendingBuys>>
    BY DEF OnRetailBuy, bookVars
  <1>2. state # "Done"
    BY <1>1 DEF Ends
  <1>3. ASSUME state' = "Done" PROVE pc' = "stopped" /\ Drained(cached', pendingBuys')
    <2>1. StartBatch(cached, pendingBuys, 0) /\ pc' = Loop(state')
      BY <1>2, <1>3 DEF OnRetailBuy
    <2> QED
      BY <1>1, <1>3, <2>1, LoopStops, StartBatchEnds
  <1> QED
    BY <1>1, <1>3, LoopEnds

LEMMA EndsStep ==
  ASSUME Calm, TypeOK, TypeOK', Covered, Covered', PendingBuysExact', Ends, [Next]_vars
  PROVE  Ends'
  <1>1. ASSUME UNCHANGED <<state, pc, graduated, chain, buy>> PROVE Ends'
    BY <1>1, OutsideEnds DEF Empty
  <1>2. ASSUME NEW b \in BuyIds, MineBuy(b) PROVE Ends'
    <2>1. UNCHANGED <<state, pc, graduated>> /\ ~Empty
      BY <1>2 DEF MineBuy, loopVars, inputVars, Empty
    <2> QED
      BY <2>1, OutsideEnds
  <1>3. ASSUME \A w \in Wallets : chain'[w] <= chain[w],
               UNCHANGED <<state, pc, graduated, buy>> PROVE Ends'
    <2>1. \A w \in Wallets : chain[w] = 0 => chain'[w] = 0
      <3>1. chain \in [Wallets -> Nat] /\ chain' \in [Wallets -> Nat]
        BY DEF TypeOK
      <3> QED
        BY <1>3, <3>1
    <2>2. Empty => Empty'
      BY <1>3, <2>1 DEF Empty
    <2> QED
      BY <1>3, <2>2, OutsideEnds
  <1>4. ASSUME NEW o \in Owners, NEW w \in Wallets, MineSell(o, w) PROVE Ends'
    <2>1. \A x \in Wallets : chain'[x] <= chain[x]
      BY <1>4, SellTakes
    <2> QED
      BY <1>3, <1>4, <2>1 DEF MineSell, loopVars, inputVars, buyVars
  <1>5. ASSUME NEW w \in Wallets, MineStray(w) PROVE Ends'
    <2>1. \A x \in Wallets : chain'[x] <= chain[x]
      BY <1>5, StrayTakes
    <2> QED
      BY <1>3, <1>5, <2>1 DEF MineStray, loopVars, inputVars, buyVars
  <1>6. ASSUME NEW b \in BuyIds, NEW s \in Stages, buy[b].st # "unused",
               buy' = [buy EXCEPT ![b].st = s], UNCHANGED <<state, pc, graduated, chain>>
        PROVE  Ends'
    <2>1. \A c \in BuyIds : /\ buy'[c].st # "unused" => buy[c].st # "unused"
                            /\ buy'[c].tx = buy[c].tx
      BY <1>6, StageOnly
    <2>2. Empty => Empty'
      BY <1>6, <2>1 DEF Empty
    <2> QED
      BY <1>6, <2>2, OutsideEnds
  <1>7. ASSUME NEW o \in Buyers, NEW w \in Wallets, NEW b \in BuyIds, Broadcast(o, w, b) PROVE Ends'
    <2>1. state # "Done" /\ UNCHANGED <<state, pc, graduated>>
      BY <1>7 DEF Broadcast, Cancelled, Ends, loopVars, inputVars
    <2> QED
      BY <2>1, OutsideEnds
  <1>8. CASE Environment
    <2>1. ASSUME RetailTrade("buy") \/ RetailTrade("sell") \/ AskExit \/ CancelRun PROVE Ends'
      BY <1>1, <2>1 DEF RetailTrade, AskExit, CancelRun, loopVars, buyVars
    <2>2. ASSUME Graduate PROVE Ends'
      BY <2>2, OutsideEnds DEF Graduate, loopVars, buyVars, Empty
    <2> QED
      BY <1>2, <1>4, <1>5, <1>8, <2>1, <2>2 DEF Environment
  <1>9. CASE Goroutines
    <2>1. ASSUME NEW o \in Buyers, NEW w \in Wallets, AbandonBuy(o, w) PROVE Ends'
      BY <1>1, <2>1 DEF AbandonBuy, loopVars, inputVars
    <2>2. ASSUME NEW o \in Owners, NEW w \in Wallets,
                 StartSell(o, w) \/ RevertSell(o, w) \/ FailSell(o, w) \/ ConfirmSell(o, w)
          PROVE  Ends'
      BY <1>1, <2>2 DEF StartSell, RevertSell, FailSell, ConfirmSell, loopVars, inputVars, buyVars
    <2>3. ASSUME PickMakers \/ EndRound \/ EndBatch \/ BootRead \/ BootStore PROVE Ends'
      BY <1>1, <2>3 DEF PickMakers, EndRound, EndBatch, BootRead, BootStore, loopVars, inputVars, buyVars
    <2>4. ASSUME NEW b \in BuyIds, CountBuy(b) \/ LoseReply(b) \/ StartSettling(b) \/ QueueSettlement(b)
          PROVE  Ends'
      <3>1. PICK s \in {"approving", "lost", "settling", "ok", "err"} : buy' = [buy EXCEPT ![b].st = s]
        BY <2>4 DEF CountBuy, LoseReply, StartSettling, QueueSettlement
      <3>2. /\ buy[b].st # "unused" /\ UNCHANGED <<state, pc, graduated, chain>>
        BY <2>4 DEF CountBuy, LoseReply, StartSettling, QueueSettlement, loopVars, inputVars
      <3>3. s \in Stages
        BY DEF Stages, Tracked
      <3> QED
        BY <1>6, <3>1, <3>2, <3>3
    <2> QED
      BY <1>7, <1>9, <2>1, <2>2, <2>3, <2>4 DEF Goroutines
  <1>10. CASE EventLoop
    <2>1. ASSUME UNCHANGED state, pc # "stopped" PROVE Ends'
      BY <2>1, LoopEnds DEF Ends
    <2>2. ASSUME OnRetailSell \/ NoRetailQueued \/ ExitAll \/ EndRefresh \/ SellTickClearAll \/ AccTick
                   \/ BeginCheckedRound \/ Shutdown
          PROVE  Ends'
      <3>1. pc # "stopped" /\ (state' = "Done" => state = "Done")
        BY <2>2 DEF OnRetailSell, NoRetailQueued, ExitAll, EndRefresh, SellTickClearAll, AccTick,
           BeginCheckedRound, Shutdown
      <3> QED
        BY <3>1, LoopEnds DEF Ends
    <2>3. ASSUME ApplyBatchResult PROVE Ends'
      <3>1. /\ pc = "select" /\ UNCHANGED <<cached, pendingBuys>> /\ pc' = Loop(state')
            /\ state' = "Done" => state = "Done" \/ Drained(cached, pendingBuys)
        BY <2>3 DEF ApplyBatchResult, bookVars, buyVars
      <3> QED
        BY <3>1, LoopStops, LoopEnds
    <2>4. ASSUME EndSweep PROVE Ends'
      <3>1. /\ pc = "sweep" /\ UNCHANGED <<cached, pendingBuys>>
            /\ state' = "Done" => state = "Done" \/ (pc' = "stopped" /\ Drained(cached, pendingBuys))
        BY <2>4 DEF EndSweep, bookVars, buyVars
      <3> QED
        BY <3>1, LoopEnds DEF Ends
    <2>5. ASSUME SellTickDistribute PROVE Ends'
      <3>1. /\ pc = "select" /\ UNCHANGED <<cached, pendingBuys>> /\ pc' = Loop(state')
            /\ state' = "Done" => Drained(cached, pendingBuys)
        BY <2>5, StartBatchEnds DEF SellTickDistribute, bookVars, buyVars
      <3> QED
        BY <3>1, LoopStops, LoopEnds
    <2>6. ASSUME ReserveTick PROVE Ends'
      BY <2>6 DEF ReserveTick, Ends, inputVars
    <2> QED
      BY <1>10, <2>2, <2>3, <2>4, <2>5, <2>6, OnRetailBuyEnds, ApplySettlementEnds DEF EventLoop
  <1>11. CASE UNCHANGED vars
    BY <1>1, <1>11 DEF vars, loopVars, inputVars, buyVars
  <1> QED
    BY <1>8, <1>9, <1>10, <1>11 DEF Next, Finished

\* A calm run that ends because the position is empty leaves nothing behind: the
\* tests of finishDrainIfEmpty, of clearAllStep and of the distribution, which
\* read the cache and a counter, are true of the chain, and no buy is in flight.
THEOREM DoneMeansDrainedCorrect ==
  ASSUME Calm PROVE Spec => []DoneMeansDrained
  <1>1. Init => TypeOK /\ PendingBuysExact /\ Covered /\ Ends
    BY TypeInit, PendingBuysInit, CoveredInit, EndsInit
  <1>2. /\ TypeOK /\ PendingBuysExact /\ Covered /\ Ends /\ [Next]_vars
        => (TypeOK /\ PendingBuysExact /\ Covered /\ Ends)'
    BY TypeStep, PendingBuysStep, CoveredStep, EndsStep
  <1>3. Ends => DoneMeansDrained
    BY EndsMeans
  <1> QED
    BY <1>1, <1>2, <1>3, PTL DEF Spec

-----------------------------------------------------------------------------
(* One buy per wallet and cycle.                                           *)

\* A calm run in which a round begins at once when no buy is pending, and no
\* target response buys: its support buys may take a wallet that a round in
\* progress is about to buy from.
Steady == Calm /\ "round" \notin Races /\ "buy" \notin Responses

\* The wallet holds nothing and no buy of it is under way.
BuyerFree(w) ==
  /\ chain[w] = 0
  /\ \A b \in BuyIds : buy[b].w = w => buy[b].st \in {"unused", "applied"}

\* A round starts with nothing pending; its workers are those of wallets that
\* are free to buy; a wallet has one buy under way, and holds nothing before
\* that one is mined.
Cycle ==
  /\ pc # "roundCheck"
  /\ round.st = "starting" => TrackedBuys = {}
  /\ \A w \in Wallets : worker["target"][w] = "idle"
  /\ \A w \in Wallets : worker["round"][w] = "preflight" => round.st = "buying" /\ BuyerFree(w)
  /\ \A b, c \in TrackedBuys : buy[b].w = buy[c].w => b = c
  /\ \A b \in TrackedBuys : buy[b].tx # "ok" => chain[buy[b].w] = 0

LEMMA CycleInit == ASSUME Calm, Init PROVE Cycle
  <1>1. PICK S \in SUBSET BuyIds, f \in [BuyIds -> Wallets] :
          /\ S # {} => Fresh
          /\ buy = [b \in BuyIds |-> [st |-> IF b \in S THEN "settling" ELSE "unused",
                                      w |-> f[b], by |-> "round", tx |-> "wire"]]
    BY DEF Init
  <1>2. TrackedBuys = {}
    BY <1>1 DEF Calm, TrackedBuys, Tracked
  <1> QED
    BY <1>2 DEF Init, Cycle, Buyers

\* Nothing that Cycle is about has changed but where the event loop is and that
\* the round may have been cancelled.
LEMMA CycleKept ==
  ASSUME Cycle, UNCHANGED <<worker, buy, chain>>, round'.st = round.st, pc' # "roundCheck"
  PROVE  Cycle'
  BY DEF Cycle, TrackedBuys, BuyerFree

LEMMA InterruptKeeps ==
  ASSUME TypeOK, Interrupt PROVE round'.st = round.st
  BY DEF TypeOK, Interrupt

\* Buys that go on to a later stage, and tokens that leave.
LEMMA CycleForward ==
  ASSUME TypeOK, Cycle, UNCHANGED <<worker, round, pc>>,
         \A w \in Wallets : chain'[w] \in Nat /\ chain'[w] <= chain[w],
         \A b \in BuyIds : /\ buy'[b].w = buy[b].w /\ buy'[b].tx = buy[b].tx
                           /\ buy[b].st \in {"unused", "applied"} => buy'[b].st = buy[b].st
                           /\ buy'[b].st \in Tracked => buy[b].st \in Tracked
  PROVE  Cycle'
  <1>1. TrackedBuys' \subseteq TrackedBuys /\ TrackedBuys \subseteq BuyIds
    BY DEF TrackedBuys
  <1>2. \A w \in Wallets : chain[w] = 0 => chain'[w] = 0
    OBVIOUS
  <1>3. ASSUME NEW w \in Wallets, BuyerFree(w) PROVE BuyerFree(w)'
    <2>1. \A b \in BuyIds : buy'[b].w = w => buy'[b].st \in {"unused", "applied"}
      BY <1>3 DEF BuyerFree
    <2> QED
      BY <1>2, <1>3, <2>1 DEF BuyerFree
  <1>4. \A b \in BuyIds : buy[b].w \in Wallets
    BY DEF TypeOK, BuyType
  <1>5. \A w \in Wallets : worker'["round"][w] = "preflight" => round'.st = "buying" /\ BuyerFree(w)'
    BY <1>3 DEF Cycle
  <1>6. \A b \in TrackedBuys' : b \in TrackedBuys /\ b \in BuyIds /\ buy'[b].w = buy[b].w
                                 /\ buy'[b].tx = buy[b].tx
    BY <1>1
  <1>7. \A b, c \in TrackedBuys' : buy'[b].w = buy'[c].w => b = c
    BY <1>6 DEF Cycle
  <1>8. \A b \in TrackedBuys' : buy'[b].tx # "ok" => chain'[buy'[b].w] = 0
    BY <1>2, <1>4, <1>6 DEF Cycle
  <1> QED
    BY <1>1, <1>5, <1>7, <1>8 DEF Cycle

LEMMA MineBuyCycle ==
  ASSUME TypeOK, Covered, Cycle, NEW b \in BuyIds, MineBuy(b) PROVE Cycle'
  <1>1. b \in TrackedBuys /\ buy[b].tx = "wire" /\ buy[b].w \in Wallets
    BY DEF MineBuy, Covered, Known, FateKnown, TypeOK, BuyType, TrackedBuys, Stages
  <1>2. PICK f \in {"ok", "reverted"} :
          /\ buy' = [buy EXCEPT ![b].tx = f]
          /\ f = "ok" => chain' = [chain EXCEPT ![buy[b].w] = @ + 1]
          /\ f # "ok" => chain' = chain
    BY DEF MineBuy
  <1>3. \A c \in BuyIds : /\ buy'[c].st = buy[c].st /\ buy'[c].w = buy[c].w
                          /\ buy'[c].tx = IF c = b THEN f ELSE buy[c].tx
    <2>1. f \in Fates
      BY DEF Fates
    <2> QED
      BY <1>2, <2>1, FateOnly
  <1>4. TrackedBuys' = TrackedBuys /\ TrackedBuys \subseteq BuyIds
    BY <1>3 DEF TrackedBuys
  <1>5. UNCHANGED <<worker, round, pc>>
    BY DEF MineBuy, loopVars
  <1>6. \A w \in Wallets : w # buy[b].w \/ f # "ok" => chain'[w] = chain[w]
    BY <1>2 DEF TypeOK
  <1>7. buy[b].st \notin {"unused", "applied"}
    BY <1>1 DEF TrackedBuys, Tracked
  <1>8. ASSUME NEW w \in Wallets, BuyerFree(w) PROVE BuyerFree(w)'
    <2>1. w # buy[b].w
      BY <1>7, <1>8 DEF BuyerFree
    <2> QED
      BY <1>3, <1>6, <1>8, <2>1 DEF BuyerFree
  <1>9. ASSUME NEW c \in TrackedBuys', buy'[c].tx # "ok" PROVE chain'[buy'[c].w] = 0
    <2>1. c \in TrackedBuys /\ c \in BuyIds /\ buy'[c].w = buy[c].w /\ buy[c].w \in Wallets
      BY <1>3, <1>4 DEF TypeOK, BuyType
    <2>2. buy[c].tx # "ok"
      BY <1>1, <1>3, <1>9, <2>1
    <2>3. chain[buy[c].w] = 0
      BY <2>1, <2>2 DEF Cycle
    <2>4. buy[c].w # buy[b].w \/ f # "ok"
      BY <1>1, <1>3, <1>9, <2>1 DEF Cycle
    <2> QED
      BY <1>6, <2>1, <2>3, <2>4
  <1> QED
    BY <1>3, <1>4, <1>5, <1>8, <1>9 DEF Cycle

\* A buy is broadcast by a worker of the round, for a free wallet.
LEMMA BroadcastFree ==
  ASSUME TypeOK, Cycle, NEW o \in Buyers, NEW v \in Wallets, NEW b \in BuyIds, Broadcast(o, v, b)
  PROVE  o = "round" /\ round.st = "buying" /\ BuyerFree(v)
  BY DEF Broadcast, Cycle, Buyers

LEMMA BroadcastCycle ==
  ASSUME Calm, TypeOK, Cycle, NEW o \in Buyers, NEW v \in Wallets, NEW b \in BuyIds, Broadcast(o, v, b)
  PROVE  Cycle'
  <1>1. o = "round" /\ round.st = "buying" /\ BuyerFree(v)
    BY BroadcastFree
  <1>2. buy' = [buy EXCEPT ![b] = [st |-> "approving", w |-> v, by |-> o, tx |-> "wire"]]
    BY DEF Broadcast, Calm
  <1>3. \A c \in BuyIds : buy'[c] = IF c = b THEN [st |-> "approving", w |-> v, by |-> o, tx |-> "wire"]
                                    ELSE buy[c]
    BY <1>2 DEF TypeOK
  <1>4. UNCHANGED <<chain, round, pc>>
    BY DEF Broadcast, loopVars
  <1>5. \A x \in Wallets : /\ worker'["target"][x] = worker["target"][x]
                           /\ worker'["round"][x] = "preflight" => x # v /\ worker["round"][x] = "preflight"
    BY <1>1 DEF Broadcast, TypeOK, Buyers
  <1>6. TrackedBuys' = TrackedBuys \cup {b} /\ TrackedBuys \subseteq BuyIds
    BY <1>3 DEF TrackedBuys, Tracked, Broadcast
  <1>7. b \notin TrackedBuys
    BY DEF TrackedBuys, Tracked, Broadcast
  <1>8. ASSUME NEW x \in Wallets, x # v, BuyerFree(x) PROVE BuyerFree(x)'
    BY <1>3, <1>4, <1>8 DEF BuyerFree
  <1>9. \A c \in TrackedBuys : buy[c].w # v
    BY <1>1, <1>6 DEF BuyerFree, TrackedBuys, Tracked
  <1>10. chain'[v] = 0
    BY <1>1, <1>4 DEF BuyerFree
  <1>11. \A c \in TrackedBuys : buy'[c] = buy[c]
    BY <1>3, <1>6, <1>7
  <1>12. \A c, d \in TrackedBuys' : buy'[c].w = buy'[d].w => c = d
    BY <1>3, <1>6, <1>9, <1>11 DEF Cycle
  <1>13. \A c \in TrackedBuys' : buy'[c].tx # "ok" => chain'[buy'[c].w] = 0
    BY <1>3, <1>4, <1>6, <1>10, <1>11 DEF Cycle
  <1>14. \A x \in Wallets : worker'["round"][x] = "preflight" => round'.st = "buying" /\ BuyerFree(x)'
    BY <1>1, <1>4, <1>5, <1>8 DEF Cycle
  <1>15. round'.st # "starting" /\ pc' # "roundCheck" /\ \A x \in Wallets : worker'["target"][x] = "idle"
    BY <1>1, <1>4, <1>5 DEF Cycle
  <1> QED
    BY <1>12, <1>13, <1>14, <1>15 DEF Cycle

\* The round's workers: all of them on wallets that hold nothing, as no token is
\* hidden when nothing is pending.
LEMMA PickMakersCycle ==
  ASSUME TypeOK, Covered, Cycle, PickMakers PROVE Cycle'
  <1>1. PICK S \in SUBSET Eligible : worker' = Assign("round", S)
    BY DEF PickMakers
  <1>2. /\ round.st = "starting" /\ round'.st = "buying" /\ UNCHANGED <<buy, chain, pc>>
    BY DEF PickMakers, TypeOK, loopVars
  <1>3. TrackedBuys = {}
    BY <1>2 DEF Cycle
  <1>4. \A w \in Wallets : worker["round"][w] = "idle"
    BY <1>2 DEF Cycle, TypeOK, Buyers
  <1>5. \A w \in Wallets : /\ worker'["target"][w] = worker["target"][w]
                           /\ worker'["round"][w] = "preflight" => w \in S
    BY <1>1, <1>4 DEF Assign, TypeOK, Buyers
  <1>6. ASSUME NEW w \in Wallets, w \in S PROVE BuyerFree(w)
    <2>1. ~(chain[w] > cached[w])
      BY <1>3 DEF Covered, NoHiddenTokens
    <2>2. chain[w] = 0
      BY <1>6, <2>1 DEF Eligible, TypeOK
    <2>3. \A b \in BuyIds : buy[b].st \in {"unused", "applied"}
      <3>1. ASSUME NEW b \in BuyIds PROVE buy[b].st \in {"unused", "applied"}
        <4>1. buy[b].st \in Stages /\ buy[b].st \notin Tracked /\ FateKnown(b)
          BY <1>3 DEF TypeOK, BuyType, TrackedBuys, Covered, Known
        <4> QED
          BY <4>1 DEF Stages, FateKnown
      <3> QED
        BY <3>1
    <2> QED
      BY <2>2, <2>3 DEF BuyerFree
  <1>7. \A w \in Wallets : BuyerFree(w)' = BuyerFree(w)
    BY <1>2 DEF BuyerFree
  <1>8. TrackedBuys' = TrackedBuys
    BY <1>2 DEF TrackedBuys
  <1> QED
    BY <1>2, <1>3, <1>5, <1>6, <1>7, <1>8 DEF Cycle

LEMMA AccTickCycle ==
  ASSUME Steady, TypeOK, PendingBuysExact, Cycle, AccTick PROVE Cycle'
  <1>1. pc' # "roundCheck" /\ UNCHANGED <<worker, buy, chain>>
    BY DEF AccTick, Steady, BeginRound
  <1>2. \/ round' = round
        \/ pendingBuys = 0 /\ round.st = "idle" /\ round' = [st |-> "starting", cancelled |-> FALSE]
    BY DEF AccTick, Steady, BeginRound, TypeOK
  <1>3. pendingBuys = 0 => TrackedBuys = {}
    BY TrackedFinite, FS_EmptySet DEF PendingBuysExact
  <1>4. TrackedBuys' = TrackedBuys
    BY <1>1 DEF TrackedBuys
  <1>5. CASE round' = round
    BY <1>1, <1>5, CycleKept
  <1>6. CASE pendingBuys = 0 /\ round.st = "idle" /\ round' = [st |-> "starting", cancelled |-> FALSE]
    <2>1. \A w \in Wallets : worker["round"][w] # "preflight"
      BY <1>6 DEF Cycle
    <2> QED
      BY <1>1, <1>3, <1>4, <1>6, <2>1 DEF Cycle
  <1> QED
    BY <1>2, <1>5, <1>6

LEMMA EndRoundCycle ==
  ASSUME Cycle, EndRound PROVE Cycle'
  <1>1. UNCHANGED <<worker, buy, chain, pc>> /\ round'.st = "idle"
    BY DEF EndRound, loopVars
  <1>2. \A w \in Wallets : worker'["round"][w] = "idle"
    BY <1>1 DEF EndRound
  <1>3. TrackedBuys' = TrackedBuys
    BY <1>1 DEF TrackedBuys
  <1> QED
    BY <1>1, <1>2, <1>3 DEF Cycle

LEMMA OnRetailBuyCycle ==
  ASSUME Steady, TypeOK, Cycle, OnRetailBuy PROVE Cycle'
  <1>1. UNCHANGED <<buy, chain>> /\ round'.st = round.st
    BY InterruptKeeps DEF OnRetailBuy
  <1>2. UNCHANGED worker
    BY DEF OnRetailBuy, TargetResponse, Steady, TypeOK
  <1>3. pc' # "roundCheck"
    BY DEF OnRetailBuy, Loop
  <1> QED
    BY <1>1, <1>2, <1>3, CycleKept

LEMMA CycleStep ==
  ASSUME Steady, TypeOK, TypeOK', PendingBuysExact, Covered, Cycle, [Next]_vars PROVE Cycle'
  <1>1. ASSUME UNCHANGED <<worker, buy, chain, round, pc>> PROVE Cycle'
    BY <1>1, CycleKept DEF Cycle
  <1>2. ASSUME UNCHANGED <<worker, buy, round, pc>>, \A w \in Wallets : chain'[w] <= chain[w]
        PROVE  Cycle'
    BY <1>2, CycleForward DEF TypeOK
  <1>3. ASSUME NEW o \in Owners, NEW w \in Wallets, MineSell(o, w) PROVE Cycle'
    <2>1. \A x \in Wallets : chain'[x] <= chain[x]
      BY <1>3, SellTakes
    <2> QED
      BY <1>2, <1>3, <2>1 DEF MineSell, loopVars, buyVars
  <1>4. ASSUME NEW w \in Wallets, MineStray(w) PROVE Cycle'
    <2>1. \A x \in Wallets : chain'[x] <= chain[x]
      BY <1>4, StrayTakes
    <2> QED
      BY <1>2, <1>4, <2>1 DEF MineStray, loopVars, buyVars
  <1>5. ASSUME NEW b \in BuyIds, NEW s \in Tracked \cup {"applied"}, buy' = [buy EXCEPT ![b].st = s],
               buy[b].st \in Tracked, UNCHANGED <<worker, round, chain>>
        PROVE  /\ UNCHANGED pc => Cycle'
               /\ pc' # "roundCheck" => Cycle'
    <2>1. \A c \in BuyIds : /\ buy'[c].w = buy[c].w /\ buy'[c].tx = buy[c].tx
                            /\ buy'[c].st = IF c = b THEN s ELSE buy[c].st
      <3>1. s \in Stages
        BY DEF Stages
      <3> QED
        BY <1>5, <3>1, StageOnly
    <2>2. TrackedBuys' \subseteq TrackedBuys /\ TrackedBuys \subseteq BuyIds
      BY <1>5, <2>1 DEF TrackedBuys
    <2>3. ASSUME NEW w \in Wallets, BuyerFree(w) PROVE BuyerFree(w)'
      BY <1>5, <2>1, <2>3 DEF BuyerFree, Tracked
    <2>4. pc # "roundCheck"
      BY DEF Cycle
    <2> QED
      BY <1>5, <2>1, <2>2, <2>3, <2>4 DEF Cycle
  <1>6. ASSUME NEW b \in BuyIds, StartSettling(b) \/ QueueSettlement(b) PROVE Cycle'
    <2>1. PICK s \in {"settling", "ok", "err"} : buy' = [buy EXCEPT ![b].st = s]
      BY <1>6 DEF StartSettling, QueueSettlement
    <2>2. buy[b].st \in Tracked /\ UNCHANGED <<worker, round, chain, pc>>
      BY <1>6 DEF StartSettling, QueueSettlement, Tracked, loopVars
    <2>3. s \in Tracked
      BY DEF Tracked
    <2> QED
      BY <1>5, <2>1, <2>2, <2>3
  <1>7. ASSUME NEW b \in BuyIds, ApplySettlement(b) PROVE Cycle'
    <2>1. /\ buy' = [buy EXCEPT ![b].st = "applied"] /\ buy[b].st \in Tracked
          /\ UNCHANGED <<worker, round, chain>>
      BY <1>7 DEF ApplySettlement, Tracked
    <2>2. pc' # "roundCheck"
      BY <1>7 DEF ApplySettlement, Loop
    <2> QED
      BY <1>5, <2>1, <2>2
  <1>8. ASSUME NEW o \in Buyers, NEW w \in Wallets, AbandonBuy(o, w) PROVE Cycle'
    <2>1. UNCHANGED <<buy, chain, round, pc>>
      BY <1>8 DEF AbandonBuy, loopVars
    <2>2. \A p \in Buyers, x \in Wallets :
            worker'[p][x] = IF p = o /\ x = w THEN "idle" ELSE worker[p][x]
      BY <1>8 DEF AbandonBuy, TypeOK
    <2>3. TrackedBuys' = TrackedBuys /\ \A x \in Wallets : BuyerFree(x)' = BuyerFree(x)
      BY <2>1 DEF TrackedBuys, BuyerFree
    <2> QED
      BY <2>1, <2>2, <2>3 DEF Cycle, Buyers
  <1>9. CASE Environment
    <2>1. ASSUME RetailTrade("buy") \/ RetailTrade("sell") \/ AskExit \/ Graduate \/ CancelRun
          PROVE  Cycle'
      BY <1>1, <2>1 DEF RetailTrade, AskExit, Graduate, CancelRun, loopVars, buyVars
    <2> QED
      BY <1>3, <1>4, <1>9, <2>1, MineBuyCycle DEF Environment
  <1>10. CASE Goroutines
    <2>1. ASSUME NEW o \in Owners, NEW w \in Wallets,
                 StartSell(o, w) \/ RevertSell(o, w) \/ FailSell(o, w) \/ ConfirmSell(o, w)
          PROVE  Cycle'
      BY <1>1, <2>1 DEF StartSell, RevertSell, FailSell, ConfirmSell, loopVars, buyVars
    <2>2. ASSUME EndBatch \/ BootRead \/ BootStore PROVE Cycle'
      BY <1>1, <2>2 DEF EndBatch, BootRead, BootStore, loopVars, buyVars
    <2>3. ASSUME NEW b \in BuyIds, CountBuy(b) \/ LoseReply(b) PROVE FALSE
      BY <2>3 DEF CountBuy, LoseReply, Covered, Known, FateKnown
    <2> QED
      BY <1>6, <1>8, <1>10, <2>1, <2>2, <2>3, BroadcastCycle, PickMakersCycle, EndRoundCycle
         DEF Goroutines, Steady
  <1>11. CASE EventLoop
    <2>1. ASSUME \/ OnRetailSell \/ NoRetailQueued \/ ApplyBatchResult \/ EndRefresh \/ EndSweep
                 \/ SellTickClearAll \/ SellTickDistribute \/ ReserveTick
          PROVE  Cycle'
      <3>1. UNCHANGED <<worker, buy, chain, round>>
        BY <2>1 DEF OnRetailSell, NoRetailQueued, ApplyBatchResult, EndRefresh, EndSweep,
           SellTickClearAll, SellTickDistribute, ReserveTick, buyVars
      <3>2. pc' # "roundCheck"
        BY <2>1 DEF OnRetailSell, NoRetailQueued, ApplyBatchResult, EndRefresh, EndSweep,
           SellTickClearAll, SellTickDistribute, ReserveTick, Loop
      <3> QED
        BY <3>1, <3>2, CycleKept
    <2>2. ASSUME ExitAll \/ Shutdown PROVE Cycle'
      <3>1. UNCHANGED <<worker, buy, chain>> /\ Interrupt /\ pc' # "roundCheck"
        BY <2>2 DEF ExitAll, Shutdown
      <3> QED
        BY <3>1, InterruptKeeps, CycleKept
    <2>3. ~BeginCheckedRound
      BY DEF BeginCheckedRound, Cycle
    <2> QED
      BY <1>7, <1>11, <2>1, <2>2, <2>3, AccTickCycle, OnRetailBuyCycle DEF EventLoop
  <1>12. CASE UNCHANGED vars
    BY <1>1, <1>12 DEF vars, loopVars, buyVars
  <1> QED
    BY <1>9, <1>10, <1>11, <1>12 DEF Next, Finished

\* What a step may do to a buy that has not been broadcast: only Broadcast
\* touches it, and for a free wallet.
LEMMA OnlyBroadcast ==
  ASSUME Steady, TypeOK, Covered, Cycle, Next, NEW b \in BuyIds,
         buy[b].st = "unused", buy'[b].st # "unused"
  PROVE  BuyerFree(buy'[b].w)
  <1>1. \A c \in BuyIds, s \in Stages :
          buy' = [buy EXCEPT ![c].st = s] /\ buy[c].st # "unused" => buy'[b].st = buy[b].st
    BY DEF TypeOK, BuyType
  <1>2. ASSUME NEW c \in BuyIds, MineBuy(c) PROVE FALSE
    BY <1>2 DEF MineBuy, TypeOK, BuyType
  <1>3. ASSUME NEW c \in BuyIds, CountBuy(c) \/ LoseReply(c) \/ StartSettling(c) \/ QueueSettlement(c)
                                   \/ ApplySettlement(c)
        PROVE  FALSE
    <2>1. PICK s \in {"approving", "lost", "settling", "ok", "err", "applied"} :
            buy' = [buy EXCEPT ![c].st = s]
      BY <1>3 DEF CountBuy, LoseReply, StartSettling, QueueSettlement, ApplySettlement
    <2>2. buy[c].st # "unused"
      BY <1>3 DEF CountBuy, LoseReply, StartSettling, QueueSettlement, ApplySettlement
    <2>3. s \in Stages
      BY DEF Stages, Tracked
    <2> QED
      BY <1>1, <2>1, <2>2, <2>3
  <1>4. ASSUME NEW o \in Buyers, NEW w \in Wallets, NEW c \in BuyIds, Broadcast(o, w, c)
        PROVE  BuyerFree(buy'[b].w)
    <2>1. buy' = [buy EXCEPT ![c] = [st |-> "approving", w |-> w, by |-> o, tx |-> "wire"]]
      BY <1>4 DEF Broadcast, Steady, Calm
    <2>2. buy'[b].w = w
      BY <2>1 DEF TypeOK
    <2> QED
      BY <1>4, <2>2, BroadcastFree
  <1>5. buy' # buy
    OBVIOUS
  <1>6. CASE Environment
    BY <1>2, <1>5, <1>6 DEF Environment, RetailTrade, AskExit, Graduate, CancelRun, MineSell,
       MineStray, buyVars
  <1>7. CASE Goroutines
    BY <1>3, <1>4, <1>5, <1>7 DEF Goroutines, AbandonBuy, StartSell, RevertSell, FailSell,
       ConfirmSell, PickMakers, EndRound, EndBatch, BootRead, BootStore, buyVars
  <1>8. CASE EventLoop
    BY <1>3, <1>5, <1>8 DEF EventLoop, OnRetailBuy, OnRetailSell, NoRetailQueued,
       ApplyBatchResult, ExitAll, EndRefresh, EndSweep, SellTickClearAll, SellTickDistribute,
       AccTick, BeginCheckedRound, ReserveTick, Shutdown, buyVars
  <1>9. CASE Finished
    BY <1>5, <1>9 DEF Finished, vars, buyVars
  <1> QED
    BY <1>6, <1>7, <1>8, <1>9 DEF Next

\* In a steady run each maker buys once per cycle: accumulateStep and buyOnce
\* broadcast a buy only for a wallet that holds nothing on the chain and has no
\* other buy under way, though all they look at is the cache and a counter.
THEOREM BuyOncePerCycleCorrect ==
  ASSUME Steady PROVE Spec => BuyOncePerCycle
  <1> DEFINE Inv == TypeOK /\ PendingBuysExact /\ Covered /\ Cycle
             Once == \A b \in BuyIds : buy[b].st = "unused" /\ buy'[b].st # "unused" =>
                       /\ chain[buy'[b].w] = 0
                       /\ \A c \in BuyIds : buy[c].w = buy'[b].w => buy[c].st \in {"unused", "applied"}
  <1>1. Init => Inv
    BY TypeInit, PendingBuysInit, CoveredInit, CycleInit DEF Steady
  <1>2. Inv /\ [Next]_vars => Inv'
    BY TypeStep, PendingBuysStep, CoveredStep, CycleStep DEF Steady
  <1>3. Inv /\ [Next]_vars => [Once]_vars
    <2>1. ASSUME Inv, Next PROVE Once
      <3>1. ASSUME NEW b \in BuyIds, buy[b].st = "unused", buy'[b].st # "unused"
            PROVE  BuyerFree(buy'[b].w)
        BY <2>1, <3>1, OnlyBroadcast
      <3> QED
        BY <3>1 DEF BuyerFree
    <2> QED
      BY <2>1
  <1>4. BuyOncePerCycle <=> [][Once]_vars
    BY DEF BuyOncePerCycle
  <1> HIDE DEF Inv, Once
  <1> QED
    BY <1>1, <1>2, <1>3, <1>4, PTL DEF Spec

-----------------------------------------------------------------------------
(* Sells that fit what the wallet holds.                                    *)

\* A steady run in which every sell is sent and the curve does not graduate.
Orderly == Steady /\ Faults \cap {"sendError", "graduate"} = {}

Active(o, w) == sell[o][w].st \in {"sent", "ok"}
Idle(w) == \A o \in Owners : ~Active(o, w)

\* A sell is for the one unit that the wallet holds and the cache shows; once
\* mined it is still to be read back.
SellSound(o, w) ==
  /\ sell[o][w].st # "reverted"
  /\ sell[o][w].st \in {"planned", "sent", "ok"} => sell[o][w].amt = 1
  /\ sell[o][w].st = "sent" => chain[w] = 1 /\ cached[w] = 1
  /\ sell[o][w].st = "ok" => chain[w] = 0 /\ cached[w] = 1

\* One sell at a time; without one the cache promises no more than there is.  A
\* liquidation leaves nothing cached and no sell under way in the wallets it is
\* done with, so its refreshes read balances no sell is about to take.
WalletSound(w) ==
  /\ chain[w] \in {0, 1} /\ stray[w] = 0
  /\ \A o \in Owners : SellSound(o, w)
  /\ ~(Active("main", w) /\ Active("batch", w))
  /\ Idle(w) => cached[w] <= chain[w]
  /\ worker["round"][w] = "preflight" => cached[w] = 0 /\ Idle(w)
  /\ sell["main"][w].st # "idle" => pc = "sweep"
  /\ sell["batch"][w].st # "idle" => dist = "selling"
  /\ state = "ClearAll" /\ sell["main"][w].st = "idle" => cached[w] = 0 /\ Idle(w)
  /\ pc = "refresh" => view[w] <= chain[w]
  /\ pc = "stopped" => cached[w] = 0 /\ chain[w] = 0

\* A wallet whose buy is under way has nothing to sell, unless a refresh of the
\* sweep in progress has found the token before its settlement.
BuySound(b) ==
  \/ cached[buy[b].w] = 0 /\ Idle(buy[b].w)
  \/ pc = "sweep" /\ buy[b].tx = "ok"

LoopSound ==
  /\ ~graduated /\ ~exitAsked /\ ~sweepErr
  /\ pc \in {"sweep", "refresh"} => state = "ClearAll"
  /\ pc = "stopped" => state = "Done"

Sound ==
  exits = 0 =>
    /\ LoopSound
    /\ \A w \in Wallets : WalletSound(w)
    /\ \A b \in TrackedBuys : BuySound(b)

SoundNow ==
  /\ LoopSound
  /\ \A w \in Wallets : WalletSound(w)
  /\ \A b \in TrackedBuys : BuySound(b)

\* What the earlier invariants give.
Context == TypeOK /\ Covered /\ Cycle /\ Ends

LEMMA ContextTypes ==
  ASSUME Context
  PROVE  /\ chain \in [Wallets -> Nat] /\ cached \in [Wallets -> Nat]
         /\ view \in [Wallets -> Nat] /\ stray \in [Wallets -> Nat]
         /\ sell \in [Owners -> [Wallets -> [st : SellSteps, amt : Nat]]]
         /\ worker \in [Buyers -> [Wallets -> {"idle", "preflight"}]]
         /\ buy \in [BuyIds -> BuyType]
         /\ \A b \in BuyIds : buy[b].w \in Wallets
         /\ TrackedBuys \subseteq BuyIds
         /\ pc \in Places /\ state \in States
  BY DEF Context, TypeOK, BuyType, TrackedBuys

LEMMA SoundInit == ASSUME Orderly, Init PROVE Sound
  <1>1. PICK S \in SUBSET BuyIds, f \in [BuyIds -> Wallets] :
          /\ S # {} => Fresh
          /\ buy = [b \in BuyIds |-> [st |-> IF b \in S THEN "settling" ELSE "unused",
                                      w |-> f[b], by |-> "round", tx |-> "wire"]]
    BY DEF Init
  <1>2. TrackedBuys = {}
    BY <1>1 DEF Orderly, Steady, Calm, TrackedBuys, Tracked
  <1>3. ASSUME NEW w \in Wallets PROVE WalletSound(w)
    <2>1. chain[w] \in {0, 1} /\ cached[w] = chain[w]
      BY DEF Init
    <2>2. \A o \in Owners : sell[o][w] = None
      BY DEF Init
    <2>3. worker["round"][w] = "idle" /\ stray[w] = 0
      BY DEF Init, Buyers
    <2>4. pc = "drain" /\ state = "Accumulating"
      BY DEF Init
    <2> QED
      BY <2>1, <2>2, <2>3, <2>4 DEF WalletSound, SellSound, Active, Idle, None, Owners
  <1>4. LoopSound
    BY DEF Init, LoopSound
  <1> QED
    BY <1>2, <1>3, <1>4 DEF Sound

\* A wallet of which nothing has changed.
LEMMA WalletSame ==
  ASSUME NEW w \in Wallets, WalletSound(w), UNCHANGED <<pc, state, view, dist>>,
         chain'[w] = chain[w], cached'[w] = cached[w], stray'[w] = stray[w],
         \A o \in Owners : sell'[o][w] = sell[o][w],
         worker'["round"][w] = "preflight" => worker["round"][w] = "preflight"
  PROVE  WalletSound(w)'
  BY DEF WalletSound, SellSound, Active, Idle, Owners

\* A step on one wallet: its tokens, its cache, one of its sells.
LEMMA OneWallet ==
  ASSUME Context, SoundNow, NEW v \in Wallets, WalletSound(v)',
         UNCHANGED <<pc, state, view, dist, worker, buy, stray, graduated, exitAsked, sweepErr>>,
         \A w \in Wallets : w # v =>
           /\ chain'[w] = chain[w] /\ cached'[w] = cached[w]
           /\ \A o \in Owners : sell'[o][w] = sell[o][w],
         cached[v] = 0 /\ Idle(v) => cached'[v] = 0 /\ \A o \in Owners : sell'[o][v].st \notin {"sent", "ok"}
  PROVE  SoundNow'
  <1>1. \A w \in Wallets : WalletSound(w)'
    <2>1. ASSUME NEW w \in Wallets, w # v PROVE WalletSound(w)'
      BY <2>1, WalletSame DEF SoundNow
    <2> QED
      BY <2>1
  <1>2. LoopSound'
    BY DEF SoundNow, LoopSound
  <1>3. TrackedBuys' = TrackedBuys
    BY DEF TrackedBuys
  <1>4. ASSUME NEW b \in TrackedBuys PROVE BuySound(b)'
    <2>1. buy[b].w \in Wallets /\ BuySound(b)
      BY ContextTypes DEF SoundNow
    <2> QED
      BY <2>1 DEF BuySound, Idle, Active
  <1> QED
    BY <1>1, <1>2, <1>3, <1>4 DEF SoundNow

LEMMA MineSellSound ==
  ASSUME Context, SoundNow, NEW o \in Owners, NEW v \in Wallets, MineSell(o, v) PROVE SoundNow'
  <1> DEFINE r == [sell[o][v] EXCEPT !.st = "ok"]
  <1>1. sell[o][v].st = "sent" /\ sell[o][v].amt = 1 /\ chain[v] = 1 /\ cached[v] = 1 /\ WalletSound(v)
    BY DEF MineSell, SoundNow, WalletSound, SellSound
  <1>2. /\ sell' = [sell EXCEPT ![o][v].st = "ok"] /\ chain' = [chain EXCEPT ![v] = @ - sell[o][v].amt]
    BY <1>1 DEF MineSell, SoundNow, LoopSound
  <1>3. sell' = [sell EXCEPT ![o][v] = r] /\ sell[o][v] \in [st : SellSteps, amt : Nat]
    BY <1>2 DEF Context, TypeOK
  <1> HIDE DEF r
  <1>4. \A p \in Owners, w \in Wallets : sell'[p][w] = IF p = o /\ w = v THEN r ELSE sell[p][w]
    BY <1>3, ContextTypes
  <1>5. r.st = "ok" /\ r.amt = 1
    BY <1>1, <1>3 DEF r
  <1>6. chain'[v] = 0 /\ \A w \in Wallets : w # v => chain'[w] = chain[w]
    BY <1>1, <1>2, ContextTypes
  <1>7. UNCHANGED <<pc, state, view, dist, worker, buy, stray, graduated, exitAsked, sweepErr, cached>>
    BY DEF MineSell, loopVars, inputVars, buyVars, bookVars
  <1>8. ~Idle(v)
    BY <1>1 DEF Idle, Active
  <1>9. pc # "refresh" /\ pc # "stopped"
    BY <1>1, <1>8 DEF WalletSound, SoundNow, LoopSound
  <1>10. WalletSound(v)'
    BY <1>1, <1>4, <1>5, <1>6, <1>7, <1>8, <1>9 DEF WalletSound, SellSound, Active, Idle, Owners
  <1> QED
    BY <1>4, <1>6, <1>7, <1>8, <1>10, OneWallet

LEMMA StartSellSound ==
  ASSUME Context, SoundNow, NEW o \in Owners, NEW v \in Wallets, StartSell(o, v) PROVE SoundNow'
  <1> DEFINE r == IF cached[v] = 0 THEN None
                  ELSE [st |-> "sent", amt |-> Smaller(sell[o][v].amt, cached[v])]
  <1>1. sell[o][v].st = "planned" /\ sell[o][v].amt = 1 /\ WalletSound(v)
    BY DEF StartSell, SoundNow, WalletSound, SellSound
  <1>2. sell' = [sell EXCEPT ![o][v] = r]
    BY DEF StartSell
  <1>3. Idle(v)
    BY DEF StartSell, SellMuFree, Idle, Active
  <1>4. cached[v] \in Nat /\ cached[v] <= chain[v] /\ chain[v] \in {0, 1}
    BY <1>1, <1>3, ContextTypes DEF WalletSound
  <1>5. \/ cached[v] = 0 /\ r.st = "idle"
        \/ cached[v] = 1 /\ chain[v] = 1 /\ r.st = "sent" /\ r.amt = 1
    BY <1>1, <1>4 DEF Smaller, None
  <1> HIDE DEF r
  <1>6. \A p \in Owners, w \in Wallets : sell'[p][w] = IF p = o /\ w = v THEN r ELSE sell[p][w]
    BY <1>2, ContextTypes
  <1>7. UNCHANGED <<pc, state, view, dist, worker, buy, stray, graduated, exitAsked, sweepErr, cached, chain>>
    BY DEF StartSell, loopVars, inputVars, buyVars, bookVars
  <1>8. WalletSound(v)'
    <2>1. CASE r.st = "idle"
      BY <1>1, <1>3, <1>5, <1>6, <1>7, <2>1 DEF WalletSound, SellSound, Active, Idle, Owners
    <2>2. CASE r.st = "sent"
      BY <1>1, <1>3, <1>5, <1>6, <1>7, <2>2 DEF WalletSound, SellSound, Active, Idle, Owners
    <2> QED
      BY <1>5, <2>1, <2>2
  <1>9. cached[v] = 0 /\ Idle(v) => cached'[v] = 0 /\ \A p \in Owners : sell'[p][v].st \notin {"sent", "ok"}
    BY <1>5, <1>6, <1>7 DEF Idle, Active
  <1> QED
    BY <1>6, <1>7, <1>8, <1>9, OneWallet

LEMMA ConfirmSellSound ==
  ASSUME Orderly, Context, SoundNow, NEW o \in Owners, NEW v \in Wallets, ConfirmSell(o, v)
  PROVE  SoundNow'
  <1>1. sell[o][v].st = "ok" /\ chain[v] = 0 /\ cached[v] = 1 /\ WalletSound(v)
    BY DEF ConfirmSell, SoundNow, WalletSound, SellSound
  <1>2. sell' = [sell EXCEPT ![o][v] = None] /\ cached' = [cached EXCEPT ![v] = chain[v]]
    BY DEF ConfirmSell, Orderly, Steady, Calm
  <1>3. \A p \in Owners, w \in Wallets : sell'[p][w] = IF p = o /\ w = v THEN None ELSE sell[p][w]
    BY <1>2, ContextTypes
  <1>4. cached'[v] = 0 /\ \A w \in Wallets : w # v => cached'[w] = cached[w]
    BY <1>1, <1>2, ContextTypes
  <1>5. UNCHANGED <<pc, state, view, dist, worker, buy, stray, graduated, exitAsked, sweepErr, chain>>
    BY DEF ConfirmSell, loopVars, inputVars, buyVars
  <1>6. ~Idle(v)
    BY <1>1 DEF Idle, Active
  <1>7. pc # "stopped" /\ None.st = "idle"
    BY <1>1 DEF WalletSound, None
  <1>8. WalletSound(v)'
    BY <1>1, <1>3, <1>4, <1>5, <1>6, <1>7 DEF WalletSound, SellSound, Active, Idle, Owners
  <1> QED
    BY <1>3, <1>4, <1>5, <1>6, <1>8, OneWallet

\* Without refused sends, timeouts and a cancelled run no sell fails.
LEMMA NoSellFails ==
  ASSUME Orderly, Context, SoundNow, NEW o \in Owners, NEW v \in Wallets
  PROVE  ~FailSell(o, v) /\ ~RevertSell(o, v)
  <1>1. WalletSound(v) /\ SellSound(o, v)
    BY DEF SoundNow, WalletSound
  <1>2. ~RevertSell(o, v)
    BY <1>1 DEF SellSound, RevertSell
  <1>3. ~ctxDone /\ {"timeout", "sendError"} \cap Faults = {}
    BY DEF Context, Covered, Known, Orderly, Steady, Calm
  <1>4. pc = "stopped" => cached[v] = 0 /\ chain[v] = 0
    BY <1>1 DEF WalletSound
  <1>5. ~FailSell(o, v)
    BY <1>1, <1>3, <1>4 DEF FailSell, SellSound, Running
  <1> QED
    BY <1>2, <1>5

LEMMA MineBuySound ==
  ASSUME Context, SoundNow, NEW b \in BuyIds, MineBuy(b) PROVE SoundNow'
  <1>1. b \in TrackedBuys /\ buy[b].tx = "wire" /\ buy[b].w \in Wallets
    BY DEF Context, MineBuy, Covered, Known, FateKnown, TypeOK, BuyType, TrackedBuys, Stages
  <1>2. PICK v \in Wallets : v = buy[b].w
    BY <1>1
  <1>3. chain[v] = 0 /\ cached[v] = 0 /\ Idle(v) /\ WalletSound(v)
    BY <1>1, <1>2 DEF Context, Cycle, SoundNow, BuySound
  <1>4. PICK f \in {"ok", "reverted"} :
          /\ buy' = [buy EXCEPT ![b].tx = f]
          /\ f = "ok" => chain' = [chain EXCEPT ![v] = @ + 1]
          /\ f # "ok" => chain' = chain
    BY <1>2 DEF MineBuy
  <1>5. \A c \in BuyIds : /\ buy'[c].st = buy[c].st /\ buy'[c].w = buy[c].w
                          /\ buy'[c].tx = IF c = b THEN f ELSE buy[c].tx
    BY <1>4, ContextTypes DEF BuyType
  <1>6. chain'[v] \in {0, 1} /\ \A w \in Wallets : w # v => chain'[w] = chain[w]
    BY <1>3, <1>4, ContextTypes
  <1>7. UNCHANGED <<pc, state, view, dist, worker, sell, stray, cached, graduated, exitAsked, sweepErr>>
    BY DEF MineBuy, loopVars, inputVars, bookVars, sellVars
  <1>8. pc # "stopped"
    BY <1>1, ContextTypes DEF Context, Ends, Empty, SoundNow, LoopSound, TrackedBuys, Tracked
  <1>9. LoopSound'
    BY <1>7 DEF SoundNow, LoopSound
  <1>10. WalletSound(v)'
    <2>1. pc = "refresh" => view[v] = 0
      BY <1>3, ContextTypes DEF WalletSound
    <2> QED
      BY <1>3, <1>6, <1>7, <1>8, <2>1 DEF WalletSound, SellSound, Active, Idle, Owners
  <1>11. \A w \in Wallets : WalletSound(w)'
    <2>1. ASSUME NEW w \in Wallets, w # v PROVE WalletSound(w)'
      BY <1>6, <1>7, <2>1, WalletSame DEF SoundNow
    <2> QED
      BY <1>10, <2>1
  <1>12. TrackedBuys' = TrackedBuys
    BY <1>5 DEF TrackedBuys
  <1>13. ASSUME NEW c \in TrackedBuys PROVE BuySound(c)'
    <2>1. c \in BuyIds /\ BuySound(c)
      BY ContextTypes DEF SoundNow
    <2>2. CASE c = b
      BY <1>2, <1>3, <1>5, <1>7, <2>2 DEF BuySound, Idle, Active
    <2>3. CASE c # b
      BY <1>5, <1>7, <2>1, <2>3 DEF BuySound, Idle, Active
    <2> QED
      BY <2>2, <2>3
  <1> QED
    BY <1>9, <1>11, <1>12, <1>13 DEF SoundNow

LEMMA BroadcastSound ==
  ASSUME Orderly, Context, SoundNow, NEW o \in Buyers, NEW v \in Wallets, NEW b \in BuyIds,
         Broadcast(o, v, b)
  PROVE  SoundNow'
  <1>1. o = "round" /\ worker["round"][v] = "preflight"
    BY BroadcastFree DEF Context, Broadcast
  <1>2. cached[v] = 0 /\ Idle(v)
    BY <1>1 DEF SoundNow, WalletSound
  <1>3. buy' = [buy EXCEPT ![b] = [st |-> "approving", w |-> v, by |-> o, tx |-> "wire"]]
    BY DEF Broadcast, Orderly, Steady, Calm
  <1>4. \A c \in BuyIds : buy'[c] = IF c = b THEN [st |-> "approving", w |-> v, by |-> o, tx |-> "wire"]
                                    ELSE buy[c]
    BY <1>3, ContextTypes
  <1>5. UNCHANGED <<pc, state, view, dist, sell, stray, cached, chain, graduated, exitAsked, sweepErr>>
    BY DEF Broadcast, loopVars, inputVars, bookVars, sellVars
  <1>6. \A x \in Wallets : worker'["round"][x] = "preflight" => worker["round"][x] = "preflight"
    BY <1>1, ContextTypes DEF Broadcast, Buyers
  <1>7. \A w \in Wallets : WalletSound(w)'
    BY <1>5, <1>6, WalletSame DEF SoundNow
  <1>8. ASSUME NEW c \in TrackedBuys' PROVE BuySound(c)'
    <2>1. CASE c = b
      BY <1>2, <1>4, <1>5, <2>1 DEF BuySound, Idle, Active
    <2>2. CASE c # b
      <3>1. c \in TrackedBuys /\ buy'[c] = buy[c]
        BY <1>4, <2>2 DEF TrackedBuys
      <3> QED
        BY <1>5, <3>1 DEF SoundNow, BuySound, Idle, Active
    <2> QED
      BY <2>1, <2>2
  <1> QED
    BY <1>5, <1>7, <1>8 DEF SoundNow, LoopSound

\* Buys that go on to a later stage.
LEMMA StageSound ==
  ASSUME Context, SoundNow, NEW b \in BuyIds, NEW s, buy' = [buy EXCEPT ![b].st = s],
         buy[b].st \in Tracked,
         UNCHANGED <<loopVars, inputVars, worker, sellVars, bookVars, chain>>
  PROVE  SoundNow'
  <1>1. \A c \in BuyIds : /\ buy'[c].w = buy[c].w /\ buy'[c].tx = buy[c].tx
                          /\ buy'[c].st = IF c = b THEN s ELSE buy[c].st
    BY ContextTypes DEF BuyType
  <1>2. TrackedBuys' \subseteq TrackedBuys
    BY <1>1 DEF TrackedBuys
  <1>3. UNCHANGED <<pc, state, view, dist, worker, sell, stray, cached, chain, graduated, exitAsked, sweepErr>>
    BY DEF loopVars, inputVars, bookVars, sellVars
  <1>4. \A w \in Wallets : WalletSound(w)'
    BY <1>3, WalletSame DEF SoundNow
  <1>5. ASSUME NEW c \in TrackedBuys' PROVE BuySound(c)'
    <2>1. c \in TrackedBuys /\ c \in BuyIds /\ BuySound(c)
      BY <1>2, ContextTypes DEF SoundNow
    <2> QED
      BY <1>1, <1>3, <2>1 DEF BuySound, Idle, Active
  <1> QED
    BY <1>3, <1>4, <1>5 DEF SoundNow, LoopSound

LEMMA PickMakersSound ==
  ASSUME Context, SoundNow, PickMakers PROVE SoundNow'
  <1>1. PICK S \in SUBSET Eligible : worker' = Assign("round", S)
    BY DEF PickMakers
  <1>2. UNCHANGED <<pc, state, view, dist, sell, stray, cached, chain, graduated, exitAsked, sweepErr, buy>>
    BY DEF PickMakers, loopVars, inputVars, bookVars, sellVars
  <1>3. \A w \in Wallets : worker'["round"][w] = IF w \in S THEN "preflight" ELSE worker["round"][w]
    BY <1>1, ContextTypes DEF Assign, Buyers
  <1>4. ASSUME NEW w \in Wallets PROVE WalletSound(w)'
    <2>1. WalletSound(w)
      BY DEF SoundNow
    <2>2. CASE w \in S
      <3>1. cached[w] = 0
        BY <2>2 DEF Eligible
      <3>2. Idle(w)
        BY <2>1, <3>1 DEF WalletSound, SellSound, Active, Idle
      <3> QED
        BY <1>2, <2>1, <3>1, <3>2 DEF WalletSound, SellSound, Active, Idle, Owners
    <2>3. CASE w \notin S
      BY <1>2, <1>3, <2>1, <2>3, WalletSame
    <2> QED
      BY <2>2, <2>3
  <1>5. TrackedBuys' = TrackedBuys
    BY <1>2 DEF TrackedBuys
  <1>6. ASSUME NEW c \in TrackedBuys PROVE BuySound(c)'
    BY <1>2, <1>6 DEF SoundNow, BuySound, Idle, Active
  <1> QED
    BY <1>2, <1>4, <1>5, <1>6 DEF SoundNow, LoopSound

LEMMA EndBatchSound ==
  ASSUME Context, SoundNow, EndBatch PROVE SoundNow'
  <1>1. UNCHANGED <<pc, state, view, worker, sell, stray, cached, chain, graduated, exitAsked, sweepErr, buy>>
    BY DEF EndBatch, loopVars, inputVars, bookVars, buyVars
  <1>2. \A w \in Wallets : sell["batch"][w].st = "idle"
    BY DEF EndBatch
  <1>3. ASSUME NEW w \in Wallets PROVE WalletSound(w)'
    BY <1>1, <1>2 DEF SoundNow, WalletSound, SellSound, Active, Idle, Owners
  <1>4. TrackedBuys' = TrackedBuys
    BY <1>1 DEF TrackedBuys
  <1>5. ASSUME NEW c \in TrackedBuys PROVE BuySound(c)'
    BY <1>1, <1>5 DEF SoundNow, BuySound, Idle, Active
  <1> QED
    BY <1>1, <1>3, <1>4, <1>5 DEF SoundNow, LoopSound

LEMMA PlanIs ==
  ASSUME Context, NEW o \in Owners, NEW S, NEW bal
  PROVE  /\ \A w \in Wallets : w \in S => Plan(o, S, bal)[o][w] = [st |-> "planned", amt |-> bal[w]]
         /\ \A w \in Wallets : w \notin S => Plan(o, S, bal)[o][w] = sell[o][w]
         /\ \A p \in Owners, w \in Wallets : p # o => Plan(o, S, bal)[p][w] = sell[p][w]
  BY ContextTypes DEF Plan

\* The event loop may plan a sell of what the cache shows: a sweep of its own,
\* or a batch when none is selling.
MainPlanned(w) ==
  \/ sell'["main"][w] = sell["main"][w]
  \/ /\ sell'["main"][w] = [st |-> "planned", amt |-> cached'[w]]
     /\ cached'[w] > 0 /\ pc' = "sweep"
BatchPlanned(w) ==
  \/ sell'["batch"][w] = sell["batch"][w] /\ (dist = "selling" => dist' = "selling")
  \/ /\ dist # "selling"
     /\ sell'["batch"][w] = [st |-> "planned", amt |-> cached'[w]]
     /\ cached'[w] > 0 /\ dist' = "selling"

LEMMA WalletLoop ==
  ASSUME NEW w \in Wallets, WalletSound(w), pc \in {"drain", "select"},
         chain'[w] = chain[w], stray'[w] = stray[w],
         cached[w] \in Nat, cached'[w] \in Nat,
         \/ cached'[w] = cached[w]
         \/ Idle(w) /\ cached'[w] = chain[w] /\ worker["round"][w] # "preflight",
         worker'["round"][w] = worker["round"][w],
         MainPlanned(w), BatchPlanned(w),
         pc' # "refresh",
         state' = "ClearAll" /\ sell'["main"][w].st = "idle" => cached'[w] = 0,
         pc' = "stopped" => cached'[w] = 0 /\ chain[w] = 0
  PROVE  WalletSound(w)'
  <1>1. sell["main"][w].st = "idle"
    BY DEF WalletSound
  <1>2. dist # "selling" => sell["batch"][w].st = "idle"
    BY DEF WalletSound
  <1>3. \A o \in Owners : Active(o, w) => cached[w] = 1 /\ ~Idle(w)
    BY DEF WalletSound, SellSound, Active, Idle
  <1>4. cached'[w] \in {0, 1}
    <2>1. CASE Idle(w)
      BY <2>1 DEF WalletSound
    <2>2. CASE ~Idle(w)
      BY <1>3, <2>2 DEF Idle
    <2> QED
      BY <2>1, <2>2
  <1>5. \A o \in Owners : sell'[o][w] = sell[o][w] \/ (~Active(o, w) /\ sell'[o][w] = [st |-> "planned", amt |-> 1])
    BY <1>1, <1>2, <1>4 DEF MainPlanned, BatchPlanned, Owners, Active
  <1>6. \A o \in Owners : (sell'[o][w].st \in {"sent", "ok"}) <=> Active(o, w)
    BY <1>5 DEF Active
  <1>7. \A o \in Owners : SellSound(o, w)'
    <2>1. ASSUME NEW o \in Owners PROVE SellSound(o, w)'
      <3>1. SellSound(o, w)
        BY DEF WalletSound
      <3>2. Active(o, w) => cached'[w] = cached[w]
        BY <1>3
      <3>3. CASE sell'[o][w] = sell[o][w]
        BY <3>1, <3>2, <3>3 DEF SellSound, Active
      <3>4. CASE sell'[o][w] = [st |-> "planned", amt |-> 1]
        BY <3>4 DEF SellSound
      <3> QED
        BY <1>5, <3>3, <3>4
    <2> QED
      BY <2>1
  <1>8. Idle(w)' <=> Idle(w)
    BY <1>6 DEF Idle, Active
  <1>9. ~(Active("main", w)' /\ Active("batch", w)')
    BY <1>6 DEF WalletSound, Active, Owners
  <1>10. Idle(w)' => cached'[w] <= chain'[w]
    BY <1>8 DEF WalletSound
  <1>11. worker'["round"][w] = "preflight" => cached'[w] = 0 /\ Idle(w)'
    BY <1>8 DEF WalletSound
  <1>12. sell'["main"][w].st # "idle" => pc' = "sweep"
    BY <1>1 DEF MainPlanned
  <1>13. sell'["batch"][w].st # "idle" => dist' = "selling"
    BY <1>2 DEF BatchPlanned
  <1>14. state' = "ClearAll" /\ sell'["main"][w].st = "idle" => cached'[w] = 0 /\ Idle(w)'
    BY <1>3, <1>8 DEF Idle
  <1> QED
    BY <1>7, <1>9, <1>10, <1>11, <1>12, <1>13, <1>14 DEF WalletSound

\* The buys under way when the event loop takes a step that is not a refresh.
LEMMA LoopBuys ==
  ASSUME Context, SoundNow, pc \in {"drain", "select"},
         \A b \in TrackedBuys' : b \in TrackedBuys /\ buy'[b].w = buy[b].w,
         \A b \in TrackedBuys' : cached'[buy[b].w] = cached[buy[b].w],
         \A w \in Wallets : WalletSound(w) /\ MainPlanned(w) /\ BatchPlanned(w)
  PROVE  \A b \in TrackedBuys' : BuySound(b)'
  <1> SUFFICES ASSUME NEW b \in TrackedBuys' PROVE BuySound(b)'
    OBVIOUS
  <1>1. b \in TrackedBuys /\ buy'[b].w = buy[b].w
    OBVIOUS
  <1>2. PICK w \in Wallets : w = buy[b].w
    BY <1>1, ContextTypes
  <1>3. cached[w] = 0 /\ Idle(w)
    BY <1>1, <1>2 DEF SoundNow, BuySound
  <1>4. cached'[w] = 0
    BY <1>2, <1>3
  <1>5. \A o \in Owners : sell'[o][w] = sell[o][w] \/ sell'[o][w].st = "planned"
    <2>1. MainPlanned(w) /\ BatchPlanned(w)
      OBVIOUS
    <2> QED
      BY <2>1 DEF MainPlanned, BatchPlanned, Owners
  <1>6. \A o \in Owners : sell'[o][w].st \notin {"sent", "ok"}
    BY <1>3, <1>5 DEF Idle, Active
  <1> QED
    BY <1>1, <1>2, <1>4, <1>6 DEF BuySound, Idle, Active

LEMMA PlainLoop ==
  ASSUME Context, Ends', SoundNow, pc \in {"drain", "select"},
         UNCHANGED <<chain, cached, stray, worker, buy, graduated, exitAsked, sweepErr>>,
         \A w \in Wallets : MainPlanned(w) /\ BatchPlanned(w),
         pc' # "refresh", pc' = "sweep" => state' = "ClearAll",
         pc' = "stopped" => state' = "Done" /\ Held(cached) = {},
         \/ state' = "ClearAll" => state = "ClearAll"
         \/ \A w \in Wallets : cached[w] > 0 => sell'["main"][w].st = "planned"
  PROVE  SoundNow'
  <1>1. LoopSound'
    BY DEF SoundNow, LoopSound
  <1>2. \A w \in Wallets : pc' = "stopped" => cached'[w] = 0 /\ chain[w] = 0
    BY <1>1, ContextTypes DEF Ends, Empty, Held, LoopSound
  <1>3. ASSUME NEW w \in Wallets PROVE WalletSound(w)'
    <2>1. WalletSound(w) /\ cached[w] \in Nat /\ cached'[w] = cached[w]
      BY ContextTypes DEF SoundNow
    <2>2. state' = "ClearAll" /\ sell'["main"][w].st = "idle" => cached'[w] = 0
      BY <2>1 DEF WalletSound
    <2> QED
      BY <1>2, <2>1, <2>2, WalletLoop
  <1>4. TrackedBuys' = TrackedBuys
    BY DEF TrackedBuys
  <1>5. \A b \in TrackedBuys' : BuySound(b)'
    BY <1>4, LoopBuys DEF SoundNow
  <1> QED
    BY <1>1, <1>3, <1>5 DEF SoundNow

\* A batch of sells is planned from the cache.
LEMMA StartBatchPlans ==
  ASSUME Context, NEW pending, NEW size, StartBatch(cached', pending, size)
  PROVE  /\ \A w \in Wallets : sell'["main"][w] = sell["main"][w] /\ BatchPlanned(w)
         /\ state' \in {"Distributing", "Done"}
         /\ state' = "Done" => Held(cached') = {}
  <1>1. CASE UNCHANGED <<dist, sell>>
    BY <1>1 DEF StartBatch, BatchPlanned, Drained
  <1>2. ASSUME NEW S \in SUBSET Held(cached'), sell' = Plan("batch", S, cached'), dist = "idle",
               dist' = "selling", state' = "Distributing"
        PROVE  /\ \A w \in Wallets : sell'["main"][w] = sell["main"][w] /\ BatchPlanned(w)
               /\ state' \in {"Distributing", "Done"}
               /\ state' = "Done" => Held(cached') = {}
    <2>1. \A w \in Wallets :
        /\ w \in S => sell'["batch"][w] = [st |-> "planned", amt |-> cached'[w]]
        /\ w \notin S => sell'["batch"][w] = sell["batch"][w]
        /\ sell'["main"][w] = sell["main"][w]
      BY <1>2, PlanIs DEF Owners
    <2>2. \A w \in S : cached'[w] > 0
      BY <1>2 DEF Held
    <2> QED
      BY <1>2, <2>1, <2>2 DEF BatchPlanned, Owners
  <1> QED
    BY <1>1, <1>2 DEF StartBatch

LEMMA OnRetailBuySound ==
  ASSUME Orderly, Context, Ends', SoundNow, OnRetailBuy PROVE SoundNow'
  <1>1. /\ pc \in {"drain", "select"}
        /\ UNCHANGED <<chain, cached, stray, buy, graduated, exitAsked, sweepErr>>
    BY DEF OnRetailBuy, bookVars
  <1>2. UNCHANGED worker
    BY DEF OnRetailBuy, TargetResponse, Orderly, Steady, Context, TypeOK
  <1>3. CASE /\ state' = "ClearAll" /\ sell' = Plan("main", Held(cached), cached)
             /\ pc' = "sweep" /\ UNCHANGED dist
    <2>1. \A w \in Wallets :
            /\ w \in Held(cached) => sell'["main"][w] = [st |-> "planned", amt |-> cached[w]]
            /\ w \notin Held(cached) => sell'["main"][w] = sell["main"][w]
            /\ sell'["batch"][w] = sell["batch"][w]
      BY <1>3, PlanIs DEF Owners
    <2>2. \A w \in Wallets : MainPlanned(w) /\ BatchPlanned(w)
      BY <1>1, <1>3, <2>1 DEF MainPlanned, BatchPlanned, Owners, Held
    <2>3. ASSUME NEW w \in Wallets, cached[w] > 0 PROVE sell'["main"][w].st = "planned"
      <3>1. sell'["main"][w] = [st |-> "planned", amt |-> cached[w]]
        BY <2>1, <2>3 DEF Held
      <3> QED
        BY <3>1
    <2> QED
      BY <1>1, <1>2, <1>3, <2>2, <2>3, PlainLoop
  <1>4. CASE TargetResponse /\ pc' = "drain" /\ UNCHANGED state
    <2>1. \A w \in Wallets : MainPlanned(w) /\ BatchPlanned(w)
      <3>1. CASE UNCHANGED <<dist, sell>>
        BY <3>1 DEF MainPlanned, BatchPlanned
      <3>2. ASSUME NEW S \in SUBSET Held(cached), sell' = Plan("batch", S, cached), dist = "idle",
                   dist' = "selling"
            PROVE  \A w \in Wallets : MainPlanned(w) /\ BatchPlanned(w)
        <4>1. \A w \in Wallets :
            /\ w \in S => sell'["batch"][w] = [st |-> "planned", amt |-> cached[w]]
            /\ w \notin S => sell'["batch"][w] = sell["batch"][w]
            /\ sell'["main"][w] = sell["main"][w]
          BY <3>2, PlanIs DEF Owners
        <4>2. \A w \in S : cached[w] > 0
          BY <3>2 DEF Held
        <4> QED
          BY <1>1, <3>2, <4>1, <4>2 DEF MainPlanned, BatchPlanned, Owners
      <3> QED
        BY <1>4, <3>1, <3>2 DEF TargetResponse, Orderly, Steady, Context, TypeOK
    <2> QED
      BY <1>1, <1>2, <1>4, <2>1, PlainLoop
  <1>5. CASE state' = "Distributing" /\ pc' = "drain" /\ UNCHANGED <<dist, sell>>
    <2>1. \A w \in Wallets : MainPlanned(w) /\ BatchPlanned(w)
      BY <1>5 DEF MainPlanned, BatchPlanned
    <2> QED
      BY <1>1, <1>2, <1>5, <2>1, PlainLoop
  <1>6. CASE StartBatch(cached, pendingBuys, 0) /\ pc' = Loop(state')
    <2>1. StartBatch(cached', pendingBuys, 0)
      BY <1>1, <1>6
    <2>2. /\ \A w \in Wallets : MainPlanned(w) /\ BatchPlanned(w)
          /\ state' \in {"Distributing", "Done"} /\ (state' = "Done" => Held(cached) = {})
      BY <1>1, <2>1, StartBatchPlans DEF MainPlanned
    <2>3. pc' \in {"drain", "stopped"} /\ (pc' = "stopped" => state' = "Done")
      BY <1>6 DEF Loop
    <2> QED
      BY <1>1, <1>2, <2>2, <2>3, PlainLoop
  <1> QED
    BY <1>3, <1>4, <1>5, <1>6 DEF OnRetailBuy

LEMMA ApplySettlementSound ==
  ASSUME Orderly, Context, Context', SoundNow, NEW b \in BuyIds, ApplySettlement(b) PROVE SoundNow'
  <1> DEFINE left == Minus(pendingBuys, 1)
  <1>1. /\ pc = "select" /\ buy[b].st \in {"ok", "err"} /\ b \in TrackedBuys
        /\ buy' = [buy EXCEPT ![b].st = "applied"]
        /\ UNCHANGED <<chain, stray, worker, graduated, exitAsked, sweepErr>>
    BY DEF ApplySettlement, inputVars, TrackedBuys, Tracked
  <1>2. PICK v \in Wallets : v = buy[b].w
    BY ContextTypes
  <1>3. cached[v] = 0 /\ Idle(v) /\ WalletSound(v)
    BY <1>1, <1>2 DEF SoundNow, BuySound
  <1>4. worker["round"][v] # "preflight"
    BY <1>1, <1>2 DEF Context, Cycle, BuyerFree
  <1>5. \A c \in BuyIds : /\ buy'[c].w = buy[c].w
                          /\ buy'[c].st = IF c = b THEN "applied" ELSE buy[c].st
    BY <1>1, ContextTypes DEF BuyType
  <1>6. \A c \in TrackedBuys' : c \in TrackedBuys /\ c # b /\ buy'[c].w = buy[c].w
    BY <1>5 DEF TrackedBuys, Tracked
  <1>7. cached' = cached \/ cached' = [cached EXCEPT ![v] = chain[v]]
    BY <1>2 DEF ApplySettlement, Orderly, Steady, Calm, bookVars
  <1>8. \A w \in Wallets : cached'[w] = cached[w] \/ (w = v /\ cached'[w] = chain[w])
    BY <1>7, ContextTypes
  <1>9. \A c \in TrackedBuys' : buy[c].w # v
    BY <1>1, <1>2, <1>6 DEF Context, Cycle
  <1>10. \A c \in TrackedBuys' : cached'[buy[c].w] = cached[buy[c].w]
    BY <1>6, <1>8, <1>9, ContextTypes
  <1>11. ASSUME \A w \in Wallets : MainPlanned(w) /\ BatchPlanned(w),
                pc' # "refresh", pc' = "sweep" => state' = "ClearAll",
                pc' = "stopped" => state' = "Done" /\ Held(cached') = {},
                state' = "ClearAll" => /\ state = "ClearAll"
                                       /\ cached'[v] = 0 \/ sell'["main"][v].st = "planned"
         PROVE  SoundNow'
    <2>1. LoopSound'
      BY <1>1, <1>11 DEF SoundNow, LoopSound
    <2>2. \A w \in Wallets : pc' = "stopped" => cached'[w] = 0 /\ chain[w] = 0
      <3>1. \A w \in Wallets : cached'[w] \in Nat
        BY DEF Context, TypeOK
      <3>2. pc' = "stopped" => Empty'
        BY <1>11, <2>1 DEF Context, Ends, LoopSound
      <3> QED
        BY <1>1, <1>11, <3>1, <3>2 DEF Empty, Held
    <2>3. ASSUME NEW w \in Wallets PROVE WalletSound(w)'
      <3>1. WalletSound(w) /\ cached[w] \in Nat /\ cached'[w] \in Nat
        BY DEF SoundNow, Context, TypeOK
      <3>2. state' = "ClearAll" /\ sell'["main"][w].st = "idle" => cached'[w] = 0
        <4>1. CASE w = v
          BY <1>11, <4>1
        <4>2. CASE w # v
          BY <1>1, <1>8, <1>11, <3>1, <4>2 DEF WalletSound
        <4> QED
          BY <4>1, <4>2
      <3>3. \/ cached'[w] = cached[w]
            \/ Idle(w) /\ cached'[w] = chain[w] /\ worker["round"][w] # "preflight"
        BY <1>3, <1>4, <1>8
      <3> QED
        BY <1>1, <1>11, <2>2, <3>1, <3>2, <3>3, WalletLoop
    <2>4. \A c \in TrackedBuys' : BuySound(c)'
      BY <1>1, <1>6, <1>10, <1>11, LoopBuys DEF SoundNow
    <2> QED
      BY <2>1, <2>3, <2>4 DEF SoundNow
  <1>12. CASE /\ state' = IF state = "ClearAll" /\ Drained(cached', left) THEN "Done" ELSE state
              /\ pc' = Loop(state') /\ UNCHANGED <<dist, sell>>
              /\ state = "ClearAll" => cached'[v] = 0
    <2>1. \A w \in Wallets : MainPlanned(w) /\ BatchPlanned(w)
      BY <1>12 DEF MainPlanned, BatchPlanned
    <2>2. state # "Done"
      BY <1>1 DEF Context, Ends
    <2>3. /\ pc' # "refresh" /\ pc' # "sweep"
          /\ pc' = "stopped" => state' = "Done" /\ Held(cached') = {}
      BY <1>12, <2>2 DEF Loop, Drained
    <2> QED
      BY <1>11, <1>12, <2>1, <2>3
  <1>13. CASE /\ state = "ClearAll" /\ cached'[v] > 0
              /\ sell' = Plan("main", {v}, cached') /\ pc' = "sweep" /\ UNCHANGED <<state, dist>>
    <2>1. \A w \in Wallets :
        /\ w = v => sell'["main"][w] = [st |-> "planned", amt |-> cached'[w]]
        /\ w # v => sell'["main"][w] = sell["main"][w]
        /\ sell'["batch"][w] = sell["batch"][w]
      BY <1>13, PlanIs DEF Owners
    <2>2. \A w \in Wallets : MainPlanned(w) /\ BatchPlanned(w)
      BY <1>13, <2>1 DEF MainPlanned, BatchPlanned, Owners
    <2>3. sell'["main"][v].st = "planned"
      <3>1. sell'["main"][v] = [st |-> "planned", amt |-> cached'[v]]
        BY <2>1
      <3> QED
        BY <3>1
    <2> QED
      BY <1>11, <1>13, <2>2, <2>3
  <1>14. CASE /\ state = "Distributing" /\ StartBatch(cached', left, batchSize) /\ pc' = Loop(state')
    <2>1. /\ \A w \in Wallets : MainPlanned(w) /\ BatchPlanned(w)
          /\ state' \in {"Distributing", "Done"} /\ (state' = "Done" => Held(cached') = {})
      BY <1>14, StartBatchPlans DEF MainPlanned
    <2>2. pc' \in {"drain", "stopped"} /\ (pc' = "stopped" => state' = "Done")
      BY <1>14 DEF Loop
    <2> QED
      BY <1>11, <2>1, <2>2
  <1>15. CASE buy[b].st = "err"
    <2>1. /\ state' = IF state = "ClearAll" /\ Drained(cached', left) THEN "Done" ELSE state
          /\ pc' = Loop(state') /\ UNCHANGED <<dist, sell, cached>>
      BY <1>15 DEF ApplySettlement, bookVars
    <2> QED
      BY <1>3, <1>12, <2>1
  <1>16. CASE buy[b].st = "ok"
    <2>1. cached' = [cached EXCEPT ![v] = chain[v]] /\ cached'[v] \in Nat
      BY <1>2, <1>16, ContextTypes DEF ApplySettlement, Orderly, Steady, Calm
    <2> QED
      BY <1>2, <1>12, <1>13, <1>14, <1>16, <2>1 DEF ApplySettlement
  <1> QED
    BY <1>1, <1>15, <1>16

LEMMA EndRefreshSound ==
  ASSUME Orderly, Context, SoundNow, EndRefresh PROVE SoundNow'
  <1>1. /\ pc = "refresh" /\ pc' = "sweep" /\ state = "ClearAll" /\ cached' = view
        /\ sell' = Plan("main", Held(view), view)
    BY DEF EndRefresh, Orderly, Steady, Calm, SoundNow, LoopSound
  <1>2. UNCHANGED <<state, dist, stray, worker, buy, chain, graduated, exitAsked, sweepErr>>
    BY DEF EndRefresh, inputVars, buyVars
  <1>3. \A w \in Wallets :
      /\ view[w] > 0 => sell'["main"][w] = [st |-> "planned", amt |-> view[w]]
      /\ ~(view[w] > 0) => sell'["main"][w] = sell["main"][w]
      /\ sell'["batch"][w] = sell["batch"][w]
    BY <1>1, PlanIs DEF Owners, Held
  <1>4. \A w \in Wallets : WalletSound(w) /\ sell["main"][w].st = "idle" /\ Idle(w)
    BY <1>1 DEF SoundNow, WalletSound
  <1>5. \A w \in Wallets : view[w] \in {0, 1} /\ view[w] <= chain[w] /\ chain[w] \in {0, 1}
    BY <1>1, <1>4, ContextTypes DEF WalletSound
  <1>6. \A w \in Wallets : view[w] = 1 \/ (view[w] = 0 /\ ~(view[w] > 0))
    BY <1>5
  <1>7. ASSUME NEW w \in Wallets
         PROVE  \A p \in Owners : sell'[p][w].st \notin {"sent", "ok"}
    <2>1. sell'["batch"][w].st \notin {"sent", "ok"}
      <3>1. sell'["batch"][w] = sell["batch"][w]
        BY <1>3
      <3> QED
        BY <1>4, <3>1 DEF Idle, Active, Owners
    <2>2. sell'["main"][w].st \notin {"sent", "ok"}
      <3>1. CASE view[w] = 1
        <4>1. sell'["main"][w] = [st |-> "planned", amt |-> view[w]]
          BY <1>3, <3>1
        <4> QED
          BY <4>1
      <3>2. CASE view[w] = 0 /\ ~(view[w] > 0)
        <4>1. sell'["main"][w] = sell["main"][w]
          BY <1>3, <3>2
        <4> QED
          BY <1>4, <4>1
      <3> QED
        BY <1>6, <3>1, <3>2
    <2> QED
      BY <2>1, <2>2 DEF Owners
  <1>8. ASSUME NEW w \in Wallets PROVE WalletSound(w)'
    <2>0. \/ sell'["main"][w] = [st |-> "planned", amt |-> 1]
          \/ sell'["main"][w] = sell["main"][w] /\ view[w] = 0
      <3>1. CASE view[w] = 1
        <4>1. sell'["main"][w] = [st |-> "planned", amt |-> view[w]]
          BY <1>3, <3>1
        <4> QED
          BY <3>1, <4>1
      <3>2. CASE view[w] = 0 /\ ~(view[w] > 0)
        BY <1>3, <3>2
      <3> QED
        BY <1>6, <3>1, <3>2
    <2>1. \A p \in Owners : sell'[p][w].st \notin {"sent", "ok"}
      BY <1>7
    <2>2. worker["round"][w] = "preflight" => view[w] = 0
      BY <1>5 DEF Context, Cycle, BuyerFree
    <2>3. \A p \in Owners : SellSound(p, w)'
      <3>1. SellSound("main", w) /\ SellSound("batch", w)
        BY <1>4 DEF WalletSound, Owners
      <3>2. SellSound("main", w)'
        BY <2>0, <2>1, <3>1 DEF SellSound, Owners
      <3>3. SellSound("batch", w)'
        <4>1. sell'["batch"][w] = sell["batch"][w]
          BY <1>3
        <4> QED
          BY <2>1, <3>1, <4>1 DEF SellSound, Owners
      <3> QED
        BY <3>2, <3>3 DEF Owners
    <2>4. sell'["main"][w].st = "idle" => view[w] = 0
      BY <2>0
    <2>5. sell'["batch"][w] = sell["batch"][w]
      BY <1>3 DEF Owners
    <2> QED
      BY <1>1, <1>2, <1>4, <1>5, <2>1, <2>2, <2>3, <2>4, <2>5 DEF WalletSound, Active, Idle, Owners
  <1>9. TrackedBuys' = TrackedBuys
    BY <1>2 DEF TrackedBuys
  <1>10. ASSUME NEW b \in TrackedBuys PROVE BuySound(b)'
    <2>1. PICK w \in Wallets : w = buy[b].w
      BY ContextTypes
    <2>2. \A p \in Owners : sell'[p][w].st \notin {"sent", "ok"}
      BY <1>7
    <2>3. CASE view[w] = 0
      BY <1>1, <1>2, <2>1, <2>2, <2>3 DEF BuySound, Idle, Active
    <2>4. CASE view[w] = 1
      <3>1. buy[b].tx = "ok"
        BY <1>5, <2>1, <2>4 DEF Context, Cycle
      <3> QED
        BY <1>1, <1>2, <3>1 DEF BuySound
    <2> QED
      BY <1>5, <2>3, <2>4
  <1> QED
    BY <1>1, <1>2, <1>8, <1>9, <1>10 DEF SoundNow, LoopSound

LEMMA EndSweepSound ==
  ASSUME Context, Ends', SoundNow, EndSweep PROVE SoundNow'
  <1>1. /\ pc = "sweep" /\ state = "ClearAll" /\ ~sweepErr /\ ~sweepErr'
        /\ \A w \in Wallets : sell["main"][w].st = "idle"
    BY DEF EndSweep, SoundNow, LoopSound
  <1>2. UNCHANGED <<dist, sell, stray, cached, worker, buy, chain, graduated, exitAsked, view>>
    BY DEF EndSweep, inputVars, buyVars, sellVars, bookVars
  <1>3. \/ state' = "Done" /\ pc' = "stopped"
        \/ state' = state /\ pc' = "drain"
    BY <1>1 DEF EndSweep
  <1>4. \A w \in Wallets : WalletSound(w) /\ cached[w] = 0 /\ Idle(w)
    BY <1>1 DEF SoundNow, WalletSound
  <1>5. LoopSound'
    BY <1>1, <1>2, <1>3 DEF SoundNow, LoopSound
  <1>6. \A w \in Wallets : pc' = "stopped" => chain[w] = 0
    BY <1>2, <1>3, <1>5 DEF Ends, Empty, LoopSound
  <1>7. ASSUME NEW w \in Wallets PROVE WalletSound(w)'
    BY <1>1, <1>2, <1>3, <1>4, <1>6 DEF WalletSound, SellSound, Active, Idle, Owners
  <1>8. TrackedBuys' = TrackedBuys
    BY <1>2 DEF TrackedBuys
  <1>9. ASSUME NEW b \in TrackedBuys PROVE BuySound(b)'
    BY <1>2, <1>4, ContextTypes DEF BuySound, Idle, Active
  <1> QED
    BY <1>5, <1>7, <1>8, <1>9 DEF SoundNow

LEMMA SellTickClearAllSound ==
  ASSUME Context, SoundNow, SellTickClearAll PROVE SoundNow'
  <1>1. pc = "select" /\ state = "ClearAll" /\ pc' = "refresh" /\ view' = chain
    BY DEF SellTickClearAll
  <1>2. UNCHANGED <<state, dist, sell, stray, cached, worker, buy, chain, graduated, exitAsked, sweepErr>>
    BY DEF SellTickClearAll, inputVars, buyVars, sellVars, bookVars
  <1>3. ASSUME NEW w \in Wallets PROVE WalletSound(w)'
    <2>1. WalletSound(w) /\ chain[w] <= chain[w]
      BY ContextTypes DEF SoundNow
    <2> QED
      BY <1>1, <1>2, <2>1 DEF WalletSound, SellSound, Active, Idle, Owners
  <1>4. TrackedBuys' = TrackedBuys
    BY <1>2 DEF TrackedBuys
  <1>5. ASSUME NEW b \in TrackedBuys PROVE BuySound(b)'
    BY <1>1, <1>2 DEF SoundNow, BuySound, Idle, Active
  <1> QED
    BY <1>1, <1>2, <1>3, <1>4, <1>5 DEF SoundNow, LoopSound

LEMMA SoundStep ==
  ASSUME Orderly, Context, Context', Sound, [Next]_vars PROVE Sound'
  <1> SUFFICES ASSUME exits' = 0 PROVE SoundNow'
    BY DEF Sound, SoundNow
  <1>1. CASE AskExit
    <2>1. exits \in Nat /\ exits' = exits + 1
      BY <1>1 DEF AskExit, Context, TypeOK
    <2> QED
      BY <2>1
  <1>2. ASSUME UNCHANGED <<loopVars, graduated, exitAsked, buy, dist, sell, stray, cached, chain>>,
               SoundNow, \A w \in Wallets : worker'["round"][w] = "preflight" => worker["round"][w] = "preflight"
        PROVE  SoundNow'
    <2>1. \A w \in Wallets : WalletSound(w)'
      BY <1>2, WalletSame DEF SoundNow, loopVars
    <2>2. TrackedBuys' = TrackedBuys
      BY <1>2 DEF TrackedBuys
    <2>3. ASSUME NEW b \in TrackedBuys PROVE BuySound(b)'
      BY <1>2, <2>3 DEF SoundNow, BuySound, Idle, Active, loopVars
    <2> QED
      BY <1>2, <2>1, <2>2, <2>3 DEF SoundNow, LoopSound, loopVars
  <1>3. ASSUME exits' = exits, SoundNow, Environment PROVE SoundNow'
    <2>1. ASSUME RetailTrade("buy") \/ RetailTrade("sell") \/ CancelRun PROVE SoundNow'
      BY <1>2, <1>3, <2>1 DEF RetailTrade, CancelRun, buyVars, sellVars, bookVars
    <2>2. ~Graduate
      BY DEF Graduate, Orderly
    <2>3. ASSUME NEW w \in Wallets PROVE ~MineStray(w)
      BY <1>3 DEF MineStray, SoundNow, WalletSound
    <2> QED
      BY <1>1, <1>3, <2>1, <2>2, <2>3, MineBuySound, MineSellSound DEF Environment
  <1>4. ASSUME exits' = exits, SoundNow, Goroutines PROVE SoundNow'
    <2>1. ASSUME NEW o \in Buyers, NEW w \in Wallets, AbandonBuy(o, w) PROVE SoundNow'
      <3>1. \A x \in Wallets : worker'["round"][x] = "preflight" => worker["round"][x] = "preflight"
        BY <2>1, ContextTypes DEF AbandonBuy, Buyers
      <3> QED
        BY <1>2, <1>4, <2>1, <3>1 DEF AbandonBuy, inputVars, sellVars, bookVars
    <2>2. ASSUME EndRound PROVE SoundNow'
      BY <1>2, <1>4, <2>2 DEF EndRound, inputVars, sellVars, bookVars
    <2>3. ~BootRead /\ ~BootStore
      BY DEF BootRead, BootStore, Context, Covered, Known
    <2>4. ASSUME NEW b \in BuyIds, CountBuy(b) \/ LoseReply(b) PROVE FALSE
      BY <2>4 DEF CountBuy, LoseReply, Context, Covered, Known, FateKnown
    <2>5. ASSUME NEW b \in BuyIds, StartSettling(b) \/ QueueSettlement(b) PROVE SoundNow'
      <3>1. PICK s \in {"settling", "ok", "err"} : buy' = [buy EXCEPT ![b].st = s]
        BY <2>5 DEF StartSettling, QueueSettlement
      <3>2. buy[b].st \in Tracked
        BY <2>5 DEF StartSettling, QueueSettlement, Tracked
      <3>3. UNCHANGED <<loopVars, inputVars, worker, sellVars, bookVars, chain>>
        BY <2>5 DEF StartSettling, QueueSettlement
      <3> QED
        BY <1>4, <3>1, <3>2, <3>3, StageSound
    <2> QED
      BY <1>4, <2>1, <2>2, <2>3, <2>4, <2>5, BroadcastSound, StartSellSound, NoSellFails,
         ConfirmSellSound, PickMakersSound, EndBatchSound DEF Goroutines
  <1>5. ASSUME exits' = exits, SoundNow, EventLoop PROVE SoundNow'
    <2>1. Ends'
      BY DEF Context
    <2>2. ASSUME OnRetailSell \/ NoRetailQueued \/ ApplyBatchResult \/ AccTick PROVE SoundNow'
      <3>1. /\ pc \in {"drain", "select"} /\ UNCHANGED sell /\ (dist = "selling" => dist' = "selling")
            /\ UNCHANGED <<chain, cached, stray, worker, buy, graduated, exitAsked, sweepErr>>
        BY <2>2 DEF OnRetailSell, NoRetailQueued, ApplyBatchResult, AccTick, BeginRound,
           inputVars, buyVars, sellVars, bookVars
      <3>2. \A w \in Wallets : MainPlanned(w) /\ BatchPlanned(w)
        BY <3>1 DEF MainPlanned, BatchPlanned
      <3>3. pc # "stopped" /\ state # "Done"
        BY <3>1 DEF Context, Ends
      <3>4. /\ pc' # "refresh" /\ pc' # "sweep"
            /\ pc' = "stopped" => state' = "Done" /\ Held(cached) = {}
            /\ state' = "ClearAll" => state = "ClearAll"
        BY <2>2, <3>3 DEF OnRetailSell, NoRetailQueued, ApplyBatchResult, AccTick, BeginRound,
           Loop, Drained
      <3> QED
        BY <1>5, <2>1, <3>1, <3>2, <3>4, PlainLoop
    <2>3. ASSUME SellTickDistribute PROVE SoundNow'
      <3>1. /\ pc = "select" /\ pc' = Loop(state')
            /\ UNCHANGED <<chain, cached, stray, worker, buy, graduated, exitAsked, sweepErr>>
        BY <2>3 DEF SellTickDistribute, inputVars, buyVars, bookVars
      <3>2. StartBatch(cached', pendingBuys, batchSize)
        BY <2>3, <3>1 DEF SellTickDistribute
      <3>3. /\ \A w \in Wallets : MainPlanned(w) /\ BatchPlanned(w)
            /\ state' \in {"Distributing", "Done"} /\ (state' = "Done" => Held(cached) = {})
        BY <3>1, <3>2, StartBatchPlans DEF MainPlanned
      <3>4. pc' \in {"drain", "stopped"} /\ (pc' = "stopped" => state' = "Done")
        BY <3>1 DEF Loop
      <3> QED
        BY <1>5, <2>1, <3>1, <3>3, <3>4, PlainLoop
    <2>4. ~ExitAll /\ ~BeginCheckedRound /\ ~ReserveTick /\ ~Shutdown
      BY <1>5 DEF ExitAll, BeginCheckedRound, ReserveTick, Shutdown, SoundNow, LoopSound, Context,
         Covered, Known, Cycle
    <2> QED
      BY <1>5, <2>1, <2>2, <2>3, <2>4, OnRetailBuySound, ApplySettlementSound, EndRefreshSound,
         EndSweepSound, SellTickClearAllSound DEF EventLoop
  <1>6. CASE UNCHANGED vars
    <2>1. SoundNow
      BY <1>6 DEF Sound, SoundNow, vars, inputVars
    <2> QED
      BY <1>2, <1>6, <2>1 DEF vars, inputVars, buyVars, sellVars, bookVars
  <1>7. ASSUME Next, ~AskExit PROVE exits' = exits
    <2>1. Environment /\ ~AskExit => exits' = exits
      BY DEF Environment, RetailTrade, Graduate, CancelRun, MineBuy, MineSell, MineStray, inputVars
    <2>2. Goroutines => exits' = exits
      BY DEF Goroutines, AbandonBuy, Broadcast, CountBuy, LoseReply, StartSettling, QueueSettlement,
         StartSell, RevertSell, FailSell, ConfirmSell, PickMakers, EndRound, EndBatch, BootRead,
         BootStore, inputVars
    <2>3. EventLoop => exits' = exits
      BY DEF EventLoop, OnRetailBuy, OnRetailSell, NoRetailQueued, ApplySettlement,
         ApplyBatchResult, ExitAll, EndRefresh, EndSweep, SellTickClearAll, SellTickDistribute,
         AccTick, BeginCheckedRound, ReserveTick, Shutdown, inputVars
    <2> QED
      BY <1>7, <2>1, <2>2, <2>3 DEF Next, Finished, vars, inputVars
  <1>8. CASE Next /\ ~AskExit
    <2>1. exits' = exits /\ SoundNow
      BY <1>7, <1>8 DEF Sound, SoundNow
    <2> QED
      BY <1>3, <1>4, <1>5, <1>6, <1>8, <2>1 DEF Next, Finished
  <1> QED
    BY <1>1, <1>6, <1>8

\* In an orderly run, until a one-click exit is asked for, no sell is on its way
\* for more than its wallet holds, whichever of the batch goroutine and the
\* event loop sends it: the plans are stale, but the cache that sellOnceWithQuote
\* reads again under sellMu promises no more than the chain has, and a sweep's
\* own balance refresh finds no other sell in flight.
THEOREM NoOversellCorrect ==
  ASSUME Orderly PROVE Spec => []NoOversellBeforeExit
  <1> DEFINE Inv == TypeOK /\ PendingBuysExact /\ Covered /\ Cycle /\ Ends /\ Sound
  <1>1. Init => Inv
    BY TypeInit, PendingBuysInit, CoveredInit, CycleInit, EndsInit, SoundInit DEF Orderly, Steady
  <1>2. Inv /\ [Next]_vars => Inv'
    <2>1. ASSUME Inv, [Next]_vars PROVE Inv'
      <3>1. TypeOK' /\ PendingBuysExact'
        BY <2>1, TypeStep, PendingBuysStep
      <3>2. Covered' /\ Cycle'
        BY <2>1, <3>1, CoveredStep, CycleStep DEF Orderly, Steady
      <3>3. Ends'
        BY <2>1, <3>1, <3>2, EndsStep DEF Orderly, Steady
      <3>4. Sound'
        BY <2>1, <3>1, <3>2, <3>3, SoundStep DEF Context
      <3> QED
        BY <3>1, <3>2, <3>3, <3>4
    <2> QED
      BY <2>1
  <1>3. Inv => NoOversellBeforeExit
    <2>1. ASSUME Inv, exits = 0, NEW o \in Owners, NEW w \in Wallets, sell[o][w].st = "sent"
          PROVE  sell[o][w].amt <= chain[w]
      BY <2>1 DEF Sound, WalletSound, SellSound
    <2> QED
      BY <2>1 DEF NoOversellBeforeExit, NoOversell
  <1> HIDE DEF Inv
  <1> QED
    BY <1>1, <1>2, <1>3, PTL DEF Spec

=============================================================================
