---------------------------- MODULE LaunchProofs ----------------------------
(***************************************************************************)
(* Proofs about Launch for every value of its constants: what RouterProofs   *)
(* shows of the router holds of the program's use of it.                     *)
(***************************************************************************)
EXTENDS Launch, RouterProofs, FiniteSetTheorems

\* The transactions of the program name its wallets and the curves it creates.
FromHere(tx) == tx.from \in Accounts /\ tx.curve \in Curves /\ Placed(tx.buys)

Named ==
  /\ attempt \in Curves
  /\ \A tx \in pool \cup spam : FromHere(tx)
  /\ DOMAIN buys \subseteq MakerSet /\ DOMAIN park \subseteq MakerSet
  /\ home \subseteq MakerSet

Inv == RouterInv /\ Named

LEMMA Wallets ==
  /\ MakerSet \subseteq Accounts /\ Treasury \in Accounts /\ Other \in Accounts
  /\ Treasury # Other /\ Treasury \notin MakerSet /\ Other \notin MakerSet
BY LaunchAssumption

LEMMA MakerNames == Makers[1] \in MakerSet
<1>1. Makers \in Seq(Accounts) /\ Makers # <<>>
  BY LaunchAssumption
<1>2. 1 \in DOMAIN Makers
  BY <1>1
<1> QED
  BY <1>2 DEF MakerSet, Range

LEMMA NonePlaced == Placed(<<>>)
<1>1. DOMAIN <<>> = {}
  OBVIOUS
<1> QED
  BY <1>1, FS_EmptySet DEF Placed

LEMMA OnePlaced == \A buy : Placed(<<buy>>)
<1>1. \A buy : DOMAIN <<buy>> = {1}
  OBVIOUS
<1> QED
  BY <1>1, FS_Singleton DEF Placed

LEMMA AtomicPlaced == Placed(AtomicBuys)
<1>1. Makers \in Seq(Accounts)
  BY LaunchAssumption
<1>2. Len(Makers) \in Nat /\ DOMAIN AtomicBuys \subseteq 1..Len(Makers)
  BY <1>1 DEF AtomicBuys
<1>3. IsFiniteSet(1..Len(Makers))
  BY <1>2, FS_Interval
<1> QED
  BY <1>2, <1>3, FS_Subset DEF Placed

LEMMA InitHolds == Init => Inv
<1> SUFFICES ASSUME Init PROVE Inv
  OBVIOUS
<1> USE LaunchAssumption, RouterAssumption, Wallets
<1>1. PICK for \in {Treasury, Other}, ws \in {{}, {Makers[1]}, MakerSet} : EarlierDeposits(for, ws)
  BY DEF Init
<1>2. ws \subseteq MakerSet /\ IsFiniteSet(ws)
  BY MakerNames, FS_Subset
<1>3. totalDeposits \in Nat
  <2>1. Cardinality(ws) \in Nat
    BY <1>2, FS_CardinalityType
  <2> QED
    BY <1>1, <2>1 DEF EarlierDeposits
<1>4. \A a \in ws : Funds[a] >= EarlierDeposit
  BY <1>2
<1>5. /\ eth \in [Accounts -> Nat] /\ deposits \in [Accounts -> Nat]
      /\ operatorOf \in [Accounts -> Accounts \cup {None}]
      /\ \A a \in Accounts : eth[a] + deposits[a] = Funds[a]
      /\ \A a \in Accounts : deposits[a] # 0 => operatorOf[a] # None
  BY <1>1, <1>2, <1>4 DEF EarlierDeposits
<1>6. /\ paid = [a \in Accounts |-> 0] /\ tokens = [a \in Accounts |-> 0]
      /\ left = [c \in Curves |-> 0] /\ launchBlock = [c \in Curves |-> 0] /\ block = 1
  BY DEF Init
<1>7. NobodyLoses
  <2> SUFFICES ASSUME NEW a \in Accounts PROVE eth[a] + deposits[a] + paid[a] >= Funds[a]
    BY DEF NobodyLoses
  <2>1. eth[a] + deposits[a] = Funds[a] /\ Funds[a] \in Nat /\ paid[a] = 0
    BY <1>5, <1>6
  <2>2. eth[a] + deposits[a] + paid[a] = Funds[a]
    BY <2>1
  <2> QED
    BY <2>1, <2>2
<1>9. held = totalDeposits
  BY <1>1 DEF EarlierDeposits
<1>8. totalDeposits = SumOf(deposits)
  <2>1. ws \in SUBSET Accounts /\ EarlierDeposit \in Nat /\ IsFiniteSet(Accounts)
    BY <1>2
  <2>2. /\ deposits = [a \in Accounts |-> IF a \in ws THEN EarlierDeposit ELSE 0]
        /\ totalDeposits = Cardinality(ws) * EarlierDeposit
    BY <1>1 DEF EarlierDeposits
  <2>3. SumOf([a \in Accounts |-> IF a \in ws THEN EarlierDeposit ELSE 0])
          = Cardinality(ws) * EarlierDeposit
    BY <2>1, SumOfSame
  <2> QED
    BY <2>2, <2>3
<1>10. /\ paid \in [Accounts -> Nat] /\ tokens \in [Accounts -> Nat] /\ block \in Nat
       /\ left \in [Curves -> Nat] /\ launchBlock \in [Curves -> Nat]
  BY <1>6
<1>11. held \in Nat /\ held >= totalDeposits
  BY <1>3, <1>9
<1>12. RouterInv
  BY <1>3, <1>5, <1>7, <1>8, <1>10, <1>11 DEF RouterInv
<1>13. Named
  BY DEF Init, Named, NoBuys
<1> QED
  BY <1>12, <1>13 DEF Inv
-----------------------------------------------------------------------------
(* The chain.                                                               *)

LEMMA OfficialLaunchKeeps ==
  ASSUME RouterInv, NEW tx, FromHere(tx), OfficialLaunch(tx)
  PROVE RouterInv' /\ OperatorKept
<1> DEFINE s == tx.from
           c == tx.curve
           fill == OpeningFill(tx.quoteIn)
<1>1. s \in Accounts /\ c \in Curves
  BY DEF FromHere
<1>2. LaunchTerms(s, c, tx.quoteIn, s, tx.value)
  BY DEF OfficialLaunch
<1>3. fill \in Nat /\ fill <= Room /\ Fee + fill <= eth[s]
  BY <1>1, <1>2, OpeningBound
<1>4. /\ left' = [left EXCEPT ![c] = Room - fill]
      /\ tokens' = [tokens EXCEPT ![s] = @ + fill]
      /\ paid' = [paid EXCEPT ![s] = @ + Fee + fill]
      /\ eth' = [eth EXCEPT ![s] = @ - Fee - fill]
      /\ UNCHANGED <<held, launchBlock, deposits, operatorOf, totalDeposits, block>>
  BY DEF OfficialLaunch
<1> HIDE DEF fill, s, c
<1>5. /\ eth' \in [Accounts -> Nat] /\ paid' \in [Accounts -> Nat]
      /\ tokens' \in [Accounts -> Nat] /\ left' \in [Curves -> Nat]
  BY <1>1, <1>3, <1>4, RouterAssumption DEF RouterInv
<1>6. \A a \in Accounts : eth'[a] + paid'[a] >= eth[a] + paid[a]
  BY <1>1, <1>3, <1>4, RouterAssumption DEF RouterInv
<1>7. NobodyLoses'
  BY <1>4, <1>5, <1>6, RouterAssumption DEF RouterInv, NobodyLoses
<1> QED
  BY <1>4, <1>5, <1>7 DEF RouterInv, OperatorKept

LEMMA CurveBuyKeeps ==
  ASSUME RouterInv, NEW tx, FromHere(tx), CurveBuy(tx)
  PROVE RouterInv' /\ OperatorKept
<1> DEFINE s == tx.from
           c == tx.curve
           fill == Least(tx.value, left[c])
<1>1. s \in Accounts /\ c \in Curves
  BY DEF FromHere
<1>2. fill \in Nat /\ fill <= eth[s] /\ fill <= left[c]
  <2>1. tx.value \in 1..eth[s] /\ left[c] > 0
    BY DEF CurveBuy
  <2>2. eth[s] \in Nat /\ left[c] \in Nat
    BY <1>1 DEF RouterInv
  <2> HIDE DEF s, c
  <2> QED
    BY <2>1, <2>2 DEF Least
<1>3. /\ left' = [left EXCEPT ![c] = @ - fill]
      /\ tokens' = [tokens EXCEPT ![s] = @ + fill]
      /\ paid' = [paid EXCEPT ![s] = @ + fill]
      /\ eth' = [eth EXCEPT ![s] = @ - fill]
      /\ UNCHANGED <<held, launchBlock, deposits, operatorOf, totalDeposits, block>>
  BY DEF CurveBuy
<1> HIDE DEF fill, s, c
<1>4. /\ eth' \in [Accounts -> Nat] /\ paid' \in [Accounts -> Nat]
      /\ tokens' \in [Accounts -> Nat] /\ left' \in [Curves -> Nat]
  BY <1>1, <1>2, <1>3 DEF RouterInv
<1>5. \A a \in Accounts : eth'[a] + paid'[a] >= eth[a] + paid[a]
  BY <1>1, <1>2, <1>3 DEF RouterInv
<1>6. NobodyLoses'
  BY <1>3, <1>4, <1>5, RouterAssumption DEF RouterInv, NobodyLoses
<1> QED
  BY <1>3, <1>4, <1>6 DEF RouterInv, OperatorKept

LEMMA TransactionKeeps ==
  ASSUME RouterInv, NEW tx, FromHere(tx), Call(tx)
  PROVE RouterInv' /\ OperatorKept
<1> tx.from \in Accounts /\ tx.curve \in Curves /\ Placed(tx.buys) /\ Treasury \in Accounts
  BY Wallets DEF FromHere
<1>1. CASE Deposit(tx.from, Treasury, tx.value)
  BY <1>1, DepositKeeps
<1>2. CASE Withdraw(tx.from, 0)
  BY <1>2, WithdrawKeeps
<1>3. CASE OfficialLaunch(tx)
  BY <1>3, OfficialLaunchKeeps
<1>4. CASE CurveBuy(tx)
  BY <1>4, CurveBuyKeeps
<1>5. CASE Launch(tx.from, tx.curve, tx.quoteIn, tx.from, tx.value)
  BY <1>5, LaunchKeeps
<1>6. CASE BuyAfterLaunch(tx.from, tx.curve, Window, tx.from, tx.value)
  BY <1>6, RoutedBuyKeeps DEF BuyAfterLaunch
<1>7. CASE LaunchAndBuyAtomic(tx.from, tx.curve, tx.quoteIn, tx.from, tx.value, tx.buys)
  BY <1>7, LaunchAndBuyAtomicKeeps
<1> QED
  BY <1>1, <1>2, <1>3, <1>4, <1>5, <1>6, <1>7 DEF Call

\* Every step leaves the router alone, or is one of its transactions, or a new block.
LEMMA RouterStepKeeps ==
  ASSUME RouterInv, Named, [Next]_vars
  PROVE RouterInv' /\ OperatorKept
<1>1. CASE UNCHANGED routerVars
  BY <1>1 DEF routerVars, RouterInv, NobodyLoses, OperatorKept
<1>2. CASE Tick
  BY <1>2 DEF Tick, RouterInv, NobodyLoses, OperatorKept
<1>3. CASE \E tx \in pool : Include(tx)
  <2>1. PICK tx \in pool : Include(tx)
    BY <1>3
  <2>2. FromHere(tx)
    BY DEF Named
  <2> QED
    BY <1>1, <2>1, <2>2, TransactionKeeps DEF Include
<1>4. ASSUME Next, ~ \E tx \in pool : Include(tx), ~NextBlock
      PROVE UNCHANGED routerVars
  <2>1. CASE Program
    BY <2>1 DEF Program, SendLaunch, LaunchLanded, LaunchReverted, LaunchTimeout, ParkingOver,
                BurstOver, Excluded, Kept, SendDeposit, Panic, BurstBuy, UnchangedByPark
  <2>2. CASE \E m \in Modes : Prepare(m)
    BY <2>2 DEF Prepare
  <2>3. CASE \/ \E w \in DOMAIN park : DepositReadFails(w)
             \/ SendFails
             \/ \E w \in DOMAIN buys : BurstBuy(w, FALSE)
             \/ \E w \in home, ok \in BOOLEAN : Home(w, ok)
             \/ \E tx \in spam : Resend(tx)
             \/ \E tx \in pend : Settle(tx) \/ SettleTimeout(tx)
             \/ \E tx \in pool : Refuse(tx)
             \/ \E w \in MakerSet : OtherLaunch(w)
    BY <2>3 DEF DepositReadFails, SendFails, BurstBuy, Home, Resend, Settle, SettleTimeout, Refuse,
                OtherLaunch, UnchangedByPark, UnchangedBySettle
  <2> QED
    BY <1>4, <2>1, <2>2, <2>3 DEF Next
<1> QED
  BY <1>1, <1>2, <1>3, <1>4 DEF NextBlock, vars
-----------------------------------------------------------------------------
(* The program.                                                             *)

LEMMA SizedDomain == \A ws : DOMAIN Sized(ws) \subseteq ws
BY DEF Sized

LEMMA FundedNames == BurstMakers \subseteq MakerSet
BY DEF BurstMakers, MakerSet, Range

LEMMA FirstNames == \A n \in Nat : First(n) \subseteq MakerSet
<1> SUFFICES ASSUME NEW n \in Nat, NEW i \in 1..Least(n, Len(Makers)) PROVE Makers[i] \in MakerSet
  BY DEF First
<1>1. Makers \in Seq(Accounts)
  BY LaunchAssumption
<1>2. i \in DOMAIN Makers
  BY <1>1, LeastBound
<1> QED
  BY <1>2 DEF MakerSet, Range

LEMMA ProgramNamed ==
  ASSUME Named, Program
  PROVE Named'
<1> USE Wallets
<1>1. CASE SendLaunch
  <2>1. FromHere(LaunchTx)
    BY NonePlaced, AtomicPlaced DEF LaunchTx, Tx, FromHere, Named
  <2>2. DOMAIN buys' \subseteq DOMAIN buys /\ \A tx \in spam' \ spam : FromHere(tx)
    <3>1. \A spends : DOMAIN spends \subseteq MakerSet => \A tx \in BuyTxs(spends) : FromHere(tx)
      BY NonePlaced DEF BuyTxs, BuyTx, Tx, FromHere, Named
    <3>2. DOMAIN Sized(DOMAIN buys) \subseteq DOMAIN buys
      BY SizedDomain
    <3> QED
      BY <1>1, <3>1, <3>2 DEF SendLaunch, Named
  <2> QED
    BY <1>1, <2>1, <2>2 DEF SendLaunch, Named, FromHere, Fail
<1>2. CASE LaunchLanded
  BY <1>2, SizedDomain, FundedNames DEF LaunchLanded, Named, FromHere, Homeward, Book
<1>3. CASE LaunchReverted
  BY <1>3 DEF LaunchReverted, Named, FromHere, Fail
<1>4. CASE LaunchTimeout
  BY <1>4 DEF LaunchTimeout, Named, FromHere, Fail
<1>5. CASE ParkingOver
  BY <1>5 DEF ParkingOver, Named, FromHere, Fail, UnchangedByPark, NoBuys
<1>6. CASE BurstOver
  BY <1>6 DEF BurstOver, Named, FromHere
<1>7. CASE \E w \in DOMAIN park : Excluded(w) \/ SendDeposit(w)
  <2>1. PICK w \in DOMAIN park : Excluded(w) \/ SendDeposit(w)
    BY <1>7
  <2>2. FromHere(DepositTx(w))
    BY <2>1, NonePlaced DEF DepositTx, Tx, FromHere, Named
  <2> QED
    BY <2>1, <2>2 DEF Excluded, SendDeposit, Named, FromHere, Parked, UnchangedByPark
<1>8. CASE \E w \in DOMAIN park : Kept(w) \/ Panic(w)
  BY <1>8 DEF Kept, Panic, Named, FromHere, Parked, UnchangedByPark, NoBuys
<1>9. CASE \E w \in DOMAIN buys : BurstBuy(w, TRUE)
  BY <1>9, NonePlaced DEF BurstBuy, BuyTx, Tx, Named, FromHere
<1> QED
  BY <1>1, <1>2, <1>3, <1>4, <1>5, <1>6, <1>7, <1>8, <1>9 DEF Program

LEMMA StepNamed ==
  ASSUME Named, [Next]_vars
  PROVE Named'
<1> USE Wallets
<1>1. CASE Program
  BY <1>1, ProgramNamed
<1>2. CASE \E m \in Modes : Prepare(m)
  <2>1. PICK m \in Modes : Prepare(m)
    BY <1>2
  <2>2. DOMAIN buys' \subseteq MakerSet /\ DOMAIN park' \subseteq MakerSet
    <3>1. \A ws : DOMAIN Sized(ws) \subseteq ws
      BY SizedDomain
    <3>2. DOMAIN NoBuys = {}
      BY DEF NoBuys
    <3>3. First(BundleBuyCount) \subseteq MakerSet
      BY FirstNames, LaunchAssumption
    <3>4. DOMAIN buys' \subseteq MakerSet
      <4>1. DOMAIN buys' \in {DOMAIN Sized(BurstMakers), First(BundleBuyCount), {}}
        BY <2>1, <3>2 DEF Prepare
      <4> QED
        BY <3>1, <3>3, <4>1, FundedNames
    <3> QED
      BY <2>1, <3>4 DEF Prepare, Named, Fail
  <2> QED
    BY <2>1, <2>2 DEF Prepare, Named, FromHere
<1>3. CASE SendFails
  <2>1. FromHere(LaunchTx)
    BY NonePlaced, AtomicPlaced DEF LaunchTx, Tx, FromHere, Named
  <2> QED
    BY <1>3, <2>1 DEF SendFails, Named, FromHere
<1>4. CASE \/ \E w \in DOMAIN park : DepositReadFails(w)
           \/ \E w \in DOMAIN buys : BurstBuy(w, FALSE)
  BY <1>4, NonePlaced DEF DepositReadFails, BurstBuy, BuyTx, Tx, Named, FromHere, UnchangedByPark, NoBuys
<1>5. CASE \E w \in home, ok \in BOOLEAN : Home(w, ok)
  BY <1>5, NonePlaced DEF Home, Tx, Named, FromHere, NoBuys
<1>6. CASE \/ \E tx \in spam : Resend(tx)
           \/ \E tx \in pend : Settle(tx) \/ SettleTimeout(tx)
  BY <1>6 DEF Resend, Settle, SettleTimeout, UnchangedBySettle, Named, FromHere
<1>7. CASE \E tx \in pool : Include(tx) \/ Refuse(tx)
  BY <1>7 DEF Include, Refuse, UnchangedByChain, localVars, Named, FromHere
<1>8. CASE \E w \in MakerSet : OtherLaunch(w)
  <2>1. PICK w \in MakerSet : OtherLaunch(w)
    BY <1>8
  <2>2. \A tx \in pool' \ pool : FromHere(tx)
    <3> DEFINE b == [wallet |-> w, quoteIn |-> 1]
               own == [Tx("atomic", Other) EXCEPT !.curve = 0, !.value = Fee, !.buys = <<b>>]
    <3>1. own.from = Other /\ own.curve = 0 /\ own.buys = <<b>>
      BY DEF Tx
    <3>2. pool' = pool \cup {own}
      BY <2>1 DEF OtherLaunch
    <3> HIDE DEF own, b
    <3> QED
      BY <3>1, <3>2, OnePlaced, LaunchAssumption DEF FromHere
  <2> QED
    BY <2>1, <2>2 DEF OtherLaunch, localVars, Named, FromHere
<1>9. CASE NextBlock \/ UNCHANGED vars
  BY <1>9 DEF NextBlock, vars, UnchangedByChain, localVars, Named, FromHere
<1> QED
  BY <1>1, <1>2, <1>3, <1>4, <1>5, <1>6, <1>7, <1>8, <1>9 DEF Next

LEMMA InvHolds == Spec => []Inv
<1>1. Inv /\ [Next]_vars => Inv'
  BY RouterStepKeeps, StepNamed DEF Inv
<1> QED
  BY <1>1, InitHolds, PTL DEF Spec

\* Through any launches, with their resubmissions, timeouts and reverts, no maker
\* and no treasury loses ether in the router.
THEOREM NobodyLosesByLaunching == Spec => []NobodyLoses
<1>1. Spec => []Inv
  BY InvHolds
<1> QED
  BY <1>1, PTL DEF Inv, RouterInv

\* A maker's deposit keeps its operator while it is parked.
THEOREM OperatorIsKeptByLaunching == Spec => OperatorStays
<1>1. Inv /\ [Next]_vars => [OperatorKept]_routerVars
  BY RouterStepKeeps DEF Inv
<1>2. Spec => []Inv
  BY InvHolds
<1> QED
  BY <1>1, <1>2, PTL DEF Spec, OperatorStays, OperatorKept
-----------------------------------------------------------------------------
(* Types.                                                                   *)

\* What a call of the program's, or of the other one, gives no one loses.
LEMMA TokensGrow ==
  ASSUME RouterInv, NEW tx, FromHere(tx), Call(tx)
  PROVE  \A a \in Accounts : tokens'[a] - tokens[a] \in Nat
<1> USE DEF RouterInv
<1>0. tx.from \in Accounts /\ tx.curve \in Curves
  BY DEF FromHere
<1>1. CASE Deposit(tx.from, Treasury, tx.value) \/ Withdraw(tx.from, 0)
  BY <1>1 DEF Deposit, Withdraw
<1>2. CASE OfficialLaunch(tx) \/ Launch(tx.from, tx.curve, tx.quoteIn, tx.from, tx.value)
  <2> DEFINE fill == OpeningFill(tx.quoteIn)
  <2>1. LaunchTerms(tx.from, tx.curve, tx.quoteIn, tx.from, tx.value)
    BY <1>2 DEF OfficialLaunch, Launch
  <2>2. fill \in Nat
    BY <1>0, <2>1, OpeningBound
  <2>3. tokens' = [tokens EXCEPT ![tx.from] = @ + fill]
    BY <1>2 DEF OfficialLaunch, Launch
  <2> HIDE DEF fill
  <2> QED
    BY <2>2, <2>3
<1>3. CASE CurveBuy(tx) \/ BuyAfterLaunch(tx.from, tx.curve, Window, tx.from, tx.value)
  <2> DEFINE fill == Least(tx.value, left[tx.curve])
  <2>1. tx.value \in 1..eth[tx.from]
    BY <1>3 DEF CurveBuy, BuyAfterLaunch, RoutedBuy
  <2>2. tx.value \in Nat /\ left[tx.curve] \in Nat
    BY <1>0, <2>1
  <2>3. fill \in Nat
    BY <2>2, LeastBound
  <2>4. tokens' = [tokens EXCEPT ![tx.from] = @ + fill]
    BY <1>3 DEF CurveBuy, BuyAfterLaunch, RoutedBuy
  <2> HIDE DEF fill
  <2> QED
    BY <2>3, <2>4
<1>4. CASE LaunchAndBuyAtomic(tx.from, tx.curve, tx.quoteIn, tx.from, tx.value, tx.buys)
  <2> DEFINE fill == OpeningFill(tx.quoteIn)
             fills == Fills(tx.buys, Room - fill)
  <2>1. LaunchTerms(tx.from, tx.curve, tx.quoteIn, tx.from, tx.value) /\ BuysCovered(tx.from, tx.buys, fills)
    BY <1>4 DEF LaunchAndBuyAtomic
  <2>2. fill \in Nat
    BY <1>0, <2>1, OpeningBound
  <2>3. \A w \in Accounts : fills[w] \in Nat
    BY <2>1, FillsBound
  <2>4. tokens' = [w \in Accounts |-> tokens[w] + fills[w] + IF w = tx.from THEN fill ELSE 0]
    BY <1>4 DEF LaunchAndBuyAtomic
  <2> HIDE DEF fill, fills
  <2> QED
    BY <2>2, <2>3, <2>4
<1> QED
  BY <1>1, <1>2, <1>3, <1>4 DEF Call

Stages == {"idle", "park", "send", "sent", "burst", "running", "failed"}
ParkStages == {"read", "sent", "kept", "dropped"}
\* Only a window launch that is not sent has buys without an amount.
Due(w) == buys[w] \in Nat /\ (buys[w] = 0 => mode = "window" /\ pc \in {"send", "failed"})
TypeInv ==
  /\ booked \in [Accounts -> Nat]
  /\ \A r \in mined : r.ok \in BOOLEAN /\ (r.ok => r.fills \in [Accounts -> Nat])
  /\ mode \in Modes \cup {None} /\ pc \in Stages
  /\ \A w \in DOMAIN buys : Due(w)
  /\ \A w \in DOMAIN park : park[w] \in ParkStages
  /\ pc = "park" => DOMAIN park = DOMAIN buys
  /\ pc = "burst" => mode = "off" /\ Mined(LaunchTx)
  /\ home \subseteq MakerSet /\ unsure \subseteq Accounts
  /\ \A tx \in pend : tx.from \in MakerSet

LEMMA ReceiptIs == \A tx : Mined(tx) => Receipt(tx) \in mined /\ Receipt(tx).tx = tx
BY DEF Mined, Receipt

\* While the burst is sent, its launch has a receipt.
LEMMA BurstKept ==
  ASSUME TypeInv, UNCHANGED <<mode, attempt>>, mined \subseteq mined', pc' = "burst" => pc = "burst"
  PROVE  (pc = "burst" => mode = "off" /\ Mined(LaunchTx))'
<1>1. \A tx : Mined(tx) => Mined(tx)'
  BY DEF Mined
<1>2. mode = "off" => LaunchTx' = LaunchTx
  BY DEF LaunchTx, Tx
<1> QED
  BY <1>1, <1>2 DEF TypeInv

LEMMA SizedType ==
  ASSUME RouterInv, NEW ws \in SUBSET Accounts
  PROVE  \A w \in DOMAIN Sized(ws) : Sized(ws)[w] \in Nat \ {0}
<1>1. \A w \in ws : Spend(w) \in Int
  <2>1. \A w \in ws : eth[w] \in Nat
    BY DEF RouterInv
  <2>2. Gas \in Nat
    BY LaunchAssumption
  <2> QED
    BY <2>1, <2>2 DEF Spend
<1> QED
  BY <1>1 DEF Sized

LEMMA InitTypes == Init => TypeInv
BY DEF Init, TypeInv, Due, Stages, NoBuys

LEMMA ParkingTypes ==
  ASSUME Inv, TypeInv, NEW w \in DOMAIN park,
         Excluded(w) \/ Kept(w) \/ SendDeposit(w) \/ Panic(w) \/ DepositReadFails(w)
  PROVE  TypeInv'
<1> USE DEF TypeInv, Due
<1>1. CASE Excluded(w) \/ SendDeposit(w)
  <2>1. /\ park' \in {[park EXCEPT ![w] = "dropped"], [park EXCEPT ![w] = "sent"]}
        /\ pc = "park" /\ UNCHANGED <<booked, mined, mode, pc, buys, home, unsure, pend>>
    BY <1>1 DEF Excluded, SendDeposit, Parked, UnchangedByPark
  <2>2. \A x \in DOMAIN park' : park'[x] \in ParkStages
    BY <2>1 DEF ParkStages
  <2>3. \A x \in DOMAIN buys' : Due(x)'
    BY <2>1
  <2> HIDE DEF Due
  <2> QED
    BY <2>1, <2>2, <2>3
<1>2. CASE Kept(w)
  <2>1. /\ park' = [park EXCEPT ![w] = "kept"]
        /\ buys' = buys \/ (deposits[w] > 0 /\ buys' = [buys EXCEPT ![w] = deposits[w]])
        /\ pc = "park" /\ UNCHANGED <<booked, mined, mode, pc, home, unsure, pend>>
    BY <1>2 DEF Kept, Parked, UnchangedByPark
  <2>2. \A x \in DOMAIN park' : park'[x] \in ParkStages
    BY <2>1 DEF ParkStages
  <2>3. deposits[w] \in Nat
    BY Wallets DEF Inv, RouterInv, Named
  <2>4. \A x \in DOMAIN buys' : Due(x)'
    <3>1. \A x \in DOMAIN buys' :
            x \in DOMAIN buys /\ (buys'[x] = buys[x] \/ (buys'[x] \in Nat /\ buys'[x] # 0))
      <4> HIDE DEF TypeInv, Due
      <4> QED
        BY <2>1, <2>3
    <3> QED
      BY <2>1, <3>1
  <2> HIDE DEF Due
  <2> QED
    BY <2>1, <2>2, <2>4
<1>3. CASE Panic(w) \/ DepositReadFails(w)
  BY <1>3 DEF Panic, DepositReadFails, UnchangedByPark, NoBuys, Stages, Fail
<1> QED
  BY <1>1, <1>2, <1>3

LEMMA PrepareTypes ==
  ASSUME Inv, TypeInv, NEW m \in Modes, Prepare(m)
  PROVE  TypeInv'
<1>1. \A w \in DOMAIN buys' : Due(w)'
  <2>1. BurstMakers \subseteq Accounts
    BY FundedNames, Wallets
  <2>2. \A w \in DOMAIN Sized(BurstMakers) : Sized(BurstMakers)[w] \in Nat \ {0}
    BY <2>1, SizedType DEF Inv
  <2>3. CASE m = "window"
    <3>1. buys' = [w \in First(BundleBuyCount) |-> 0] /\ pc' \in {"send", "failed"} /\ mode' = m
      BY <2>3 DEF Prepare, Fail
    <3> QED
      BY <2>3, <3>1 DEF Due
  <2>4. CASE m # "window"
    <3>1. buys' \in {Sized(BurstMakers), NoBuys}
      BY <2>4 DEF Prepare
    <3>2. \A w \in DOMAIN buys' : buys'[w] \in Nat \ {0}
      BY <2>2, <3>1 DEF NoBuys
    <3> QED
      BY <3>2 DEF Due
  <2> QED
    BY <2>3, <2>4
<1>2. /\ mode' = m /\ pc' \in {"failed", "park", "send"}
      /\ park' = park \/ \A w \in DOMAIN park' : park'[w] = "read"
      /\ pc' = "park" => DOMAIN park' = DOMAIN buys'
      /\ UNCHANGED <<booked, mined, home, unsure, pend>>
  BY DEF Prepare, Fail
<1> QED
  BY <1>1, <1>2 DEF TypeInv, Stages, ParkStages

LEMMA ReceiptTypes ==
  ASSUME Inv, TypeInv, LaunchLanded \/ BurstOver \/ \E tx \in pend : Settle(tx)
  PROVE  TypeInv'
<1> USE DEF TypeInv
<1>0. ASSUME NEW tx, Mined(tx), tx.from \in Accounts,
             booked' = [booked EXCEPT ![tx.from] = @ + Got(tx)]
      PROVE  booked' \in [Accounts -> Nat]
  <2>1. Got(tx) \in Nat
    BY <1>0, ReceiptIs DEF Got
  <2> HIDE DEF Got
  <2> QED
    BY <1>0, <2>1
<1>1. CASE LaunchLanded
  <2>1. booked' \in [Accounts -> Nat]
    <3> DEFINE r == Receipt(LaunchTx)
    <3>1. r.fills \in [Accounts -> Nat]
      BY <1>1, ReceiptIs DEF LaunchLanded
    <3>2. booked' = booked \/ \E ws : Book(r, ws)
      BY <1>1 DEF LaunchLanded
    <3> HIDE DEF r
    <3> QED
      BY <3>1, <3>2 DEF Book
  <2>2. \A w \in DOMAIN buys' : Due(w)'
    <3>1. BurstMakers \subseteq Accounts
      BY FundedNames, Wallets
    <3>2. \A w \in DOMAIN Sized(BurstMakers) : Sized(BurstMakers)[w] \in Nat \ {0}
      BY <3>1, SizedType DEF Inv
    <3>3. buys' \in {buys, Sized(BurstMakers)} /\ UNCHANGED mode /\ pc = "sent"
      BY <1>1 DEF LaunchLanded
    <3> QED
      BY <3>2, <3>3 DEF Due
  <2>3. home' \subseteq MakerSet
    BY <1>1 DEF LaunchLanded, Homeward, Inv, Named
  <2>4. \A tx \in pend' : tx.from \in MakerSet
    BY <1>1 DEF LaunchLanded, BuyTxs, BuyTx, Tx, Inv, Named
  <2>5. pc' = "burst" => mode = "off" /\ Mined(LaunchTx)
    BY <1>1 DEF LaunchLanded
  <2>6. (pc = "burst" => mode = "off" /\ Mined(LaunchTx))'
    <3>1. mode = "off" => LaunchTx' = LaunchTx
      BY <1>1 DEF LaunchLanded, LaunchTx, Tx
    <3> QED
      BY <1>1, <2>5, <3>1 DEF LaunchLanded, Mined
  <2>7. pc' \in {"burst", "running"}
    BY <1>1 DEF LaunchLanded
  <2> HIDE DEF Due
  <2> QED
    BY <1>1, <2>1, <2>2, <2>3, <2>4, <2>6, <2>7 DEF LaunchLanded, Stages
<1>3. CASE BurstOver
  <2>1. Mined(LaunchTx) /\ LaunchTx.from = Treasury
    BY <1>3 DEF BurstOver, LaunchTx, Tx
  <2>2. booked' = [booked EXCEPT ![LaunchTx.from] = @ + Got(LaunchTx)]
    BY <1>3, <2>1 DEF BurstOver
  <2> HIDE DEF TypeInv
  <2>3. booked' \in [Accounts -> Nat]
    BY <1>0, <2>1, <2>2, Wallets
  <2>4. \A w \in DOMAIN buys' : Due(w)'
    BY <1>3 DEF BurstOver, NoBuys
  <2> QED
    BY <1>3, <2>3, <2>4 DEF TypeInv, BurstOver, Stages
<1>2. CASE \E tx \in pend : Settle(tx)
  <2>1. PICK tx \in pend : Settle(tx)
    BY <1>2
  <2>2. Mined(tx) /\ booked' = [booked EXCEPT ![tx.from] = @ + Got(tx)]
    BY <2>1 DEF Settle, Final
  <2>3. booked' \in [Accounts -> Nat]
    BY <1>0, <2>2, Wallets
  <2>4. /\ UNCHANGED <<mined, mode, pc, buys, park, home, attempt>> /\ pend' \subseteq pend
        /\ unsure' = unsure
    BY <2>1 DEF Settle, UnchangedBySettle
  <2>5. (pc = "burst" => mode = "off" /\ Mined(LaunchTx))'
    BY <2>4, BurstKept
  <2> QED
    BY <2>3, <2>4, <2>5 DEF Due
<1> QED
  BY <1>1, <1>2, <1>3

LEMMA ChainTypes ==
  ASSUME Inv, TypeInv, NEW tx \in pool, Include(tx) \/ Refuse(tx)
  PROVE  TypeInv'
<1>0. FromHere(tx)
  BY DEF Inv, Named
<1>1. UNCHANGED <<booked, mode, pc, buys, park, home, pend>>
  BY DEF Include, Refuse, UnchangedByChain, localVars
<1>2. unsure' \subseteq Accounts
  BY <1>0 DEF Include, Refuse, UnchangedByChain, TypeInv, FromHere
<1>3. \A r \in mined' \ mined : r.ok \in BOOLEAN /\ (r.ok => r.fills \in [Accounts -> Nat])
  <2>1. ASSUME Call(tx) PROVE [w \in Accounts |-> tokens'[w] - tokens[w]] \in [Accounts -> Nat]
    BY <1>0, <2>1, TokensGrow DEF Inv
  <2>2. \/ /\ Call(tx)
           /\ \A r \in mined' \ mined :
                r.ok = TRUE /\ r.fills = [w \in Accounts |-> tokens'[w] - tokens[w]]
        \/ \A r \in mined' \ mined : r.ok = FALSE
    BY DEF Include, Refuse
  <2> QED
    BY <2>1, <2>2
<1>4. (pc = "burst" => mode = "off" /\ Mined(LaunchTx))'
  <2>1. mined \subseteq mined' /\ attempt' = attempt
    BY DEF Include, Refuse, UnchangedByChain
  <2> QED
    BY <1>1, <2>1, BurstKept
<1> QED
  BY <1>1, <1>2, <1>3, <1>4 DEF TypeInv, Due

LEMMA StepTypes ==
  ASSUME Inv, TypeInv, [Next]_vars
  PROVE  TypeInv'
<1>1. CASE SendLaunch \/ SendFails
  <2>1. DOMAIN buys \subseteq Accounts /\ Treasury \in Accounts
    BY Wallets DEF Inv, Named
  <2>2. \A w \in DOMAIN Sized(DOMAIN buys) : Sized(DOMAIN buys)[w] \in Nat \ {0}
    BY <2>1, SizedType DEF Inv
  <2>3. /\ buys' \in {buys, Sized(DOMAIN buys)}
        /\ pc' \in {"sent", "failed"}
        /\ unsure' \in {unsure, unsure \cup DOMAIN buys \cup {Treasury}}
        /\ UNCHANGED <<booked, mined, mode, park, home, pend>>
    BY <1>1 DEF SendLaunch, SendFails, Fail
  <2>4. \/ pc' = "sent" /\ mode # "window" /\ buys' = buys
        \/ buys' = Sized(DOMAIN buys)
        \/ pc' = "failed" /\ buys' = buys
    BY <1>1 DEF SendLaunch, SendFails, Fail
  <2>5. \A w \in DOMAIN buys' : Due(w)'
    BY <2>2, <2>3, <2>4 DEF TypeInv, Due
  <2>6. pc' \in Stages /\ pc' \notin {"park", "burst"}
    BY <2>3 DEF Stages
  <2> QED
    BY <2>1, <2>3, <2>5, <2>6 DEF TypeInv
<1>2. CASE LaunchReverted \/ LaunchTimeout
  <2>1. \A w \in DOMAIN buys' : Due(w)'
    BY <1>2 DEF LaunchReverted, LaunchTimeout, Fail, TypeInv, Due
  <2>2. DOMAIN buys \subseteq Accounts /\ Treasury \in Accounts
    BY Wallets DEF Inv, Named
  <2>3. /\ pc' = "failed" /\ home' = home
        /\ unsure' \in {unsure, unsure \cup DOMAIN buys \cup {Treasury}}
        /\ UNCHANGED <<booked, mined, mode, buys, park, pend>>
    BY <1>2 DEF LaunchReverted, LaunchTimeout, Fail
  <2> QED
    BY <2>1, <2>2, <2>3 DEF TypeInv, Stages
<1>3. CASE ParkingOver
  <2>1. /\ \A w \in DOMAIN buys' : w \in DOMAIN park /\ park[w] = "kept" /\ buys'[w] = buys[w]
        /\ pc = "park" /\ pc' \in {"failed", "send"} /\ park' = NoBuys
        /\ UNCHANGED <<booked, mined, mode, home, unsure, pend>>
    BY <1>3 DEF ParkingOver, Fail, UnchangedByPark
  <2>2. \A w \in DOMAIN park : w \in DOMAIN buys
    BY <2>1 DEF TypeInv
  <2>3. \A w \in DOMAIN buys' : Due(w)'
    BY <2>1, <2>2 DEF TypeInv, Due
  <2>4. DOMAIN park' = {}
    BY <2>1 DEF NoBuys
  <2>5. pc' \in Stages /\ pc' \notin {"park", "burst"}
    BY <2>1 DEF Stages
  <2> QED
    BY <2>1, <2>3, <2>4, <2>5 DEF TypeInv
<1>4. CASE \E w \in DOMAIN buys, ok \in BOOLEAN : BurstBuy(w, ok)
  <2>1. DOMAIN buys \subseteq MakerSet /\ \A w \in DOMAIN buys : BuyTx(w, buys[w]).from = w
    BY DEF BuyTx, Tx, Inv, Named
  <2>2. /\ \A tx \in pend' : tx \in pend \/ \E w \in DOMAIN buys : tx = BuyTx(w, buys[w])
        /\ \A w \in DOMAIN buys' : w \in DOMAIN buys /\ buys'[w] = buys[w]
        /\ UNCHANGED <<booked, mined, mode, attempt, pc, park, home, unsure>> /\ pc = "burst"
    BY <1>4 DEF BurstBuy
  <2>3. \A tx \in pend' : tx.from \in MakerSet
    BY <2>1, <2>2 DEF TypeInv
  <2>4. (pc = "burst" => mode = "off" /\ Mined(LaunchTx))'
    BY <2>2, BurstKept
  <2> QED
    BY <2>2, <2>3, <2>4 DEF TypeInv, Due, Stages
<1>5. CASE \E w \in home, ok \in BOOLEAN : Home(w, ok)
  <2>1. PICK h \in home, ok \in BOOLEAN : Home(h, ok)
    BY <1>5
  <2>2. unsure' \subseteq Accounts
    BY <2>1, Wallets DEF Home, TypeInv, Inv, Named
  <2>3. /\ UNCHANGED <<booked, mined, mode, attempt, pc, buys, park, pend>>
        /\ home' \subseteq home
    BY <2>1 DEF Home
  <2>4. (pc = "burst" => mode = "off" /\ Mined(LaunchTx))'
    BY <2>3, BurstKept
  <2> QED
    BY <2>2, <2>3, <2>4 DEF TypeInv, Due
<1>6. CASE \/ \E tx \in spam : Resend(tx)
           \/ \E tx \in pend : SettleTimeout(tx)
           \/ \E w \in MakerSet : OtherLaunch(w)
           \/ NextBlock \/ UNCHANGED vars
  <2>1. /\ UNCHANGED <<booked, mined, mode, attempt, pc, buys, park, home>>
        /\ pend' \subseteq pend
    BY <1>6 DEF Resend, SettleTimeout, UnchangedBySettle, OtherLaunch, NextBlock, UnchangedByChain,
                localVars, vars
  <2>2. unsure' \subseteq Accounts
    <3>1. \A w \in MakerSet : unsure \cup {w} \subseteq Accounts
      BY Wallets DEF TypeInv
    <3>2. \A tx \in pend : tx.from \in MakerSet
      BY DEF TypeInv
    <3>3. unsure' = unsure \/ \E w \in MakerSet : unsure' = unsure \cup {w}
      BY <1>6, <3>2 DEF Resend, SettleTimeout, OtherLaunch, NextBlock, UnchangedByChain, vars
    <3> QED
      BY <3>1, <3>3 DEF TypeInv
  <2>3. (pc = "burst" => mode = "off" /\ Mined(LaunchTx))'
    BY <2>1, BurstKept
  <2> QED
    BY <2>1, <2>2, <2>3 DEF TypeInv, Due
<1>7. CASE \E tx \in pool : Include(tx) \/ Refuse(tx)
  BY <1>7, ChainTypes
<1>8. CASE \E m \in Modes : Prepare(m)
  BY <1>8, PrepareTypes
<1>9. CASE \E w \in DOMAIN park : \/ Excluded(w) \/ Kept(w) \/ SendDeposit(w) \/ Panic(w)
                                   \/ DepositReadFails(w)
  BY <1>9, ParkingTypes
<1>10. CASE LaunchLanded \/ BurstOver \/ \E tx \in pend : Settle(tx)
  BY <1>10, ReceiptTypes
<1> QED
  BY <1>1, <1>2, <1>3, <1>4, <1>5, <1>6, <1>7, <1>8, <1>9, <1>10 DEF Next, Program

LEMMA TypesHold == Spec => [](Inv /\ TypeInv)
<1>1. Inv /\ TypeInv /\ [Next]_vars => Inv' /\ TypeInv'
  BY RouterStepKeeps, StepNamed, StepTypes DEF Inv
<1> QED
  BY <1>1, InitHolds, InitTypes, PTL DEF Spec

\* Every variable keeps its type: a buy without an amount is one of a window launch
\* that is not sent, nothing booked or bought is negative, and none of the router's
\* checked subtractions underflows.
THEOREM TypeCorrect == Spec => []TypeOK
<1>1. Inv /\ TypeInv => TypeOK
  BY DEF Inv, TypeInv, Due, TypeOK, RouterInv, Named, Stages, ParkStages
<1> QED
  BY <1>1, TypesHold, PTL

\* Through any launches, what the deposits add up to is the router's total, and it
\* is there to be withdrawn.
THEOREM SolventByLaunching == Spec => []Solvent
<1>1. Inv => Solvent
  BY DEF Inv, RouterInv, Solvent
<1> QED
  BY <1>1, InvHolds, PTL
-----------------------------------------------------------------------------
(* An atomic launch under way finds the makers' deposits.                   *)

OwnAtomic(tx) == tx.op = "atomic" /\ tx.from = Treasury
Covered(w, quoteIn) ==
  w \in Accounts /\ quoteIn \in Nat /\ operatorOf[w] = Treasury /\ deposits[w] >= quoteIn
BuysAreCovered(tx) == \A i \in DOMAIN tx.buys : Covered(tx.buys[i].wallet, tx.buys[i].quoteIn)

\* Every launch has a curve of its own, so it is not mined before it is sent.
AgeInv ==
  \A tx \in pool \cup {r.tx : r \in mined} : OwnAtomic(tx) =>
    tx.curve \in 0..attempt /\ (pc \in {"park", "send"} => tx.curve < attempt)

ParkInv ==
  /\ \A tx \in spam : tx.op = "routerBuy"
  /\ pc = "park" => \A w \in DOMAIN park : w \in DOMAIN buys /\ buys[w] \in Nat /\ buys[w] > 0

\* Nothing that takes from a deposit of the treasury's is under way ...
Quiet == home = {} /\ \A tx \in pool : ~OwnAtomic(tx) /\ tx.op # "withdraw"

\* ... until the launch is sent, and then nothing but the launch.
QuietInv ==
  /\ pc \in {"park", "send"} => Quiet
  /\ \A tx \in pool : OwnAtomic(tx) =>
       /\ home = {} /\ ~Mined(tx)
       /\ pc = "sent" => tx = LaunchTx
       /\ \A other \in pool : other.op # "withdraw" /\ (OwnAtomic(other) => other = tx)

SpendInv ==
  /\ pc = "park" => \A w \in DOMAIN park : park[w] = "kept" => Covered(w, buys[w])
  /\ pc = "send" /\ mode = "atomic" => \A w \in DOMAIN buys : Covered(w, buys[w])
  /\ \A tx \in pool : OwnAtomic(tx) => BuysAreCovered(tx)

\* Deposits are returned by the launch that landed, and by nothing before it.
HomeInv == pc # "running" => home = {} /\ \A tx \in pool : tx.op # "withdraw"

CoverInv == AgeInv /\ ParkInv /\ HomeInv /\ (~crossed => QuietInv /\ SpendInv)

LEMMA AttemptType == Inv => attempt \in Nat
BY LaunchAssumption DEF Inv, Named

\* Only a withdrawal and the treasury's launch take from what is parked for it.
LEMMA CoverKept ==
  ASSUME Inv, NEW tx, FromHere(tx), Call(tx), ~OwnAtomic(tx), tx.op # "withdraw",
         NEW w, NEW quoteIn, Covered(w, quoteIn)
  PROVE Covered(w, quoteIn)'
<1> USE DEF Inv, RouterInv, Covered
<1>1. CASE Deposit(tx.from, Treasury, tx.value)
  <2>1. tx.from \in Accounts /\ tx.value \in Nat
    BY <1>1 DEF FromHere, Deposit
  <2> QED
    BY <1>1, <2>1 DEF Deposit
<1>2. CASE tx.op = "atomic" /\ LaunchAndBuyAtomic(tx.from, tx.curve, tx.quoteIn, tx.from, tx.value, tx.buys)
  <2> DEFINE fills == Fills(tx.buys, Room - OpeningFill(tx.quoteIn))
  <2>1. tx.from # Treasury
    BY <1>2 DEF OwnAtomic
  <2>2. \A i \in DOMAIN tx.buys : operatorOf[tx.buys[i].wallet] = tx.from
    BY <1>2 DEF LaunchAndBuyAtomic, BuysCovered
  <2>3. {i \in DOMAIN tx.buys : tx.buys[i].wallet = w} = {}
    BY <2>1, <2>2
  <2>4. fills[w] = 0
    BY <2>3 DEF Fills
  <2>5. deposits'[w] = deposits[w] - fills[w] /\ operatorOf' = operatorOf
    BY <1>2 DEF LaunchAndBuyAtomic
  <2> QED
    BY <2>4, <2>5
<1>3. CASE OfficialLaunch(tx) \/ CurveBuy(tx)
  BY <1>3 DEF OfficialLaunch, CurveBuy
<1>4. CASE \/ Launch(tx.from, tx.curve, tx.quoteIn, tx.from, tx.value)
           \/ BuyAfterLaunch(tx.from, tx.curve, Window, tx.from, tx.value)
  BY <1>4 DEF Launch, BuyAfterLaunch, RoutedBuy
<1> QED
  BY <1>1, <1>2, <1>3, <1>4 DEF Call

LEMMA InitCovered == Init => CoverInv
BY DEF Init, CoverInv, AgeInv, ParkInv, HomeInv, QuietInv, SpendInv, Quiet, NoBuys

LEMMA PrepareCovers ==
  ASSUME Inv, CoverInv, NEW m \in Modes, Prepare(m)
  PROVE CoverInv'
<1>1. AgeInv'
  <2>1. attempt \in Nat /\ attempt' = attempt + 1 /\ UNCHANGED <<pool, mined>>
    BY AttemptType DEF Prepare
  <2> QED
    BY <2>1 DEF CoverInv, AgeInv, OwnAtomic
<1>2. ParkInv'
  <2>1. \A ws : \A w \in DOMAIN Sized(ws) : Sized(ws)[w] > 0 /\ w \in ws /\ Sized(ws)[w] = Spend(w)
    BY DEF Sized
  <2>2. \A w \in Accounts : Spend(w) \in Int
    <3>1. \A w \in Accounts : eth[w] \in Nat
      BY DEF Inv, RouterInv
    <3>2. Gas \in Nat
      BY LaunchAssumption
    <3> QED
      BY <3>1, <3>2 DEF Spend
  <2>3. pc' = "park" => m = "atomic" /\ buys' = Sized(BurstMakers) /\ DOMAIN park' = DOMAIN buys'
    BY DEF Prepare, Fail
  <2>4. BurstMakers \subseteq Accounts
    BY FundedNames, Wallets
  <2>5. pc' = "park" => \A w \in DOMAIN park' : w \in DOMAIN buys' /\ buys'[w] \in Nat /\ buys'[w] > 0
    BY <2>1, <2>2, <2>3, <2>4
  <2> QED
    BY <2>5 DEF Prepare, CoverInv, ParkInv
<1>3. ASSUME ~crossed' PROVE QuietInv' /\ SpendInv'
  <2>1. Quiet /\ UNCHANGED <<pool, home>>
    BY <1>3 DEF Prepare, CoverInv, HomeInv, Quiet, OwnAtomic
  <2>2. pc' = "park" => \A w \in DOMAIN park' : park'[w] = "read"
    BY DEF Prepare, Fail
  <2>3. pc' = "send" => mode' # "atomic"
    BY DEF Prepare, Fail
  <2> QED
    BY <2>1, <2>2, <2>3 DEF QuietInv, SpendInv, Quiet
<1>4. HomeInv'
  BY DEF Prepare, CoverInv, HomeInv, Fail
<1> QED
  BY <1>1, <1>2, <1>3, <1>4 DEF CoverInv

\* What is included leaves what is covered, and no launch but the one awaited.
LEMMA IncludeCovers ==
  ASSUME Inv, CoverInv, NEW tx \in pool, Include(tx)
  PROVE CoverInv'
<1>1. /\ pool' = pool \ {tx} /\ \A r \in mined' : r \in mined \/ r.tx = tx
      /\ UNCHANGED <<attempt, mode, pc, buys, park, spam, home, crossed>>
  BY DEF Include, UnchangedByChain, localVars
<1>2. AgeInv' /\ ParkInv' /\ HomeInv'
  BY <1>1 DEF CoverInv, AgeInv, ParkInv, HomeInv
<1>3. ASSUME ~crossed PROVE QuietInv'
  <2>1. \A own \in pool' : Mined(own)' => Mined(own)
    BY <1>1 DEF Mined
  <2>2. QuietInv
    BY <1>3 DEF CoverInv
  <2>3. LaunchTx' = LaunchTx
    BY <1>1 DEF LaunchTx, Tx, AtomicBuys
  <2> QED
    BY <1>1, <2>1, <2>2, <2>3 DEF QuietInv, Quiet
<1>4. ASSUME ~crossed PROVE SpendInv'
  <2>1. CASE UNCHANGED routerVars
    BY <1>1, <1>4, <2>1 DEF CoverInv, SpendInv, Covered, BuysAreCovered, routerVars
  <2>2. CASE Call(tx)
    <3>1. QuietInv /\ SpendInv
      BY <1>4 DEF CoverInv
    <3>2. FromHere(tx)
      BY DEF Inv, Named
    <3>3. ASSUME ~OwnAtomic(tx), tx.op # "withdraw" PROVE SpendInv'
      <4>1. \A w, quoteIn : Covered(w, quoteIn) => Covered(w, quoteIn)'
        BY <2>2, <3>2, <3>3, CoverKept
      <4> QED
        BY <1>1, <3>1, <4>1 DEF SpendInv, BuysAreCovered
    <3>4. ASSUME OwnAtomic(tx) \/ tx.op = "withdraw" PROVE SpendInv'
      <4>1. pc \notin {"park", "send"} /\ \A own \in pool' : ~OwnAtomic(own)
        BY <1>1, <3>1, <3>4 DEF QuietInv, Quiet
      <4> QED
        BY <1>1, <4>1 DEF SpendInv
    <3> QED
      BY <3>3, <3>4
  <2> QED
    BY <2>1, <2>2 DEF Include
<1> QED
  BY <1>1, <1>2, <1>3, <1>4 DEF CoverInv

LEMMA RefuseCovers ==
  ASSUME Inv, CoverInv, NEW tx \in pool, Refuse(tx)
  PROVE CoverInv'
<1>1. /\ pool' = pool \ {tx} /\ \A r \in mined' : r \in mined \/ r.tx = tx
      /\ UNCHANGED <<attempt, mode, pc, buys, park, spam, home, crossed, deposits, operatorOf>>
  BY DEF Refuse, localVars, routerVars
<1>2. AgeInv' /\ ParkInv' /\ HomeInv'
  BY <1>1 DEF CoverInv, AgeInv, ParkInv, HomeInv
<1>3. \A own \in pool' : Mined(own)' => Mined(own)
  BY <1>1 DEF Mined
<1>4. LaunchTx' = LaunchTx
  BY <1>1 DEF LaunchTx, Tx, AtomicBuys
<1>5. QuietInv => QuietInv'
  BY <1>1, <1>3, <1>4 DEF QuietInv, Quiet
<1>6. SpendInv => SpendInv'
  BY <1>1 DEF SpendInv, Covered, BuysAreCovered
<1> QED
  BY <1>1, <1>2, <1>5, <1>6 DEF CoverInv

\* Steps that broadcast nothing that takes from a deposit, and decide nothing.
LEMMA HarmlessCovers ==
  ASSUME Inv, CoverInv,
         \A tx \in pool' : tx \in pool \/ (~OwnAtomic(tx) /\ tx.op # "withdraw"),
         UNCHANGED <<deposits, operatorOf, mined, attempt, mode, pc, buys, park, crossed>>,
         spam' \subseteq spam, home' = home
  PROVE CoverInv'
<1>1. AgeInv' /\ ParkInv' /\ HomeInv'
  BY DEF CoverInv, AgeInv, ParkInv, HomeInv
<1>2. LaunchTx' = LaunchTx
  BY DEF LaunchTx, Tx, AtomicBuys
<1>3. \A own \in pool' : Mined(own)' => Mined(own)
  BY DEF Mined
<1>4. QuietInv => QuietInv'
  BY <1>2, <1>3 DEF QuietInv, Quiet
<1>5. SpendInv => SpendInv'
  BY DEF SpendInv, Covered, BuysAreCovered
<1> QED
  BY <1>1, <1>4, <1>5 DEF CoverInv

LEMMA OtherStepsCover ==
  ASSUME Inv, CoverInv,
         \/ \E w \in MakerSet : OtherLaunch(w)
         \/ \E tx \in spam : Resend(tx)
         \/ \E tx \in pend : Settle(tx) \/ SettleTimeout(tx)
         \/ NextBlock \/ UNCHANGED vars
  PROVE CoverInv'
<1>1. CASE \E w \in MakerSet : OtherLaunch(w)
  <2>1. PICK w \in MakerSet : OtherLaunch(w)
    BY <1>1
  <2>2. \A tx \in pool' \ pool : tx.op = "atomic" /\ tx.from = Other
    BY <2>1 DEF OtherLaunch, Tx
  <2> QED
    BY <2>1, <2>2, Wallets, HarmlessCovers DEF OtherLaunch, OwnAtomic, localVars, routerVars
<1>2. CASE \E tx \in spam : Resend(tx)
  <2>1. PICK tx \in spam : Resend(tx)
    BY <1>2
  <2>2. tx.op = "routerBuy"
    BY DEF CoverInv, ParkInv
  <2> QED
    BY <2>1, <2>2, HarmlessCovers DEF Resend, OwnAtomic, routerVars
<1>3. CASE \E tx \in pend : Settle(tx) \/ SettleTimeout(tx)
  BY <1>3, HarmlessCovers DEF Settle, SettleTimeout, UnchangedBySettle, routerVars
<1>4. CASE NextBlock \/ UNCHANGED vars
  BY <1>4, HarmlessCovers DEF NextBlock, Tick, UnchangedByChain, localVars, routerVars, vars
<1> QED
  BY <1>1, <1>2, <1>3, <1>4

\* While deposits are parked, only the buy and the stage of one maker change.
LEMMA ParkStepCovers ==
  ASSUME Inv, CoverInv, NEW w \in DOMAIN park, pc = "park",
         \A tx \in pool' : tx \in pool \/ tx.op = "deposit",
         UNCHANGED <<deposits, operatorOf, mined, attempt, mode, pc, spam, home, crossed>>,
         DOMAIN park' = DOMAIN park, \A x \in DOMAIN park \ {w} : park'[x] = park[x],
         DOMAIN buys' = DOMAIN buys, \A x \in DOMAIN buys \ {w} : buys'[x] = buys[x],
         buys'[w] \in Nat, buys'[w] > 0, park'[w] = "kept" => Covered(w, buys'[w])
  PROVE CoverInv'
<1>1. \A tx \in pool' : OwnAtomic(tx) \/ tx.op = "withdraw" => tx \in pool
  BY DEF OwnAtomic
<1>2. AgeInv' /\ ParkInv' /\ HomeInv'
  BY <1>1 DEF CoverInv, AgeInv, ParkInv, HomeInv, OwnAtomic
<1>3. ASSUME ~crossed PROVE QuietInv' /\ SpendInv'
  <2>1. Quiet
    BY <1>3 DEF CoverInv, QuietInv
  <2>2. Quiet'
    BY <1>1, <2>1 DEF Quiet
  <2>3. \A x \in DOMAIN park : park[x] = "kept" => Covered(x, buys[x])
    BY <1>3 DEF CoverInv, SpendInv
  <2>4. \A x \in DOMAIN park : x \in DOMAIN buys
    BY DEF CoverInv, ParkInv
  <2>5. \A x \in DOMAIN park' : park'[x] = "kept" => Covered(x, buys[x])'
    BY <2>3, <2>4 DEF Covered
  <2> QED
    BY <2>2, <2>5 DEF QuietInv, SpendInv, Quiet
<1> QED
  BY <1>2, <1>3 DEF CoverInv

LEMMA ParkingCovers ==
  ASSUME Inv, CoverInv, NEW w \in DOMAIN park, Excluded(w) \/ Kept(w) \/ SendDeposit(w)
  PROVE CoverInv'
<1>1. /\ pc = "park" /\ w \in DOMAIN buys /\ buys[w] \in Nat /\ buys[w] > 0
      /\ UNCHANGED <<deposits, operatorOf, mined, attempt, mode, pc, spam, home, crossed>>
  BY DEF Excluded, Kept, SendDeposit, UnchangedByPark, routerVars, CoverInv, ParkInv
<1>2. w \in Accounts /\ deposits[w] \in Nat
  BY Wallets DEF Inv, Named, RouterInv
<1>3. CASE Excluded(w) \/ SendDeposit(w)
  <2>1. \A tx \in pool' : tx \in pool \/ tx.op = "deposit"
    BY <1>3 DEF Excluded, SendDeposit, DepositTx, Tx
  <2>2. /\ UNCHANGED buys
        /\ \E stage \in {"dropped", "sent"} : park' = [park EXCEPT ![w] = stage]
    BY <1>3 DEF Excluded, SendDeposit, Parked
  <2> QED
    BY <1>1, <2>1, <2>2, ParkStepCovers
<1>4. CASE Kept(w)
  <2>1. /\ UNCHANGED pool /\ park' = [park EXCEPT ![w] = "kept"] /\ CountedOn(w)
        /\ \/ Missing(w) <= 0 /\ UNCHANGED buys
           \/ deposits[w] > 0 /\ buys' = [buys EXCEPT ![w] = deposits[w]]
    BY <1>4 DEF Kept, Parked
  <2>2. Covered(w, buys'[w]) /\ buys'[w] \in Nat /\ buys'[w] > 0
    BY <1>1, <1>2, <2>1 DEF Covered, CountedOn, Missing
  <2>3. DOMAIN buys' = DOMAIN buys /\ \A x \in DOMAIN buys \ {w} : buys'[x] = buys[x]
    BY <2>1
  <2> QED
    BY <1>1, <2>1, <2>2, <2>3, ParkStepCovers
<1> QED
  BY <1>3, <1>4

\* What is kept is what the launch will spend.
LEMMA ParkingOverCovers ==
  ASSUME Inv, CoverInv, ParkingOver
  PROVE CoverInv'
<1>1. /\ pc = "park" /\ pc' \in {"send", "failed"} /\ park' = NoBuys
      /\ DOMAIN buys' = {w \in DOMAIN park : park[w] = "kept"}
      /\ \A w \in DOMAIN buys' : buys'[w] = buys[w]
      /\ UNCHANGED <<deposits, operatorOf, mined, attempt, mode, pool, spam, home, crossed>>
  BY DEF ParkingOver, Fail, UnchangedByPark, routerVars
<1>2. AgeInv' /\ ParkInv' /\ HomeInv'
  BY <1>1 DEF CoverInv, AgeInv, ParkInv, HomeInv
<1>3. ASSUME ~crossed PROVE QuietInv' /\ SpendInv'
  <2>1. Quiet
    BY <1>1, <1>3 DEF CoverInv, QuietInv
  <2>2. \A w \in DOMAIN buys' : Covered(w, buys[w])'
    BY <1>1, <1>3 DEF CoverInv, SpendInv, Covered
  <2> QED
    BY <1>1, <2>1, <2>2 DEF QuietInv, SpendInv, Quiet
<1> QED
  BY <1>1, <1>2, <1>3 DEF CoverInv

\* A launch is given up, with the program or without: no deposit is taken from.
LEMMA GivenUpCovers ==
  ASSUME Inv, CoverInv,
         \A tx \in pool' : tx \in pool \/ (~OwnAtomic(tx) /\ tx.op # "withdraw"),
         UNCHANGED <<deposits, operatorOf, mined, attempt, mode, crossed>>,
         pc # "running", pc' \in {"idle", "failed", "running", "burst"}, home' \subseteq home,
         spam' \subseteq spam
  PROVE CoverInv'
<1>1. AgeInv' /\ ParkInv' /\ HomeInv'
  BY DEF CoverInv, AgeInv, ParkInv, HomeInv
<1>2. \A own \in pool' : Mined(own)' => Mined(own)
  BY DEF Mined
<1>3. QuietInv => QuietInv'
  BY <1>2 DEF QuietInv
<1>4. SpendInv => SpendInv'
  BY DEF SpendInv, Covered, BuysAreCovered
<1> QED
  BY <1>1, <1>3, <1>4 DEF CoverInv

LEMMA FailuresCover ==
  ASSUME Inv, CoverInv,
         \/ LaunchTimeout \/ BurstOver
         \/ \E w \in DOMAIN park : Panic(w) \/ DepositReadFails(w)
  PROVE CoverInv'
<1>1. CASE LaunchTimeout \/ BurstOver
  BY <1>1, GivenUpCovers DEF LaunchTimeout, BurstOver, Fail, routerVars
<1>2. CASE \E w \in DOMAIN park : Panic(w) \/ DepositReadFails(w)
  BY <1>2, GivenUpCovers DEF Panic, DepositReadFails, Fail, UnchangedByPark, routerVars
<1> QED
  BY <1>1, <1>2

LEMMA LaunchTxIs ==
  /\ LaunchTx.curve = attempt /\ LaunchTx.from = Treasury /\ LaunchTx.op # "withdraw"
  /\ mode = "atomic" <=> LaunchTx.op = "atomic"
  /\ mode = "atomic" => LaunchTx.buys = AtomicBuys
BY DEF LaunchTx, Tx

LEMMA AtomicBuysCovered ==
  ASSUME mode = "atomic", \A w \in DOMAIN buys : Covered(w, buys[w])
  PROVE BuysAreCovered(LaunchTx)
BY LaunchTxIs DEF AtomicBuys, BuysAreCovered

\* The launch is sent, whatever the answer.
LEMMA SendCovers ==
  ASSUME Inv, CoverInv, pc = "send", pool' = pool \/ pool' = pool \cup {LaunchTx},
         pc' \in {"sent", "failed"}, mode = "atomic" => buys' = buys,
         \A tx \in spam' : tx.op = "routerBuy",
         UNCHANGED <<deposits, operatorOf, mined, attempt, mode, park, home, crossed>>
  PROVE CoverInv'
<1> USE LaunchTxIs
<1>1. attempt \in Nat
  BY AttemptType
<1>2. AgeInv' /\ ParkInv' /\ HomeInv'
  BY <1>1 DEF CoverInv, AgeInv, ParkInv, HomeInv
<1>3. ASSUME ~crossed PROVE QuietInv' /\ SpendInv'
  <2>1. Quiet /\ SpendInv
    BY <1>3 DEF CoverInv, QuietInv
  <2>2. \A tx \in pool' : OwnAtomic(tx) => tx = LaunchTx /\ mode = "atomic"
    BY <2>1 DEF Quiet, OwnAtomic
  <2>3. \A tx \in pool' : OwnAtomic(tx) => \A r \in mined : r.tx # tx
    <3>1. \A r \in mined : OwnAtomic(r.tx) => r.tx.curve < attempt
      BY DEF CoverInv, AgeInv
    <3> QED
      BY <1>1, <2>2, <3>1
  <2>4. mode = "atomic" => LaunchTx' = LaunchTx
    <3> SUFFICES ASSUME mode = "atomic" PROVE LaunchTx' = LaunchTx
      OBVIOUS
    <3>1. UNCHANGED <<mode, attempt, buys>>
      OBVIOUS
    <3>2. Tx("atomic", Treasury)' = Tx("atomic", Treasury)
      BY <3>1 DEF Tx
    <3>3. AtomicBuys' = AtomicBuys
      BY <3>1 DEF AtomicBuys
    <3> QED
      BY <3>1, <3>2, <3>3 DEF LaunchTx
  <2>5. QuietInv'
    BY <2>1, <2>2, <2>3, <2>4 DEF QuietInv, Quiet, Mined
  <2>6. mode = "atomic" => BuysAreCovered(LaunchTx)
    BY <2>1, AtomicBuysCovered DEF SpendInv
  <2>7. SpendInv'
    <3>1. \A tx \in pool' : OwnAtomic(tx) => BuysAreCovered(tx)
      BY <2>2, <2>6
    <3> QED
      BY <3>1 DEF SpendInv, BuysAreCovered, Covered
  <2> QED
    BY <2>5, <2>7
<1> QED
  BY <1>2, <1>3 DEF CoverInv

LEMMA SendsCover ==
  ASSUME Inv, CoverInv, SendLaunch \/ SendFails
  PROVE CoverInv'
<1>1. \A tx \in spam : tx.op = "routerBuy"
  BY DEF CoverInv, ParkInv
<1>2. CASE SendLaunch
  <2>1. mode = "window" => \A tx \in BuyTxs(buys') : tx.op = "routerBuy"
    BY DEF BuyTxs, BuyTx, Tx
  <2>2. \A tx \in spam' : tx.op = "routerBuy"
    BY <1>1, <1>2, <2>1 DEF SendLaunch
  <2> QED
    BY <1>2, <2>2, SendCovers DEF SendLaunch, Fail, routerVars
<1>3. CASE SendFails
  BY <1>1, <1>3, SendCovers DEF SendFails, Fail, routerVars
<1> QED
  BY <1>2, <1>3

\* The launch that could spend the deposits is decided; only then are they returned.
LEMMA DecidedCovers ==
  ASSUME Inv, CoverInv, pc = "sent", Mined(LaunchTx),
         pc' \in {"running", "burst", "failed"}, spam' \subseteq spam,
         pc' # "running" => home' = home,
         UNCHANGED <<deposits, operatorOf, mined, attempt, pool, crossed>>
  PROVE CoverInv'
<1>1. AgeInv' /\ ParkInv' /\ HomeInv'
  BY DEF CoverInv, AgeInv, ParkInv, HomeInv
<1>2. ~crossed => \A tx \in pool : ~OwnAtomic(tx)
  BY DEF CoverInv, QuietInv
<1> QED
  BY <1>1, <1>2 DEF CoverInv, QuietInv, SpendInv

LEMMA HomeCovers ==
  ASSUME Inv, CoverInv, NEW w \in home, NEW ok, Home(w, ok)
  PROVE CoverInv'
<1>1. /\ \A tx \in pool' : OwnAtomic(tx) => tx \in pool
      /\ UNCHANGED <<mined, attempt, mode, pc, buys, park, spam, crossed>>
  BY DEF Home, Tx, OwnAtomic
<1>2. pc = "running"
  BY DEF CoverInv, HomeInv
<1>3. AgeInv' /\ ParkInv' /\ HomeInv'
  BY <1>1, <1>2 DEF CoverInv, AgeInv, ParkInv, HomeInv
<1>4. ~crossed => \A tx \in pool : ~OwnAtomic(tx)
  BY DEF CoverInv, QuietInv
<1> QED
  BY <1>1, <1>2, <1>3, <1>4 DEF CoverInv, QuietInv, SpendInv

LEMMA StepCovers ==
  ASSUME Inv, CoverInv, [Next]_vars
  PROVE CoverInv'
<1>1. CASE LaunchLanded \/ LaunchReverted
  BY <1>1, DecidedCovers DEF LaunchLanded, LaunchReverted, Fail, routerVars
<1>2. CASE \E w \in DOMAIN buys, ok \in BOOLEAN : BurstBuy(w, ok)
  BY <1>2, GivenUpCovers DEF BurstBuy, BuyTx, Tx, OwnAtomic, routerVars
<1>3. CASE \E w \in home, ok \in BOOLEAN : Home(w, ok)
  BY <1>3, HomeCovers
<1>4. CASE Program
  BY <1>1, <1>2, <1>4, SendsCover, FailuresCover, ParkingCovers, ParkingOverCovers DEF Program
<1>5. CASE \E tx \in pool : Include(tx) \/ Refuse(tx)
  BY <1>5, IncludeCovers, RefuseCovers
<1> QED
  BY <1>2, <1>3, <1>4, <1>5, PrepareCovers, FailuresCover, SendsCover, OtherStepsCover DEF Next

\* ensureDeposits and the order of parking, launching and withdrawing: an atomic
\* launch is covered until it is included, for any makers, amounts, faults and other
\* users of the router, also when it counts on what earlier launches that reverted
\* have left there; only launches begun while one that was given up on could still
\* land are left out.
THEOREM LaunchIsCovered == Spec => []LaunchCovered
<1>1. Inv /\ CoverInv /\ [Next]_vars => Inv' /\ CoverInv'
  BY RouterStepKeeps, StepNamed, StepCovers DEF Inv
<1>2. Init => Inv /\ CoverInv
  BY InitHolds, InitCovered
<1>3. CoverInv => LaunchCovered
  BY DEF CoverInv, SpendInv, LaunchCovered, OwnAtomic, BuysAreCovered, Covered
<1> QED
  BY <1>1, <1>2, <1>3, PTL DEF Spec
-----------------------------------------------------------------------------
(* What is booked.                                                          *)

\* The wallets whose tokens the engine books.
Ours == MakerSet \cup {Treasury}
Buying(tx) == tx.op \notin {"deposit", "withdraw"}
IsLaunch(tx) == tx.op \in {"launch", "routerLaunch", "atomic"}
OwnLaunch(tx) == IsLaunch(tx) /\ tx.from = Treasury
\* Who a transaction may give tokens to.
Names(tx, w) ==
  w = tx.from \/ (tx.op = "atomic" /\ \E i \in DOMAIN tx.buys : tx.buys[i].wallet = w)

\* The transaction whose tokens are still to be booked for w.
Owing(w) ==
  {tx \in pend : tx.from = w}
  \cup (IF pc \in {"sent", "burst"} /\ Names(LaunchTx, w) THEN {LaunchTx} ELSE {})
  \cup (IF pc = "sent" /\ mode = "window" /\ w \in DOMAIN buys THEN {BuyTx(w, buys[w])} ELSE {})
\* The tokens it has given so far.
Gives(tx, w) == IF Mined(tx) /\ Receipt(tx).ok THEN Receipt(tx).fills[w] ELSE 0

StageInv ==
  /\ pc \in {"park", "send", "sent", "burst"} => attempt > 0
  /\ pend # {} => pc \in {"burst", "running"}
  /\ spam # {} => pc \in {"sent", "running"} /\ mode = "window"
  /\ pc = "burst" => mode = "off" /\ \A tx \in pend : tx.from \notin DOMAIN buys
  /\ \A tx \in spam : tx.op = "routerBuy"
  /\ \A tx \in pend : tx.op \in {"buy", "routerBuy"} /\ tx.from # Treasury
  /\ \A tx, also \in pend : tx.from = also.from => tx = also

Seen == pool \cup spam \cup pend \cup {r.tx : r \in mined}

\* What is out is not newer than the attempt, and nothing is sent twice.
SeenInv ==
  \A tx \in Seen : Buying(tx) =>
    /\ tx.curve \in Curves
    /\ tx.from = Other => tx.curve = 0 /\ tx.op = "atomic"
    /\ tx.from # Other => /\ tx.curve \in 1..attempt
                          /\ pc \in {"park", "send"} => tx.curve < attempt
    /\ IsLaunch(tx) => tx.from \in {Treasury, Other}
    /\ tx.op = "buy" /\ tx.curve = attempt =>
         pc # "sent" /\ (pc = "burst" => tx.from \notin DOMAIN buys)

\* A transaction has one receipt, a curve has one launch, and a curve that was
\* launched has the receipt of it.
ReceiptInv ==
  /\ \A tx \in pool : Buying(tx) => ~Mined(tx)
  /\ \A r, also \in mined : Buying(r.tx) /\ r.tx = also.tx => r = also
  /\ \A tx, also \in pool \cup {r.tx : r \in mined} :
       OwnLaunch(tx) /\ OwnLaunch(also) /\ tx.curve = also.curve => tx = also
  /\ \A c \in Curves : c # 0 /\ Launched(c) =>
       \E r \in mined : OwnLaunch(r.tx) /\ r.tx.curve = c /\ r.ok
  /\ \A r \in mined : r.ok /\ r.tx.op = "routerBuy" => Launched(r.tx.curve)

\* A buy whose launch has reverted.
Stale(tx) ==
  tx.op = "routerBuy" /\ \E r \in mined : OwnLaunch(r.tx) /\ r.tx.curve = tx.curve /\ ~r.ok

\* What can still give a wallet tokens is what is owed to it.
LiveInv ==
  /\ \A tx \in pool, w \in Ours \ unsure :
       Buying(tx) /\ Names(tx, w) => tx \in Owing(w) \/ Stale(tx)
  /\ \A tx \in spam : tx \in Owing(tx.from) \/ Mined(tx) \/ tx.from \in unsure

DueInv ==
  \A w \in Ours \ unsure :
    /\ Owing(w) = {} => tokens[w] = booked[w]
    /\ \A tx \in Owing(w) : tokens[w] = booked[w] + Gives(tx, w)

BookInv == StageInv /\ SeenInv /\ ReceiptInv /\ LiveInv /\ DueInv

LEMMA OursAre == Ours \subseteq Accounts /\ Other \notin Ours /\ Treasury \in Ours /\ MakerSet \subseteq Ours
BY Wallets DEF Ours

LEMMA LaunchTxFacts ==
  ASSUME Named
  PROVE  /\ LaunchTx.curve = attempt /\ LaunchTx.from = Treasury
         /\ OwnLaunch(LaunchTx) /\ Buying(LaunchTx) /\ LaunchTx.op # "buy"
         /\ \A w : Names(LaunchTx, w) <=> w = Treasury \/ (mode = "atomic" /\ w \in DOMAIN buys)
<1>1. /\ LaunchTx.curve = attempt /\ LaunchTx.from = Treasury
      /\ OwnLaunch(LaunchTx) /\ Buying(LaunchTx) /\ LaunchTx.op # "buy"
  BY DEF LaunchTx, Tx, OwnLaunch, IsLaunch, Buying
<1>2. \A w : (\E i \in DOMAIN AtomicBuys : AtomicBuys[i].wallet = w) <=> w \in DOMAIN buys
  <2>1. \A w : w \in DOMAIN buys => \E i \in DOMAIN Makers : w = Makers[i]
    BY DEF Named, MakerSet, Range
  <2>2. /\ DOMAIN AtomicBuys = {i \in DOMAIN Makers : Makers[i] \in DOMAIN buys}
        /\ \A i \in DOMAIN AtomicBuys : AtomicBuys[i].wallet = Makers[i]
    BY DEF AtomicBuys
  <2> QED
    BY <2>1, <2>2
<1> QED
  BY <1>1, <1>2, LaunchTxIs DEF Names

LEMMA BuyTxFacts ==
  \A w, v : /\ BuyTx(w, v).from = w /\ BuyTx(w, v).curve = attempt
            /\ BuyTx(w, v).op = IF mode = "window" THEN "routerBuy" ELSE "buy"
            /\ Buying(BuyTx(w, v)) /\ ~IsLaunch(BuyTx(w, v))
            /\ \A x : Names(BuyTx(w, v), x) <=> x = w
BY DEF BuyTx, Tx, Buying, IsLaunch, Names

\* Nothing is owed while no launch is under way.
LEMMA NothingOwed ==
  ASSUME StageInv, pc \in {"idle", "park", "send", "failed"} PROVE pend = {} /\ \A w : Owing(w) = {}
BY DEF StageInv, Owing

LEMMA OneOwed ==
  ASSUME Named, StageInv
  PROVE  \A w : \A tx, also \in Owing(w) : tx = also
<1>1. CASE pc = "sent"
  <2>1. pend = {}
    BY <1>1 DEF StageInv
  <2>2. Treasury \notin DOMAIN buys
    BY Wallets DEF Named
  <2> QED
    BY <2>1, <2>2, LaunchTxFacts DEF Owing
<1>2. CASE pc = "burst"
  <2>1. \A w : Names(LaunchTx, w) <=> w = Treasury
    BY <1>2, LaunchTxFacts DEF StageInv
  <2> QED
    BY <1>2, <2>1 DEF StageInv, Owing
<1>3. CASE pc \notin {"sent", "burst"}
  BY <1>3 DEF StageInv, Owing
<1> QED
  BY <1>1, <1>2, <1>3

LEMMA SameOwing ==
  ASSUME UNCHANGED <<pend, pc, mode, attempt, buys>> PROVE \A w : Owing(w)' = Owing(w)
<1>1. \A op, from : Tx(op, from)' = Tx(op, from)
  BY DEF Tx
<1>2. AtomicBuys' = AtomicBuys
  BY DEF AtomicBuys
<1>3. LaunchTx' = LaunchTx
  BY <1>1, <1>2 DEF LaunchTx
<1>4. \A w, v : BuyTx(w, v)' = BuyTx(w, v)
  BY <1>1 DEF BuyTx
<1> QED
  BY <1>3, <1>4 DEF Owing, Names

LEMMA OwingAfter ==
  ASSUME {pc, pc'} \cap {"sent", "burst"} = {}, pend' = pend PROVE \A w : Owing(w)' = Owing(w)
BY DEF Owing

\* Steps that leave everything owed as it was, or give up on it.
LEMMA OwedKeeps ==
  ASSUME LiveInv, DueInv, UNCHANGED <<tokens, booked, mined>>,
         unsure \subseteq unsure', \A w : w \notin unsure' => Owing(w)' = Owing(w),
         \A tx \in pool' \ pool, w \in Ours \ unsure' : Buying(tx) /\ Names(tx, w) => tx \in Owing(w),
         spam' \subseteq spam
  PROVE  LiveInv' /\ DueInv'
<1>1. \A tx : Mined(tx)' = Mined(tx) /\ Receipt(tx)' = Receipt(tx) /\ Stale(tx)' = Stale(tx)
  BY DEF Mined, Receipt, Stale
<1>2. \A tx, w : Gives(tx, w)' = Gives(tx, w)
  BY <1>1 DEF Gives
<1>3. LiveInv'
  BY <1>1 DEF LiveInv
<1>4. DueInv'
  BY <1>2 DEF DueInv
<1> QED
  BY <1>3, <1>4

\* No new transaction, and no stage that asks more of them.
LEMMA SeenKeeps ==
  ASSUME SeenInv, attempt' = attempt,
         \A tx \in Seen' : Buying(tx) => tx \in Seen,
         pc' \in {"park", "send"} => pc \in {"park", "send"},
         pc' = "sent" => pc = "sent",
         pc' = "burst" => pc = "burst" /\ DOMAIN buys' \subseteq DOMAIN buys
  PROVE  SeenInv'
BY DEF SeenInv

\* Receipts and curves are as they were; what is sent is no launch.
LEMMA ReceiptKeeps ==
  ASSUME ReceiptInv, UNCHANGED <<mined, launchBlock>>,
         \A tx \in pool' \ pool : Buying(tx) => ~Mined(tx) /\ ~OwnLaunch(tx)
  PROVE  ReceiptInv'
<1>1. \A tx \in pool' : OwnLaunch(tx) => tx \in pool
  BY DEF OwnLaunch, IsLaunch, Buying
<1>2. \A tx : Mined(tx)' = Mined(tx)
  BY DEF Mined
<1> QED
  BY <1>1, <1>2 DEF ReceiptInv, Launched

-----------------------------------------------------------------------------
(* What a transaction does when it is included.                             *)

LEMMA CallGives ==
  ASSUME RouterInv, NEW tx, FromHere(tx), Call(tx),
         NEW w \in Accounts, ~(Buying(tx) /\ Names(tx, w))
  PROVE  tokens'[w] = tokens[w]
<1> USE DEF RouterInv
<1>0. tx.from \in Accounts /\ tx.curve \in Curves
  BY DEF FromHere
<1>1. CASE tx.op = "deposit" /\ Deposit(tx.from, Treasury, tx.value)
  BY <1>1 DEF Deposit
<1>2. CASE tx.op = "withdraw" /\ Withdraw(tx.from, 0)
  BY <1>2 DEF Withdraw
<1>3. ASSUME tx.op \notin {"deposit", "withdraw"} PROVE w # tx.from
  BY <1>3 DEF Buying, Names
<1>4. CASE tx.op = "launch" /\ OfficialLaunch(tx)
  BY <1>0, <1>3, <1>4 DEF OfficialLaunch
<1>5. CASE tx.op = "buy" /\ CurveBuy(tx)
  BY <1>0, <1>3, <1>5 DEF CurveBuy
<1>6. CASE tx.op = "routerLaunch" /\ Launch(tx.from, tx.curve, tx.quoteIn, tx.from, tx.value)
  BY <1>0, <1>3, <1>6 DEF Launch
<1>7. CASE tx.op = "routerBuy" /\ BuyAfterLaunch(tx.from, tx.curve, Window, tx.from, tx.value)
  BY <1>0, <1>3, <1>7 DEF BuyAfterLaunch, RoutedBuy
<1>8. CASE tx.op = "atomic" /\ LaunchAndBuyAtomic(tx.from, tx.curve, tx.quoteIn, tx.from, tx.value, tx.buys)
  <2> DEFINE fills == Fills(tx.buys, Room - OpeningFill(tx.quoteIn))
  <2>1. Mine(tx.buys, w) = {}
    BY <1>8 DEF Mine, Names, Buying
  <2>2. fills[w] = 0
    BY <2>1, FillsAre
  <2>3. tokens' = [x \in Accounts |-> tokens[x] + fills[x] + IF x = tx.from THEN OpeningFill(tx.quoteIn) ELSE 0]
    BY <1>8 DEF LaunchAndBuyAtomic
  <2> HIDE DEF fills
  <2> QED
    BY <1>3, <1>8, <2>2, <2>3
<1> QED
  BY <1>1, <1>2, <1>4, <1>5, <1>6, <1>7, <1>8 DEF Call

LEMMA CallLaunches ==
  ASSUME RouterInv, NEW tx, FromHere(tx), Call(tx)
  PROVE  /\ \A c \in Curves : Launched(c) => Launched(c)'
         /\ \A c \in Curves : Launched(c)' /\ ~Launched(c) => c = tx.curve /\ IsLaunch(tx)
         /\ tx.op = "routerBuy" => Launched(tx.curve)
<1> USE DEF RouterInv, Launched, IsLaunch
<1>0. tx.from \in Accounts /\ tx.curve \in Curves
  BY DEF FromHere
<1>1. CASE tx.op \in {"deposit", "withdraw"} /\ (Deposit(tx.from, Treasury, tx.value) \/ Withdraw(tx.from, 0))
  BY <1>1 DEF Deposit, Withdraw
<1>2. CASE tx.op \in {"launch", "buy"} /\ (OfficialLaunch(tx) \/ CurveBuy(tx))
  BY <1>2 DEF OfficialLaunch, CurveBuy
<1>3. CASE tx.op = "routerLaunch" /\ Launch(tx.from, tx.curve, tx.quoteIn, tx.from, tx.value)
  BY <1>0, <1>3 DEF Launch, LaunchTerms
<1>4. CASE tx.op = "routerBuy" /\ BuyAfterLaunch(tx.from, tx.curve, Window, tx.from, tx.value)
  BY <1>0, <1>4 DEF BuyAfterLaunch, RoutedBuy
<1>5. CASE tx.op = "atomic" /\ LaunchAndBuyAtomic(tx.from, tx.curve, tx.quoteIn, tx.from, tx.value, tx.buys)
  BY <1>0, <1>5 DEF LaunchAndBuyAtomic, LaunchTerms
<1> QED
  BY <1>1, <1>2, <1>3, <1>4, <1>5 DEF Call


LEMMA OwingNames ==
  ASSUME Named, StageInv
  PROVE  \A w : \A tx \in Owing(w) : Buying(tx) /\ Names(tx, w)
<1>1. \A tx \in pend : Buying(tx) /\ \A w : tx.from = w => Names(tx, w)
  BY DEF StageInv, Buying, Names
<1> QED
  BY <1>1, LaunchTxFacts, BuyTxFacts DEF Owing

\* The launch of a curve that has launched did not revert.
LEMMA StaleFails ==
  ASSUME SeenInv, ReceiptInv, NEW tx, Stale(tx) PROVE ~Launched(tx.curve)
<1>1. PICK r \in mined : OwnLaunch(r.tx) /\ r.tx.curve = tx.curve /\ ~r.ok
  BY DEF Stale
<1>2. Buying(r.tx) /\ r.tx \in Seen /\ r.tx.from = Treasury
  BY <1>1 DEF OwnLaunch, IsLaunch, Buying, Seen
<1>3. tx.curve \in Curves /\ tx.curve # 0
  BY <1>1, <1>2, Wallets DEF SeenInv
<1> SUFFICES ASSUME Launched(tx.curve) PROVE FALSE
  OBVIOUS
<1>4. PICK done \in mined : OwnLaunch(done.tx) /\ done.tx.curve = tx.curve /\ done.ok
  BY <1>3 DEF ReceiptInv
<1>5. done.tx = r.tx
  BY <1>1, <1>4 DEF ReceiptInv
<1> QED
  BY <1>1, <1>2, <1>4, <1>5 DEF ReceiptInv

\* A transaction gets its receipt.
LEMMA NewReceipt ==
  ASSUME ReceiptInv, NEW tx \in pool, NEW r, r.tx = tx, mined' = mined \cup {r}
  PROVE  /\ \A x : Mined(x) => Mined(x)'
         /\ Buying(tx) => ~Mined(tx) /\ Mined(tx)' /\ Receipt(tx)' = r
         /\ \A x : x # tx => (Mined(x)' <=> Mined(x))
         /\ \A x : x # tx /\ Buying(x) /\ Mined(x) => Receipt(x)' = Receipt(x)
<1>1. \A x : Mined(x) => Mined(x)'
  BY DEF Mined
<1>2. \A x : x # tx => (Mined(x)' <=> Mined(x))
  BY DEF Mined
<1>3. \A x : Mined(x)' => Receipt(x)' \in mined' /\ Receipt(x)'.tx = x
  BY DEF Mined, Receipt
<1>4. ASSUME Buying(tx) PROVE ~Mined(tx) /\ Mined(tx)' /\ Receipt(tx)' = r
  <2>1. ~Mined(tx)
    BY <1>4 DEF ReceiptInv
  <2>2. Mined(tx)'
    BY DEF Mined
  <2> QED
    BY <1>3, <2>1, <2>2 DEF Mined
<1>5. ASSUME NEW x, x # tx, Buying(x), Mined(x) PROVE Receipt(x)' = Receipt(x)
  <2>1. Receipt(x) \in mined /\ Receipt(x).tx = x
    BY <1>5, ReceiptIs
  <2>2. Receipt(x)' \in mined /\ Receipt(x)'.tx = x
    BY <1>1, <1>3, <1>5
  <2> QED
    BY <1>5, <2>1, <2>2 DEF ReceiptInv
<1> QED
  BY <1>1, <1>2, <1>4, <1>5

LEMMA ReceiptBooks ==
  ASSUME Inv, TypeInv, BookInv, NEW tx \in pool, NEW r, r.tx = tx, r.ok \in BOOLEAN,
         mined' = mined \cup {r}, pool' = pool \ {tx},
         UNCHANGED <<attempt, mode, pc, buys, spam, pend, booked>>, unsure \subseteq unsure',
         \A w \in Accounts : tokens'[w] \in Nat,
         \A w \in Accounts : r.ok => r.fills[w] = tokens'[w] - tokens[w],
         \A w \in Accounts : ~(r.ok /\ Buying(tx) /\ Names(tx, w)) => tokens'[w] = tokens[w],
         \A c \in Curves : Launched(c) => Launched(c)',
         \A c \in Curves : Launched(c)' /\ ~Launched(c) => c = tx.curve /\ IsLaunch(tx) /\ r.ok,
         tx.op = "routerBuy" /\ r.ok => Launched(tx.curve)
  PROVE  BookInv'
<1>1. StageInv /\ SeenInv /\ ReceiptInv /\ LiveInv /\ DueInv
  BY DEF BookInv
<1>2. /\ \A x : Mined(x) => Mined(x)'
      /\ Buying(tx) => ~Mined(tx) /\ Mined(tx)' /\ Receipt(tx)' = r
      /\ \A x : x # tx => (Mined(x)' <=> Mined(x))
      /\ \A x : x # tx /\ Buying(x) /\ Mined(x) => Receipt(x)' = Receipt(x)
  BY <1>1, NewReceipt
<1>3. \A w : Owing(w)' = Owing(w)
  BY SameOwing
<1>4. StageInv'
  BY <1>1 DEF StageInv
<1>5. SeenInv'
  <2>1. Seen' \subseteq Seen
    BY DEF Seen
  <2> QED
    BY <1>1, <2>1, SeenKeeps
<1>6. tx \in Seen /\ \A x \in mined : x.tx \in Seen
  BY DEF Seen
<1>7. ReceiptInv'
  <2>1. \A x \in pool' : Buying(x) => ~Mined(x)'
    BY <1>1, <1>2 DEF ReceiptInv
  <2>2. \A x, also \in mined' : Buying(x.tx) /\ x.tx = also.tx => x = also
    <3>1. Buying(tx) => \A x \in mined : x.tx # tx
      BY <1>2 DEF Mined
    <3> QED
      BY <1>1, <3>1 DEF ReceiptInv
  <2>3. \A x, also \in pool' \cup {y.tx : y \in mined'} :
          OwnLaunch(x) /\ OwnLaunch(also) /\ x.curve = also.curve => x = also
    <3>1. pool' \cup {y.tx : y \in mined'} \subseteq pool \cup {y.tx : y \in mined}
      OBVIOUS
    <3> QED
      BY <1>1, <3>1 DEF ReceiptInv
  <2>4. ASSUME NEW c \in Curves, c # 0, Launched(c)'
        PROVE  \E x \in mined' : OwnLaunch(x.tx) /\ x.tx.curve = c /\ x.ok
    <3>1. CASE Launched(c)
      BY <1>1, <2>4, <3>1 DEF ReceiptInv
    <3>2. CASE ~Launched(c)
      <4>1. c = tx.curve /\ IsLaunch(tx) /\ r.ok
        BY <2>4, <3>2
      <4>2. tx.from = Treasury
        BY <1>1, <1>6, <2>4, <4>1 DEF SeenInv, IsLaunch, Buying
      <4> QED
        BY <4>1, <4>2 DEF OwnLaunch
    <3> QED
      BY <3>1, <3>2
  <2>5. ASSUME NEW x \in mined', x.ok, x.tx.op = "routerBuy" PROVE Launched(x.tx.curve)'
    <3>1. x.tx \in Seen /\ Buying(x.tx)
      BY <1>6, <2>5 DEF Buying
    <3>2. x.tx.curve \in Curves
      BY <1>1, <3>1 DEF SeenInv
    <3>3. Launched(x.tx.curve)
      BY <1>1, <2>5 DEF ReceiptInv
    <3> QED
      BY <3>2, <3>3
  <2> QED
    BY <2>1, <2>2, <2>3, <2>4, <2>5 DEF ReceiptInv
<1>8. LiveInv'
  <2>1. \A x : Stale(x) => Stale(x)'
    BY DEF Stale
  <2> QED
    BY <1>1, <1>2, <1>3, <2>1 DEF LiveInv
<1>9. ASSUME NEW w \in Ours \ unsure
      PROVE  /\ Owing(w) = {} => tokens'[w] = booked[w]
             /\ \A x \in Owing(w) : tokens'[w] = booked[w] + Gives(x, w)'
  <2>0. w \in Accounts /\ tokens[w] \in Nat /\ booked[w] \in Nat
    BY OursAre DEF Inv, RouterInv, TypeInv
  <2>1. \A x \in Owing(w) : Buying(x) /\ Names(x, w) /\ \A also \in Owing(w) : x = also
    BY <1>1, OwingNames, OneOwed DEF Inv
  <2>2. \A x \in Owing(w) : x # tx => Gives(x, w)' = Gives(x, w)
    BY <1>2, <2>1 DEF Gives
  <2>3. CASE r.ok /\ Buying(tx) /\ Names(tx, w)
    <3>1. tx \in Owing(w)
      BY <1>1, <2>3, StaleFails DEF LiveInv, Stale
    <3>2. Gives(tx, w) = 0 /\ Gives(tx, w)' = r.fills[w]
      BY <1>2, <2>3 DEF Gives
    <3>3. tokens[w] = booked[w] + Gives(tx, w)
      BY <1>1, <3>1 DEF DueInv
    <3>4. tokens'[w] = booked[w] + Gives(tx, w)'
      BY <2>0, <2>3, <3>2, <3>3
    <3> QED
      BY <2>1, <3>1, <3>4
  <2>4. CASE ~(r.ok /\ Buying(tx) /\ Names(tx, w))
    <3>1. tokens'[w] = tokens[w]
      BY <2>0, <2>4
    <3>2. tx \in Owing(w) => Gives(tx, w)' = Gives(tx, w)
      BY <1>2, <2>1, <2>4 DEF Gives
    <3> QED
      BY <1>1, <2>2, <3>1, <3>2 DEF DueInv
  <2> QED
    BY <2>3, <2>4
<1>10. DueInv'
  BY <1>3, <1>9 DEF DueInv
<1> QED
  BY <1>4, <1>5, <1>7, <1>8, <1>10 DEF BookInv

LEMMA ForgottenBooks ==
  ASSUME Inv, BookInv, NEW tx \in pool, pool' = pool \ {tx}, unsure \subseteq unsure',
         UNCHANGED <<attempt, mode, pc, buys, spam, pend, booked, mined, tokens, launchBlock>>
  PROVE  BookInv'
<1> USE DEF BookInv
<1>1. \A w : Owing(w)' = Owing(w)
  BY SameOwing
<1>2. LiveInv' /\ DueInv'
  BY <1>1, OwedKeeps
<1>3. SeenInv'
  BY SeenKeeps DEF Seen
<1>4. ReceiptInv'
  BY ReceiptKeeps
<1>5. StageInv'
  BY DEF StageInv
<1> QED
  BY <1>2, <1>3, <1>4, <1>5

LEMMA IncludeBooks ==
  ASSUME Inv, TypeInv, BookInv, NEW tx \in pool, Include(tx)
  PROVE  BookInv'
<1>0. FromHere(tx) /\ RouterInv
  BY DEF Inv, Named
<1>1. /\ pool' = pool \ {tx}
      /\ UNCHANGED <<attempt, mode, pc, buys, spam, pend, booked, unsure>>
  BY DEF Include, UnchangedByChain, localVars
<1>2. CASE Call(tx) /\ mined' = mined \cup {[tx |-> tx, ok |-> TRUE,
                                            fills |-> [w \in Accounts |-> tokens'[w] - tokens[w]]]}
  <2> DEFINE r == [tx |-> tx, ok |-> TRUE, fills |-> [w \in Accounts |-> tokens'[w] - tokens[w]]]
  <2>1. r.tx = tx /\ r.ok = TRUE /\ \A w \in Accounts : r.fills[w] = tokens'[w] - tokens[w]
    OBVIOUS
  <2>2. mined' = mined \cup {r}
    BY <1>2
  <2> HIDE DEF r
  <2>3. \A w \in Accounts : tokens'[w] \in Nat
    <3>1. RouterInv'
      BY <1>0, <1>2, TransactionKeeps
    <3> QED
      BY <3>1 DEF RouterInv
  <2>4. \A w \in Accounts : ~(r.ok /\ Buying(tx) /\ Names(tx, w)) => tokens'[w] = tokens[w]
    BY <1>0, <1>2, <2>1, CallGives
  <2>5. /\ \A c \in Curves : Launched(c) => Launched(c)'
        /\ \A c \in Curves : Launched(c)' /\ ~Launched(c) => c = tx.curve /\ IsLaunch(tx) /\ r.ok
        /\ tx.op = "routerBuy" /\ r.ok => Launched(tx.curve)
    BY <1>0, <1>2, <2>1, CallLaunches
  <2> QED
    BY <1>1, <2>1, <2>2, <2>3, <2>4, <2>5, ReceiptBooks
<1>3. CASE UNCHANGED routerVars /\ mined' = mined \cup {[tx |-> tx, ok |-> FALSE, fills |-> NoBuys]}
  <2> DEFINE r == [tx |-> tx, ok |-> FALSE, fills |-> NoBuys]
  <2>1. r.tx = tx /\ r.ok = FALSE /\ mined' = mined \cup {r}
    BY <1>3
  <2> HIDE DEF r
  <2>2. tokens' = tokens /\ launchBlock' = launchBlock /\ tokens \in [Accounts -> Nat]
    BY <1>0, <1>3 DEF routerVars, RouterInv
  <2>3. \A c : Launched(c)' = Launched(c)
    BY <2>2 DEF Launched
  <2> QED
    BY <1>1, <2>1, <2>2, <2>3, ReceiptBooks
<1>4. CASE UNCHANGED <<routerVars, mined>>
  BY <1>1, <1>4, ForgottenBooks DEF routerVars
<1> QED
  BY <1>2, <1>3, <1>4 DEF Include

LEMMA RefuseBooks ==
  ASSUME Inv, TypeInv, BookInv, NEW tx \in pool, Refuse(tx)
  PROVE  BookInv'
<1>1. /\ pool' = pool \ {tx} /\ unsure \subseteq unsure'
      /\ UNCHANGED <<attempt, mode, pc, buys, spam, pend, booked, tokens, launchBlock>>
  BY DEF Refuse, localVars, routerVars
<1>2. CASE mined' = mined
  BY <1>1, <1>2, ForgottenBooks
<1>3. CASE mined' = mined \cup {[tx |-> tx, ok |-> FALSE, fills |-> NoBuys]}
  <2> DEFINE r == [tx |-> tx, ok |-> FALSE, fills |-> NoBuys]
  <2>1. r.tx = tx /\ r.ok = FALSE /\ mined' = mined \cup {r}
    BY <1>3
  <2> HIDE DEF r
  <2>2. tokens \in [Accounts -> Nat] /\ tokens' = tokens
    BY <1>1 DEF Inv, RouterInv
  <2>3. \A c : Launched(c)' = Launched(c)
    BY <1>1 DEF Launched
  <2> QED
    BY <1>1, <2>1, <2>2, <2>3, ReceiptBooks
<1> QED
  BY <1>2, <1>3 DEF Refuse


-----------------------------------------------------------------------------
(* The program's steps.                                                     *)

LEMMA InitBooks == Init => BookInv
BY DEF Init, BookInv, StageInv, SeenInv, ReceiptInv, LiveInv, DueInv, Seen, Owing, Launched

\* A step that has nothing to do with what is owed.
LEMMA QuietBooks ==
  ASSUME Inv, BookInv,
         UNCHANGED <<attempt, mode, pend, booked, mined, tokens, launchBlock>>,
         spam' \subseteq spam, unsure \subseteq unsure',
         \A tx \in pool' \ pool : Buying(tx) => tx \in spam /\ ~Mined(tx),
         \/ UNCHANGED <<pc, buys>>
         \/ pc \notin {"sent", "burst"} /\ pc' \notin {"sent", "burst"} /\ (pc' \in {"park", "send"} => pc \in {"park", "send"})
            /\ (spam' # {} => pc' = "running") /\ (pend # {} => pc' = "running")
  PROVE  BookInv'
<1> USE DEF BookInv
<1>1. \A w : Owing(w)' = Owing(w)
  BY SameOwing, OwingAfter
<1>2. \A tx \in pool' \ pool : Buying(tx) => ~IsLaunch(tx) /\ tx.op = "routerBuy"
  BY DEF StageInv, IsLaunch
<1>3. \A tx \in pool' \ pool, w \in Ours \ unsure' : Buying(tx) /\ Names(tx, w) => tx \in Owing(w)
  BY <1>2 DEF LiveInv, Names
<1>4. LiveInv' /\ DueInv'
  BY <1>1, <1>3, OwedKeeps
<1>5. SeenInv'
  <2>1. \A tx \in Seen' : Buying(tx) => tx \in Seen
    BY DEF Seen
  <2> QED
    BY <2>1, SeenKeeps
<1>6. ReceiptInv'
  BY <1>2, ReceiptKeeps DEF OwnLaunch
<1>7. StageInv'
  BY DEF StageInv
<1> QED
  BY <1>4, <1>5, <1>6, <1>7

LEMMA ParkBooks ==
  ASSUME Inv, BookInv,
         \/ \E w \in DOMAIN park : \/ Excluded(w) \/ Kept(w) \/ SendDeposit(w) \/ Panic(w)
                                   \/ DepositReadFails(w)
         \/ ParkingOver
  PROVE  BookInv'
<1>1. pc = "park" /\ pend = {} /\ spam = {}
  BY DEF BookInv, StageInv, Excluded, Kept, SendDeposit, Panic, DepositReadFails, ParkingOver
<1>2. /\ UNCHANGED <<attempt, mode, pend, booked, mined, tokens, launchBlock, spam, unsure>>
      /\ pc' \in {"park", "idle", "failed", "send"}
      /\ \A tx \in pool' \ pool : tx.op = "deposit"
  BY <1>1 DEF Excluded, Kept, SendDeposit, Panic, DepositReadFails, ParkingOver, UnchangedByPark, Fail,
              DepositTx, Tx, routerVars
<1> QED
  BY <1>1, <1>2, QuietBooks DEF Buying

LEMMA OtherBooks ==
  ASSUME Inv, BookInv, NEW w \in MakerSet, OtherLaunch(w)
  PROVE  BookInv'
<1> USE DEF BookInv
<1> DEFINE b == [wallet |-> w, quoteIn |-> 1]
           tx == [Tx("atomic", Other) EXCEPT !.curve = 0, !.value = Fee, !.buys = <<b>>]
<1>1. tx.op = "atomic" /\ tx.from = Other /\ tx.curve = 0 /\ tx.buys = <<b>> /\ b.wallet = w
  BY DEF Tx
<1>2. /\ pool' = pool \cup {tx} /\ ~Mined(tx) /\ unsure' = unsure \cup {w}
      /\ UNCHANGED <<attempt, mode, pc, buys, spam, pend, booked, mined, tokens, launchBlock>>
  BY DEF OtherLaunch, localVars, routerVars
<1> HIDE DEF tx
<1>3. \A x \in Ours \ unsure' : ~Names(tx, x)
  <2>1. tx.buys[1].wallet = w /\ DOMAIN tx.buys = {1}
    <3> HIDE DEF b
    <3> QED
      BY <1>1
  <2> QED
    BY <1>1, <1>2, <2>1, OursAre DEF Names
<1> HIDE DEF b
<1>4. \A x : Owing(x)' = Owing(x)
  BY <1>2, SameOwing
<1>5. LiveInv' /\ DueInv'
  BY <1>2, <1>3, <1>4, OwedKeeps
<1>6. SeenInv'
  <2>1. Seen' = Seen \cup {tx}
    BY <1>2 DEF Seen
  <2>2. 0 \in Curves /\ Other # Treasury
    BY LaunchAssumption
  <2> QED
    BY <1>1, <1>2, <2>1, <2>2 DEF SeenInv
<1>7. ReceiptInv'
  BY <1>1, <1>2, Wallets, ReceiptKeeps DEF OwnLaunch
<1>8. StageInv'
  BY <1>2 DEF StageInv
<1> QED
  BY <1>5, <1>6, <1>7, <1>8

LEMMA PrepareBooks ==
  ASSUME Inv, BookInv, NEW m \in Modes, Prepare(m)
  PROVE  BookInv'
<1> USE DEF BookInv
<1>1. /\ pc \in {"idle", "failed"} /\ pc' \in {"failed", "park", "send"}
      /\ attempt' = attempt + 1 /\ attempt' \in Curves /\ attempt \in Nat
      /\ UNCHANGED <<pool, mined, spam, pend, booked, unsure, tokens, launchBlock>>
  BY AttemptType DEF Prepare, Fail, routerVars
<1>2. pend = {} /\ spam = {} /\ \A w : Owing(w) = {}
  BY <1>1, NothingOwed DEF StageInv
<1>3. \A w : Owing(w)' = {}
  BY <1>1, <1>2 DEF Owing
<1>4. LiveInv' /\ DueInv'
  BY <1>1, <1>2, <1>3, OwedKeeps
<1>5. SeenInv'
  <2>1. Seen' = Seen
    BY <1>1 DEF Seen
  <2>2. \A n \in 1..attempt : n \in 1..attempt' /\ n < attempt'
    BY <1>1
  <2> QED
    BY <1>1, <2>1, <2>2 DEF SeenInv
<1>6. ReceiptInv'
  BY <1>1, ReceiptKeeps
<1>7. StageInv'
  BY <1>1, <1>2 DEF StageInv
<1> QED
  BY <1>4, <1>5, <1>6, <1>7



\* The launch, and the buys sent along with it, are newer than all that is out.
LEMMA LaunchIsNew ==
  ASSUME Inv, BookInv, pc = "send", pc' \in {"sent", "failed"}, pool' = pool \cup {LaunchTx},
         UNCHANGED <<attempt, mined, launchBlock, pend>>,
         \A tx \in spam' : tx \in spam \/ (mode = "window" /\ \E w \in MakerSet : \E v : tx = BuyTx(w, v))
  PROVE  /\ \A tx : Buying(tx) /\ tx.curve = attempt => ~Mined(tx)
         /\ SeenInv' /\ ReceiptInv'
<1> USE DEF BookInv
<1>1. attempt \in Curves /\ attempt \in Nat /\ attempt > 0
  BY AttemptType DEF StageInv, Inv, Named
<1>2. \A tx \in Seen : Buying(tx) => tx.curve # attempt
  <2>1. \A tx \in Seen : Buying(tx) => tx.curve = 0 \/ tx.curve < attempt
    BY DEF SeenInv
  <2> QED
    BY <1>1, <2>1
<1>3. \A tx : Buying(tx) /\ tx.curve = attempt => ~Mined(tx)
  BY <1>2 DEF Mined, Seen
<1>4. /\ LaunchTx.curve = attempt /\ LaunchTx.from = Treasury
      /\ OwnLaunch(LaunchTx) /\ Buying(LaunchTx) /\ LaunchTx.op # "buy" /\ Treasury # Other
  BY LaunchTxFacts, Wallets DEF Inv
<1>5. SeenInv'
  <2>1. \A tx \in spam' \ spam : tx.op = "routerBuy" /\ tx.curve = attempt /\ tx.from \in MakerSet
    BY BuyTxFacts
  <2>2. \A tx \in Seen' : tx \in Seen \/ tx = LaunchTx \/ tx \in spam' \ spam
    BY DEF Seen
  <2>3. \A tx \in Seen : Buying(tx) =>
          /\ tx.curve \in Curves
          /\ tx.from = Other => tx.curve = 0 /\ tx.op = "atomic"
          /\ tx.from # Other => tx.curve \in 1..attempt
          /\ IsLaunch(tx) => tx.from \in {Treasury, Other}
    BY DEF SeenInv
  <2>4. \A tx \in Seen' : Buying(tx) =>
          /\ tx.curve \in Curves
          /\ tx.from = Other => tx.curve = 0 /\ tx.op = "atomic"
          /\ tx.from # Other => tx.curve \in 1..attempt
          /\ IsLaunch(tx) => tx.from \in {Treasury, Other}
          /\ ~(tx.op = "buy" /\ tx.curve = attempt)
    BY <1>1, <1>2, <1>4, <2>1, <2>2, <2>3, Wallets DEF IsLaunch
  <2> QED
    BY <2>4 DEF SeenInv
<1>6. ReceiptInv'
  <2>1. \A tx : Mined(tx)' = Mined(tx)
    BY DEF Mined
  <2>2. \A tx \in pool \cup {r.tx : r \in mined} : OwnLaunch(tx) => tx.curve # attempt
    BY <1>2 DEF Seen, OwnLaunch, IsLaunch, Buying
  <2>3. \A tx, also \in pool' \cup {r.tx : r \in mined'} :
          OwnLaunch(tx) /\ OwnLaunch(also) /\ tx.curve = also.curve => tx = also
    BY <1>4, <2>2 DEF ReceiptInv
  <2> QED
    BY <1>3, <1>4, <2>1, <2>3 DEF ReceiptInv, Launched
<1> QED
  BY <1>3, <1>5, <1>6

LEMMA SendBooks ==
  ASSUME Inv, BookInv, SendLaunch \/ SendFails
  PROVE  BookInv'
<1> USE DEF BookInv
<1>1. /\ pc = "send" /\ pend = {} /\ spam = {}
      /\ UNCHANGED <<attempt, mode, mined, pend, booked, tokens, launchBlock>>
  BY DEF SendLaunch, SendFails, StageInv, routerVars
<1>2. \A w : Owing(w) = {}
  BY <1>1, NothingOwed
<1>3. CASE pool' = pool
  <2>1. pc' = "failed" /\ spam' = spam /\ unsure \subseteq unsure'
    <3>1. LaunchTx \notin pool
      <4>1. attempt \in Nat /\ attempt > 0
        BY <1>1, AttemptType DEF StageInv
      <4> QED
        BY <1>1, <4>1, LaunchTxFacts DEF Inv, SeenInv, Seen
    <3> QED
      BY <1>3, <3>1 DEF SendLaunch, SendFails, Fail
  <2> QED
    BY <1>1, <1>3, <2>1, QuietBooks
<1>4. CASE SendLaunch /\ pc' = "sent" /\ pool' = pool \cup {LaunchTx}
  <2>1. /\ UNCHANGED unsure /\ (mode # "window" => buys' = buys)
        /\ spam' = IF mode = "window" THEN BuyTxs(buys') ELSE spam
        /\ DOMAIN buys' \subseteq MakerSet
    <3>1. Named'
      BY <1>4, StepNamed DEF Inv, Next, Program
    <3> QED
      BY <1>4, <3>1 DEF SendLaunch, Fail, Named
  <2>2. \A tx \in spam' : mode = "window" /\ \E w \in DOMAIN buys' : tx = BuyTx(w, buys'[w])
    BY <1>1, <2>1 DEF BuyTxs
  <2>3. \A tx : Buying(tx) /\ tx.curve = attempt => ~Mined(tx)
    BY <1>1, <1>4, <2>1, <2>2, LaunchIsNew
  <2>4. SeenInv' /\ ReceiptInv'
    BY <1>1, <1>4, <2>1, <2>2, LaunchIsNew
  <2>5. LaunchTx' = LaunchTx
    <3>1. \A op, from : Tx(op, from)' = Tx(op, from)
      BY <1>1 DEF Tx
    <3>2. mode # "window" => AtomicBuys' = AtomicBuys
      BY <2>1 DEF AtomicBuys
    <3> QED
      BY <1>1, <3>1, <3>2 DEF LaunchTx
  <2>6. \A w, v : BuyTx(w, v)' = BuyTx(w, v)
    BY <1>1 DEF BuyTx, Tx
  <2>7. \A w : Owing(w)' =
          (IF Names(LaunchTx, w) THEN {LaunchTx} ELSE {})
          \cup (IF mode = "window" /\ w \in DOMAIN buys' THEN {BuyTx(w, buys'[w])} ELSE {})
    BY <1>1, <1>4, <2>5, <2>6 DEF Owing, Names
  <2>8. \A tx : Mined(tx)' = Mined(tx) /\ Stale(tx)' = Stale(tx)
    BY <1>1 DEF Mined, Stale
  <2>9. LiveInv'
    <3>1. \A tx \in pool, w \in Ours \ unsure : Buying(tx) /\ Names(tx, w) => Stale(tx)
      BY <1>2 DEF LiveInv
    <3>2. \A tx \in spam' : tx \in Owing(tx.from)'
      BY <2>2, <2>7, BuyTxFacts
    <3> QED
      BY <1>4, <2>1, <2>7, <2>8, <3>1, <3>2 DEF LiveInv
  <2>10. DueInv'
    <3>1. \A w : \A tx \in Owing(w)' : Gives(tx, w)' = 0
      <4>1. \A w : \A tx \in Owing(w)' : Buying(tx) /\ tx.curve = attempt
        BY <2>7, LaunchTxFacts, BuyTxFacts DEF Inv
      <4> QED
        BY <2>3, <2>8, <4>1 DEF Gives
    <3>2. \A w \in Ours \ unsure : tokens[w] = booked[w] /\ tokens[w] \in Nat
      BY <1>2, OursAre DEF DueInv, Inv, RouterInv
    <3> QED
      BY <1>1, <2>1, <3>1, <3>2 DEF DueInv
  <2>11. StageInv'
    BY <1>1, <1>4, <2>2, BuyTxFacts DEF StageInv
  <2> QED
    BY <2>4, <2>9, <2>10, <2>11
<1>5. CASE /\ SendFails /\ pc' = "failed" /\ pool' = pool \cup {LaunchTx}
           /\ unsure' = unsure \cup DOMAIN buys \cup {Treasury} /\ UNCHANGED <<buys, spam>>
  <2>1. SeenInv' /\ ReceiptInv'
    BY <1>1, <1>5, LaunchIsNew
  <2>2. \A w : Owing(w)' = {}
    BY <1>1, <1>5 DEF Owing
  <2>3. \A w \in Ours \ unsure' : ~Names(LaunchTx, w)
    BY <1>5, LaunchTxFacts DEF Inv
  <2>4. LiveInv' /\ DueInv'
    BY <1>1, <1>2, <1>5, <2>2, <2>3, OwedKeeps
  <2>5. StageInv'
    BY <1>1, <1>5 DEF StageInv
  <2> QED
    BY <2>1, <2>4, <2>5
<1> QED
  BY <1>3, <1>4, <1>5 DEF SendLaunch, SendFails, Fail


\* What is owed while the launch's receipt is awaited.
LEMMA OwingSent ==
  ASSUME Named, StageInv, pc = "sent"
  PROVE  /\ pend = {}
         /\ \A w : \A tx \in Owing(w) : \/ tx = LaunchTx /\ Names(LaunchTx, w)
                                        \/ /\ mode = "window" /\ w \in DOMAIN buys
                                           /\ tx = BuyTx(w, buys[w])
         /\ \A w : Names(LaunchTx, w) => LaunchTx \in Owing(w)
         /\ \A w : mode = "window" /\ w \in DOMAIN buys => BuyTx(w, buys[w]) \in Owing(w)
BY DEF StageInv, Owing

LEMMA LandedBooks ==
  ASSUME Inv, TypeInv, BookInv, LaunchLanded
  PROVE  BookInv'
<1> USE DEF BookInv
<1> DEFINE r == Receipt(LaunchTx)
           new == IF mode = "window" THEN BuyTxs(buys) ELSE {}
           all == {Treasury} \cup IF mode = "atomic" THEN DOMAIN buys ELSE {}
           ws == IF mode = "off" THEN {} ELSE all
<1>1. /\ pc = "sent" /\ Mined(LaunchTx) /\ r.ok /\ pend' = pend \cup new
      /\ mode = "off" => pc' = "burst"
      /\ mode # "off" => pc' = "running" /\ buys' = buys
      /\ mode = "off" => UNCHANGED booked
      /\ mode # "off" => booked' = [w \in Accounts |-> booked[w] + IF w \in all THEN r.fills[w] ELSE 0]
      /\ UNCHANGED <<attempt, mode, pool, mined, spam, unsure, tokens, launchBlock>>
  BY DEF LaunchLanded, Book, routerVars
<1>2. /\ pend = {}
      /\ \A w : \A tx \in Owing(w) : \/ tx = LaunchTx /\ Names(LaunchTx, w)
                                     \/ /\ mode = "window" /\ w \in DOMAIN buys
                                        /\ tx = BuyTx(w, buys[w])
      /\ \A w : Names(LaunchTx, w) => LaunchTx \in Owing(w)
      /\ \A w : mode = "window" /\ w \in DOMAIN buys => BuyTx(w, buys[w]) \in Owing(w)
  BY <1>1, OwingSent DEF Inv
<1>3. \A w : Names(LaunchTx, w) <=> w \in all
  BY LaunchTxFacts DEF Inv
<1>4. DOMAIN buys \subseteq MakerSet /\ attempt \in Curves /\ Treasury \notin MakerSet
  BY Wallets DEF Inv, Named
<1>5. \A tx : tx \in new <=> mode = "window" /\ \E w \in DOMAIN buys : tx = BuyTx(w, buys[w])
  BY DEF BuyTxs
<1>6. \A w : Owing(w)' = {tx \in new : tx.from = w}
                          \cup (IF mode = "off" /\ w \in all THEN {LaunchTx} ELSE {})
  <2>1. mode = "off" => LaunchTx' = LaunchTx
    BY <1>1 DEF LaunchTx, Tx
  <2>2. mode = "off" => \A w : Names(LaunchTx', w) <=> w \in all
    BY <1>3, <2>1
  <2>3. mode = "off" => \A w : Names(LaunchTx, w)' <=> w \in all
    BY <2>1, <2>2 DEF Names
  <2> HIDE DEF new, all
  <2> QED
    BY <1>1, <1>2, <2>1, <2>3 DEF Owing
<1>7. \A w : w \in ws => Owing(w)' = {}
  BY <1>4, <1>5, <1>6, BuyTxFacts
<1>8. ASSUME NEW w, w \notin ws PROVE Owing(w)' = Owing(w)
  <2>1. ASSUME NEW tx \in Owing(w) PROVE tx \in Owing(w)'
    <3>1. CASE mode = "window" /\ w \in DOMAIN buys /\ tx = BuyTx(w, buys[w])
      BY <1>5, <1>6, <3>1, BuyTxFacts
    <3>2. CASE tx = LaunchTx /\ w \in all
      BY <1>6, <1>8, <3>2
    <3> QED
      BY <1>2, <1>3, <3>1, <3>2
  <2>2. ASSUME NEW tx \in Owing(w)', tx # LaunchTx \/ w \notin all PROVE tx \in Owing(w)
    <3>1. mode = "window" /\ tx.from = w /\ \E x \in DOMAIN buys : tx = BuyTx(x, buys[x])
      BY <1>5, <1>6, <2>2
    <3>2. w \in DOMAIN buys /\ tx = BuyTx(w, buys[w])
      BY <3>1, BuyTxFacts
    <3> QED
      BY <1>2, <3>1, <3>2
  <2>3. w \in all => LaunchTx \in Owing(w)
    BY <1>2, <1>3
  <2> QED
    BY <2>1, <2>2, <2>3
<1>9. \A tx : Mined(tx)' = Mined(tx) /\ Receipt(tx)' = Receipt(tx) /\ Stale(tx)' = Stale(tx)
  BY <1>1 DEF Mined, Receipt, Stale
<1>10. DueInv'
  <2> SUFFICES ASSUME NEW w \in Ours \ unsure
               PROVE  /\ Owing(w)' = {} => tokens[w] = booked'[w]
                      /\ \A tx \in Owing(w)' : tokens[w] = booked'[w] + Gives(tx, w)'
    BY <1>1 DEF DueInv
  <2>1. w \in Accounts /\ booked[w] \in Nat
    BY OursAre DEF TypeInv
  <2>2. CASE w \in ws
    <3>1. LaunchTx \in Owing(w) /\ Gives(LaunchTx, w) = r.fills[w]
      BY <1>1, <1>2, <1>3, <2>2 DEF Gives
    <3>2. mode # "off" /\ w \in all
      BY <2>2
    <3> HIDE DEF r, ws, all
    <3>3. booked'[w] = tokens[w]
      BY <1>1, <2>1, <3>1, <3>2 DEF DueInv
    <3> QED
      BY <1>7, <2>2, <3>3
  <2>3. CASE w \notin ws
    <3>0. mode = "off" \/ w \notin all
      BY <2>3
    <3> HIDE DEF r, ws, new, all
    <3>1. booked'[w] = booked[w]
      BY <1>1, <2>1, <3>0
    <3>2. \A tx : Gives(tx, w)' = Gives(tx, w)
      BY <1>9 DEF Gives
    <3> QED
      BY <1>8, <2>3, <3>1, <3>2 DEF DueInv
  <2> QED
    BY <2>2, <2>3
<1> HIDE DEF r, ws, all
<1>11. LiveInv'
  <2>1. \A tx : tx = LaunchTx => tx \notin pool \/ ~Buying(tx)
    BY <1>1 DEF ReceiptInv
  <2>2. Buying(LaunchTx)
    BY LaunchTxFacts DEF Inv
  <2>3. \A w : \A tx \in Owing(w) : tx = LaunchTx \/ tx \in Owing(w)'
    BY <1>2, <1>5, <1>6, BuyTxFacts
  <2>4. \A tx \in pool, w \in Ours \ unsure :
          Buying(tx) /\ Names(tx, w) => tx \in Owing(w)' \/ Stale(tx)
    BY <2>1, <2>3 DEF LiveInv
  <2>5. \A tx \in spam : tx \in Owing(tx.from)' \/ Mined(tx) \/ tx.from \in unsure
    BY <1>1, <2>3 DEF LiveInv
  <2> QED
    BY <1>1, <1>9, <2>4, <2>5 DEF LiveInv
<1>12. StageInv'
  <2>1. new # {} => pc' = "running"
    BY <1>1, <1>5
  <2>2. \A tx, also \in new : tx.from = also.from => tx = also
    BY <1>5, BuyTxFacts
  <2>3. \A tx \in new : tx.op \in {"buy", "routerBuy"} /\ tx.from # Treasury
    BY <1>4, <1>5, BuyTxFacts
  <2>4. pc' \in {"burst", "running"} /\ (pc' = "burst" => mode' = "off" /\ new = {})
    BY <1>1, <2>1
  <2>5. pend' = new /\ spam' = spam /\ attempt' = attempt
    BY <1>1, <1>2
  <2>6. (pc' = "burst" => spam = {}) /\ attempt > 0 /\ \A tx \in spam : tx.op = "routerBuy"
    BY <1>1, <2>4 DEF StageInv
  <2>7. spam # {} => mode' = "window"
    BY <1>1 DEF StageInv
  <2> HIDE DEF new
  <2> QED
    BY <2>1, <2>2, <2>3, <2>4, <2>5, <2>6, <2>7 DEF StageInv
<1>13. SeenInv'
  <2>1. \A tx \in new : /\ tx.op = "routerBuy" /\ tx.curve = attempt /\ tx.from \in MakerSet
                        /\ ~IsLaunch(tx)
    BY <1>4, <1>5, BuyTxFacts
  <2>2. \A tx \in Seen' : tx \in Seen \/ tx \in new
    BY <1>1 DEF Seen
  <2>3. attempt \in 1..attempt
    BY <1>1, AttemptType DEF StageInv
  <2>4. pc' \in {"burst", "running"} /\ attempt' = attempt
    BY <1>1
  <2> HIDE DEF new
  <2>5. \A tx \in Seen : Buying(tx) => ~(tx.op = "buy" /\ tx.curve = attempt)
    BY <1>1 DEF SeenInv
  <2>6. \A tx \in Seen' : Buying(tx) =>
          /\ tx.curve \in Curves
          /\ tx.from = Other => tx.curve = 0 /\ tx.op = "atomic"
          /\ tx.from # Other => tx.curve \in 1..attempt
          /\ IsLaunch(tx) => tx.from \in {Treasury, Other}
          /\ ~(tx.op = "buy" /\ tx.curve = attempt)
    <3>1. \A tx \in new : tx.from # Other
      BY <2>1, Wallets
    <3> QED
      BY <1>4, <2>1, <2>2, <2>3, <2>5, <3>1 DEF SeenInv
  <2> QED
    BY <2>4, <2>6 DEF SeenInv
<1>14. ReceiptInv'
  BY <1>1, ReceiptKeeps
<1> QED
  BY <1>10, <1>11, <1>12, <1>13, <1>14

\* After a revert nothing was given, and none of the buys can give anything.
LEMMA RevertedBooks ==
  ASSUME Inv, TypeInv, BookInv, LaunchReverted
  PROVE  BookInv'
<1> USE DEF BookInv
<1> DEFINE r == Receipt(LaunchTx)
<1>1. /\ pc = "sent" /\ Mined(LaunchTx) /\ ~r.ok /\ pc' = "failed" /\ spam' = {}
      /\ UNCHANGED <<attempt, mode, pool, mined, buys, pend, booked, unsure, tokens, launchBlock>>
  BY DEF LaunchReverted, Fail, routerVars
<1>2. /\ pend = {}
      /\ \A w : \A tx \in Owing(w) : \/ tx = LaunchTx /\ Names(LaunchTx, w)
                                     \/ /\ mode = "window" /\ w \in DOMAIN buys
                                        /\ tx = BuyTx(w, buys[w])
  BY <1>1, OwingSent DEF Inv
<1>3. \A w : Owing(w)' = {}
  BY <1>1, <1>2 DEF Owing
<1>4. \A tx : Mined(tx)' = Mined(tx) /\ Stale(tx)' = Stale(tx)
  BY <1>1 DEF Mined, Stale
<1>5. \A w, v : mode = "window" => Stale(BuyTx(w, v))
  <2>1. r \in mined /\ r.tx = LaunchTx
    BY <1>1, ReceiptIs
  <2> HIDE DEF r
  <2> QED
    BY <1>1, <2>1, LaunchTxFacts, BuyTxFacts DEF Stale, Inv
<1>6. \A tx : Stale(tx) => ~Launched(tx.curve) /\ tx.op = "routerBuy"
  BY StaleFails DEF Stale
<1>7. \A w : \A tx \in Owing(w) : Gives(tx, w) = 0
  <2>1. \A w : Gives(LaunchTx, w) = 0
    BY <1>1 DEF Gives
  <2>2. \A tx : Mined(tx) /\ Receipt(tx).ok /\ tx.op = "routerBuy" => Launched(tx.curve)
    BY ReceiptIs DEF ReceiptInv
  <2>3. \A tx, w : Stale(tx) => Gives(tx, w) = 0
    BY <1>6, <2>2 DEF Gives
  <2> QED
    BY <1>2, <1>5, <2>1, <2>3
<1>8. DueInv'
  <2>1. \A w \in Ours \ unsure : tokens[w] = booked[w]
    <3>1. \A w \in Ours \ unsure : booked[w] \in Nat
      BY OursAre DEF TypeInv
    <3> QED
      BY <1>7, <3>1 DEF DueInv
  <2> QED
    BY <1>1, <1>3, <2>1 DEF DueInv
<1>9. LiveInv'
  <2>1. LaunchTx \notin pool
    BY <1>1, LaunchTxFacts DEF ReceiptInv, Inv
  <2>2. \A w : \A tx \in Owing(w) : tx \in pool => Stale(tx)
    BY <1>2, <1>5, <2>1
  <2> QED
    BY <1>1, <1>3, <1>4, <2>2 DEF LiveInv
<1>10. StageInv'
  BY <1>1, <1>2 DEF StageInv
<1>11. SeenInv'
  BY <1>1, SeenKeeps DEF Seen
<1>12. ReceiptInv'
  BY <1>1, ReceiptKeeps
<1> QED
  BY <1>8, <1>9, <1>10, <1>11, <1>12


LEMMA TimeoutBooks ==
  ASSUME Inv, BookInv, LaunchTimeout
  PROVE  BookInv'
<1> USE DEF BookInv
<1>1. /\ pc = "sent" /\ pc' = "failed" /\ spam' = {}
      /\ unsure' = unsure \cup DOMAIN buys \cup {Treasury}
      /\ UNCHANGED <<attempt, mode, pool, mined, buys, pend, booked, tokens, launchBlock>>
  BY DEF LaunchTimeout, Fail, routerVars
<1>2. /\ pend = {}
      /\ \A w : \A tx \in Owing(w) : \/ tx = LaunchTx /\ Names(LaunchTx, w)
                                     \/ /\ mode = "window" /\ w \in DOMAIN buys
                                        /\ tx = BuyTx(w, buys[w])
  BY <1>1, OwingSent DEF Inv
<1>3. \A w : Owing(w)' = {}
  BY <1>1, <1>2 DEF Owing
<1>4. \A w : w \notin unsure' => Owing(w) = {}
  BY <1>1, <1>2, LaunchTxFacts DEF Inv
<1>5. LiveInv' /\ DueInv'
  BY <1>1, <1>3, <1>4, OwedKeeps
<1>6. StageInv'
  BY <1>1, <1>2 DEF StageInv
<1>7. SeenInv'
  BY <1>1, SeenKeeps DEF Seen
<1>8. ReceiptInv'
  BY <1>1, ReceiptKeeps
<1> QED
  BY <1>5, <1>6, <1>7, <1>8

LEMMA BurstBooks ==
  ASSUME Inv, BookInv, NEW w \in DOMAIN buys, NEW ok \in BOOLEAN, BurstBuy(w, ok)
  PROVE  BookInv'
<1> USE DEF BookInv
<1> DEFINE t == BuyTx(w, buys[w])
<1>1. /\ pc = "burst" /\ mode = "off" /\ DOMAIN buys' = DOMAIN buys \ {w}
      /\ \/ pool' = pool \cup {t} /\ pend' = pend \cup {t}
         \/ UNCHANGED <<pool, pend>>
      /\ UNCHANGED <<attempt, mode, pc, mined, spam, booked, unsure, tokens, launchBlock>>
  BY DEF BurstBuy, StageInv, routerVars
<1>2. /\ t.from = w /\ t.curve = attempt /\ t.op = "buy"
      /\ Buying(t) /\ ~IsLaunch(t) /\ \A x : Names(t, x) <=> x = w
  BY <1>1, BuyTxFacts
<1> HIDE DEF t
<1>3. w \in MakerSet /\ w # Other /\ attempt \in Curves /\ attempt \in 1..attempt
  <2>1. attempt > 0
    BY <1>1 DEF StageInv
  <2> QED
    BY <2>1, Wallets, AttemptType DEF Inv, Named
<1>4. t \notin Seen
  BY <1>1, <1>2 DEF SeenInv
<1>5. ~Mined(t)
  BY <1>4 DEF Mined, Seen
<1> DEFINE opening(x) == IF x = Treasury THEN {LaunchTx} ELSE {}
<1>6. \A x : /\ Owing(x)' = {tx \in pend' : tx.from = x} \cup opening(x)
             /\ Owing(x) = {tx \in pend : tx.from = x} \cup opening(x)
  <2>1. \A x : Names(LaunchTx, x) <=> x = Treasury
    BY <1>1, LaunchTxFacts DEF Inv
  <2>2. LaunchTx' = LaunchTx
    BY <1>1 DEF LaunchTx, Tx
  <2>3. \A x : Names(LaunchTx', x) <=> x = Treasury
    BY <2>1, <2>2
  <2>4. \A x : Names(LaunchTx, x)' <=> x = Treasury
    BY <2>2, <2>3 DEF Names
  <2> QED
    BY <1>1, <2>1, <2>2, <2>4 DEF Owing
<1> HIDE DEF opening
<1>7. \A tx : Mined(tx)' = Mined(tx) /\ Receipt(tx)' = Receipt(tx) /\ Stale(tx)' = Stale(tx)
  BY <1>1 DEF Mined, Receipt, Stale
<1>8. LiveInv'
  <2>1. \A x : Owing(x) \subseteq Owing(x)'
    BY <1>1, <1>6
  <2>2. \A tx \in pool' \ pool : \A x : Names(tx, x) => tx \in Owing(x)'
    BY <1>1, <1>2, <1>6
  <2> QED
    BY <1>1, <1>7, <2>1, <2>2 DEF LiveInv
<1>9. DueInv'
  <2>1. \A tx, x : Gives(tx, x)' = Gives(tx, x)
    BY <1>7 DEF Gives
  <2>2. \A x : x # w => Owing(x)' = Owing(x)
    BY <1>1, <1>2, <1>6
  <2>3. Owing(w) = {} /\ Owing(w)' \subseteq {t}
    BY <1>1, <1>3, <1>6, Wallets DEF StageInv, opening
  <2>4. Gives(t, w) = 0
    BY <1>5 DEF Gives
  <2>5. w \notin unsure => booked[w] = tokens[w] /\ tokens[w] \in Nat
    BY <1>3, <2>3, Wallets DEF DueInv, Ours, Inv, RouterInv
  <2>6. \A x \in Ours \ unsure :
          /\ Owing(x)' = {} => tokens[x] = booked[x]
          /\ \A tx \in Owing(x)' : tokens[x] = booked[x] + Gives(tx, x)
    <3> SUFFICES ASSUME NEW x \in Ours \ unsure
                 PROVE  /\ Owing(x)' = {} => tokens[x] = booked[x]
                        /\ \A tx \in Owing(x)' : tokens[x] = booked[x] + Gives(tx, x)
      OBVIOUS
    <3>1. CASE x = w
      BY <2>3, <2>4, <2>5, <3>1
    <3>2. CASE x # w
      BY <2>2, <3>2 DEF DueInv
    <3> QED
      BY <3>1, <3>2
  <2> QED
    BY <1>1, <2>1, <2>6 DEF DueInv
<1>10. StageInv'
  BY <1>1, <1>2, <1>3, Wallets DEF StageInv
<1>11. SeenInv'
  <2>1. \A tx \in Seen' : tx \in Seen \/ tx = t
    BY <1>1 DEF Seen
  <2> QED
    BY <1>1, <1>2, <1>3, <2>1 DEF SeenInv
<1>12. ReceiptInv'
  BY <1>1, <1>2, <1>5, ReceiptKeeps DEF OwnLaunch
<1> QED
  BY <1>8, <1>9, <1>10, <1>11, <1>12

\* A buy whose receipt is in is booked for the wallet that sent it.
LEMMA SettleBooks ==
  ASSUME Inv, TypeInv, BookInv, NEW t \in pend, Settle(t)
  PROVE  BookInv'
<1> USE DEF BookInv
<1> DEFINE w == t.from
<1>1. /\ Mined(t) /\ pend' = pend \ {t}
      /\ booked' = [booked EXCEPT ![w] = @ + Got(t)]
      /\ UNCHANGED <<attempt, mode, pc, buys, pool, mined, spam, unsure, tokens, launchBlock>>
  BY DEF Settle, Final, UnchangedBySettle, routerVars
<1>2. pc \notin {"sent", "burst"} /\ Buying(t)
  BY DEF Settle, StageInv, Buying
<1>3. \A x : Owing(x)' = {tx \in pend' : tx.from = x} /\ Owing(x) = {tx \in pend : tx.from = x}
  BY <1>1, <1>2 DEF Owing
<1>4. t \in Owing(w) /\ Owing(w)' = {} /\ \A x : x # w => Owing(x)' = Owing(x)
  BY <1>1, <1>3 DEF StageInv
<1>5. \A tx : Mined(tx)' = Mined(tx) /\ Receipt(tx)' = Receipt(tx) /\ Stale(tx)' = Stale(tx)
  BY <1>1 DEF Mined, Receipt, Stale
<1>6. w \in Accounts /\ Got(t) = Gives(t, w)
  BY <1>1, Wallets DEF TypeInv, Got, Gives
<1> HIDE DEF w
<1>7. LiveInv'
  <2>1. \A x : \A tx \in Owing(x) : tx = t \/ tx \in Owing(x)'
    BY <1>1, <1>3
  <2>2. t \notin pool
    BY <1>1, <1>2 DEF ReceiptInv
  <2> QED
    BY <1>1, <1>5, <2>1, <2>2 DEF LiveInv
<1>8. DueInv'
  <2>1. \A tx, x : Gives(tx, x)' = Gives(tx, x)
    BY <1>5 DEF Gives
  <2>2. \A x \in Accounts : booked'[x] = IF x = w THEN booked[w] + Gives(t, w) ELSE booked[x]
    BY <1>1, <1>6 DEF TypeInv
  <2>3. \A x \in Ours \ unsure :
          /\ Owing(x)' = {} => tokens[x] = booked'[x]
          /\ \A tx \in Owing(x)' : tokens[x] = booked'[x] + Gives(tx, x)
    BY <1>4, <2>2, OursAre DEF DueInv
  <2> QED
    BY <1>1, <2>1, <2>3 DEF DueInv
<1>9. StageInv'
  BY <1>1 DEF StageInv
<1>10. SeenInv'
  BY <1>1, SeenKeeps DEF Seen
<1>11. ReceiptInv'
  BY <1>1, ReceiptKeeps
<1> QED
  BY <1>7, <1>8, <1>9, <1>10, <1>11

LEMMA GivenUpBooks ==
  ASSUME Inv, BookInv, NEW t \in pend, SettleTimeout(t)
  PROVE  BookInv'
<1> USE DEF BookInv
<1>1. /\ pend' = pend \ {t} /\ unsure' = unsure \cup {t.from}
      /\ UNCHANGED <<attempt, mode, pc, buys, pool, mined, spam, booked, tokens, launchBlock>>
  BY DEF SettleTimeout, UnchangedBySettle, routerVars
<1>2. pc \notin {"sent", "burst"}
  BY DEF SettleTimeout, StageInv
<1>3. \A w : w \notin unsure' => Owing(w)' = Owing(w)
  BY <1>1, <1>2 DEF Owing
<1>4. LiveInv' /\ DueInv'
  BY <1>1, <1>3, OwedKeeps
<1>5. StageInv'
  BY <1>1 DEF StageInv
<1>6. SeenInv'
  BY <1>1, SeenKeeps DEF Seen
<1>7. ReceiptInv'
  BY <1>1, ReceiptKeeps
<1> QED
  BY <1>4, <1>5, <1>6, <1>7

\* The opening buy is booked when the burst is out.
LEMMA BurstOverBooks ==
  ASSUME Inv, TypeInv, BookInv, BurstOver
  PROVE  BookInv'
<1> USE DEF BookInv
<1>1. /\ pc = "burst" /\ mode = "off" /\ pc' = "running" /\ Mined(LaunchTx)
      /\ booked' = [booked EXCEPT ![Treasury] = @ + Got(LaunchTx)]
      /\ UNCHANGED <<attempt, mode, buys, pool, mined, spam, pend, unsure, tokens, launchBlock>>
  BY DEF BurstOver, TypeInv, routerVars
<1>2. /\ \A w : Names(LaunchTx, w) <=> w = Treasury
      /\ Buying(LaunchTx) /\ LaunchTx.from = Treasury
  BY <1>1, LaunchTxFacts DEF Inv
<1>3. /\ LaunchTx \in Owing(Treasury) /\ Owing(Treasury)' = {}
      /\ \A w : w # Treasury => Owing(w)' = Owing(w)
  BY <1>1, <1>2 DEF Owing, StageInv
<1>4. \A tx : Mined(tx)' = Mined(tx) /\ Receipt(tx)' = Receipt(tx) /\ Stale(tx)' = Stale(tx)
  BY <1>1 DEF Mined, Receipt, Stale
<1>5. Treasury \in Accounts /\ Got(LaunchTx) = Gives(LaunchTx, Treasury)
  BY <1>1, <1>2, Wallets DEF Got, Gives
<1>6. DueInv'
  <2>1. \A tx, w : Gives(tx, w)' = Gives(tx, w)
    BY <1>4 DEF Gives
  <2>2. \A w \in Accounts : booked'[w] = IF w = Treasury THEN booked[w] + Gives(LaunchTx, w) ELSE booked[w]
    BY <1>1, <1>5 DEF TypeInv
  <2>3. \A w \in Ours \ unsure :
          /\ Owing(w)' = {} => tokens[w] = booked'[w]
          /\ \A tx \in Owing(w)' : tokens[w] = booked'[w] + Gives(tx, w)
    BY <1>3, <2>2, OursAre DEF DueInv
  <2> QED
    BY <1>1, <2>1, <2>3 DEF DueInv
<1>7. LiveInv'
  <2>1. LaunchTx \notin pool
    BY <1>1, <1>2 DEF ReceiptInv
  <2>2. \A w : \A tx \in Owing(w) : tx = LaunchTx \/ tx \in Owing(w)'
    BY <1>3, <1>2, OneOwed DEF Inv
  <2>3. \A tx \in spam : tx # LaunchTx
    BY <1>1 DEF StageInv
  <2> QED
    BY <1>1, <1>4, <2>1, <2>2, <2>3 DEF LiveInv
<1>8. StageInv'
  BY <1>1 DEF StageInv
<1>9. SeenInv'
  BY <1>1, SeenKeeps DEF Seen
<1>10. ReceiptInv'
  BY <1>1, ReceiptKeeps
<1> QED
  BY <1>6, <1>7, <1>8, <1>9, <1>10

LEMMA QuietStepsBook ==
  ASSUME Inv, BookInv,
         \/ \E w \in home, ok \in BOOLEAN : Home(w, ok)
         \/ \E tx \in spam : Resend(tx)
         \/ NextBlock \/ UNCHANGED vars
  PROVE  BookInv'
<1>1. CASE \E w \in home, ok \in BOOLEAN : Home(w, ok)
  <2>1. PICK w \in home, ok \in BOOLEAN : Home(w, ok)
    BY <1>1
  <2>2. \A tx \in pool' \ pool : tx.op = "withdraw"
    BY <2>1 DEF Home, Tx
  <2> QED
    BY <2>1, <2>2, QuietBooks DEF Home, Buying, routerVars
<1>2. CASE \E tx \in spam : Resend(tx)
  BY <1>2, QuietBooks DEF Resend, routerVars
<1>3. CASE NextBlock \/ UNCHANGED vars
  BY <1>3, QuietBooks DEF NextBlock, Tick, UnchangedByChain, localVars, routerVars, vars
<1> QED
  BY <1>1, <1>2, <1>3

LEMMA StepBooks ==
  ASSUME Inv, TypeInv, BookInv, [Next]_vars
  PROVE  BookInv'
<1>1. CASE Program
  BY <1>1, SendBooks, LandedBooks, RevertedBooks, TimeoutBooks, ParkBooks, BurstBooks, BurstOverBooks
     DEF Program
<1>2. CASE \/ \E tx \in pend : Settle(tx) \/ SettleTimeout(tx)
           \/ \E tx \in pool : Include(tx) \/ Refuse(tx)
  BY <1>2, SettleBooks, GivenUpBooks, IncludeBooks, RefuseBooks
<1>3. CASE \/ \E m \in Modes : Prepare(m)
           \/ \E w \in DOMAIN park : DepositReadFails(w)
           \/ SendFails
           \/ \E w \in DOMAIN buys : BurstBuy(w, FALSE)
           \/ \E w \in home, ok \in BOOLEAN : Home(w, ok)
           \/ \E tx \in spam : Resend(tx)
           \/ \E w \in MakerSet : OtherLaunch(w)
           \/ NextBlock \/ UNCHANGED vars
  BY <1>3, PrepareBooks, ParkBooks, SendBooks, BurstBooks, QuietStepsBook, OtherBooks
<1> QED
  BY <1>1, <1>2, <1>3 DEF Next

\* The engine's books of a launch: whatever the curve fills, returns or reverts,
\* however often the buys are sent again, and through launches that revert or are
\* not sent and are begun anew, what is booked for a wallet is what it holds, once
\* its launch is decided and booked and its buy is settled (unless a transaction of
\* it was given up on).
THEOREM BooksAreRight == Spec => []BookedIsHeld
<1>1. Inv /\ TypeInv /\ BookInv /\ [Next]_vars => Inv' /\ TypeInv' /\ BookInv'
  BY RouterStepKeeps, StepNamed, StepTypes, StepBooks DEF Inv
<1>2. Init => Inv /\ TypeInv /\ BookInv
  BY InitHolds, InitTypes, InitBooks
<1>3. BookInv => BookedIsHeld
  <2> SUFFICES ASSUME BookInv, NEW w \in MakerSet \cup {Treasury},
                      w \notin unsure, pc \notin {"sent", "burst"}, \A tx \in pend : tx.from # w
               PROVE  booked[w] = tokens[w]
    BY DEF BookedIsHeld
  <2>1. Owing(w) = {}
    BY DEF Owing
  <2> QED
    BY <2>1 DEF BookInv, DueInv, Ours
<1> QED
  BY <1>1, <1>2, <1>3, PTL DEF Spec

=============================================================================
