---------------------------- MODULE RouterProofs ----------------------------
(***************************************************************************)
(* Proofs about Router for every value of its constants: whatever sequence  *)
(* of calls the router takes, nobody loses ether in it, the deposits are     *)
(* there to be withdrawn, and an operator is kept while money is parked.     *)
(***************************************************************************)
EXTENDS Router, TLAPS

-----------------------------------------------------------------------------
(* The curve has room for what it fills.                                    *)

\* The buys of a launch: their places, in order, and whose they are.
AreBuys(buys) ==
  /\ DOMAIN buys \subseteq Nat /\ IsFiniteSet(DOMAIN buys)
  /\ \A i \in DOMAIN buys : buys[i].wallet \in Accounts /\ buys[i].quoteIn \in Nat

Mine(buys, w) == {i \in DOMAIN buys : buys[i].wallet = w}
PlaceOf(buys, w) == CHOOSE i \in Mine(buys, w) : TRUE
Quotes(buys, P) == [j \in P |-> buys[j].quoteIn]
Earlier(buys, i) == {j \in DOMAIN buys : j < i}
\* What the wallets with a place in P are asked to spend there.
Asked(buys, P) ==
  [w \in Accounts |-> IF Mine(buys, w) # {} /\ PlaceOf(buys, w) \in P
                        THEN buys[PlaceOf(buys, w)].quoteIn ELSE 0]

LEMMA FillsAre ==
  ASSUME NEW buys, NEW room
  PROVE  /\ Fills(buys, room) = [w \in Accounts |-> Fills(buys, room)[w]]
         /\ \A w \in Accounts : Mine(buys, w) = {} => Fills(buys, room)[w] = 0
         /\ \A w \in Accounts : Mine(buys, w) # {} =>
              LET i == PlaceOf(buys, w)
                  before == SumOf(Quotes(buys, Earlier(buys, i)))
              IN Fills(buys, room)[w] = IF before >= room THEN 0 ELSE Least(buys[i].quoteIn, room - before)
BY DEF Fills, Mine, PlaceOf, Quotes, Earlier

LEMMA AskedType ==
  ASSUME NEW buys, AreBuys(buys), NEW P
  PROVE  Asked(buys, P) \in [Accounts -> Nat]
<1>1. \A w \in Accounts : Mine(buys, w) # {} => PlaceOf(buys, w) \in DOMAIN buys
  BY DEF Mine, PlaceOf
<1> QED
  BY <1>1 DEF Asked, AreBuys

\* Each wallet has one place, so the wallets are asked for no more than the places.
LEMMA AskedFits ==
  ASSUME NEW buys, AreBuys(buys), NEW P \in SUBSET DOMAIN buys
  PROVE  SumOf(Asked(buys, P)) <= SumOf(Quotes(buys, P))
<1> DEFINE q == Quotes(buys, P)
           Q == {s \in SUBSET P : SumOf(Asked(buys, s)) <= Sums(q)[s]}
<1>0. IsFiniteSet(P) /\ IsFiniteSet(Accounts)
  BY FS_Subset, RouterAssumption DEF AreBuys
<1>1. q \in [P -> Int] /\ DOMAIN q = P /\ \A j \in P : q[j] = buys[j].quoteIn /\ q[j] \in Nat
  BY DEF Quotes, AreBuys
<1> HIDE DEF q
<1>2. {} \in Q
  <2>1. Asked(buys, {}) = [a \in Accounts |-> 0]
    BY DEF Asked
  <2> QED
    BY <1>0, <1>1, <2>1, SumZero, SumsAre
<1>3. ASSUME NEW s \in SUBSET P, s # {}, Others(s) \in Q PROVE s \in Q
  <2> DEFINE j == AnyOf(s)
             f == Asked(buys, s)
             g == Asked(buys, Others(s))
  <2>1. j \in s /\ j \in P /\ j \notin Others(s) /\ s = Others(s) \cup {j} /\ Others(s) \in SUBSET P
    BY <1>3 DEF AnyOf, Others
  <2>2. Sums(q)[s] = q[j] + Sums(q)[Others(s)] /\ Sums(q)[Others(s)] \in Int
    BY <1>0, <1>1, <1>3, <2>1, SumsAre
  <2>3. f \in [Accounts -> Nat] /\ g \in [Accounts -> Nat]
    BY AskedType
  <2>4. SumOf(f) \in Int /\ SumOf(g) \in Int
    BY <1>0, <2>3, SumIsInt
  <2>5. SumOf(g) <= Sums(q)[Others(s)]
    BY <1>3
  <2>6. CASE \E w \in Accounts : Mine(buys, w) # {} /\ PlaceOf(buys, w) = j
    <3>1. PICK w \in Accounts : Mine(buys, w) # {} /\ PlaceOf(buys, w) = j
      BY <2>6
    <3>2. \A x \in Accounts : Mine(buys, x) # {} /\ PlaceOf(buys, x) = j => x = w
      <4>1. \A x \in Accounts : Mine(buys, x) # {} => buys[PlaceOf(buys, x)].wallet = x
        BY DEF Mine, PlaceOf
      <4> QED
        BY <3>1, <4>1
    <3>3. \A x \in Accounts : f[x] = IF x = w THEN buys[j].quoteIn ELSE g[x]
      BY <2>1, <3>1, <3>2 DEF Asked
    <3>4. g[w] = 0
      BY <2>1, <3>1 DEF Asked
    <3>5. f = [g EXCEPT ![w] = buys[j].quoteIn] /\ buys[j].quoteIn = q[j] /\ q[j] \in Nat
      BY <1>1, <2>1, <2>3, <3>3
    <3>6. SumOf([g EXCEPT ![w] = q[j]]) = SumOf(g) - g[w] + q[j]
      <4>1. g \in [Accounts -> Int] /\ q[j] \in Int
        BY <2>3, <3>5
      <4> HIDE DEF g, j
      <4> QED
        BY <1>0, <4>1, SumChange
    <3> HIDE DEF f, g, j
    <3>7. SumOf(f) <= Sums(q)[s]
      BY <2>2, <2>4, <2>5, <3>4, <3>5, <3>6
    <3> QED
      BY <3>7 DEF f
  <2>7. CASE ~ \E w \in Accounts : Mine(buys, w) # {} /\ PlaceOf(buys, w) = j
    <3>1. f = g
      BY <2>1, <2>7 DEF Asked
    <3>2. q[j] \in Nat
      BY <1>1, <2>1
    <3> HIDE DEF f, g, j
    <3>3. SumOf(f) <= Sums(q)[s]
      BY <2>2, <2>4, <2>5, <3>1, <3>2
    <3> QED
      BY <3>3 DEF f
  <2> QED
    BY <2>6, <2>7
<1>4. SUBSET P \subseteq Q
  <2> HIDE DEF Q
  <2> QED
    BY <1>0, <1>2, <1>3, SubsetInduction
<1>5. SumOf(q) = Sums(q)[P]
  BY <1>1, SumOfIs
<1> QED
  BY <1>4, <1>5 DEF q

\* What is filled adds up to no more than the curve has room for: the last buy
\* that is filled gets what those before it leave.
LEMMA FillsFit ==
  ASSUME NEW buys, AreBuys(buys), NEW room \in Nat
  PROVE  /\ Fills(buys, room) \in [Accounts -> Nat]
         /\ SumOf(Fills(buys, room)) <= room
         /\ SumOf(Fills(buys, room)) \in Nat
<1> DEFINE fills == Fills(buys, room)
           before(i) == SumOf(Quotes(buys, Earlier(buys, i)))
           Filled == {w \in Accounts : Mine(buys, w) # {} /\ fills[w] > 0}
<1>0. IsFiniteSet(Accounts)
  BY RouterAssumption
<1>1. \A w \in Accounts : Mine(buys, w) # {} => PlaceOf(buys, w) \in Mine(buys, w)
  BY DEF PlaceOf
<1>2. ASSUME NEW i \in DOMAIN buys
      PROVE  before(i) \in Int /\ SumOf(Asked(buys, Earlier(buys, i))) <= before(i)
  <2>1. Earlier(buys, i) \in SUBSET DOMAIN buys /\ IsFiniteSet(Earlier(buys, i))
    BY FS_Subset DEF Earlier, AreBuys
  <2>2. Quotes(buys, Earlier(buys, i)) \in [Earlier(buys, i) -> Int]
    BY <2>1 DEF Quotes, AreBuys
  <2> QED
    BY <2>1, <2>2, AskedFits, SumIsInt
<1>3. \A w \in Accounts : Mine(buys, w) # {} =>
        /\ PlaceOf(buys, w) \in DOMAIN buys /\ buys[PlaceOf(buys, w)].wallet = w
        /\ buys[PlaceOf(buys, w)].quoteIn \in Nat
        /\ before(PlaceOf(buys, w)) \in Int
        /\ fills[w] = IF before(PlaceOf(buys, w)) >= room THEN 0
                      ELSE Least(buys[PlaceOf(buys, w)].quoteIn, room - before(PlaceOf(buys, w)))
  BY <1>1, <1>2, FillsAre DEF Mine, AreBuys
<1>4. \A w \in Accounts : Mine(buys, w) = {} => fills[w] = 0
  BY FillsAre
<1>5. fills = [w \in Accounts |-> fills[w]]
  BY FillsAre
<1> HIDE DEF fills, before
<1>6. \A w \in Accounts : Mine(buys, w) # {} =>
        /\ fills[w] \in Nat /\ fills[w] <= buys[PlaceOf(buys, w)].quoteIn
        /\ fills[w] > 0 => fills[w] <= room - before(PlaceOf(buys, w))
  BY <1>3 DEF Least
<1>7. fills \in [Accounts -> Nat]
  BY <1>4, <1>5, <1>6
<1>8. SumOf(fills) \in Int /\ SumOf(fills) >= 0
  <2>1. [a \in Accounts |-> 0] \in [Accounts -> Int]
    OBVIOUS
  <2>2. fills \in [Accounts -> Int] /\ \A a \in Accounts : [x \in Accounts |-> 0][a] <= fills[a]
    BY <1>7
  <2>3. SumOf([a \in Accounts |-> 0]) <= SumOf(fills)
    BY <1>0, <2>1, <2>2, SumMonotone
  <2> QED
    BY <1>0, <2>2, <2>3, SumZero, SumIsInt
<1>9. SumOf(fills) <= room
  <2>1. CASE Filled = {}
    <3>1. fills = [a \in Accounts |-> 0]
      BY <1>4, <1>6, <1>7, <2>1
    <3> QED
      BY <1>0, <3>1, SumZero
  <2>2. CASE Filled # {}
    <3> DEFINE P == {PlaceOf(buys, w) : w \in Filled}
    <3>1. P \subseteq DOMAIN buys /\ P # {} /\ P \subseteq Nat
      BY <1>3, <2>2 DEF AreBuys
    <3>2. IsFiniteSet(P)
      BY <3>1, FS_Subset DEF AreBuys
    <3>3. PICK m \in P : \A k \in P : k <= m
      <4> HIDE DEF P
      <4> QED
        BY <3>1, <3>2, GreatestIs
    <3>4. PICK w \in Filled : PlaceOf(buys, w) = m
      BY <3>3
    <3> DEFINE g == Asked(buys, Earlier(buys, m))
               h == [g EXCEPT ![w] = room - before(m)]
    <3>5. m \in DOMAIN buys /\ w \in Accounts /\ before(m) \in Int /\ SumOf(g) <= before(m)
      BY <1>2, <3>1, <3>3, <3>4
    <3>6. g \in [Accounts -> Nat] /\ SumOf(g) \in Int
      BY <1>0, AskedType, SumIsInt
    <3>7. g[w] = 0
      <4>1. m \notin Earlier(buys, m)
        BY <3>5 DEF Earlier, AreBuys
      <4> QED
        BY <3>4, <3>5, <4>1 DEF Asked
    <3>8. g \in [Accounts -> Int] /\ h \in [Accounts -> Int] /\ \A x \in Accounts : h[x] = IF x = w THEN room - before(m) ELSE g[x]
      BY <3>5, <3>6
    <3>9. ASSUME NEW x \in Accounts PROVE fills[x] <= h[x]
      <4>1. CASE x = w
        BY <1>6, <3>4, <3>8, <4>1
      <4>2. CASE x # w /\ x \in Filled
        <5>1. /\ PlaceOf(buys, x) # m /\ PlaceOf(buys, x) \in P
              /\ PlaceOf(buys, x) \in DOMAIN buys
          BY <1>3, <3>4, <4>2
        <5> DEFINE i == PlaceOf(buys, x)
        <5> HIDE DEF i
        <5>4. i # m /\ i <= m /\ i \in Nat /\ m \in Nat /\ i \in DOMAIN buys
          <6> HIDE DEF P
          <6> QED
            BY <3>1, <3>3, <5>1 DEF i
        <5>2. PlaceOf(buys, x) \in Earlier(buys, m)
          BY <5>4 DEF Earlier, i
        <5>3. g[x] = buys[PlaceOf(buys, x)].quoteIn
          BY <4>2, <5>2 DEF Asked
        <5> QED
          BY <1>6, <3>8, <4>2, <5>3
      <4>3. CASE x # w /\ x \notin Filled
        <5>1. fills[x] = 0
          BY <1>4, <1>6, <4>3
        <5> QED
          BY <3>6, <3>8, <4>3, <5>1
      <4> QED
        BY <4>1, <4>2, <4>3
    <3>10. SumOf(h) = SumOf(g) - g[w] + (room - before(m))
      <4> DEFINE n == room - before(m)
      <4>1. n \in Int /\ w \in Accounts /\ g \in [Accounts -> Int]
        BY <3>5, <3>8
      <4> HIDE DEF g, n
      <4>2. SumOf([g EXCEPT ![w] = n]) = SumOf(g) - g[w] + n
        BY <1>0, <4>1, SumChange
      <4> QED
        BY <4>2 DEF n
    <3>11. SumOf(fills) <= SumOf(h)
      <4>1. fills \in [Accounts -> Int]
        BY <1>7
      <4> HIDE DEF g, h
      <4> QED
        BY <1>0, <3>8, <3>9, <4>1, SumMonotone
    <3> HIDE DEF g, h
    <3> QED
      BY <1>8, <3>5, <3>6, <3>7, <3>10, <3>11
  <2> QED
    BY <2>1, <2>2
<1> QED
  BY <1>7, <1>8, <1>9 DEF fills

-----------------------------------------------------------------------------
(* The invariant.                                                           *)

\* What the amounts are, that the deposits add up to the total, and that the
\* balance covers it: the change a call returns (held - totalDeposits) is then no
\* negative amount.
RouterInv ==
  /\ eth \in [Accounts -> Nat] /\ deposits \in [Accounts -> Nat] /\ paid \in [Accounts -> Nat]
  /\ tokens \in [Accounts -> Nat]
  /\ operatorOf \in [Accounts -> Accounts \cup {None}]
  /\ left \in [Curves -> Nat] /\ launchBlock \in [Curves -> Nat] /\ block \in Nat
  /\ held \in Nat /\ totalDeposits \in Nat /\ held >= totalDeposits
  /\ totalDeposits = SumOf(deposits)
  /\ NobodyLoses
  /\ \A a \in Accounts : deposits[a] # 0 => operatorOf[a] # None

OperatorKept == \A a \in Accounts : deposits[a] # 0 => operatorOf'[a] = operatorOf[a]

LEMMA TotalChanges ==
  ASSUME RouterInv, NEW s \in Accounts, NEW v \in Int,
         deposits' = [deposits EXCEPT ![s] = @ + v], totalDeposits' = totalDeposits + v
  PROVE  totalDeposits' = SumOf(deposits')
<1>1. deposits \in [Accounts -> Int] /\ deposits[s] \in Int /\ IsFiniteSet(Accounts)
  BY RouterAssumption DEF RouterInv
<1>2. \A n \in Int : SumOf([deposits EXCEPT ![s] = n]) = SumOf(deposits) - deposits[s] + n
  <2>1. ASSUME NEW f, f = deposits, NEW n \in Int
        PROVE  SumOf([f EXCEPT ![s] = n]) = SumOf(f) - f[s] + n
    <3>1. f \in [Accounts -> Int] /\ IsFiniteSet(Accounts)
      BY <1>1, <2>1
    <3> QED
      BY <3>1, SumChange
  <2> QED
    BY <2>1
<1>3. SumOf(deposits) = totalDeposits /\ totalDeposits \in Nat
  BY DEF RouterInv
<1>4. deposits[s] + v \in Int /\ deposits' = [deposits EXCEPT ![s] = deposits[s] + v]
  BY <1>1
<1>5. SumOf(deposits') = SumOf(deposits) - deposits[s] + (deposits[s] + v)
  BY <1>2, <1>4
<1> QED
  BY <1>1, <1>3, <1>5

LEMMA LeastBound == \A a, b \in Nat : Least(a, b) \in Nat /\ Least(a, b) <= a /\ Least(a, b) <= b
BY DEF Least

-----------------------------------------------------------------------------
(* One lemma per call.                                                      *)

LEMMA ReceiveKeeps ==
  ASSUME RouterInv, NEW s \in Accounts, NEW v, Receive(s, v)
  PROVE RouterInv' /\ OperatorKept
BY DEF RouterInv, NobodyLoses, OperatorKept, Receive

LEMMA DepositKeeps ==
  ASSUME RouterInv, NEW s \in Accounts, NEW operator \in Accounts, NEW v, Deposit(s, operator, v)
  PROVE RouterInv' /\ OperatorKept
<1>1. v \in Nat /\ v > 0 /\ v <= eth[s]
  BY DEF RouterInv, Deposit
<1>2. /\ operatorOf[s] \in {None, operator} \/ deposits[s] = 0
      /\ operatorOf' = [operatorOf EXCEPT ![s] = operator]
      /\ deposits' = [deposits EXCEPT ![s] = @ + v]
      /\ totalDeposits' = totalDeposits + v
      /\ eth' = [eth EXCEPT ![s] = @ - v]
      /\ held' = held + v
      /\ UNCHANGED <<left, paid, tokens, launchBlock, block>>
  BY DEF Deposit
<1>3. eth' \in [Accounts -> Nat] /\ deposits' \in [Accounts -> Nat]
  BY <1>1, <1>2 DEF RouterInv
<1>4. \A a \in Accounts : eth'[a] + deposits'[a] = eth[a] + deposits[a]
  BY <1>1, <1>2 DEF RouterInv
<1>5. NobodyLoses'
  BY <1>2, <1>4 DEF RouterInv, NobodyLoses
<1>6. OperatorKept /\ operatorOf' \in [Accounts -> Accounts \cup {None}]
  BY <1>2 DEF RouterInv, OperatorKept
<1>7. \A a \in Accounts : deposits'[a] # 0 => operatorOf'[a] # None
  BY <1>2, RouterAssumption DEF RouterInv
<1>8. held' \in Nat /\ totalDeposits' \in Nat /\ held' >= totalDeposits'
  BY <1>1, <1>2 DEF RouterInv
<1>9. totalDeposits' = SumOf(deposits')
  <2>1. /\ v \in Int /\ deposits' = [deposits EXCEPT ![s] = @ + v]
        /\ totalDeposits' = totalDeposits + v
    BY <1>1, <1>2
  <2> QED
    BY <2>1, TotalChanges
<1> QED
  BY <1>2, <1>3, <1>5, <1>6, <1>7, <1>8, <1>9 DEF RouterInv

LEMMA WithdrawKeeps ==
  ASSUME RouterInv, NEW s \in Accounts, NEW asked, Withdraw(s, asked)
  PROVE RouterInv' /\ OperatorKept
<1> DEFINE amount == IF asked = 0 THEN deposits[s] ELSE asked
<1>1. amount \in Nat /\ amount <= deposits[s] /\ amount <= totalDeposits
  BY DEF RouterInv, Withdraw
<1>2. /\ deposits' = [deposits EXCEPT ![s] = @ - amount]
      /\ totalDeposits' = totalDeposits - amount
      /\ eth' = [eth EXCEPT ![s] = @ + amount]
      /\ held' = held - amount
      /\ UNCHANGED <<operatorOf, left, paid, tokens, launchBlock, block>>
  BY DEF Withdraw
<1> HIDE DEF amount
<1>3. totalDeposits' = SumOf(deposits')
  <2>1. -amount \in Int /\ totalDeposits \in Nat /\ \A x \in Nat : x - amount = x + (-amount)
    BY <1>1 DEF RouterInv
  <2>2. /\ deposits' = [deposits EXCEPT ![s] = @ + (-amount)]
        /\ totalDeposits' = totalDeposits + (-amount)
    BY <1>2, <2>1 DEF RouterInv
  <2> QED
    BY <2>1, <2>2, TotalChanges
<1>4. NobodyLoses' /\ OperatorKept
  BY <1>1, <1>2 DEF RouterInv, NobodyLoses, OperatorKept
<1>5. eth' \in [Accounts -> Nat] /\ deposits' \in [Accounts -> Nat]
  BY <1>1, <1>2 DEF RouterInv
<1>6. \A a \in Accounts : deposits'[a] # 0 => deposits[a] # 0
  BY <1>1, <1>2 DEF RouterInv
<1> QED
  BY <1>1, <1>2, <1>3, <1>4, <1>5, <1>6 DEF RouterInv

LEMMA RoutedBuyKeeps ==
  ASSUME RouterInv, NEW s \in Accounts, NEW c \in Curves, NEW recipient, NEW v,
         RoutedBuy(s, c, recipient, v)
  PROVE RouterInv' /\ OperatorKept
<1> DEFINE fill == Least(v, left[c])
<1>1. v \in Nat /\ v <= eth[s]
  BY DEF RouterInv, RoutedBuy
<1>2. fill \in Nat /\ fill <= eth[s] /\ fill <= left[c] /\ left[c] \in Nat
  BY <1>1, LeastBound DEF RouterInv, RoutedBuy
<1>3. /\ recipient \in Accounts
      /\ left' = [left EXCEPT ![c] = @ - fill]
      /\ tokens' = [tokens EXCEPT ![recipient] = @ + fill]
      /\ paid' = [paid EXCEPT ![s] = @ + fill]
      /\ eth' = [eth EXCEPT ![s] = @ - fill + (held - totalDeposits)]
      /\ held' = totalDeposits
      /\ UNCHANGED <<deposits, operatorOf, totalDeposits, launchBlock, block>>
  BY DEF RoutedBuy
<1> HIDE DEF fill
<1>4. held - totalDeposits \in Nat
  BY DEF RouterInv
<1>5. /\ eth' \in [Accounts -> Nat] /\ paid' \in [Accounts -> Nat]
      /\ tokens' \in [Accounts -> Nat] /\ left' \in [Curves -> Nat]
  BY <1>2, <1>3, <1>4 DEF RouterInv
<1>6. \A a \in Accounts : eth'[a] + paid'[a] >= eth[a] + paid[a]
  BY <1>2, <1>3, <1>4 DEF RouterInv
<1>7. NobodyLoses'
  BY <1>3, <1>5, <1>6, RouterAssumption DEF RouterInv, NobodyLoses
<1> QED
  BY <1>3, <1>5, <1>7 DEF RouterInv, OperatorKept

LEMMA OpeningBound ==
  ASSUME RouterInv, NEW s \in Accounts, NEW c, NEW quoteIn, NEW recipient, NEW value,
         LaunchTerms(s, c, quoteIn, recipient, value)
  PROVE /\ OpeningFill(quoteIn) \in Nat
        /\ OpeningFill(quoteIn) <= Room
        /\ Fee + OpeningFill(quoteIn) <= eth[s]
<1>1. quoteIn \in Nat /\ value \in Nat /\ Fee + quoteIn <= value /\ value <= eth[s]
  BY DEF LaunchTerms
<1>2. OpeningFill(quoteIn) \in Nat /\ OpeningFill(quoteIn) <= quoteIn /\ OpeningFill(quoteIn) <= Room
  BY <1>1, LeastBound, RouterAssumption DEF OpeningFill
<1> QED
  BY <1>1, <1>2, RouterAssumption DEF RouterInv

LEMMA LaunchKeeps ==
  ASSUME RouterInv, NEW s \in Accounts, NEW c \in Curves, NEW quoteIn, NEW recipient, NEW value,
         Launch(s, c, quoteIn, recipient, value)
  PROVE RouterInv' /\ OperatorKept
<1> DEFINE fill == OpeningFill(quoteIn)
<1>1. fill \in Nat /\ fill <= Room /\ Fee + fill <= eth[s]
  BY OpeningBound DEF Launch
<1>2. /\ recipient \in Accounts
      /\ left' = [left EXCEPT ![c] = Room - fill]
      /\ launchBlock' = [launchBlock EXCEPT ![c] = block]
      /\ tokens' = [tokens EXCEPT ![recipient] = @ + fill]
      /\ paid' = [paid EXCEPT ![s] = @ + Fee + fill]
      /\ eth' = [eth EXCEPT ![s] = @ - Fee - fill + (held - totalDeposits)]
      /\ held' = totalDeposits
      /\ UNCHANGED <<deposits, operatorOf, totalDeposits, block>>
  BY DEF Launch, LaunchTerms
<1> HIDE DEF fill
<1>3. held - totalDeposits \in Nat
  BY DEF RouterInv
<1>4. /\ eth' \in [Accounts -> Nat] /\ paid' \in [Accounts -> Nat]
      /\ tokens' \in [Accounts -> Nat] /\ left' \in [Curves -> Nat]
      /\ launchBlock' \in [Curves -> Nat]
  BY <1>1, <1>2, <1>3, RouterAssumption DEF RouterInv
<1>5. \A a \in Accounts : eth'[a] + paid'[a] >= eth[a] + paid[a]
  BY <1>1, <1>2, <1>3, RouterAssumption DEF RouterInv
<1>6. NobodyLoses'
  BY <1>2, <1>4, <1>5, RouterAssumption DEF RouterInv, NobodyLoses
<1> QED
  BY <1>2, <1>4, <1>6 DEF RouterInv, OperatorKept

\* No buy of the launch spends more than its wallet has deposited.
LEMMA FillsBound ==
  ASSUME RouterInv, NEW s, NEW buys, NEW room, BuysCovered(s, buys, Fills(buys, room))
  PROVE \A w \in Accounts :
          Fills(buys, room)[w] \in Nat /\ Fills(buys, room)[w] <= deposits[w]
<1> SUFFICES ASSUME NEW w \in Accounts
             PROVE Fills(buys, room)[w] \in Nat /\ Fills(buys, room)[w] <= deposits[w]
  OBVIOUS
<1> DEFINE fills == Fills(buys, room)
           mine == {i \in DOMAIN buys : buys[i].wallet = w}
<1>1. deposits[w] \in Nat
  BY DEF RouterInv
<1>2. CASE mine = {}
  <2>1. fills[w] = 0
    BY <1>2 DEF Fills
  <2> QED
    BY <1>1, <2>1
<1>3. CASE mine # {}
  <2>1. PICK i \in DOMAIN buys : buys[i].wallet = w
    BY <1>3
  <2>2. buys[i].quoteIn \in 1..deposits[w] /\ fills[w] \in 1..buys[i].quoteIn
    BY <2>1 DEF BuysCovered
  <2>3. \A d \in Nat : \A q \in 1..d : \A f \in 1..q : f \in Nat /\ f <= d
    OBVIOUS
  <2> QED
    BY <1>1, <2>2, <2>3, Zenon
<1> QED
  BY <1>2, <1>3

\* Where the buys of a launch are.
Placed(buys) == DOMAIN buys \subseteq Nat /\ IsFiniteSet(DOMAIN buys)

LEMMA LaunchAndBuyAtomicKeeps ==
  ASSUME RouterInv, NEW s \in Accounts, NEW c \in Curves, NEW quoteIn, NEW recipient, NEW value,
         NEW buys, Placed(buys), LaunchAndBuyAtomic(s, c, quoteIn, recipient, value, buys)
  PROVE RouterInv' /\ OperatorKept
<1> DEFINE fill == OpeningFill(quoteIn)
           fills == Fills(buys, Room - fill)
<1>1. fill \in Nat /\ fill <= Room /\ Fee + fill <= eth[s]
  BY OpeningBound DEF LaunchAndBuyAtomic
<1>2. \A w \in Accounts : fills[w] \in Nat /\ fills[w] <= deposits[w]
  BY FillsBound DEF LaunchAndBuyAtomic
<1>3. AreBuys(buys)
  <2>1. \A i \in DOMAIN buys : /\ buys[i].wallet \in Accounts
                               /\ buys[i].quoteIn \in 1..deposits[buys[i].wallet]
    BY DEF LaunchAndBuyAtomic, BuysCovered
  <2>2. \A n \in Nat : 1..n \subseteq Nat
    OBVIOUS
  <2>3. \A i \in DOMAIN buys : deposits[buys[i].wallet] \in Nat
    BY <2>1 DEF RouterInv
  <2> QED
    BY <2>1, <2>2, <2>3 DEF AreBuys, Placed
<1>4. fills \in [Accounts -> Nat] /\ SumOf(fills) \in Nat /\ SumOf(fills) <= Room - fill
  <2>1. Room - fill \in Nat
    BY <1>1, RouterAssumption
  <2> HIDE DEF fill
  <2> QED
    BY <1>3, <2>1, FillsFit
<1>5. /\ recipient \in Accounts
      /\ SumOf(fills) \in 0..totalDeposits
      /\ left' = [left EXCEPT ![c] = Room - fill - SumOf(fills)]
      /\ launchBlock' = [launchBlock EXCEPT ![c] = block]
      /\ tokens' = [w \in Accounts |-> tokens[w] + fills[w] + IF w = recipient THEN fill ELSE 0]
      /\ paid' = [w \in Accounts |-> paid[w] + fills[w] + IF w = s THEN Fee + fill ELSE 0]
      /\ deposits' = [w \in Accounts |-> deposits[w] - fills[w]]
      /\ totalDeposits' = totalDeposits - SumOf(fills)
      /\ held' = totalDeposits'
      /\ eth' = [eth EXCEPT ![s] = @ - Fee - fill + (held - totalDeposits)]
      /\ UNCHANGED <<operatorOf, block>>
  BY DEF LaunchAndBuyAtomic, LaunchTerms
<1> HIDE DEF fill, fills
<1>6. held - totalDeposits \in Nat /\ totalDeposits' \in Nat /\ held' >= totalDeposits'
  BY <1>5 DEF RouterInv
<1>7. /\ eth' \in [Accounts -> Nat] /\ paid' \in [Accounts -> Nat]
      /\ deposits' \in [Accounts -> Nat] /\ tokens' \in [Accounts -> Nat]
  BY <1>1, <1>2, <1>5, <1>6, RouterAssumption DEF RouterInv
<1>8. left' \in [Curves -> Nat] /\ launchBlock' \in [Curves -> Nat]
  BY <1>1, <1>5, <1>4, RouterAssumption DEF RouterInv
<1>9. totalDeposits' = SumOf(deposits')
  <2>1. deposits \in [Accounts -> Int] /\ fills \in [Accounts -> Int] /\ IsFiniteSet(Accounts)
    BY <1>4, RouterAssumption DEF RouterInv
  <2>2. SumOf(deposits') = SumOf(deposits) - SumOf(fills)
    BY <1>5, <2>1, SumMinus
  <2> QED
    BY <1>5, <2>2 DEF RouterInv
<1>10. \A a \in Accounts : eth'[a] + deposits'[a] + paid'[a] >= eth[a] + deposits[a] + paid[a]
  BY <1>1, <1>2, <1>5, <1>6, RouterAssumption DEF RouterInv
<1>11. NobodyLoses'
  BY <1>7, <1>10, RouterAssumption DEF RouterInv, NobodyLoses
<1>12. \A a \in Accounts : deposits'[a] # 0 => deposits[a] # 0
  BY <1>2, <1>5, <1>7 DEF RouterInv
<1> QED
  BY <1>5, <1>6, <1>7, <1>11, <1>12, <1>8, <1>9 DEF RouterInv, OperatorKept

-----------------------------------------------------------------------------

LEMMA InitKeeps == RouterInit => RouterInv
BY RouterAssumption, SumZero DEF RouterInit, RouterInv, NobodyLoses

LEMMA CallKeeps ==
  ASSUME RouterInv, NEW s \in Accounts, RouterCall(s)
  PROVE RouterInv' /\ OperatorKept
<1>1. \A buys \in Buys : Placed(buys)
  BY DEF Buys, Placed
<1> QED
  BY <1>1, ReceiveKeeps, DepositKeeps, WithdrawKeeps, RoutedBuyKeeps, LaunchKeeps,
     LaunchAndBuyAtomicKeeps DEF RouterCall, BuyAfterLaunch, BuyWithin

LEMMA StepKeeps ==
  ASSUME RouterInv, [RouterNext]_routerVars
  PROVE RouterInv' /\ OperatorKept
<1>1. CASE Tick \/ UNCHANGED routerVars
  BY <1>1 DEF Tick, routerVars, RouterInv, NobodyLoses, OperatorKept
<1>2. CASE \E s \in Accounts : RouterCall(s)
  BY <1>2, CallKeeps
<1> QED
  BY <1>1, <1>2 DEF RouterNext

\* Whoever calls whatever in the router, no account ends with less than it began
\* with, counting what it has parked and what it has paid.
THEOREM NobodyEverLoses == RouterSpec => []NobodyLoses
<1>1. RouterSpec => []RouterInv
  BY InitKeeps, StepKeeps, PTL DEF RouterSpec
<1> QED
  BY <1>1, PTL DEF RouterInv

\* What the router holds covers the sum it has written down for the deposits, so
\* _refundFree's subtraction does not underflow.
THEOREM RefundIsFree == RouterSpec => [](held >= totalDeposits)
<1>1. RouterSpec => []RouterInv
  BY InitKeeps, StepKeeps, PTL DEF RouterSpec
<1> QED
  BY <1>1, PTL DEF RouterInv

\* Whatever was called, the deposits add up to the total the router keeps of
\* them, and are there to be withdrawn.
THEOREM DepositsAreThere == RouterSpec => []Solvent
<1>1. RouterSpec => []RouterInv
  BY InitKeeps, StepKeeps, PTL DEF RouterSpec
<1>2. RouterInv => Solvent
  BY DEF RouterInv, Solvent
<1> QED
  BY <1>1, <1>2, PTL

\* The operator of a deposit does not change while it is parked.
THEOREM OperatorIsKept == RouterSpec => OperatorStays
<1>1. RouterInv /\ [RouterNext]_routerVars => [OperatorKept]_routerVars
  BY StepKeeps DEF OperatorKept
<1>2. RouterSpec => []RouterInv
  BY InitKeeps, StepKeeps, PTL DEF RouterSpec
<1> QED
  BY <1>1, <1>2, PTL DEF RouterSpec, OperatorStays, OperatorKept
=============================================================================
