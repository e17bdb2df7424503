------------------------------- MODULE Router -------------------------------
(***************************************************************************)
(* The launch router (contracts/src/PonsMMRouter.sol): every call of it that *)
(* does not revert, as one step of the chain.  A curve is what the router    *)
(* sees of it: it fills what it has room for and returns the rest.           *)
(***************************************************************************)
EXTENDS Integers, Sequences, FiniteSets, SequencesExt, FiniteSetsExt, Sums

CONSTANTS
  Accounts, Curves, None,
  Funds,       \* what each account holds at first
  Fee,         \* the official launch fee
  Room,        \* what a new curve takes before it graduates
  MaxBlock     \* bound: L2 blocks

ASSUME RouterAssumption ==
  /\ None \notin Accounts /\ IsFiniteSet(Accounts)
  /\ Funds \in [Accounts -> Nat]
  /\ Fee \in Nat /\ Room \in Nat /\ MaxBlock \in Nat \ {0}

VARIABLES
  eth,                        \* of every account
  held,                       \* address(this).balance
  launchBlock, deposits, operatorOf, totalDeposits,
  left,                       \* room of every curve
  tokens,                     \* bought by the calls, one for each unit of ether
  paid,                       \* by every account: for tokens, as fees and as gifts
  block                       \* ARB_SYS.arbBlockNumber()

routerVars ==
  <<eth, held, launchBlock, deposits, operatorOf, totalDeposits, left, tokens, paid, block>>

Least(a, b) == IF a <= b THEN a ELSE b
Launched(c) == launchBlock[c] # 0

\* receive(): ether that is nobody's deposit.
Receive(s, v) ==
  /\ v \in 1..eth[s]
  /\ eth' = [eth EXCEPT ![s] = @ - v]
  /\ paid' = [paid EXCEPT ![s] = @ + v]
  /\ held' = held + v
  /\ UNCHANGED <<launchBlock, deposits, operatorOf, totalDeposits, left, tokens, block>>

Deposit(s, operator, v) ==
  /\ operator # None
  /\ v \in 1..eth[s]
  /\ operatorOf[s] \in {None, operator} \/ deposits[s] = 0
  /\ operatorOf' = [operatorOf EXCEPT ![s] = operator]
  /\ deposits' = [deposits EXCEPT ![s] = @ + v]
  /\ totalDeposits' = totalDeposits + v
  /\ eth' = [eth EXCEPT ![s] = @ - v]
  /\ held' = held + v
  /\ UNCHANGED <<launchBlock, left, tokens, paid, block>>

\* Mutant: the total is left as it is.
WithdrawKeepsTotal(s, asked) ==
  LET amount == IF asked = 0 THEN deposits[s] ELSE asked
  IN /\ amount \in 1..deposits[s]
     /\ deposits' = [deposits EXCEPT ![s] = @ - amount]
     /\ eth' = [eth EXCEPT ![s] = @ + amount]
     /\ held' = held - amount
     /\ UNCHANGED <<launchBlock, operatorOf, totalDeposits, left, tokens, paid, block>>

\* Mutant: everything is what all have deposited.
WithdrawEverything(s, asked) ==
  LET amount == IF asked = 0 THEN totalDeposits ELSE asked
  IN /\ deposits[s] > 0
     /\ deposits' = [deposits EXCEPT ![s] = @ - amount]
     /\ totalDeposits' = totalDeposits - amount
     /\ eth' = [eth EXCEPT ![s] = @ + amount]
     /\ held' = held - amount
     /\ UNCHANGED <<launchBlock, operatorOf, left, tokens, paid, block>>

\* An amount of 0 is everything; the subtraction of the total is a checked one.
Withdraw(s, asked) ==
  LET amount == IF asked = 0 THEN deposits[s] ELSE asked
  IN /\ amount \in 1..deposits[s]
     /\ amount <= totalDeposits
     /\ deposits' = [deposits EXCEPT ![s] = @ - amount]
     /\ totalDeposits' = totalDeposits - amount
     /\ eth' = [eth EXCEPT ![s] = @ + amount]
     /\ held' = held - amount
     /\ UNCHANGED <<launchBlock, operatorOf, left, tokens, paid, block>>

\* _routedBuy and _refundFree: what is nobody's deposit then goes to the caller.
RoutedBuy(s, c, recipient, v) ==
  LET fill == Least(v, left[c])
  IN /\ recipient \in Accounts
     /\ v \in 1..eth[s]
     /\ left[c] > 0
     /\ left' = [left EXCEPT ![c] = @ - fill]
     /\ tokens' = [tokens EXCEPT ![recipient] = @ + fill]
     /\ paid' = [paid EXCEPT ![s] = @ + fill]
     /\ eth' = [eth EXCEPT ![s] = @ - fill + (held - totalDeposits)]
     /\ held' = totalDeposits
     /\ UNCHANGED <<launchBlock, deposits, operatorOf, totalDeposits, block>>

BuyAfterLaunch(s, c, maxBlocks, recipient, v) ==
  /\ Launched(c)
  /\ block <= launchBlock[c] + maxBlocks
  /\ RoutedBuy(s, c, recipient, v)

BuyWithin(s, c, maxBlock, recipient, v) ==
  /\ block <= maxBlock
  /\ RoutedBuy(s, c, recipient, v)

\* The official contracts: the fee, the new curve and its opening buy.
OpeningFill(quoteIn) == Least(quoteIn, Room)
LaunchTerms(s, c, quoteIn, recipient, value) ==
  /\ recipient \in Accounts
  /\ quoteIn \in Nat /\ value \in Nat
  /\ Fee + quoteIn <= value /\ value <= eth[s]
  /\ ~Launched(c)

\* launch: the curve's block is recorded, the change is returned.
Launch(s, c, quoteIn, recipient, value) ==
  LET fill == OpeningFill(quoteIn)
  IN /\ LaunchTerms(s, c, quoteIn, recipient, value)
     /\ launchBlock' = [launchBlock EXCEPT ![c] = block]
     /\ left' = [left EXCEPT ![c] = Room - fill]
     /\ tokens' = [tokens EXCEPT ![recipient] = @ + fill]
     /\ paid' = [paid EXCEPT ![s] = @ + Fee + fill]
     /\ eth' = [eth EXCEPT ![s] = @ - Fee - fill + (held - totalDeposits)]
     /\ held' = totalDeposits
     /\ UNCHANGED <<deposits, operatorOf, totalDeposits, block>>

\* What the curve fills of each buy (buys: a function of places): it serves them in
\* their order.
Fills(buys, room) ==
  [w \in Accounts |->
     LET mine == {i \in DOMAIN buys : buys[i].wallet = w}
         Before(i) == SumOf([j \in {j \in DOMAIN buys : j < i} |-> buys[j].quoteIn])
     IN IF mine = {} THEN 0
        ELSE LET i == CHOOSE i \in mine : TRUE
             IN IF Before(i) >= room THEN 0 ELSE Least(buys[i].quoteIn, room - Before(i))]

\* Every buy needs its wallet's operator, its deposit and a curve with room
\* left, which takes no more than it is sent.
BuysCovered(s, buys, fills) ==
  \A i \in DOMAIN buys :
    LET w == buys[i].wallet
    IN /\ w \in Accounts /\ operatorOf[w] = s
       /\ buys[i].quoteIn \in 1..deposits[w]
       /\ fills[w] \in 1..buys[i].quoteIn

\* Mutant: the whole quote is debited, and what the curve returns is left to the
\* caller's refund.
LaunchAndBuyAtomicKeepsChange(s, c, quoteIn, recipient, value, buys) ==
  LET fill == OpeningFill(quoteIn)
      fills == Fills(buys, Room - fill)
      quotes == Fills(buys, SumOf(deposits))
  IN /\ LaunchTerms(s, c, quoteIn, recipient, value)
     /\ BuysCovered(s, buys, fills)
     /\ launchBlock' = [launchBlock EXCEPT ![c] = block]
     /\ left' = [left EXCEPT ![c] = Room - fill - SumOf(fills)]
     /\ tokens' = [w \in Accounts |-> tokens[w] + fills[w] + IF w = recipient THEN fill ELSE 0]
     /\ paid' = [w \in Accounts |-> paid[w] + fills[w] + IF w = s THEN Fee + fill ELSE 0]
     /\ deposits' = [w \in Accounts |-> deposits[w] - quotes[w]]
     /\ totalDeposits' = totalDeposits - SumOf(quotes)
     /\ held' = totalDeposits'
     /\ eth' = [eth EXCEPT ![s] = @ - Fee - fill + (held - totalDeposits)
                                    + (SumOf(quotes) - SumOf(fills))]
     /\ UNCHANGED <<operatorOf, block>>

\* launchAndBuyAtomic: what the curve does not fill of a buy stays deposited.
\* As its caller has it (launchV2): the factory and the curves are the protocol's own,
\* and the buys name each wallet once.
LaunchAndBuyAtomic(s, c, quoteIn, recipient, value, buys) ==
  LET fill == OpeningFill(quoteIn)
      fills == Fills(buys, Room - fill)
  IN /\ LaunchTerms(s, c, quoteIn, recipient, value)
     /\ BuysCovered(s, buys, fills)
     /\ SumOf(fills) \in 0..totalDeposits
     /\ launchBlock' = [launchBlock EXCEPT ![c] = block]
     /\ left' = [left EXCEPT ![c] = Room - fill - SumOf(fills)]
     /\ tokens' = [w \in Accounts |-> tokens[w] + fills[w] + IF w = recipient THEN fill ELSE 0]
     /\ paid' = [w \in Accounts |-> paid[w] + fills[w] + IF w = s THEN Fee + fill ELSE 0]
     /\ deposits' = [w \in Accounts |-> deposits[w] - fills[w]]
     /\ totalDeposits' = totalDeposits - SumOf(fills)
     /\ held' = totalDeposits'
     /\ eth' = [eth EXCEPT ![s] = @ - Fee - fill + (held - totalDeposits)]
     /\ UNCHANGED <<operatorOf, block>>

Tick ==
  /\ block < MaxBlock
  /\ block' = block + 1
  /\ UNCHANGED <<eth, held, launchBlock, deposits, operatorOf, totalDeposits, left, tokens, paid>>

RouterInit ==
  /\ eth = Funds
  /\ held = 0
  /\ launchBlock = [c \in Curves |-> 0]
  /\ deposits = [a \in Accounts |-> 0]
  /\ operatorOf = [a \in Accounts |-> None]
  /\ totalDeposits = 0
  /\ left = [c \in Curves |-> 0]
  /\ tokens = [a \in Accounts |-> 0]
  /\ paid = [a \in Accounts |-> 0]
  /\ block = 1

Buys == UNION {[places -> [wallet : Accounts, quoteIn : Nat]] : places \in {p \in SUBSET Nat : IsFiniteSet(p)}}

RouterCall(s) ==
  \/ \E v \in Nat : Receive(s, v) \/ Withdraw(s, v) \/ \E operator \in Accounts : Deposit(s, operator, v)
  \/ \E c \in Curves, recipient \in Accounts, v \in Nat, m \in Nat :
       BuyAfterLaunch(s, c, m, recipient, v) \/ BuyWithin(s, c, m, recipient, v)
  \/ \E c \in Curves, recipient \in Accounts, v \in Nat, quoteIn \in Nat :
       \/ Launch(s, c, quoteIn, recipient, v)
       \/ \E buys \in Buys : LaunchAndBuyAtomic(s, c, quoteIn, recipient, v, buys)

RouterNext == Tick \/ \E s \in Accounts : RouterCall(s)
RouterSpec == RouterInit /\ [][RouterNext]_routerVars

-----------------------------------------------------------------------------

\* What the deposits add up to is there to be withdrawn ("Sum of all deposits;
\* the rest of the balance is transient refunds"), whatever was called.
Solvent == held >= totalDeposits /\ totalDeposits = SumOf(deposits)

\* Nobody loses ether in a call: what an account has, has parked and has paid
\* for tokens, fees and gifts is never less than what it began with, whoever
\* spent its deposit (launchAndBuyAtomic's refund, _refundFree).
NobodyLoses == \A a \in Accounts : eth[a] + deposits[a] + paid[a] >= Funds[a]

\* "The operator can only be changed while the balance is zero."
OperatorStays == [][\A a \in Accounts : deposits[a] # 0 => operatorOf'[a] = operatorOf[a]]_routerVars
=============================================================================
