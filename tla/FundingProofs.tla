--------------------------- MODULE FundingProofs ---------------------------
(***************************************************************************)
(* Proofs about Funding, for every number of relays, batches, slots and    *)
(* tasks: its state stays well formed (in particular no wallet is overdrawn *)
(* and every transfer stays on the route), a run is registered from its     *)
(* start to its end, the record of a task tells whether it runs, and a task *)
(* that has its wallets to itself leaves no more behind than gas.           *)
(***************************************************************************)
EXTENDS Funding, TLAPS

(* Numbers.                                                                *)

LEMMA DivIs ==
  ASSUME NEW a \in Nat, NEW b \in Nat \ {0}
  PROVE  a \div b \in Nat /\ b * (a \div b) <= a /\ a < b * (a \div b) + b
OBVIOUS

LEMMA TimesCancel ==
  ASSUME NEW a \in Int, NEW b \in Int, NEW c \in Nat \ {0}, c * a < c * b
  PROVE  a < b
<1>1. ASSUME b <= a PROVE FALSE
  <2>1. a - b \in Nat /\ c \in Nat
    BY <1>1
  <2>2. c * (a - b) \in Nat
    BY <2>1
  <2>3. c * a = c * b + c * (a - b)
    OBVIOUS
  <2> QED BY <2>2, <2>3
<1> QED BY <1>1

LEMMA TimesMono ==
  ASSUME NEW a \in Nat, NEW b \in Nat, NEW c \in Nat, a <= b
  PROVE  c * a <= c * b
<1>1. b - a \in Nat /\ c * (b - a) \in Nat /\ c * b = c * a + c * (b - a)
  OBVIOUS
<1> QED BY <1>1

-----------------------------------------------------------------------------
(* The route.                                                              *)

\* The slots of a relay are slots of the task.
LEMMA BeforeIs ==
  ASSUME NEW r \in 0..RelayCount
  PROVE  Before(r) \in 0..Slots
<1>1. r \in Nat /\ RelayCount \in Nat \ {0} /\ Slots \in Nat /\ RelayCount \in Nat
  BY ConstantsAssumption
<1>2. r * Slots \in Nat
  BY <1>1
<1>3. Before(r) \in Nat /\ RelayCount * Before(r) <= r * Slots
  BY <1>1, <1>2, DivIs DEF Before
<1>4. Slots * r <= Slots * RelayCount
  BY <1>1, TimesMono
<1> DEFINE b == Before(r)
<1> HIDE DEF b
<1>5. ASSUME Slots < b PROVE FALSE
  <2>1. Slots + 1 <= b /\ b \in Nat
    BY <1>1, <1>3, <1>5 DEF b
  <2>2. RelayCount * (Slots + 1) <= RelayCount * b
    BY <1>1, <2>1, TimesMono
  <2>3. RelayCount * (Slots + 1) = Slots * RelayCount + RelayCount /\ r * Slots = Slots * r
    BY <1>1
  <2>4. RelayCount * b <= Slots * RelayCount
    BY <1>1, <1>3, <1>4, <2>3, <2>1 DEF b
  <2>5. RelayCount * b \in Nat /\ Slots * RelayCount \in Nat
    BY <1>1, <2>1
  <2> QED BY <1>1, <2>2, <2>3, <2>4, <2>5
<1> QED BY <1>1, <1>3, <1>5 DEF b

\* Every slot is served by a relay.
LEMMA RelayOfIs ==
  ASSUME NEW i \in 1..Slots
  PROVE  RelayOf(i) \in Relays
<1>1. RelayCount \in Nat \ {0} /\ Slots \in Nat \ {0} /\ i \in Nat \ {0}
  BY ConstantsAssumption
<1> DEFINE x == i * RelayCount - 1
           r == x \div Slots
<1>2. i * RelayCount \in Nat \ {0}
  <2>1. RelayCount * 1 <= RelayCount * i
    BY <1>1, TimesMono
  <2> QED BY <1>1, <2>1
<1>3. x \in Nat /\ i * RelayCount = x + 1
  BY <1>2
<1>4. r \in Nat /\ Slots * r <= x /\ x < Slots * r + Slots
  BY <1>1, <1>3, DivIs
<1> HIDE DEF x, r
<1>5. r \in Relays
  <2>1. RelayCount * i <= RelayCount * Slots
    BY <1>1, TimesMono
  <2>2. Slots * r < Slots * RelayCount
    BY <1>1, <1>3, <1>4, <2>1
  <2>3. r < RelayCount
    BY <1>1, <1>4, <2>2, TimesCancel
  <2> QED BY <1>1, <1>4, <2>3 DEF Relays
<1>6. Before(r) < i
  <2>1. r * Slots \in Nat /\ r * Slots = Slots * r
    BY <1>1, <1>4
  <2>2. Before(r) \in Nat /\ RelayCount * Before(r) <= r * Slots
    BY <1>1, <2>1, DivIs DEF Before
  <2>3. RelayCount * Before(r) < RelayCount * i
    BY <1>1, <1>3, <1>4, <2>1, <2>2
  <2> QED BY <1>1, <2>2, <2>3, TimesCancel
<1>7. i <= Before(r + 1)
  <2>1. (r + 1) * Slots \in Nat /\ (r + 1) * Slots = Slots * r + Slots
    BY <1>1, <1>4
  <2>2. /\ Before(r + 1) \in Nat
        /\ (r + 1) * Slots < RelayCount * Before(r + 1) + RelayCount
    BY <1>1, <2>1, DivIs DEF Before
  <2> DEFINE b == Before(r + 1)
  <2> HIDE DEF b
  <2>3. b \in Nat /\ RelayCount * b + RelayCount = RelayCount * (b + 1)
    BY <1>1, <2>2 DEF b
  <2>4. RelayCount * i < RelayCount * (b + 1)
    <3>1. RelayCount * i = x + 1 /\ x + 1 <= Slots * r + Slots
      BY <1>1, <1>3, <1>4
    <3>2. Slots * r + Slots < RelayCount * (b + 1)
      BY <2>1, <2>2, <2>3 DEF b
    <3>3. Slots * r \in Nat /\ RelayCount * (b + 1) \in Nat
      BY <1>1, <1>4, <2>3
    <3> QED BY <1>1, <1>3, <3>1, <3>2, <3>3
  <2>5. i < b + 1
    BY <1>1, <2>3, <2>4, TimesCancel
  <2> QED BY <1>1, <2>3, <2>5 DEF b
<1>8. i \in RelaySlice(r)
  <2>1. Before(r) \in 0..Slots /\ Before(r + 1) \in 0..Slots
    BY <1>1, <1>5, BeforeIs DEF Relays
  <2> QED BY <1>1, <1>6, <1>7, <2>1 DEF RelaySlice
<1> QED BY <1>5, <1>8 DEF RelayOf

-----------------------------------------------------------------------------

\* A transfer order of the route: who sends, and to whom.
Specs == {spec \in [from : Wallets, to : Seq(Wallets)] : Len(spec.to) \in Nat \ {0}}

LEMMA SweepIs ==
  ASSUME NEW v \in Wallets, NEW w \in Wallets
  PROVE  Sweep(v, w) \in Specs
<1>1. <<w>> \in Seq(Wallets) /\ Len(<<w>>) = 1
  OBVIOUS
<1> QED BY <1>1 DEF Sweep, Specs

LEMMA SweepsAre ==
  ASSUME NEW f \in [1..Slots -> Wallets], NEW g \in [1..Slots -> Wallets]
  PROVE  Sweeps(f, g) \subseteq Specs
BY SweepIs DEF Sweeps

LEMMA RowsAre ==
  ASSUME NEW t \in Tasks
  PROVE  /\ \A b \in 1..BatchCount : Row(t, b) \in [1..Slots -> Wallets]
         /\ Ends(t) \in [1..Slots -> Wallets]
BY DEF Row, Ends, Wallets

LEMMA BatchHopsAre ==
  ASSUME NEW t \in Tasks
  PROVE  BatchHops(t) \in Seq(SUBSET Specs)
<1>1. BatchCount \in Nat \ {0} /\ BatchCount - 1 \in Nat
  BY ConstantsAssumption
<1>2. ASSUME NEW b \in 1..(BatchCount - 1) PROVE Sweeps(Row(t, b), Row(t, b + 1)) \subseteq Specs
  BY <1>1, RowsAre, SweepsAre
<1>3. BatchHops(t) \in [1..(BatchCount - 1) -> SUBSET Specs]
  BY <1>2 DEF BatchHops
<1> QED BY <1>1, <1>3, SeqDef

LEMMA DistributeIs ==
  ASSUME NEW t \in Tasks
  PROVE  Distribute(t) \in Seq(SUBSET Specs) /\ Len(Distribute(t)) \in Nat \ {0}
<1> DEFINE deposit ==
             [from |-> DepositCold,
              to |-> [k \in 1..Len(ActiveRelays) |-> DepositRelay(ActiveRelays[k])]]
           Fan(r) ==
             [from |-> DepositRelay(r),
              to |-> [k \in 1..(Before(r + 1) - Before(r)) |-> Batch(t, 1, Before(r) + k)]]
           first == << {deposit}, {Fan(r) : r \in Active} >>
           last == << Sweeps(Row(t, BatchCount), Ends(t)) >>
<1>1. RelayCount \in Nat \ {0} /\ Slots \in Nat \ {0} /\ BatchCount \in Nat \ {0}
  BY ConstantsAssumption
<1>2. deposit \in Specs
  <2>1. ActiveRelays \in Seq(Relays) /\ Len(ActiveRelays) \in Nat \ {0}
    <3>1. CASE Slots < RelayCount
      <4>1. ActiveRelays = [k \in 1..Slots |-> RelayOf(k)]
        BY <3>1 DEF ActiveRelays
      <4>2. ActiveRelays \in [1..Slots -> Relays]
        BY <4>1, RelayOfIs
      <4>3. Len(ActiveRelays) = Slots
        BY <1>1, <4>1
      <4> QED BY <1>1, <4>2, <4>3, SeqDef
    <3>2. CASE ~(Slots < RelayCount)
      <4>1. ActiveRelays = [k \in 1..RelayCount |-> k - 1]
        BY <3>2 DEF ActiveRelays
      <4>2. ActiveRelays \in [1..RelayCount -> Relays]
        BY <1>1, <4>1 DEF Relays
      <4>3. Len(ActiveRelays) = RelayCount
        BY <1>1, <4>1
      <4> QED BY <1>1, <4>2, <4>3, SeqDef
    <3> QED BY <3>1, <3>2
  <2> DEFINE n == Len(ActiveRelays)
  <2>2. \A k \in 1..n : DepositRelay(ActiveRelays[k]) \in Wallets
    BY <2>1 DEF Wallets
  <2> HIDE DEF n
  <2> DEFINE to == [k \in 1..n |-> DepositRelay(ActiveRelays[k])]
  <2>3. n \in Nat \ {0} /\ to \in [1..n -> Wallets]
    BY <2>1, <2>2 DEF n
  <2>4. to \in Seq(Wallets) /\ Len(to) = n
    BY <2>3, SeqDef
  <2>5. DepositCold \in Wallets
    BY DEF Wallets
  <2> QED BY <2>3, <2>4, <2>5 DEF Specs, n
<1>3. ASSUME NEW r \in Active PROVE Fan(r) \in Specs
  <2> DEFINE n == Before(r + 1) - Before(r)
             to == [k \in 1..n |-> Batch(t, 1, Before(r) + k)]
  <2>1. r \in Relays /\ Before(r) \in 0..Slots /\ Before(r + 1) \in 0..Slots
    BY <1>1, BeforeIs DEF Active, Relays
  <2>2. n \in Nat \ {0}
    BY <1>1, <2>1 DEF Active, RelaySlice
  <2>3. \A k \in 1..n : Before(r) + k \in 1..Slots
    BY <1>1, <2>1
  <2>4. \A i \in 1..Slots : Batch(t, 1, i) \in Wallets
    BY <1>1 DEF Wallets
  <2>5. to \in [1..n -> Wallets]
    BY <2>3, <2>4
  <2>6. to \in Seq(Wallets) /\ Len(to) = n
    <3> HIDE DEF n
    <3> QED BY <2>2, <2>5, SeqDef
  <2>7. DepositRelay(r) \in Wallets
    BY <2>1 DEF Wallets
  <2> QED BY <2>2, <2>6, <2>7 DEF Specs
<1>4. Sweeps(Row(t, BatchCount), Ends(t)) \subseteq Specs
  BY <1>1, RowsAre, SweepsAre
<1> HIDE DEF deposit, Fan
<1>5. first \in Seq(SUBSET Specs) /\ Len(first) = 2
  BY <1>2, <1>3
<1>6. last \in Seq(SUBSET Specs) /\ Len(last) = 1
  BY <1>4
<1> HIDE DEF first, last
<1>7. /\ first \o BatchHops(t) \in Seq(SUBSET Specs)
      /\ Len(first \o BatchHops(t)) \in Nat
  BY <1>5, BatchHopsAre, ConcatProperties, LenProperties
<1>8. /\ (first \o BatchHops(t)) \o last \in Seq(SUBSET Specs)
      /\ Len((first \o BatchHops(t)) \o last) \in Nat \ {0}
  BY <1>6, <1>7, ConcatProperties
<1>9. Distribute(t) = (first \o BatchHops(t)) \o last
  BY DEF Distribute, first, last, deposit, Fan
<1> QED BY <1>8, <1>9

LEMMA WithdrawIs ==
  ASSUME NEW t \in Tasks
  PROVE  Withdraw(t) \in Seq(SUBSET Specs) /\ Len(Withdraw(t)) \in Nat \ {0}
<1> DEFINE relays == [i \in 1..Slots |-> WithdrawRelay(RelayOf(i))]
           first == << Sweeps(Ends(t), Row(t, 1)) >>
           last == << Sweeps(Row(t, BatchCount), relays),
                      {Sweep(WithdrawRelay(r), WithdrawCold) : r \in Relays} >>
<1>1. BatchCount \in Nat \ {0}
  BY ConstantsAssumption
<1>2. Sweeps(Ends(t), Row(t, 1)) \subseteq Specs
  BY <1>1, RowsAre, SweepsAre
<1>3. relays \in [1..Slots -> Wallets]
  BY RelayOfIs DEF Wallets
<1> HIDE DEF relays
<1>4. Sweeps(Row(t, BatchCount), relays) \subseteq Specs
  BY <1>1, <1>3, RowsAre, SweepsAre
<1>5. {Sweep(WithdrawRelay(r), WithdrawCold) : r \in Relays} \subseteq Specs
  <2>1. \A r \in Relays : WithdrawRelay(r) \in Wallets /\ WithdrawCold \in Wallets
    BY DEF Wallets
  <2> QED BY <2>1, SweepIs
<1>6. first \in Seq(SUBSET Specs) /\ Len(first) = 1
  BY <1>2
<1>7. last \in Seq(SUBSET Specs) /\ Len(last) = 2
  BY <1>4, <1>5
<1> HIDE DEF first, last
<1>8. /\ first \o BatchHops(t) \in Seq(SUBSET Specs)
      /\ Len(first \o BatchHops(t)) \in Nat
  BY <1>6, BatchHopsAre, ConcatProperties, LenProperties
<1>9. /\ (first \o BatchHops(t)) \o last \in Seq(SUBSET Specs)
      /\ Len((first \o BatchHops(t)) \o last) \in Nat \ {0}
  BY <1>7, <1>8, ConcatProperties
<1>10. Withdraw(t) = (first \o BatchHops(t)) \o last
  BY DEF Withdraw, first, last, relays
<1> QED BY <1>9, <1>10

\* Every sender of a hop pays one or more wallets.
LEMMA HopsAre ==
  ASSUME NEW t \in Tasks
  PROVE  /\ Len(Hops(t)) \in Nat \ {0}
         /\ \A k \in 1..Len(Hops(t)) :
              /\ Senders(Hops(t)[k]) \subseteq Wallets
              /\ \A w \in Senders(Hops(t)[k]) :
                   /\ Recipients(Hops(t)[k], w) \in Seq(Wallets)
                   /\ Len(Recipients(Hops(t)[k], w)) \in Nat \ {0}
<1>1. Hops(t) \in Seq(SUBSET Specs) /\ Len(Hops(t)) \in Nat \ {0}
  BY DistributeIs, WithdrawIs DEF Hops
<1>2. ASSUME NEW hop \in SUBSET Specs, NEW w \in Senders(hop)
      PROVE  /\ w \in Wallets /\ Recipients(hop, w) \in Seq(Wallets)
             /\ Len(Recipients(hop, w)) \in Nat \ {0}
  <2> DEFINE spec == CHOOSE s \in hop : s.from = w
  <2>1. spec \in hop /\ spec.from = w
    BY <1>2 DEF Senders
  <2> HIDE DEF spec
  <2>2. spec \in [from : Wallets, to : Seq(Wallets)] /\ Len(spec.to) \in Nat \ {0}
    BY <2>1 DEF Specs
  <2> QED BY <2>1, <2>2 DEF Recipients, spec
<1>3. ASSUME NEW k \in 1..Len(Hops(t)) PROVE Hops(t)[k] \in SUBSET Specs
  BY <1>1, <1>3, ElementOfSeq
<1> QED BY <1>1, <1>2, <1>3

-----------------------------------------------------------------------------
(* The nonces that are free.                                              *)

LEMMA Interval ==
  ASSUME NEW a \in Nat, NEW c \in Nat
  PROVE  IsFiniteSet(a..(a + c)) /\ Cardinality(a..(a + c)) = c + 1
<1> DEFINE b == a + c
<1>1. a \in Int /\ b \in Int /\ ~(a > b) /\ b - a + 1 = c + 1
  OBVIOUS
<1> HIDE DEF b
<1>2. IsFiniteSet(a..b) /\ Cardinality(a..b) = c + 1
  BY <1>1, FS_Interval
<1> QED BY <1>2 DEF b

\* PendingNonce is the first number that no transfer of the wallet has.
LEMMA PendingNonceIs ==
  ASSUME IsFiniteSet(pool), NEW w, nonce[w] \in Nat
  PROVE  /\ PendingNonce(w) \in nonce[w]..(nonce[w] + Cardinality(pool))
         /\ \A tx \in pool : tx.from = w => tx.nonce # PendingNonce(w)
         /\ \A m \in nonce[w]..(PendingNonce(w) - 1) : \E tx \in pool : tx.from = w /\ tx.nonce = m
<1> DEFINE N == nonce[w]..(nonce[w] + Cardinality(pool))
           Has(n, tx) == tx.from = w /\ tx.nonce = n
           Free == {n \in N : \A tx \in pool : ~Has(n, tx)}
<1>1. Cardinality(pool) \in Nat
  BY FS_CardinalityType
<1>2. IsFiniteSet(N) /\ Cardinality(N) = Cardinality(pool) + 1
  BY <1>1, Interval
<1>3. Free # {}
  <2> SUFFICES ASSUME Free = {} PROVE FALSE
    OBVIOUS
  <2> DEFINE f == [n \in N |-> CHOOSE tx \in pool : Has(n, tx)]
  <2>1. \A n \in N : f[n] \in pool /\ f[n].nonce = n
    OBVIOUS
  <2>2. f \in [N -> pool]
    BY <2>1
  <2> HIDE DEF f, N
  <2>3. Cardinality(pool) < Cardinality(N)
    BY <1>1, <1>2
  <2>4. PICK x, y \in N : x # y /\ f[x] = f[y]
    BY <1>2, <2>2, <2>3, FS_PigeonHole
  <2> QED BY <2>1, <2>4
<1>4. PICK n \in Free : \A m \in Free : n <= m
  <2>1. Free \in SUBSET Nat
    BY <1>1
  <2> QED BY <1>3, <2>1, LeastNatural
<1>5. /\ n \in N
      /\ \A tx \in pool : tx.from = w => tx.nonce # n
      /\ \A m \in nonce[w]..(n - 1) : \E tx \in pool : tx.from = w /\ tx.nonce = m
  <2>1. n \in N /\ n \in Nat
    BY <1>1
  <2>2. \A m \in nonce[w]..(n - 1) : m \in N /\ ~(n <= m)
    BY <1>1, <2>1
  <2> QED BY <1>4, <2>1, <2>2
<1> QED BY <1>5 DEF PendingNonce
-----------------------------------------------------------------------------

Job == [at : {"balance", "nonce", "send", "over"}, amounts : Seq(Nat), nonce : Nat]
Works == UNION {[S -> Job] : S \in SUBSET Wallets}
Run == [pc : {"none", "hop", "confirm", "done"}, hop : Nat, work : Works,
        sent : SUBSET Tx, failed : BOOLEAN]

\* A goroutine that has amounts to send has one for each of its last recipients.
OnRoute(hops, r) ==
  /\ r.pc \in {"hop", "confirm"} => r.hop \in 1..Len(hops)
  /\ r.pc = "hop" =>
       /\ DOMAIN r.work = Senders(hops[r.hop])
       /\ \A w \in DOMAIN r.work :
            r.work[w].at \in {"nonce", "send"} =>
              Len(r.work[w].amounts) \in 1..Len(Recipients(hops[r.hop], w))

ChainOK ==
  /\ bal \in [Wallets -> Nat] /\ nonce \in [Wallets -> Nat]
  /\ pool \subseteq Tx /\ IsFiniteSet(pool)
StoreOK ==
  /\ recs \in [Tasks -> States \cup {None}] /\ file \in [Tasks -> States \cup {None}]
  /\ kind \in [Tasks -> Kinds \cup {None}]
Calls == [start : 0..MaxCalls, save : BOOLEAN, delete : Nat]
CallsOK ==
  /\ fundingRuns \subseteq Tasks /\ cancelled \subseteq fundingRuns
  /\ ending \in [Tasks -> SUBSET States]
  /\ call \in [Tasks -> Calls]
  /\ crossed \subseteq Tasks /\ unwritten \subseteq Tasks
\* Every delete has used up a fault.
FaultsOK == faults \in 0..MaxFaults /\ \A t \in Tasks : call[t].delete \in 0..(MaxFaults - faults)
RunsOK ==
  /\ run \in [Tasks -> Run]
  /\ \A t \in Tasks : OnRoute(Hops(t), run[t])

Typed == ChainOK /\ StoreOK /\ CallsOK /\ FaultsOK /\ RunsOK

LEMMA TypedIs == Typed => TypeOK
<1> SUFFICES ASSUME Typed PROVE TypeOK
  OBVIOUS
<1>1. \A t \in Tasks : /\ run[t].pc \in {"none", "hop", "confirm", "done"}
                       /\ run[t].sent \subseteq Tx /\ run[t].failed \in BOOLEAN
  <2>1. \A t \in Tasks : run[t] \in Run
    BY DEF Typed, RunsOK
  <2> QED BY <2>1 DEF Run
<1>2. call \in [Tasks -> [start : 0..MaxCalls, save : BOOLEAN, delete : 0..MaxFaults]]
  <2>1. call \in [Tasks -> Calls] /\ \A t \in Tasks : call[t].delete \in 0..(MaxFaults - faults)
    BY DEF Typed, CallsOK, FaultsOK
  <2>2. MaxFaults \in Nat /\ faults \in 0..MaxFaults
    BY ConstantsAssumption DEF Typed, FaultsOK
  <2>3. ASSUME NEW t \in Tasks
        PROVE  call[t] \in [start : 0..MaxCalls, save : BOOLEAN, delete : 0..MaxFaults]
    <3>1. call[t] \in Calls /\ call[t].delete \in 0..MaxFaults
      BY <2>1, <2>2
    <3> QED BY <3>1 DEF Calls
  <2> QED BY <2>1, <2>3
<1> QED BY <1>1, <1>2 DEF TypeOK, Typed, ChainOK, StoreOK, CallsOK, FaultsOK

LEMMA FaultIs == ASSUME FaultsOK, Fault, UNCHANGED call PROVE FaultsOK'
<1>1. faults \in 0..MaxFaults /\ faults > 0 /\ faults' = faults - 1 /\ MaxFaults \in Nat
  BY ConstantsAssumption DEF FaultsOK, Fault
<1>2. faults' \in 0..MaxFaults
  BY <1>1
<1>3. ASSUME NEW t \in Tasks PROVE call'[t].delete \in 0..(MaxFaults - faults')
  <2>1. call[t].delete \in 0..(MaxFaults - faults)
    BY DEF FaultsOK
  <2> QED BY <1>1, <2>1
<1> QED BY <1>2, <1>3 DEF FaultsOK

\* A call's count of deletes changes only with the checks and the deletions.
LEMMA FaultsStay ==
  ASSUME FaultsOK, UNCHANGED faults \/ Fault,
         \A t \in Tasks : call'[t].delete = call[t].delete
  PROVE  FaultsOK'
<1>1. faults \in 0..MaxFaults /\ faults' \in 0..MaxFaults /\ faults' <= faults /\ MaxFaults \in Nat
  BY ConstantsAssumption DEF FaultsOK, Fault
<1>2. ASSUME NEW t \in Tasks PROVE call'[t].delete \in 0..(MaxFaults - faults')
  <2>1. call[t].delete \in 0..(MaxFaults - faults) /\ call'[t].delete = call[t].delete
    BY DEF FaultsOK
  <2> QED BY <1>1, <2>1
<1> QED BY <1>1, <1>2 DEF FaultsOK

LEMMA SaveIs ==
  ASSUME NEW t \in Tasks, NEW state \in States \cup {None}, NEW ok, StoreOK, FaultsOK,
         Save(t, state, ok), UNCHANGED kind,
         \A u \in Tasks : call'[u].delete = call[u].delete
  PROVE  StoreOK' /\ FaultsOK'
<1>1. recs' \in [Tasks -> States \cup {None}]
  BY DEF Save, StoreOK
<1>2. file' \in [Tasks -> States \cup {None}]
  BY <1>1 DEF Save, StoreOK
<1>3. UNCHANGED faults \/ Fault
  BY DEF Save
<1>4. FaultsOK'
  BY <1>3, FaultsStay
<1> QED BY <1>1, <1>2, <1>4 DEF StoreOK

LEMMA HopsStay ==
  ASSUME NEW t \in Tasks, kind'[t] = kind[t]
  PROVE  Hops(t)' = Hops(t)
BY DEF Hops

LEMMA RunsStay ==
  ASSUME RunsOK, UNCHANGED <<run, kind>>
  PROVE  RunsOK'
BY HopsStay DEF RunsOK

LEMMA RunSteps ==
  ASSUME RunsOK, NEW t \in Tasks, NEW r \in Run, OnRoute(Hops(t), r),
         run' = [run EXCEPT ![t] = r], UNCHANGED kind
  PROVE  RunsOK'
<1>1. run' \in [Tasks -> Run]
  BY DEF RunsOK
<1>2. ASSUME NEW u \in Tasks PROVE OnRoute(Hops(u)', run'[u])
  <2>1. Hops(u)' = Hops(u)
    BY HopsStay
  <2>2. run'[u] = IF u = t THEN r ELSE run[u]
    BY DEF RunsOK
  <2> QED BY <2>1, <2>2 DEF RunsOK
<1> QED BY <1>1, <1>2 DEF RunsOK

LEMMA NoRunIs == NoRun \in Run /\ NoRun.pc = "none" /\ NoRun.sent = {} /\ NoRun.hop = 0
<1>1. <<>> \in Works
  <2>1. <<>> \in [{} -> Job]
    OBVIOUS
  <2> QED BY <2>1 DEF Works
<1> QED BY <1>1 DEF NoRun, Run

LEMMA EndedRun ==
  ASSUME NEW hops
  PROVE  OnRoute(hops, NoRun)
BY NoRunIs DEF OnRoute

LEMMA HopIs ==
  ASSUME NEW t \in Tasks, NEW k \in 1..Len(Hops(t))
  PROVE  /\ Hop(t, k) \in Run /\ OnRoute(Hops(t), Hop(t, k))
         /\ Hop(t, k).pc = "hop" /\ Hop(t, k).hop = k /\ Hop(t, k).sent = {}
<1> DEFINE work == [w \in Senders(Hops(t)[k]) |-> ToRead]
<1>1. ToRead \in Job /\ ToRead.at = "balance"
  <2>1. <<>> \in Seq(Nat)
    OBVIOUS
  <2> QED BY <2>1 DEF ToRead, Job
<1>2. Senders(Hops(t)[k]) \subseteq Wallets
  BY HopsAre
<1>3. work \in Works
  BY <1>1, <1>2 DEF Works
<1>4. k \in Nat
  BY HopsAre
<1>5. DOMAIN work = Senders(Hops(t)[k]) /\ \A w \in DOMAIN work : work[w].at = "balance"
  BY <1>1
<1> HIDE DEF work
<1>6. Hop(t, k) = [pc |-> "hop", hop |-> k, work |-> work, sent |-> {}, failed |-> FALSE]
  <2>1. Hop(t, k) = [NoRun EXCEPT !.pc = "hop", !.hop = k, !.work = work]
    BY DEF Hop, work
  <2> QED BY <2>1 DEF NoRun
<1>7. Hop(t, k) \in Run
  BY <1>3, <1>4, <1>6 DEF Run
<1> QED BY <1>5, <1>6, <1>7 DEF OnRoute

-----------------------------------------------------------------------------

LEMMA OverIs == Over \in Job /\ Over.at = "over"
<1>1. <<>> \in Seq(Nat)
  OBVIOUS
<1> QED BY <1>1 DEF Over, ToRead, Job

LEMMA WorkOf ==
  ASSUME NEW r \in Run, NEW w \in DOMAIN r.work
  PROVE  r.work[w] \in Job
<1>1. r.work \in Works
  BY DEF Run
<1> QED BY <1>1 DEF Works

\* A sender at work is one of its hop.
LEMMA RecipientsOf ==
  ASSUME NEW t \in Tasks, NEW r, r.pc = "hop", OnRoute(Hops(t), r), NEW w \in DOMAIN r.work
  PROVE  /\ w \in Wallets
         /\ Recipients(Hops(t)[r.hop], w) \in Seq(Wallets)
         /\ Len(Recipients(Hops(t)[r.hop], w)) \in Nat \ {0}
<1>1. r.hop \in 1..Len(Hops(t)) /\ w \in Senders(Hops(t)[r.hop])
  BY DEF OnRoute
<1> QED BY <1>1, HopsAre

LEMMA JobIn ==
  ASSUME NEW r \in Run, NEW w \in DOMAIN r.work, NEW job \in Job
  PROVE  [r.work EXCEPT ![w] = job] \in Works
<1>1. r.work \in Works
  BY DEF Run
<1>2. PICK S \in SUBSET Wallets : r.work \in [S -> Job]
  BY <1>1 DEF Works
<1>3. [r.work EXCEPT ![w] = job] \in [S -> Job]
  BY <1>2
<1> QED BY <1>2, <1>3 DEF Works

LEMMA JobSteps ==
  ASSUME RunsOK, NEW t \in Tasks, NEW w \in DOMAIN run[t].work, run[t].pc = "hop",
         NEW job,
         job.at \in {"nonce", "send"} =>
           Len(job.amounts) \in 1..Len(Recipients(Hops(t)[run[t].hop], w)),
         NEW r \in Run, r.pc = "hop", r.hop = run[t].hop,
         r.work = [run[t].work EXCEPT ![w] = job],
         run' = [run EXCEPT ![t] = r],
         UNCHANGED kind
  PROVE  RunsOK'
<1>1. OnRoute(Hops(t), run[t])
  BY DEF RunsOK
<1>2. DOMAIN r.work = DOMAIN run[t].work
  OBVIOUS
<1>3. \A v \in DOMAIN r.work : r.work[v] = IF v = w THEN job ELSE run[t].work[v]
  OBVIOUS
<1>4. OnRoute(Hops(t), r)
  BY <1>1, <1>2, <1>3 DEF OnRoute
<1> QED BY <1>4, RunSteps

LEMMA WorkSteps ==
  ASSUME RunsOK, NEW t \in Tasks, NEW w \in DOMAIN run[t].work, run[t].pc = "hop",
         NEW job \in Job,
         job.at \in {"nonce", "send"} =>
           Len(job.amounts) \in 1..Len(Recipients(Hops(t)[run[t].hop], w)),
         Work(t, w, job), UNCHANGED kind
  PROVE  RunsOK'
<1>1. run[t] \in Run
  BY DEF RunsOK
<1> DEFINE r == [run[t] EXCEPT !.work = [run[t].work EXCEPT ![w] = job]]
<1>2. run' = [run EXCEPT ![t] = r]
  BY DEF Work
<1>3. r \in Run /\ r.pc = "hop" /\ r.hop = run[t].hop /\ r.work = [run[t].work EXCEPT ![w] = job]
  <2> DEFINE q == run[t]
             work == [q.work EXCEPT ![w] = job]
  <2>1. work \in Works
    BY <1>1, JobIn
  <2>2. r = [q EXCEPT !.work = work]
    OBVIOUS
  <2> HIDE DEF q, work, r
  <2>3. r \in Run /\ r.pc = q.pc /\ r.hop = q.hop /\ r.work = work
    <3>1. q \in Run
      BY <1>1 DEF q
    <3> QED BY <2>1, <2>2, <3>1 DEF Run
  <2> QED BY <2>3 DEF q, work
<1> HIDE DEF r
<1> QED BY <1>2, <1>3, JobSteps, ZenonT(30)

LEMMA FailSteps ==
  ASSUME RunsOK, NEW t \in Tasks, NEW w \in DOMAIN run[t].work, run[t].pc = "hop",
         Fail(t, w), UNCHANGED kind
  PROVE  RunsOK'
<1>1. run[t] \in Run
  BY DEF RunsOK
<1> DEFINE r == [run[t] EXCEPT !.work = [run[t].work EXCEPT ![w] = Over], !.failed = TRUE]
<1>2. run' = [run EXCEPT ![t] = r]
  BY DEF Fail
<1>3. Over \in Job /\ Over.at = "over"
  BY OverIs
<1>4. r \in Run /\ r.pc = "hop" /\ r.hop = run[t].hop /\ r.work = [run[t].work EXCEPT ![w] = Over]
  <2> DEFINE q == run[t]
             work == [q.work EXCEPT ![w] = Over]
  <2>1. work \in Works
    BY <1>1, <1>3, JobIn
  <2>2. r = [q EXCEPT !.work = work, !.failed = TRUE]
    OBVIOUS
  <2> HIDE DEF q, work, r
  <2>3. r \in Run /\ r.pc = q.pc /\ r.hop = q.hop /\ r.work = work
    <3>1. q \in Run
      BY <1>1 DEF q
    <3> QED BY <2>1, <2>2, <3>1 DEF Run
  <2> QED BY <2>3 DEF q, work
<1> HIDE DEF r
<1> QED BY <1>2, <1>3, <1>4, JobSteps, ZenonT(30)

\* One transfer less to send.
LEMMA JobNext ==
  ASSUME NEW A, NEW S, NEW N, NEW job \in [at : A, amounts : S, nonce : N],
         NEW amounts \in S, NEW n \in N
  PROVE  /\ [job EXCEPT !.amounts = amounts, !.nonce = n] \in [at : A, amounts : S, nonce : N]
         /\ [job EXCEPT !.amounts = amounts, !.nonce = n].amounts = amounts
OBVIOUS

LEMMA SentSteps ==
  ASSUME RunsOK, NEW t \in Tasks, NEW w \in DOMAIN run[t].work, run[t].pc = "hop",
         run[t].work[w].at = "send", NEW tx \in Tx, Sent(t, w, tx), UNCHANGED kind
  PROVE  RunsOK'
<1> DEFINE job == run[t].work[w]
           next == IF Len(job.amounts) = 1 THEN Over
                   ELSE [job EXCEPT !.amounts = Tail(@), !.nonce = @ + 1]
           most == Len(Recipients(Hops(t)[run[t].hop], w))
           r == [run[t] EXCEPT !.sent = @ \cup {tx}, !.work = [run[t].work EXCEPT ![w] = next]]
<1>1. run[t] \in Run /\ OnRoute(Hops(t), run[t])
  BY DEF RunsOK
<1>2. run' = [run EXCEPT ![t] = r]
  BY DEF Sent
<1>3. run[t].sent \cup {tx} \in SUBSET Tx
  BY <1>1 DEF Run
<1>4. job \in Job
  BY <1>1, WorkOf
<1>5. Len(job.amounts) \in 1..most /\ most \in Nat
  BY <1>1, RecipientsOf DEF OnRoute
<1> HIDE DEF job, most
<1>6. next \in Job /\ (next.at \in {"nonce", "send"} => Len(next.amounts) \in 1..most)
  <2>1. CASE Len(job.amounts) = 1
    <3>1. next = Over /\ Over.at = "over" /\ Over \in Job
      BY <2>1, OverIs
    <3> QED BY <3>1
  <2>2. CASE Len(job.amounts) # 1
    <3>1. job.amounts \in Seq(Nat) /\ job.nonce \in Nat
      BY <1>4 DEF Job
    <3> DEFINE amounts == Tail(job.amounts)
    <3>2. job.amounts # <<>>
      BY <1>5
    <3>3. amounts \in Seq(Nat) /\ Len(amounts) = Len(job.amounts) - 1
      BY <3>1, <3>2, HeadTailProperties
    <3> HIDE DEF amounts
    <3>4. Len(amounts) \in 1..most
      <4> DEFINE n == Len(job.amounts)
      <4>1. n \in 1..most /\ n # 1 /\ most \in Nat /\ Len(amounts) = n - 1
        BY <1>5, <2>2, <3>3
      <4> HIDE DEF n
      <4> QED BY <4>1
    <3>5. next = [job EXCEPT !.amounts = amounts, !.nonce = @ + 1]
      BY <2>2 DEF amounts
    <3> HIDE DEF next
    <3>6. next \in Job /\ next.amounts = amounts
      <4> DEFINE n == job.nonce + 1
      <4>1. n \in Nat
        BY <3>1
      <4>2. next = [job EXCEPT !.amounts = amounts, !.nonce = n]
        BY <3>5
      <4> HIDE DEF n
      <4>3. job \in [at : {"balance", "nonce", "send", "over"}, amounts : Seq(Nat), nonce : Nat]
        BY <1>4 DEF Job
      <4> QED BY <3>3, <4>1, <4>2, <4>3, JobNext DEF Job
    <3> QED BY <3>4, <3>6
  <2> QED BY <2>1, <2>2
<1> HIDE DEF next
<1>7. r \in Run /\ r.pc = "hop" /\ r.hop = run[t].hop /\ r.work = [run[t].work EXCEPT ![w] = next]
  <2> DEFINE q == run[t]
             work == [q.work EXCEPT ![w] = next]
             sent == q.sent \cup {tx}
  <2>1. work \in Works
    BY <1>1, <1>6, JobIn
  <2>2. r = [q EXCEPT !.sent = sent, !.work = work]
    OBVIOUS
  <2>3. sent \in SUBSET Tx /\ q \in Run
    BY <1>1, <1>3
  <2> HIDE DEF q, work, sent, r
  <2>4. r \in Run /\ r.pc = q.pc /\ r.hop = q.hop /\ r.work = work
    BY <2>1, <2>2, <2>3 DEF Run
  <2> QED BY <2>4 DEF q, work
<1> HIDE DEF r
<1> QED BY <1>2, <1>6, <1>7, JobSteps, ZenonT(30) DEF most

\* Near-even parts: one for each recipient, none negative.
LEMMA SplitsAre ==
  ASSUME NEW total \in Nat, NEW n \in Nat \ {0}, NEW parts \in Splits(total, n)
  PROVE  parts \in Seq(Nat) /\ Len(parts) = n
<1> DEFINE a == total * 850
           b == 850 + 1150 * (n - 1)
           least == a \div b
           most == (total * 1150) \div (1150 + 850 * (n - 1))
<1>1. a \in Nat /\ b \in Nat \ {0}
  OBVIOUS
<1>2. least \in Nat
  <2> HIDE DEF a, b
  <2> QED BY <1>1, DivIs
<1>3. Splits(total, n) =
        {p \in {Append(ps, Rest(total, ps)) : ps \in [1..(n - 1) -> least..most]} :
           p[n] \in least..(most + n - 1)}
  BY DEF Splits
<1> HIDE DEF least, most
<1>4. PICK ps \in [1..(n - 1) -> least..most] : parts = Append(ps, Rest(total, ps))
  BY <1>3
<1>5. parts[n] \in least..(most + n - 1)
  BY <1>3
<1> DEFINE last == Rest(total, ps)
<1> HIDE DEF last
<1>6. parts = Append(ps, last)
  BY <1>4 DEF last
<1>7. n - 1 \in Nat
  OBVIOUS
<1>8. ps \in [1..(n - 1) -> Nat]
  BY <1>2
<1>9. ps \in Seq(Nat) /\ Len(ps) = n - 1
  <2> DEFINE m == n - 1
  <2> HIDE DEF m
  <2>1. ps \in Seq(Nat) /\ Len(ps) = m
    BY <1>7, <1>8, SeqDef DEF m
  <2> QED BY <2>1 DEF m
<1>10. ps \in Seq(Nat \cup {last})
  <2>1. \A i \in 1..Len(ps) : ps[i] \in Nat \cup {last}
    BY <1>8, <1>9
  <2> QED BY <1>9, <2>1, IsASeq
<1>11. parts[n] = last /\ Len(parts) = n
  BY <1>6, <1>9, <1>10, AppendProperties
<1>12. last \in Nat
  BY <1>2, <1>5, <1>11
<1> QED BY <1>6, <1>9, <1>11, <1>12, AppendProperties

LEMMA PendingNonceIn ==
  ASSUME ChainOK, NEW w \in Wallets
  PROVE  PendingNonce(w) \in Nat
<1>1. IsFiniteSet(pool) /\ nonce[w] \in Nat
  BY DEF ChainOK
<1>2. Cardinality(pool) \in Nat
  BY <1>1, FS_CardinalityType
<1>3. PendingNonce(w) \in nonce[w]..(nonce[w] + Cardinality(pool))
  BY <1>1, PendingNonceIs
<1> QED BY <1>1, <1>2, <1>3

LEMMA TransferIn ==
  ASSUME RunsOK, NEW t \in Tasks, NEW w \in DOMAIN run[t].work, run[t].pc = "hop",
         run[t].work[w].at = "send"
  PROVE  Transfer(t, w) \in Tx /\ w \in Wallets
<1> DEFINE job == run[t].work[w]
           to == Recipients(Hops(t)[run[t].hop], w)
           i == Len(to) - Len(job.amounts) + 1
<1>1. run[t] \in Run /\ OnRoute(Hops(t), run[t])
  BY DEF RunsOK
<1>2. w \in Wallets /\ to \in Seq(Wallets) /\ Len(to) \in Nat \ {0}
  BY <1>1, RecipientsOf
<1>3. job \in Job
  BY <1>1, WorkOf
<1>4. Len(job.amounts) \in 1..Len(to)
  BY <1>1 DEF OnRoute
<1>5. Transfer(t, w) = [from |-> w, to |-> to[i], amount |-> Head(job.amounts), nonce |-> job.nonce]
  BY DEF Transfer
<1> HIDE DEF job, to
<1>6. i \in 1..Len(to)
  BY <1>2, <1>4
<1> HIDE DEF i
<1>7. to[i] \in Wallets
  BY <1>2, <1>6, ElementOfSeq
<1>8. job.amounts \in Seq(Nat) /\ job.nonce \in Nat
  BY <1>3 DEF Job
<1>9. Head(job.amounts) \in Nat
  <2>1. job.amounts # <<>>
    BY <1>4
  <2> QED BY <1>8, <2>1, HeadTailProperties
<1> DEFINE amount == Head(job.amounts)
<1> HIDE DEF amount
<1>10. Transfer(t, w) = [from |-> w, to |-> to[i], amount |-> amount, nonce |-> job.nonce]
  BY <1>5 DEF amount
<1> QED BY <1>2, <1>7, <1>8, <1>9, <1>10 DEF Tx, amount

LEMMA PoolGrows ==
  ASSUME ChainOK, NEW tx \in Tx, pool' = pool \cup {tx}, UNCHANGED <<bal, nonce>>
  PROVE  ChainOK'
<1>1. IsFiniteSet(pool \cup {tx})
  BY FS_AddElement DEF ChainOK
<1> QED BY <1>1 DEF ChainOK

LEMMA PoolShrinks ==
  ASSUME ChainOK, pool' \subseteq pool
  PROVE  pool' \subseteq Tx /\ IsFiniteSet(pool')
BY FS_Subset DEF ChainOK

-----------------------------------------------------------------------------
(* What each action does to the parts of Typed.                            *)

LEMMA IncludeTyped ==
  ASSUME Typed, NEW tx, Include(tx)
  PROVE  Typed'
<1>1. tx \in Tx /\ tx \in pool
  BY DEF Typed, ChainOK, Include, Includable
<1>2. tx.from \in Wallets /\ tx.to \in Wallets /\ tx.amount \in Nat
  BY <1>1 DEF Tx
<1>3. bal[tx.from] >= tx.amount + Reserve /\ bal \in [Wallets -> Nat]
  BY DEF Typed, ChainOK, Include, Includable, Payable
<1>4. Reserve \in Nat /\ Cost \in Nat /\ Cost <= Reserve
  BY ConstantsAssumption
<1>5. ASSUME NEW w \in Wallets
      PROVE  bal[w] - (IF w = tx.from THEN tx.amount + Cost ELSE 0)
                    + (IF w = tx.to THEN tx.amount ELSE 0) \in Nat
  BY <1>2, <1>3, <1>4
<1>6. bal' \in [Wallets -> Nat]
  BY <1>5 DEF Include
<1>7. nonce' \in [Wallets -> Nat]
  <2>1. nonce \in [Wallets -> Nat]
    BY DEF Typed, ChainOK
  <2> QED BY <1>2, <2>1 DEF Include
<1>8. pool' \subseteq pool
  BY DEF Include
<1>9. ChainOK'
  BY <1>6, <1>7, <1>8, PoolShrinks DEF Typed, ChainOK
<1>10. RunsOK'
  <2>1. ASSUME NEW t \in Tasks PROVE run'[t] \in Run /\ OnRoute(Hops(t)', run'[t])
    <3> DEFINE q == run[t]
               r == run'[t]
               sent == q.sent \ {tx}
    <3>1. q \in Run /\ OnRoute(Hops(t), q)
      BY DEF Typed, RunsOK
    <3>2. sent \in SUBSET Tx
      BY <3>1 DEF Run
    <3>3. r = [q EXCEPT !.sent = sent]
      BY DEF Include
    <3> HIDE DEF q, r, sent
    <3>4. r \in Run /\ r.pc = q.pc /\ r.hop = q.hop /\ r.work = q.work
      BY <3>1, <3>2, <3>3 DEF Run
    <3>5. Hops(t)' = Hops(t)
      BY HopsStay DEF Include
    <3>6. OnRoute(Hops(t)', r)
      BY <3>1, <3>4, <3>5 DEF OnRoute
    <3> QED BY <3>4, <3>6 DEF r
  <2>2. run' \in [Tasks -> Run]
    <3>1. run' = [t \in Tasks |-> run'[t]]
      BY DEF Include
    <3> QED BY <2>1, <3>1
  <2> QED BY <2>1, <2>2 DEF RunsOK
<1>11. StoreOK' /\ CallsOK' /\ FaultsOK'
  BY DEF Typed, Include, StoreOK, CallsOK, FaultsOK, store, notes
<1> QED BY <1>9, <1>10, <1>11 DEF Typed

LEMMA DropTyped ==
  ASSUME Typed, NEW tx, Drop(tx)
  PROVE  Typed'
<1>1. ChainOK'
  <2>1. pool' \subseteq pool /\ UNCHANGED <<bal, nonce>>
    BY DEF Drop
  <2> QED BY <2>1, PoolShrinks DEF Typed, ChainOK
<1>2. FaultsOK'
  BY FaultIs DEF Typed, Drop
<1>3. RunsOK'
  BY RunsStay DEF Typed, Drop
<1>4. StoreOK' /\ CallsOK'
  BY DEF Typed, Drop, StoreOK, CallsOK, store, notes
<1> QED BY <1>1, <1>2, <1>3, <1>4 DEF Typed

LEMMA RefusedTyped ==
  ASSUME Typed, NEW tx, Refused(tx)
  PROVE  Typed' /\ \A w \in Wallets : bal'[w] <= bal[w]
<1>1. tx \in Tx /\ tx.from \in Wallets /\ tx.amount \in Nat
  BY DEF Typed, ChainOK, Refused, Includable, Tx
<1>2. /\ bal[tx.from] >= tx.amount + Reserve /\ bal \in [Wallets -> Nat] /\ nonce \in [Wallets -> Nat]
  BY DEF Typed, ChainOK, Refused, Includable, Payable
<1>3. Reserve \in Nat /\ Cost \in Nat /\ Cost <= Reserve
  BY ConstantsAssumption
<1>4. bal[tx.from] \in Nat /\ bal[tx.from] - Cost \in Nat /\ bal[tx.from] - Cost <= bal[tx.from]
  BY <1>1, <1>2, <1>3
<1>5. bal' = [bal EXCEPT ![tx.from] = bal[tx.from] - Cost]
  BY DEF Refused
<1>6. bal' \in [Wallets -> Nat] /\ \A w \in Wallets : bal'[w] <= bal[w]
  BY <1>1, <1>2, <1>4, <1>5
<1>7. nonce' \in [Wallets -> Nat]
  BY <1>1, <1>2 DEF Refused
<1>8. ChainOK'
  <2>1. pool' \subseteq pool
    BY DEF Refused
  <2> QED BY <1>6, <1>7, <2>1, PoolShrinks DEF Typed, ChainOK
<1>9. FaultsOK'
  BY FaultIs DEF Typed, Refused
<1>10. RunsOK'
  BY RunsStay DEF Typed, Refused
<1>11. StoreOK' /\ CallsOK'
  BY DEF Typed, Refused, StoreOK, CallsOK, store, notes
<1> QED BY <1>6, <1>8, <1>9, <1>10, <1>11 DEF Typed

LEMMA CreateTyped ==
  ASSUME Typed, NEW t \in Tasks, NEW k \in Kinds, NEW ok, CreateFundingTask(t, k, ok),
         run[t].pc = "none"
  PROVE  Typed'
<1>1. StoreOK' /\ FaultsOK'
  <2>1. /\ recs' = [recs EXCEPT ![t] = "ready"] /\ (file' = recs' \/ UNCHANGED file)
        /\ (UNCHANGED faults \/ Fault) /\ kind' = [kind EXCEPT ![t] = k] /\ UNCHANGED call
    BY DEF CreateFundingTask, Save
  <2>2. "ready" \in States
    BY DEF States
  <2>3. FaultsOK'
    BY <2>1, FaultsStay DEF Typed
  <2> QED BY <2>1, <2>2, <2>3 DEF Typed, StoreOK
<1>2. ChainOK'
  <2>1. bal \in [Wallets -> Nat] /\ Funds \in Nat
    BY ConstantsAssumption DEF Typed, ChainOK
  <2>2. \A w \in Wallets : bal[w] \in Nat /\ bal[w] + Funds \in Nat
    BY <2>1
  <2>3. bal' \in [Wallets -> Nat]
    BY <2>2 DEF CreateFundingTask
  <2> QED BY <2>3 DEF Typed, ChainOK, CreateFundingTask
<1>3. RunsOK'
  <2>1. run' = run /\ run \in [Tasks -> Run]
    BY DEF Typed, RunsOK, CreateFundingTask
  <2>2. ASSUME NEW u \in Tasks PROVE OnRoute(Hops(u)', run[u])
    <3>1. CASE u = t
      BY <3>1 DEF OnRoute
    <3>2. CASE u # t
      <4>1. kind'[u] = kind[u]
        BY <3>2 DEF Typed, StoreOK, CreateFundingTask
      <4>2. Hops(u)' = Hops(u)
        BY <4>1, HopsStay
      <4> QED BY <4>2 DEF Typed, RunsOK
    <3> QED BY <3>1, <3>2
  <2> QED BY <2>1, <2>2 DEF RunsOK
<1>4. CallsOK'
  BY DEF Typed, CallsOK, CreateFundingTask, notes
<1> QED BY <1>1, <1>2, <1>3, <1>4 DEF Typed

\* Steps of the calls that neither save nor touch a run.
LEMMA CallTyped ==
  ASSUME Typed, NEW t \in Tasks,
         \/ StartRead(t) \/ StartRefused(t) \/ StartReserve(t)
         \/ StopFundingTask(t) \/ DeleteCheck(t)
  PROVE  Typed'
<1>1. UNCHANGED <<bal, nonce, pool, recs, file, kind, run, ending>>
  BY DEF StartRead, StartRefused, StartReserve, StopFundingTask, DeleteCheck, chainVars, store
<1>2. ChainOK' /\ StoreOK' /\ RunsOK'
  BY <1>1, RunsStay DEF Typed, ChainOK, StoreOK
<1>3. /\ call \in [Tasks -> Calls] /\ call[t] \in Calls /\ fundingRuns \subseteq Tasks
      /\ cancelled \subseteq fundingRuns /\ crossed \subseteq Tasks /\ unwritten \subseteq Tasks
      /\ MaxCalls \in Nat
  BY ConstantsAssumption DEF Typed, CallsOK
<1>4. /\ call' \in [Tasks -> Calls] /\ fundingRuns' \subseteq Tasks
      /\ cancelled' \subseteq fundingRuns' /\ crossed' \subseteq Tasks /\ unwritten' \subseteq Tasks
      /\ FaultsOK'
  <2>1. CASE StartRead(t)
    <3>1. call' = [call EXCEPT ![t].start = call[t].start + 1] /\ call[t].start < MaxCalls
          /\ UNCHANGED <<fundingRuns, cancelled, crossed, unwritten, faults>>
      BY <2>1 DEF StartRead, notes
    <3>2. [call[t] EXCEPT !.start = call[t].start + 1] \in Calls
      BY <1>3, <3>1 DEF Calls
    <3>3. call' \in [Tasks -> Calls] /\ \A u \in Tasks : call'[u].delete = call[u].delete
      BY <1>3, <3>1, <3>2 DEF Calls
    <3> QED BY <1>3, <3>1, <3>3, FaultsStay DEF Typed
  <2>2. CASE StartRefused(t)
    <3>1. call' = [call EXCEPT ![t].start = call[t].start - 1] /\ call[t].start > 0
          /\ UNCHANGED <<fundingRuns, cancelled, crossed, unwritten, faults>>
      BY <2>2 DEF StartRefused, notes
    <3>2. [call[t] EXCEPT !.start = call[t].start - 1] \in Calls
      BY <1>3, <3>1 DEF Calls
    <3>3. call' \in [Tasks -> Calls] /\ \A u \in Tasks : call'[u].delete = call[u].delete
      BY <1>3, <3>1, <3>2 DEF Calls
    <3> QED BY <1>3, <3>1, <3>3, FaultsStay DEF Typed
  <2>3. CASE StartReserve(t)
    <3>1. call' = [call EXCEPT ![t] = [call[t] EXCEPT !.start = call[t].start - 1, !.save = TRUE]]
          /\ call[t].start > 0 /\ UNCHANGED <<cancelled, faults>>
      BY <2>3 DEF StartReserve
    <3>2. [call[t] EXCEPT !.start = call[t].start - 1, !.save = TRUE] \in Calls
      <4> DEFINE n == call[t].start - 1
      <4>1. n \in 0..MaxCalls /\ TRUE \in BOOLEAN
        BY <1>3, <3>1 DEF Calls
      <4> HIDE DEF n
      <4>2. [call[t] EXCEPT !.start = n, !.save = TRUE] \in Calls
        BY <1>3, <4>1 DEF Calls
      <4> QED BY <4>2 DEF n
    <3>3. call' \in [Tasks -> Calls] /\ \A u \in Tasks : call'[u].delete = call[u].delete
      BY <1>3, <3>1, <3>2 DEF Calls
    <3>4. /\ fundingRuns' = fundingRuns \cup {t} /\ crossed' \subseteq crossed \cup {t}
          /\ unwritten' \subseteq unwritten
      BY <2>3 DEF StartReserve
    <3> QED BY <1>3, <3>1, <3>3, <3>4, FaultsStay DEF Typed
  <2>4. CASE StopFundingTask(t)
    <3>1. /\ UNCHANGED <<fundingRuns, call, crossed, unwritten>> /\ Fault
          /\ cancelled' = cancelled \cup {t} /\ t \in fundingRuns
      BY <2>4 DEF StopFundingTask, notes
    <3> QED BY <1>3, <3>1, FaultIs DEF Typed
  <2>5. CASE DeleteCheck(t)
    <3>1. call' = [call EXCEPT ![t].delete = call[t].delete + 1] /\ Fault
          /\ UNCHANGED <<fundingRuns, cancelled, crossed, unwritten>>
      BY <2>5 DEF DeleteCheck, notes
    <3>2. [call[t] EXCEPT !.delete = call[t].delete + 1] \in Calls
      BY <1>3 DEF Calls
    <3>3. call' \in [Tasks -> Calls] /\ call'[t].delete = call[t].delete + 1
          /\ \A u \in Tasks \ {t} : call'[u] = call[u]
      BY <1>3, <3>1, <3>2 DEF Calls
    <3>4. faults \in 0..MaxFaults /\ faults > 0 /\ faults' = faults - 1 /\ MaxFaults \in Nat
      BY <3>1, ConstantsAssumption DEF Typed, FaultsOK, Fault
    <3>5. ASSUME NEW u \in Tasks PROVE call'[u].delete \in 0..(MaxFaults - faults')
      <4>1. call[u].delete \in 0..(MaxFaults - faults)
        BY DEF Typed, FaultsOK
      <4>2. call'[u].delete = call[u].delete + 1 \/ call'[u].delete = call[u].delete
        BY <3>3
      <4> QED BY <3>4, <4>1, <4>2
    <3>6. FaultsOK'
      BY <3>4, <3>5 DEF FaultsOK
    <3> QED BY <1>3, <3>1, <3>3, <3>6
  <2> QED BY <2>1, <2>2, <2>3, <2>4, <2>5
<1>5. CallsOK'
  BY <1>1, <1>4 DEF Typed, CallsOK
<1> QED BY <1>2, <1>4, <1>5 DEF Typed

LEMMA StartSaveTyped ==
  ASSUME Typed, NEW t \in Tasks, NEW ok \in BOOLEAN, StartSave(t, ok)
  PROVE  Typed'
<1>1. call' = [call EXCEPT ![t].save = FALSE] /\ call \in [Tasks -> Calls] /\ call[t] \in Calls
  BY DEF Typed, CallsOK, StartSave
<1>2. call' \in [Tasks -> Calls] /\ \A u \in Tasks : call'[u].delete = call[u].delete
  <2>1. [call[t] EXCEPT !.save = FALSE] \in Calls
    BY <1>1 DEF Calls
  <2> QED BY <1>1, <2>1 DEF Calls
<1>3. StoreOK' /\ FaultsOK'
  <2>1. Save(t, "running", ok) /\ UNCHANGED kind
    BY DEF StartSave
  <2>2. "running" \in States \cup {None}
    BY DEF States
  <2> QED BY <1>2, <2>1, <2>2, SaveIs DEF Typed
<1>4. ChainOK'
  BY DEF Typed, StartSave, ChainOK, chainVars
<1>5. CallsOK'
  BY <1>2 DEF Typed, CallsOK, StartSave
<1>6. RunsOK'
  <2>1. CASE ok
    <3>1. 1 \in 1..Len(Hops(t))
      BY HopsAre
    <3>2. run' = [run EXCEPT ![t] = Hop(t, 1)] /\ UNCHANGED kind
      BY <2>1 DEF StartSave
    <3> QED BY <3>1, <3>2, HopIs, RunSteps DEF Typed
  <2>2. CASE ~ok
    <3>1. UNCHANGED <<run, kind>>
      BY <2>2 DEF StartSave
    <3> QED BY <3>1, RunsStay DEF Typed
  <2> QED BY <2>1, <2>2
<1> QED BY <1>3, <1>4, <1>5, <1>6 DEF Typed

LEMMA DeleteTyped ==
  ASSUME Typed, NEW t \in Tasks, NEW ok, DeleteFundingTask(t, ok)
  PROVE  Typed'
<1>1. /\ call' = [call EXCEPT ![t].delete = call[t].delete - 1] /\ call[t].delete > 0
      /\ call \in [Tasks -> Calls] /\ call[t] \in Calls
  BY DEF Typed, CallsOK, DeleteFundingTask
<1>2. call' \in [Tasks -> Calls] /\ \A u \in Tasks : call'[u].delete \in 0..call[u].delete
  <2>1. [call[t] EXCEPT !.delete = call[t].delete - 1] \in Calls
    BY <1>1 DEF Calls
  <2>2. call'[t].delete = call[t].delete - 1 /\ call[t].delete \in Nat
        /\ \A u \in Tasks \ {t} : call'[u] = call[u] /\ call[u].delete \in Nat
    BY <1>1 DEF Calls
  <2>3. call'[t].delete \in 0..call[t].delete
    BY <1>1, <2>2
  <2> QED BY <1>1, <2>1, <2>2, <2>3
<1>3. StoreOK' /\ (UNCHANGED faults \/ Fault)
  <2>1. \/ UNCHANGED <<recs, file, faults>>
        \/ /\ recs' = [recs EXCEPT ![t] = None] /\ (file' = recs' \/ UNCHANGED file)
           /\ (UNCHANGED faults \/ Fault)
    BY DEF DeleteFundingTask, Save, store
  <2> QED BY <2>1 DEF Typed, StoreOK, DeleteFundingTask
<1>4. FaultsOK'
  <2>1. faults \in 0..MaxFaults /\ faults' \in 0..MaxFaults /\ faults' <= faults /\ MaxFaults \in Nat
    BY <1>3, ConstantsAssumption DEF Typed, FaultsOK, Fault
  <2>2. ASSUME NEW u \in Tasks PROVE call'[u].delete \in 0..(MaxFaults - faults')
    <3>1. call[u].delete \in 0..(MaxFaults - faults) /\ call'[u].delete \in 0..call[u].delete
      BY <1>2 DEF Typed, FaultsOK
    <3> QED BY <2>1, <3>1
  <2> QED BY <2>1, <2>2 DEF FaultsOK
<1>5. ChainOK'
  BY DEF Typed, ChainOK, DeleteFundingTask, chainVars
<1>6. RunsOK'
  BY RunsStay DEF Typed, DeleteFundingTask
<1>7. CallsOK'
  BY <1>2 DEF Typed, CallsOK, DeleteFundingTask, notes
<1> QED BY <1>3, <1>4, <1>5, <1>6, <1>7 DEF Typed

LEMMA CrashTyped ==
  ASSUME Typed, Crash
  PROVE  Typed'
<1>1. StoreOK'
  <2>1. "stopped" \in States
    BY DEF States
  <2> QED BY <2>1 DEF Typed, StoreOK, Crash
<1>2. call' = [t \in Tasks |-> NoCalls] /\ NoCalls \in Calls /\ NoCalls.delete = 0
  BY ConstantsAssumption DEF Crash, NoCalls, Calls
<1>3. ChainOK'
  BY DEF Typed, ChainOK, Crash, chainVars
<1>4. FaultsOK'
  <2>1. faults' \in 0..MaxFaults /\ MaxFaults \in Nat
    BY ConstantsAssumption DEF Typed, FaultsOK, Crash, Fault
  <2> QED BY <1>2, <2>1 DEF FaultsOK
<1>5. RunsOK'
  <2>1. run' = [t \in Tasks |-> NoRun]
    BY DEF Crash
  <2>2. run' \in [Tasks -> Run]
    BY <2>1, NoRunIs
  <2>3. \A t \in Tasks : OnRoute(Hops(t)', run'[t])
    BY <2>1, EndedRun
  <2> QED BY <2>2, <2>3 DEF RunsOK
<1>6. CallsOK'
  BY <1>2 DEF Typed, CallsOK, Crash
<1> QED BY <1>1, <1>3, <1>4, <1>5, <1>6 DEF Typed

\* What a run's steps leave alone.
LEMMA OthersStay ==
  ASSUME Typed, UNCHANGED UnchangedByRun
  PROVE  StoreOK' /\ CallsOK' /\ UNCHANGED <<kind, call>>
BY DEF Typed, StoreOK, CallsOK, UnchangedByRun, store, notes

LEMMA ReadBalanceTyped ==
  ASSUME Typed, NEW t \in Tasks, NEW w, ReadBalance(t, w)
  PROVE  Typed'
<1> DEFINE n == Len(Recipients(Hops(t)[run[t].hop], w))
           spendable == bal[w] - n * Reserve
<1>1. w \in DOMAIN run[t].work /\ run[t].pc = "hop"
  BY DEF ReadBalance, Working
<1>2. RunsOK /\ run[t] \in Run /\ OnRoute(Hops(t), run[t])
  BY DEF Typed, RunsOK
<1>3. w \in Wallets /\ n \in Nat \ {0}
  BY <1>1, <1>2, RecipientsOf
<1>4. spendable \in Int
  BY <1>3, ConstantsAssumption DEF Typed, ChainOK
<1>5. UNCHANGED UnchangedByRun /\ UNCHANGED <<chainVars, faults>>
  BY DEF ReadBalance
<1>6. UNCHANGED kind
  BY <1>5 DEF UnchangedByRun
<1>7. RunsOK'
  <2>1. CASE spendable <= 0
    <3>1. Work(t, w, Over)
      BY <2>1 DEF ReadBalance
    <3> QED BY <1>1, <1>2, <1>6, <3>1, OverIs, WorkSteps
  <2>2. CASE ~(spendable <= 0)
    <3>1. PICK amounts \in Splits(spendable, n) :
            Work(t, w, [at |-> "nonce", amounts |-> amounts, nonce |-> 0])
      BY <2>2 DEF ReadBalance
    <3>2. spendable \in Nat
      BY <1>4, <2>2
    <3> HIDE DEF spendable
    <3>3. amounts \in Seq(Nat) /\ Len(amounts) = n
      BY <1>3, <3>2, SplitsAre
    <3> DEFINE job == [at |-> "nonce", amounts |-> amounts, nonce |-> 0]
    <3>4. job \in Job /\ Len(job.amounts) \in 1..n
      BY <1>3, <3>3 DEF Job
    <3> HIDE DEF job
    <3>5. Work(t, w, job)
      BY <3>1 DEF job
    <3> QED BY <1>1, <1>2, <1>6, <3>4, <3>5, WorkSteps
  <2> QED BY <2>1, <2>2
<1> QED BY <1>5, <1>7, OthersStay DEF Typed, ChainOK, FaultsOK, chainVars

LEMMA ReadNonceTyped ==
  ASSUME Typed, NEW t \in Tasks, NEW w, ReadNonce(t, w)
  PROVE  Typed'
<1> DEFINE old == run[t].work[w]
           n == PendingNonce(w)
           job == [old EXCEPT !.at = "send", !.nonce = n]
<1>1. w \in DOMAIN run[t].work /\ run[t].pc = "hop" /\ old.at = "nonce"
  BY DEF ReadNonce, Working
<1>2. RunsOK /\ run[t] \in Run /\ OnRoute(Hops(t), run[t])
  BY DEF Typed, RunsOK
<1>3. w \in Wallets
  BY <1>1, <1>2, RecipientsOf
<1>4. n \in Nat
  BY <1>3, PendingNonceIn DEF Typed
<1>5. UNCHANGED UnchangedByRun /\ UNCHANGED <<chainVars, faults>> /\ Work(t, w, job)
  BY DEF ReadNonce
<1>6. UNCHANGED kind
  BY <1>5 DEF UnchangedByRun
<1>7. old \in Job
  BY <1>1, <1>2, WorkOf
<1>8. Len(old.amounts) \in 1..Len(Recipients(Hops(t)[run[t].hop], w))
  BY <1>1, <1>2 DEF OnRoute
<1> HIDE DEF n, old
<1>9. job \in Job /\ job.amounts = old.amounts
  BY <1>4, <1>7 DEF Job
<1> HIDE DEF job
<1>10. RunsOK'
  BY <1>1, <1>2, <1>5, <1>6, <1>8, <1>9, WorkSteps
<1> QED BY <1>5, <1>10, OthersStay DEF Typed, ChainOK, FaultsOK, chainVars

LEMMA SendTyped ==
  ASSUME Typed, NEW t \in Tasks, NEW w, Send(t, w)
  PROVE  Typed'
<1> DEFINE tx == Transfer(t, w)
<1>1. /\ w \in DOMAIN run[t].work /\ run[t].pc = "hop" /\ run[t].work[w].at = "send"
      /\ UNCHANGED UnchangedByRun /\ UNCHANGED <<bal, nonce, faults>>
  BY DEF Send, Working
<1>2. \/ Sent(t, w, tx) /\ UNCHANGED pool
      \/ Fail(t, w) /\ UNCHANGED pool
      \/ Sent(t, w, tx) /\ pool' = pool \cup {tx}
  BY DEF Send
<1>3. UNCHANGED kind
  BY <1>1 DEF UnchangedByRun
<1>4. RunsOK
  BY DEF Typed
<1>5. tx \in Tx
  BY <1>1, <1>4, TransferIn
<1> HIDE DEF tx
<1>6. RunsOK'
  BY <1>1, <1>2, <1>3, <1>4, <1>5, SentSteps, FailSteps
<1>7. ChainOK'
  <2>1. CASE UNCHANGED pool
    BY <1>1, <2>1 DEF Typed, ChainOK
  <2>2. CASE pool' = pool \cup {tx}
    BY <1>1, <1>5, <2>2, PoolGrows DEF Typed
  <2> QED BY <1>2, <2>1, <2>2
<1> QED BY <1>1, <1>6, <1>7, OthersStay DEF Typed, FaultsOK

LEMMA SendLostTyped ==
  ASSUME Typed, NEW t \in Tasks, NEW w, SendLost(t, w)
  PROVE  Typed'
<1> DEFINE tx == Transfer(t, w)
<1>1. /\ w \in DOMAIN run[t].work /\ run[t].pc = "hop" /\ run[t].work[w].at = "send"
      /\ UNCHANGED UnchangedByRun /\ UNCHANGED <<bal, nonce>>
      /\ Fail(t, w) /\ pool' = pool \cup {tx} /\ Fault
  BY DEF SendLost, Working
<1>2. UNCHANGED <<kind, call>>
  BY <1>1 DEF UnchangedByRun
<1>3. tx \in Tx
  BY <1>1, TransferIn DEF Typed
<1> HIDE DEF tx
<1>4. RunsOK'
  BY <1>1, <1>2, FailSteps DEF Typed
<1>5. ChainOK' /\ FaultsOK'
  BY <1>1, <1>2, <1>3, PoolGrows, FaultIs DEF Typed
<1> QED BY <1>1, <1>4, <1>5, OthersStay DEF Typed

LEMMA CallFailsTyped ==
  ASSUME Typed, NEW t \in Tasks, NEW w, CallFails(t, w)
  PROVE  Typed'
<1>1. /\ w \in DOMAIN run[t].work /\ run[t].pc = "hop"
      /\ UNCHANGED UnchangedByRun /\ UNCHANGED chainVars
      /\ Fail(t, w) /\ (UNCHANGED faults \/ Fault)
  BY DEF CallFails
<1>2. UNCHANGED <<kind, call>>
  BY <1>1 DEF UnchangedByRun
<1>3. RunsOK'
  BY <1>1, <1>2, FailSteps DEF Typed
<1>4. FaultsOK'
  BY <1>1, <1>2, FaultsStay DEF Typed
<1> QED BY <1>1, <1>3, <1>4, OthersStay DEF Typed, ChainOK, chainVars

\* A run that ends.
LEMMA EndTyped ==
  ASSUME CallsOK, RunsOK, NEW t \in Tasks, NEW state \in States, End(t, state),
         UNCHANGED <<kind, call, notes>>
  PROVE  CallsOK' /\ RunsOK'
<1>1. RunsOK'
  <2>1. run' = [run EXCEPT ![t] = NoRun]
    BY DEF End
  <2> QED BY <2>1, NoRunIs, EndedRun, RunSteps
<1>2. CallsOK'
  BY DEF CallsOK, End, notes
<1> QED BY <1>1, <1>2

LEMMA EndedTyped ==
  ASSUME CallsOK, RunsOK, NEW t \in Tasks, Ended(t), UNCHANGED <<kind, call, notes>>
  PROVE  CallsOK' /\ RunsOK'
<1> DEFINE state == IF t \in cancelled THEN "stopped" ELSE "error"
<1>1. state \in States /\ End(t, state)
  BY DEF States, Ended
<1> HIDE DEF state
<1> QED BY <1>1, EndTyped

LEMMA HopSentTyped ==
  ASSUME Typed, NEW t \in Tasks, HopSent(t)
  PROVE  Typed'
<1>1. UNCHANGED <<chainVars, store, kind, call, faults, notes>>
  BY DEF HopSent
<1>2. CallsOK' /\ RunsOK'
  <2>1. CASE run[t].failed
    <3>1. Ended(t)
      BY <2>1 DEF HopSent
    <3> QED BY <1>1, <3>1, EndedTyped DEF Typed
  <2>2. CASE ~run[t].failed
    <3> DEFINE r == [run[t] EXCEPT !.pc = "confirm"]
    <3>1. run' = [run EXCEPT ![t] = r] /\ UNCHANGED <<fundingRuns, cancelled, ending>>
      BY <2>2 DEF HopSent
    <3>2. run[t] \in Run /\ OnRoute(Hops(t), run[t]) /\ run[t].pc = "hop"
      BY DEF Typed, RunsOK, HopSent
    <3>3. r \in Run /\ r.pc = "confirm" /\ r.hop = run[t].hop
      BY <3>2 DEF Run
    <3> HIDE DEF r
    <3>4. OnRoute(Hops(t), r)
      BY <3>2, <3>3 DEF OnRoute
    <3>5. RunsOK'
      BY <1>1, <3>1, <3>3, <3>4, RunSteps DEF Typed
    <3> QED BY <1>1, <3>1, <3>5 DEF Typed, CallsOK, notes
  <2> QED BY <2>1, <2>2
<1> QED BY <1>1, <1>2 DEF Typed, ChainOK, StoreOK, FaultsOK, chainVars, store

LEMMA RunDoneTyped ==
  ASSUME Typed, NEW t \in Tasks, RunDone(t)
  PROVE  Typed'
<1>1. UNCHANGED <<chainVars, store, kind, call, faults, notes>> /\ End(t, "done")
  BY DEF RunDone
<1>2. "done" \in States
  BY DEF States
<1> QED BY <1>1, <1>2, EndTyped DEF Typed, ChainOK, StoreOK, FaultsOK, chainVars, store

LEMMA ConfirmFailsTyped ==
  ASSUME Typed, NEW t \in Tasks, ConfirmFails(t)
  PROVE  Typed'
<1>1. UNCHANGED <<chainVars, store, kind, call, notes>> /\ Ended(t) /\ (UNCHANGED faults \/ Fault)
  BY DEF ConfirmFails
<1>2. FaultsOK'
  BY <1>1, FaultsStay DEF Typed
<1> QED BY <1>1, <1>2, EndedTyped DEF Typed, ChainOK, StoreOK, chainVars, store

LEMMA HopConfirmedTyped ==
  ASSUME Typed, NEW t \in Tasks, NEW ok \in BOOLEAN, HopConfirmed(t, ok)
  PROVE  Typed'
<1> DEFINE k == run[t].hop
<1>1. UNCHANGED <<chainVars, kind, fundingRuns, cancelled, ending, call, notes>>
      /\ Save(t, "running", ok)
  BY DEF HopConfirmed
<1>2. run[t] \in Run /\ run[t].pc = "confirm" /\ OnRoute(Hops(t), run[t])
  BY DEF Typed, RunsOK, HopConfirmed
<1>3. k \in 1..Len(Hops(t)) /\ Len(Hops(t)) \in Nat
  BY <1>2, HopsAre DEF OnRoute
<1>4. RunsOK'
  <2>1. CASE k < Len(Hops(t))
    <3>1. k + 1 \in 1..Len(Hops(t))
      BY <1>3, <2>1
    <3>2. run' = [run EXCEPT ![t] = Hop(t, k + 1)]
      BY <2>1 DEF HopConfirmed
    <3> HIDE DEF k
    <3> QED BY <1>1, <3>1, <3>2, HopIs, RunSteps DEF Typed
  <2>2. CASE ~(k < Len(Hops(t)))
    <3> DEFINE n == k + 1
               r == [NoRun EXCEPT !.pc = "done", !.hop = n]
    <3>1. run' = [run EXCEPT ![t] = r]
      BY <2>2 DEF HopConfirmed
    <3>2. n \in Nat
      BY <1>3
    <3> HIDE DEF n
    <3>3. r \in Run /\ r.pc = "done"
      BY <3>2, NoRunIs DEF Run
    <3> HIDE DEF r
    <3>4. OnRoute(Hops(t), r)
      BY <3>3 DEF OnRoute
    <3> QED BY <1>1, <3>1, <3>3, <3>4, RunSteps DEF Typed
  <2> QED BY <2>1, <2>2
<1>5. StoreOK' /\ FaultsOK'
  <2>1. "running" \in States \cup {None}
    BY DEF States
  <2> QED BY <1>1, <2>1, SaveIs DEF Typed
<1> QED BY <1>1, <1>4, <1>5 DEF Typed, ChainOK, CallsOK, chainVars, notes

LEMMA RunSaveTyped ==
  ASSUME Typed, NEW t \in Tasks, NEW ok \in BOOLEAN, NEW state \in ending[t], RunSave(t, state, ok)
  PROVE  Typed'
<1>1. UNCHANGED <<chainVars, kind, fundingRuns, cancelled, run, call, notes>>
      /\ Save(t, state, ok) /\ ending' = [ending EXCEPT ![t] = ending[t] \ {state}]
  BY DEF RunSave
<1>2. ending \in [Tasks -> SUBSET States] /\ state \in States
  BY DEF Typed, CallsOK
<1>3. StoreOK' /\ FaultsOK'
  BY <1>1, <1>2, SaveIs DEF Typed
<1>4. RunsOK'
  BY <1>1, RunsStay DEF Typed
<1>5. CallsOK'
  BY <1>1, <1>2 DEF Typed, CallsOK, notes
<1> QED BY <1>1, <1>3, <1>4, <1>5 DEF Typed, ChainOK, chainVars

-----------------------------------------------------------------------------

LEMMA InitTyped == Init => Typed
<1> SUFFICES ASSUME Init PROVE Typed
  OBVIOUS
<1>1. ChainOK
  <2>1. IsFiniteSet(pool)
    BY FS_EmptySet DEF Init
  <2> QED BY <2>1 DEF Init, ChainOK
<1>2. NoCalls \in Calls /\ NoCalls.delete = 0 /\ MaxFaults \in Nat
  BY ConstantsAssumption DEF NoCalls, Calls
<1>3. StoreOK /\ CallsOK /\ FaultsOK
  BY <1>2 DEF Init, StoreOK, CallsOK, FaultsOK
<1>4. RunsOK
  <2>1. run = [t \in Tasks |-> NoRun]
    BY DEF Init
  <2>2. run \in [Tasks -> Run]
    BY <2>1, NoRunIs
  <2>3. \A t \in Tasks : OnRoute(Hops(t), run[t])
    BY <2>1, EndedRun
  <2> QED BY <2>2, <2>3 DEF RunsOK
<1> QED BY <1>1, <1>3, <1>4 DEF Typed

\* The actions of Next, one by one.
LEMMA NextIs ==
  ASSUME Next
  PROVE  \/ \E tx : Include(tx) \/ Refused(tx) \/ Drop(tx)
         \/ Crash
         \/ \E t \in Tasks :
              \/ \E k \in Kinds, ok \in BOOLEAN : CreateFundingTask(t, k, ok)
              \/ StartRead(t) \/ StartRefused(t) \/ StartReserve(t)
              \/ StopFundingTask(t) \/ DeleteCheck(t)
              \/ HopSent(t) \/ RunDone(t) \/ ConfirmFails(t)
              \/ \E ok \in BOOLEAN : StartSave(t, ok) \/ HopConfirmed(t, ok) \/ DeleteFundingTask(t, ok)
              \/ \E ok \in BOOLEAN, state \in ending[t] : RunSave(t, state, ok)
              \/ \E w : \/ ReadBalance(t, w) \/ ReadNonce(t, w) \/ Send(t, w)
                        \/ SendLost(t, w) \/ CallFails(t, w)
BY Zenon DEF Next, Call, Runner, Worker

-----------------------------------------------------------------------------
(* Runs, registrations and records.                                        *)

\* A task that was never created has no record, no calls and no run.
Unmade(t) ==
  kind[t] = None =>
    /\ recs[t] = None /\ file[t] = None
    /\ call[t] = NoCalls /\ ending[t] = {} /\ t \notin fundingRuns /\ run[t].pc = "none"

\* A run is registered, and no start has still to save for it; a record says
\* "running" as long as something stands behind it; and where no end and no delete
\* of an earlier time is left over, the record of a run does say so.
TidyTask(t) ==
  /\ Unmade(t)
  /\ "running" \notin ending[t]
  /\ run[t].pc # "none" => t \in fundingRuns /\ ~call[t].save
  /\ call[t].save => t \in fundingRuns
  /\ recs[t] = "running" => t \in fundingRuns \/ ending[t] # {} \/ t \in unwritten
  /\ t \notin crossed =>
       /\ t \in fundingRuns => ending[t] = {} /\ call[t].delete = 0
       /\ run[t].pc # "none" => recs[t] = "running"
Tidy == \A t \in Tasks : TidyTask(t)

Inv == Typed /\ Tidy

LEMMA TidyMeans == Inv => RunsRegistered /\ NoPhantomRun /\ RunIsRecorded
BY DEF Inv, Tidy, TidyTask, RunsRegistered, NoPhantomRun, RunIsRecorded

\* None is no state of a task.
LEMMA NoneIs == \A s \in States : s # None
BY ConstantsAssumption

LEMMA TidyTypes ==
  ASSUME Inv, NEW t \in Tasks
  PROVE  /\ recs \in [Tasks -> States \cup {None}] /\ kind \in [Tasks -> Kinds \cup {None}]
         /\ file \in [Tasks -> States \cup {None}]
         /\ call \in [Tasks -> Calls] /\ call[t] \in Calls /\ ending \in [Tasks -> SUBSET States]
         /\ run \in [Tasks -> Run] /\ TidyTask(t)
BY DEF Inv, Typed, StoreOK, CallsOK, RunsOK, Tidy

\* Where a field of a task's calls changes, the others stay.
LEMMA OneCall ==
  ASSUME call \in [Tasks -> Calls], NEW t \in Tasks, NEW c, call' = [call EXCEPT ![t] = c]
  PROVE  call'[t] = c /\ \A u \in Tasks \ {t} : call'[u] = call[u]
OBVIOUS

\* What the other tasks keep.
Same(u) ==
  /\ kind'[u] = kind[u] /\ recs'[u] = recs[u] /\ file'[u] = file[u] /\ run'[u].pc = run[u].pc
  /\ ending'[u] = ending[u] /\ call'[u] = call[u]
  /\ (u \in fundingRuns' <=> u \in fundingRuns) /\ (u \in crossed' <=> u \in crossed)
  /\ (u \in unwritten' <=> u \in unwritten)

LEMMA SameTidy ==
  ASSUME NEW u, TidyTask(u), Same(u)
  PROVE  TidyTask(u)'
BY DEF TidyTask, Unmade, Same

LEMMA OneTidy ==
  ASSUME Tidy, NEW t \in Tasks, TidyTask(t)', \A u \in Tasks \ {t} : Same(u)
  PROVE  Tidy'
<1>1. ASSUME NEW u \in Tasks PROVE TidyTask(u)'
  BY SameTidy DEF Tidy
<1> QED BY <1>1 DEF Tidy

\* A step that leaves the runs where they are, and the rest too.
LEMMA NothingMoves ==
  ASSUME Tidy, UNCHANGED <<store, kind, fundingRuns, ending, call, notes>>,
         \A u \in Tasks : run'[u].pc = run[u].pc
  PROVE  Tidy'
<1>1. \A u \in Tasks : Same(u)
  BY DEF Same, store, notes
<1> QED BY <1>1, SameTidy DEF Tidy

\* A task that has a record, a call, a run or an end was created.
LEMMA Made ==
  ASSUME Inv, NEW t \in Tasks,
         \/ run[t].pc # "none" \/ ending[t] # {} \/ recs[t] # None \/ t \in fundingRuns
         \/ call[t].start > 0 \/ call[t].save \/ call[t].delete > 0
  PROVE  kind[t] # None
<1>1. NoCalls.start = 0 /\ ~NoCalls.save /\ NoCalls.delete = 0
  BY DEF NoCalls
<1> QED BY <1>1, TidyTypes DEF TidyTask, Unmade

LEMMA InitTidy == Init => Tidy
<1> SUFFICES ASSUME Init, NEW t \in Tasks PROVE TidyTask(t)
  BY DEF Tidy
<1>1. run[t].pc = "none" /\ call[t] = NoCalls /\ ~NoCalls.save /\ recs[t] = None /\ file[t] = None
  BY NoRunIs DEF Init, NoCalls
<1>2. ending[t] = {} /\ t \notin fundingRuns /\ None # "running"
  BY NoneIs DEF Init, States
<1> QED BY <1>1, <1>2 DEF TidyTask, Unmade

LEMMA CallTidy ==
  ASSUME Inv, NEW t \in Tasks,
         StartRead(t) \/ StartRefused(t) \/ StartReserve(t) \/ StopFundingTask(t) \/ DeleteCheck(t)
  PROVE  Tidy'
<1>1. UNCHANGED <<kind, recs, file, run, ending>>
  BY DEF StartRead, StartRefused, StartReserve, StopFundingTask, DeleteCheck, store
<1>2. kind[t] # None
  <2>1. CASE StartReserve(t) \/ StartRefused(t) \/ StopFundingTask(t)
    BY <2>1, Made DEF StartReserve, StartRefused, StopFundingTask
  <2>2. CASE StartRead(t)
    BY <2>2, Made DEF StartRead
  <2>3. CASE DeleteCheck(t)
    BY <2>3 DEF DeleteCheck
  <2> QED BY <2>1, <2>2, <2>3
<1>3. call \in [Tasks -> Calls] /\ call[t] \in Calls /\ TidyTask(t) /\ call[t].start \in Nat /\ call[t].delete \in Nat
  BY TidyTypes DEF Calls
<1>4. CASE StartRead(t)
  <2> DEFINE c == [call[t] EXCEPT !.start = call[t].start + 1]
  <2>1. call' = [call EXCEPT ![t] = c] /\ UNCHANGED <<fundingRuns, crossed, unwritten>>
    BY <1>4 DEF StartRead, notes
  <2>2. c.save = call[t].save /\ c.delete = call[t].delete
    BY <1>3 DEF Calls
  <2> HIDE DEF c
  <2>3. call'[t] = c /\ \A u \in Tasks \ {t} : call'[u] = call[u]
    BY <1>3, <2>1, OneCall
  <2>4. TidyTask(t)'
    BY <1>1, <1>2, <1>3, <2>1, <2>2, <2>3 DEF TidyTask, Unmade
  <2>5. \A u \in Tasks \ {t} : Same(u)
    BY <1>1, <2>1, <2>3 DEF Same
  <2> QED BY <2>4, <2>5, OneTidy DEF Inv
<1>5. CASE StartRefused(t)
  <2> DEFINE c == [call[t] EXCEPT !.start = call[t].start - 1]
  <2>1. call' = [call EXCEPT ![t] = c] /\ UNCHANGED <<fundingRuns, crossed, unwritten>>
    BY <1>5 DEF StartRefused, notes
  <2>2. c.save = call[t].save /\ c.delete = call[t].delete
    BY <1>3 DEF Calls
  <2> HIDE DEF c
  <2>3. call'[t] = c /\ \A u \in Tasks \ {t} : call'[u] = call[u]
    BY <1>3, <2>1, OneCall
  <2>4. TidyTask(t)'
    BY <1>1, <1>2, <1>3, <2>1, <2>2, <2>3 DEF TidyTask, Unmade
  <2>5. \A u \in Tasks \ {t} : Same(u)
    BY <1>1, <2>1, <2>3 DEF Same
  <2> QED BY <2>4, <2>5, OneTidy DEF Inv
<1>6. CASE StartReserve(t)
  <2> DEFINE c == [call[t] EXCEPT !.start = call[t].start - 1, !.save = TRUE]
  <2>1. /\ call' = [call EXCEPT ![t] = c] /\ fundingRuns' = fundingRuns \cup {t} /\ t \notin fundingRuns
        /\ crossed' = IF ending[t] # {} \/ call[t].delete > 0 THEN crossed \cup {t} ELSE crossed \ {t}
        /\ unwritten' = unwritten \ {t}
    BY <1>6 DEF StartReserve
  <2>2. c.save /\ c.delete = call[t].delete
    BY <1>3 DEF Calls
  <2> HIDE DEF c
  <2>3. call'[t] = c /\ \A u \in Tasks \ {t} : call'[u] = call[u]
    BY <1>3, <2>1, OneCall
  <2>4. t \notin crossed' => ending[t] = {} /\ call[t].delete = 0
    BY <1>3, <2>1
  <2>5. run[t].pc = "none" /\ t \in fundingRuns'
    BY <1>3, <2>1 DEF TidyTask
  <2>6. TidyTask(t)'
    BY <1>1, <1>2, <1>3, <2>2, <2>3, <2>4, <2>5 DEF TidyTask, Unmade
  <2>7. \A u \in Tasks \ {t} : Same(u)
    BY <1>1, <2>1, <2>3 DEF Same
  <2> QED BY <2>6, <2>7, OneTidy DEF Inv
<1>7. CASE StopFundingTask(t)
  BY <1>7, NothingMoves DEF StopFundingTask, Inv
<1>8. CASE DeleteCheck(t)
  <2> DEFINE c == [call[t] EXCEPT !.delete = call[t].delete + 1]
  <2>1. call' = [call EXCEPT ![t] = c] /\ UNCHANGED <<fundingRuns, crossed, unwritten>> /\ t \notin fundingRuns
    BY <1>8 DEF DeleteCheck, notes
  <2>2. c.save = call[t].save
    BY <1>3 DEF Calls
  <2> HIDE DEF c
  <2>3. call'[t] = c /\ \A u \in Tasks \ {t} : call'[u] = call[u]
    BY <1>3, <2>1, OneCall
  <2>4. TidyTask(t)'
    BY <1>1, <1>2, <1>3, <2>1, <2>2, <2>3 DEF TidyTask, Unmade
  <2>5. \A u \in Tasks \ {t} : Same(u)
    BY <1>1, <2>1, <2>3 DEF Same
  <2> QED BY <2>4, <2>5, OneTidy DEF Inv
<1> QED BY <1>4, <1>5, <1>6, <1>7, <1>8

\* What a save does to the records.
LEMMA SaveStates ==
  ASSUME Inv, NEW t \in Tasks, NEW state, NEW ok, Save(t, state, ok)
  PROVE  /\ recs'[t] = state
         /\ \A u \in Tasks \ {t} : recs'[u] = recs[u]
         /\ (file' = recs' \/ UNCHANGED file)
BY TidyTypes DEF Save

\* A save of one task may write what another's failed save has left in memory.
Kept(u) ==
  /\ kind'[u] = kind[u] /\ recs'[u] = recs[u] /\ (file'[u] = recs[u] \/ file'[u] = file[u])
  /\ run'[u].pc = run[u].pc /\ ending'[u] = ending[u] /\ call'[u] = call[u]
  /\ (u \in fundingRuns' <=> u \in fundingRuns) /\ (u \in crossed' <=> u \in crossed)
  /\ (u \in unwritten' <=> u \in unwritten)

LEMMA SavedTidy ==
  ASSUME Tidy, NEW t \in Tasks, TidyTask(t)', \A u \in Tasks \ {t} : Kept(u)
  PROVE  Tidy'
<1>1. ASSUME NEW u \in Tasks \ {t} PROVE TidyTask(u)'
  <2>1. TidyTask(u) /\ Kept(u)
    BY DEF Tidy
  <2> QED BY <2>1 DEF TidyTask, Unmade, Kept
<1> QED BY <1>1 DEF Tidy

LEMMA CreateTidy ==
  ASSUME Inv, NEW t \in Tasks, NEW k \in Kinds, NEW ok, CreateFundingTask(t, k, ok)
  PROVE  Tidy'
<1>1. /\ kind' = [kind EXCEPT ![t] = k] /\ Save(t, "ready", ok) /\ kind[t] = None
      /\ UNCHANGED <<run, fundingRuns, ending, call, crossed, unwritten>>
  BY DEF CreateFundingTask, notes
<1>2. TidyTask(t) /\ kind \in [Tasks -> Kinds \cup {None}] /\ k # None
  BY TidyTypes, ConstantsAssumption
<1>3. recs'[t] = "ready" /\ \A u \in Tasks \ {t} : recs'[u] = recs[u]
  BY <1>1, SaveStates
<1>4. file' = recs' \/ UNCHANGED file
  BY <1>1, SaveStates
<1>5. kind'[t] = k /\ \A u \in Tasks \ {t} : kind'[u] = kind[u]
  BY <1>1, <1>2
<1>6. TidyTask(t)'
  BY <1>1, <1>2, <1>3, <1>5 DEF TidyTask, Unmade
<1>7. \A u \in Tasks \ {t} : Kept(u)
  BY <1>1, <1>3, <1>4, <1>5 DEF Kept
<1> QED BY <1>6, <1>7, SavedTidy DEF Inv

LEMMA StartSaveTidy ==
  ASSUME Inv, NEW t \in Tasks, NEW ok \in BOOLEAN, StartSave(t, ok)
  PROVE  Tidy'
<1> DEFINE c == [call[t] EXCEPT !.save = FALSE]
<1>1. /\ call' = [call EXCEPT ![t] = c] /\ Save(t, "running", ok) /\ call[t].save
      /\ UNCHANGED <<kind, ending, crossed>>
  BY DEF StartSave
<1>2. TidyTask(t) /\ call \in [Tasks -> Calls] /\ call[t] \in Calls /\ run \in [Tasks -> Run]
  BY TidyTypes
<1>3. ~c.save /\ c.delete = call[t].delete
  BY <1>2 DEF Calls
<1> HIDE DEF c
<1>4. call'[t] = c /\ \A u \in Tasks \ {t} : call'[u] = call[u]
  BY <1>1, <1>2, OneCall
<1>5. recs'[t] = "running" /\ \A u \in Tasks \ {t} : recs'[u] = recs[u]
  BY <1>1, SaveStates
<1>6. file' = recs' \/ UNCHANGED file
  BY <1>1, SaveStates
<1>7. kind[t] # None /\ run[t].pc = "none" /\ t \in fundingRuns
  BY <1>1, <1>2, Made DEF TidyTask
<1>8. CASE ok
  <2>1. UNCHANGED <<fundingRuns, unwritten>> /\ run' = [run EXCEPT ![t] = Hop(t, 1)]
    BY <1>8 DEF StartSave
  <2>2. \A u \in Tasks \ {t} : Kept(u)
    BY <1>1, <1>2, <1>4, <1>5, <1>6, <2>1 DEF Kept
  <2>3. TidyTask(t)'
    BY <1>1, <1>2, <1>3, <1>4, <1>5, <1>7, <2>1 DEF TidyTask, Unmade
  <2> QED BY <2>2, <2>3, SavedTidy DEF Inv
<1>9. CASE ~ok
  <2>1. fundingRuns' = fundingRuns \ {t} /\ UNCHANGED run /\ unwritten' = unwritten \cup {t}
    BY <1>9 DEF StartSave
  <2>2. \A u \in Tasks \ {t} : Kept(u)
    BY <1>1, <1>4, <1>5, <1>6, <2>1 DEF Kept
  <2>3. TidyTask(t)'
    BY <1>1, <1>2, <1>3, <1>4, <1>7, <2>1 DEF TidyTask, Unmade
  <2> QED BY <2>2, <2>3, SavedTidy DEF Inv
<1> QED BY <1>8, <1>9

LEMMA DeleteTidy ==
  ASSUME Inv, NEW t \in Tasks, NEW ok, DeleteFundingTask(t, ok)
  PROVE  Tidy'
<1> DEFINE c == [call[t] EXCEPT !.delete = call[t].delete - 1]
<1>1. /\ call' = [call EXCEPT ![t] = c] /\ call[t].delete > 0
      /\ UNCHANGED <<kind, run, fundingRuns, ending, crossed, unwritten>>
      /\ IF recs[t] = None THEN UNCHANGED <<recs, file>> ELSE Save(t, None, ok)
  BY DEF DeleteFundingTask, notes, store
<1>2. TidyTask(t) /\ call \in [Tasks -> Calls] /\ call[t] \in Calls
  BY TidyTypes
<1>3. c.save = call[t].save
  BY <1>2 DEF Calls
<1> HIDE DEF c
<1>4. call'[t] = c /\ \A u \in Tasks \ {t} : call'[u] = call[u]
  BY <1>1, <1>2, OneCall
<1>5. recs'[t] = None /\ (\A u \in Tasks \ {t} : recs'[u] = recs[u]) /\ (file' = recs' \/ UNCHANGED file)
  <2>1. CASE recs[t] = None
    BY <1>1, <2>1
  <2>2. CASE recs[t] # None
    <3>1. Save(t, None, ok)
      BY <1>1, <2>2
    <3> QED BY <3>1, SaveStates
  <2> QED BY <2>1, <2>2
<1>6. kind[t] # None
  BY <1>1, Made
<1>7. None # "running"
  BY NoneIs DEF States
<1>8. t \in crossed \/ t \notin fundingRuns
  BY <1>1, <1>2 DEF TidyTask
<1>9. \A u \in Tasks \ {t} : Kept(u)
  BY <1>1, <1>4, <1>5 DEF Kept
<1>10. TidyTask(t)'
  BY <1>1, <1>2, <1>3, <1>4, <1>5, <1>6, <1>7, <1>8 DEF TidyTask, Unmade
<1> QED BY <1>9, <1>10, SavedTidy DEF Inv

LEMMA CrashTidy ==
  ASSUME Inv, Crash
  PROVE  Tidy'
<1>1. None # "running" /\ ~NoCalls.save
  BY NoneIs DEF States, NoCalls
<1>2. ASSUME NEW t \in Tasks PROVE TidyTask(t)'
  <2>1. run'[t].pc = "none"
    BY NoRunIs DEF Crash
  <2>2. /\ recs'[t] # "running" /\ t \notin fundingRuns' /\ ending'[t] = {} /\ call'[t] = NoCalls
        /\ UNCHANGED <<kind, file>> /\ (file[t] = None => recs'[t] = None)
    BY <1>1 DEF Crash
  <2>3. Unmade(t)
    BY TidyTypes DEF TidyTask
  <2> QED BY <1>1, <2>1, <2>2, <2>3 DEF TidyTask, Unmade
<1> QED BY <1>2 DEF Tidy

LEMMA EndTidy ==
  ASSUME Inv, NEW t \in Tasks, NEW state \in States \ {"running"}, End(t, state),
         run[t].pc # "none", UNCHANGED <<store, kind, call, notes>>
  PROVE  Tidy'
<1>1. run \in [Tasks -> Run] /\ ending \in [Tasks -> SUBSET States] /\ TidyTask(t)
  BY TidyTypes
<1>2. /\ run' = [run EXCEPT ![t] = NoRun] /\ fundingRuns' = fundingRuns \ {t}
      /\ ending' = [ending EXCEPT ![t] = ending[t] \cup {state}]
  BY DEF End
<1>3. kind[t] # None
  BY Made
<1>4. \A u \in Tasks \ {t} : Same(u)
  BY <1>1, <1>2 DEF Same, store, notes
<1>5. run'[t].pc = "none" /\ ending'[t] = ending[t] \cup {state} /\ t \notin fundingRuns'
  BY <1>1, <1>2, NoRunIs
<1>6. ~call[t].save
  BY <1>1 DEF TidyTask
<1>7. TidyTask(t)'
  BY <1>1, <1>3, <1>5, <1>6 DEF TidyTask, Unmade
<1> QED BY <1>4, <1>7, OneTidy DEF Inv

LEMMA EndedTidy ==
  ASSUME Inv, NEW t \in Tasks, Ended(t), run[t].pc # "none", UNCHANGED <<store, kind, call, notes>>
  PROVE  Tidy'
<1> DEFINE state == IF t \in cancelled THEN "stopped" ELSE "error"
<1>1. state \in States \ {"running"} /\ End(t, state)
  BY DEF States, Ended
<1> HIDE DEF state
<1> QED BY <1>1, EndTidy

\* A run goes on.
LEMMA RunMoves ==
  ASSUME Inv, NEW t \in Tasks, NEW r, r.pc # "none", run[t].pc # "none",
         run' = [run EXCEPT ![t] = r], UNCHANGED <<kind, fundingRuns, ending, call, notes>>,
         UNCHANGED store \/ \E ok : Save(t, "running", ok)
  PROVE  Tidy'
<1>1. run \in [Tasks -> Run] /\ TidyTask(t) /\ kind[t] # None
  BY TidyTypes, Made
<1>2. /\ recs'[t] = recs[t] \/ recs'[t] = "running"
      /\ \A u \in Tasks \ {t} : recs'[u] = recs[u]
      /\ (file' = recs' \/ UNCHANGED file)
  <2>1. CASE UNCHANGED store
    BY <2>1 DEF store
  <2>2. ASSUME NEW ok, Save(t, "running", ok)
        PROVE  /\ recs'[t] = "running" /\ \A u \in Tasks \ {t} : recs'[u] = recs[u]
               /\ (file' = recs' \/ UNCHANGED file)
    BY <2>2, SaveStates
  <2> QED BY <2>1, <2>2
<1>3. \A u \in Tasks \ {t} : Kept(u)
  BY <1>1, <1>2 DEF Kept, notes
<1>4. run'[t].pc # "none"
  BY <1>1
<1>5. TidyTask(t)'
  BY <1>1, <1>2, <1>4 DEF TidyTask, Unmade, notes
<1> QED BY <1>3, <1>5, SavedTidy DEF Inv

LEMMA HopSentTidy ==
  ASSUME Inv, NEW t \in Tasks, HopSent(t)
  PROVE  Tidy'
<1>1. UNCHANGED <<store, kind, call, notes>> /\ run[t].pc = "hop"
  BY DEF HopSent
<1>2. CASE run[t].failed
  <2>1. Ended(t)
    BY <1>2 DEF HopSent
  <2> QED BY <1>1, <2>1, EndedTidy
<1>3. CASE ~run[t].failed
  <2> DEFINE r == [run[t] EXCEPT !.pc = "confirm"]
  <2>1. run' = [run EXCEPT ![t] = r] /\ UNCHANGED <<fundingRuns, cancelled, ending>>
    BY <1>3 DEF HopSent
  <2>2. run[t] \in Run
    BY DEF Inv, Typed, RunsOK
  <2>3. r.pc = "confirm"
    BY <2>2 DEF Run
  <2> HIDE DEF r
  <2> QED BY <1>1, <2>1, <2>3, RunMoves
<1> QED BY <1>2, <1>3

LEMMA HopConfirmedTidy ==
  ASSUME Inv, NEW t \in Tasks, NEW ok, HopConfirmed(t, ok)
  PROVE  Tidy'
<1> DEFINE k == run[t].hop
           last == [NoRun EXCEPT !.pc = "done", !.hop = k + 1]
           r == IF k < Len(Hops(t)) THEN Hop(t, k + 1) ELSE last
<1>1. /\ UNCHANGED <<kind, fundingRuns, ending, call, notes>> /\ Save(t, "running", ok)
      /\ run[t].pc = "confirm" /\ run' = [run EXCEPT ![t] = r]
  BY DEF HopConfirmed
<1>2. run[t] \in Run /\ OnRoute(Hops(t), run[t])
  BY DEF Inv, Typed, RunsOK
<1>3. k \in 1..Len(Hops(t)) /\ Len(Hops(t)) \in Nat
  BY <1>1, <1>2, HopsAre DEF OnRoute
<1>4. r.pc # "none"
  <2>1. last.pc = "done"
    BY DEF NoRun
  <2>2. CASE k < Len(Hops(t))
    <3>1. k + 1 \in 1..Len(Hops(t))
      BY <1>3, <2>2
    <3>2. Hop(t, k + 1).pc = "hop"
      BY <3>1, HopIs
    <3> QED BY <2>2, <3>2
  <2>3. CASE ~(k < Len(Hops(t)))
    BY <2>1, <2>3
  <2> QED BY <2>2, <2>3
<1> HIDE DEF r
<1> QED BY <1>1, <1>4, RunMoves

LEMMA RunSaveTidy ==
  ASSUME Inv, NEW t \in Tasks, NEW ok, NEW state \in ending[t], RunSave(t, state, ok)
  PROVE  Tidy'
<1>1. /\ ending \in [Tasks -> SUBSET States] /\ TidyTask(t)
  BY TidyTypes
<1>2. /\ Save(t, state, ok) /\ ending' = [ending EXCEPT ![t] = ending[t] \ {state}]
      /\ UNCHANGED <<kind, fundingRuns, run, call, crossed, unwritten>>
  BY DEF RunSave, notes
<1>3. recs'[t] = state /\ \A u \in Tasks \ {t} : recs'[u] = recs[u]
  BY <1>2, SaveStates
<1>4. file' = recs' \/ UNCHANGED file
  BY <1>2, SaveStates
<1>5. kind[t] # None /\ state # "running"
  BY <1>1, Made DEF TidyTask
<1>6. \A u \in Tasks \ {t} : Kept(u)
  BY <1>1, <1>2, <1>3, <1>4 DEF Kept
<1>7. TidyTask(t)'
  BY <1>1, <1>2, <1>3, <1>5 DEF TidyTask, Unmade
<1> QED BY <1>6, <1>7, SavedTidy DEF Inv

\* The steps of the senders' goroutines.
LEMMA WorkTidy ==
  ASSUME Inv, NEW t \in Tasks, NEW w,
         \/ ReadBalance(t, w) \/ ReadNonce(t, w) \/ Send(t, w)
         \/ SendLost(t, w) \/ CallFails(t, w)
  PROVE  Tidy'
<1>1. run \in [Tasks -> Run]
  BY DEF Inv, Typed, RunsOK
<1>2. UNCHANGED UnchangedByRun
  BY DEF ReadBalance, ReadNonce, Send, SendLost, CallFails
<1>3. (\E job : Work(t, w, job)) \/ Fail(t, w) \/ (\E tx : Sent(t, w, tx))
  BY DEF ReadBalance, ReadNonce, Send, SendLost, CallFails
<1>4. \E r : run' = [run EXCEPT ![t] = r] /\ r.pc = run[t].pc
  <2>1. run[t] \in Run
    BY <1>1
  <2>2. ASSUME NEW job, Work(t, w, job) PROVE \E r : run' = [run EXCEPT ![t] = r] /\ r.pc = run[t].pc
    <3> DEFINE r == [run[t] EXCEPT !.work = [run[t].work EXCEPT ![w] = job]]
    <3>1. run' = [run EXCEPT ![t] = r]
      BY <2>2 DEF Work
    <3>2. r.pc = run[t].pc
      BY <2>1 DEF Run
    <3> QED BY <3>1, <3>2
  <2>3. ASSUME Fail(t, w) PROVE \E r : run' = [run EXCEPT ![t] = r] /\ r.pc = run[t].pc
    <3> DEFINE r == [run[t] EXCEPT !.work = [run[t].work EXCEPT ![w] = Over], !.failed = TRUE]
    <3>1. run' = [run EXCEPT ![t] = r]
      BY <2>3 DEF Fail
    <3>2. r.pc = run[t].pc
      BY <2>1 DEF Run
    <3> QED BY <3>1, <3>2
  <2>4. ASSUME NEW tx, Sent(t, w, tx) PROVE \E r : run' = [run EXCEPT ![t] = r] /\ r.pc = run[t].pc
    <3> DEFINE job == run[t].work[w]
               next == IF Len(job.amounts) = 1 THEN Over
                       ELSE [job EXCEPT !.amounts = Tail(@), !.nonce = @ + 1]
               r == [run[t] EXCEPT !.sent = @ \cup {tx}, !.work = [run[t].work EXCEPT ![w] = next]]
    <3>1. run' = [run EXCEPT ![t] = r]
      BY <2>4 DEF Sent
    <3> HIDE DEF next
    <3>2. r.pc = run[t].pc
      BY <2>1 DEF Run
    <3> QED BY <3>1, <3>2
  <2> QED BY <1>3, <2>2, <2>3, <2>4
<1>5. \A u \in Tasks : run'[u].pc = run[u].pc
  BY <1>1, <1>4
<1> QED BY <1>2, <1>5, NothingMoves DEF Inv, UnchangedByRun

LEMMA ChainTidy ==
  ASSUME Inv, NEW tx, Include(tx) \/ Refused(tx) \/ Drop(tx)
  PROVE  Tidy'
<1>1. UNCHANGED <<store, kind, fundingRuns, ending, call, notes>>
  BY DEF Include, Refused, Drop
<1>2. \A u \in Tasks : run'[u].pc = run[u].pc
  <2>1. CASE Refused(tx) \/ Drop(tx)
    BY <2>1 DEF Refused, Drop
  <2>2. CASE Include(tx)
    <3>1. ASSUME NEW u \in Tasks PROVE run'[u].pc = run[u].pc
      <4>1. run[u] \in Run
        BY DEF Inv, Typed, RunsOK
      <4>2. run'[u] = [run[u] EXCEPT !.sent = @ \ {tx}]
        BY <2>2 DEF Include
      <4> QED BY <4>1, <4>2 DEF Run
    <3> QED BY <3>1
  <2> QED BY <2>1, <2>2
<1> QED BY <1>1, <1>2, NothingMoves DEF Inv

LEMMA NextInv ==
  ASSUME Inv, [Next]_vars
  PROVE  Inv'
<1>1. CASE UNCHANGED vars
  <2>1. UNCHANGED <<chainVars, store, kind, fundingRuns, cancelled, run, ending, call, faults, notes>>
    BY <1>1 DEF vars
  <2>2. RunsOK'
    BY <2>1, RunsStay DEF Inv, Typed
  <2>3. Typed'
    BY <2>1, <2>2 DEF Inv, Typed, ChainOK, StoreOK, CallsOK, FaultsOK, chainVars, store, notes
  <2>4. Tidy'
    BY <2>1, NothingMoves DEF Inv
  <2> QED BY <2>3, <2>4 DEF Inv
<1>2. ASSUME NEW tx, Include(tx) \/ Refused(tx) \/ Drop(tx) PROVE Inv'
  BY <1>2, IncludeTyped, RefusedTyped, DropTyped, ChainTidy DEF Inv
<1>3. CASE Crash
  BY <1>3, CrashTyped, CrashTidy DEF Inv
<1>4. ASSUME NEW t \in Tasks, NEW k \in Kinds, NEW ok \in BOOLEAN, CreateFundingTask(t, k, ok) PROVE Inv'
  <2>1. run[t].pc = "none"
    BY <1>4, TidyTypes DEF CreateFundingTask, TidyTask, Unmade
  <2> QED BY <1>4, <2>1, CreateTyped, CreateTidy DEF Inv
<1>5. ASSUME NEW t \in Tasks,
             \/ StartRead(t) \/ StartRefused(t) \/ StartReserve(t)
             \/ StopFundingTask(t) \/ DeleteCheck(t)
      PROVE  Inv'
  BY <1>5, CallTyped, CallTidy DEF Inv
<1>6. ASSUME NEW t \in Tasks, HopSent(t) \/ RunDone(t) \/ ConfirmFails(t)
      PROVE  Inv'
  <2>1. Typed'
    BY <1>6, HopSentTyped, RunDoneTyped, ConfirmFailsTyped DEF Inv
  <2>2. CASE HopSent(t)
    BY <2>1, <2>2, HopSentTidy DEF Inv
  <2>3. CASE RunDone(t)
    <3>1. "done" \in States \ {"running"}
      BY DEF States
    <3>2. Tidy'
      BY <2>3, <3>1, EndTidy DEF RunDone
    <3> QED BY <2>1, <3>2 DEF Inv
  <2>4. CASE ConfirmFails(t)
    <3>1. Tidy'
      BY <2>4, EndedTidy DEF ConfirmFails
    <3> QED BY <2>1, <3>1 DEF Inv
  <2> QED BY <1>6, <2>2, <2>3, <2>4
<1>7. ASSUME NEW t \in Tasks, NEW ok \in BOOLEAN,
             StartSave(t, ok) \/ HopConfirmed(t, ok) \/ DeleteFundingTask(t, ok)
      PROVE  Inv'
  BY <1>7, StartSaveTyped, HopConfirmedTyped, DeleteTyped,
     StartSaveTidy, HopConfirmedTidy, DeleteTidy DEF Inv
<1>8. ASSUME NEW t \in Tasks, NEW ok \in BOOLEAN, NEW state \in ending[t], RunSave(t, state, ok)
      PROVE  Inv'
  BY <1>8, RunSaveTyped, RunSaveTidy DEF Inv
<1>9. ASSUME NEW t \in Tasks, NEW w,
             \/ ReadBalance(t, w) \/ ReadNonce(t, w) \/ Send(t, w)
             \/ SendLost(t, w) \/ CallFails(t, w)
      PROVE  Inv'
  BY <1>9, ReadBalanceTyped, ReadNonceTyped, SendTyped, SendLostTyped, CallFailsTyped, WorkTidy DEF Inv
<1> QED BY <1>1, <1>2, <1>3, <1>4, <1>5, <1>6, <1>7, <1>8, <1>9, NextIs, Zenon

LEMMA AlwaysInv == Spec => []Inv
<1>1. Init => Inv
  BY InitTyped, InitTidy DEF Inv
<1>2. Inv /\ [Next]_vars => Inv'
  BY NextInv
<1> QED BY <1>1, <1>2, PTL DEF Spec

\* The state of funding stays well formed: no balance is ever negative, every
\* transfer goes to a wallet of the route, and the sizes stay within bounds.
THEOREM TypeCorrect == Spec => []TypeOK
<1>1. Inv => TypeOK
  BY TypedIs DEF Inv
<1> QED BY <1>1, AlwaysInv, PTL

\* A goroutine that moves money is registered until it ends, whatever calls of its
\* task overlap, and whatever crashes and failed writes come between.
THEOREM RunsRegisteredCorrect == Spec => []RunsRegistered
BY AlwaysInv, TidyMeans, PTL

\* No record says "running" when no run is registered, no end is about to be saved
\* and no start has failed to write, whatever starts, stops, deletes, failed writes
\* and crashes overlap.
THEOREM NoPhantomRunCorrect == Spec => []NoPhantomRun
BY AlwaysInv, TidyMeans, PTL

\* The record of a live run says "running", unless the run was started between the
\* two steps of an earlier run's end or between the check and the deletion of a
\* delete: these two starts are the only way to a run that its record denies.
THEOREM RunIsRecordedCorrect == Spec => []RunIsRecorded
BY AlwaysInv, TidyMeans, PTL

-----------------------------------------------------------------------------
(* The order of the route.                                                 *)

LEMMA ImageIsFinite ==
  ASSUME NEW S, IsFiniteSet(S), NEW f
  PROVE  IsFiniteSet({f[x] : x \in S})
<1> DEFINE T == {f[x] : x \in S}
           g == [x \in S |-> f[x]]
<1>1. g \in Surjection(S, T)
  BY DEF Surjection
<1> HIDE DEF T, g
<1>2. IsFiniteSet(T)
  BY <1>1, FS_Surjection
<1> QED BY <1>2 DEF T

\* A hop pays from wallets of the depth k to wallets of the depth k + 1, and each
\* of the former has one order.
Leads(hop, depth, k) ==
  /\ IsFiniteSet(hop)
  /\ \A s \in hop : depth[s.from] = k /\ \A i \in DOMAIN s.to : depth[s.to[i]] = k + 1
  /\ \A s, u \in hop : s.from = u.from => s = u

LEMMA SweepsLead ==
  ASSUME NEW f, NEW g, NEW depth, NEW k,
         \A i \in 1..Slots : depth[f[i]] = k /\ depth[g[i]] = k + 1,
         \A i, j \in 1..Slots : f[i] = f[j] => i = j
  PROVE  Leads(Sweeps(f, g), depth, k)
<1> DEFINE sweep == [i \in 1..Slots |-> Sweep(f[i], g[i])]
<1>1. IsFiniteSet(Sweeps(f, g))
  <2>1. IsFiniteSet(1..Slots)
    BY FS_Interval, ConstantsAssumption
  <2>2. Sweeps(f, g) = {sweep[i] : i \in 1..Slots}
    BY DEF Sweeps
  <2> HIDE DEF sweep
  <2> DEFINE S == 1..Slots
  <2>3. IsFiniteSet(S)
    BY <2>1
  <2> HIDE DEF S
  <2>4. IsFiniteSet({sweep[i] : i \in S})
    BY <2>3, ImageIsFinite
  <2> QED BY <2>2, <2>4 DEF S
<1>2. ASSUME NEW s \in Sweeps(f, g)
      PROVE  \E i \in 1..Slots : s.from = f[i] /\ s.to = <<g[i]>>
  BY <1>2 DEF Sweeps, Sweep
<1>3. ASSUME NEW s \in Sweeps(f, g)
      PROVE  depth[s.from] = k /\ \A i \in DOMAIN s.to : depth[s.to[i]] = k + 1
  <2>1. PICK i \in 1..Slots : s.from = f[i] /\ s.to = <<g[i]>>
    BY <1>2
  <2>2. DOMAIN <<g[i]>> = {1} /\ <<g[i]>>[1] = g[i]
    OBVIOUS
  <2> QED BY <2>1, <2>2
<1>4. ASSUME NEW s \in Sweeps(f, g), NEW u \in Sweeps(f, g), s.from = u.from PROVE s = u
  BY <1>4 DEF Sweeps, Sweep
<1> QED BY <1>1, <1>3, <1>4 DEF Leads

\* How far from its start a wallet is on a route that distributes.
Depth ==
  [w \in Wallets |-> IF w[1] = "deposit" THEN 1
                     ELSE IF w[1] = "depositRelay" THEN 2
                     ELSE IF w[1] = "batch" THEN 2 + w[3]
                     ELSE BatchCount + 3]
LEMMA DepthOf ==
  ASSUME NEW t \in Tasks
  PROVE  /\ Depth[DepositCold] = 1
         /\ \A r \in Relays : Depth[DepositRelay(r)] = 2
         /\ \A b \in 1..BatchCount, i \in 1..Slots : Depth[Batch(t, b, i)] = 2 + b
         /\ \A i \in 1..Slots : Depth[Outside(t, i)] = BatchCount + 3
<1>1. DepositCold \in Wallets /\ DepositCold[1] = "deposit"
  BY DEF Wallets, DepositCold
<1>2. \A r \in Relays : DepositRelay(r) \in Wallets /\ DepositRelay(r)[1] = "depositRelay"
  BY DEF Wallets, DepositRelay
<1>3. \A b \in 1..BatchCount, i \in 1..Slots :
        Batch(t, b, i) \in Wallets /\ Batch(t, b, i)[1] = "batch" /\ Batch(t, b, i)[3] = b
  BY DEF Wallets, Batch
<1>4. \A i \in 1..Slots : Outside(t, i) \in Wallets /\ Outside(t, i)[1] = "outside"
  BY DEF Wallets, Outside
<1> QED BY <1>1, <1>2, <1>3, <1>4 DEF Depth

\* How far on a route that withdraws.
Height ==
  [w \in Wallets |-> IF w[1] = "outside" THEN 1
                     ELSE IF w[1] = "batch" THEN 1 + w[3]
                     ELSE IF w[1] = "withdrawRelay" THEN BatchCount + 2
                     ELSE BatchCount + 3]
LEMMA HeightOf ==
  ASSUME NEW t \in Tasks
  PROVE  /\ Height[WithdrawCold] = BatchCount + 3
         /\ \A r \in Relays : Height[WithdrawRelay(r)] = BatchCount + 2
         /\ \A b \in 1..BatchCount, i \in 1..Slots : Height[Batch(t, b, i)] = 1 + b
         /\ \A i \in 1..Slots : Height[Outside(t, i)] = 1
<1>1. WithdrawCold \in Wallets /\ WithdrawCold[1] = "withdraw"
  BY DEF Wallets, WithdrawCold
<1>2. \A r \in Relays : WithdrawRelay(r) \in Wallets /\ WithdrawRelay(r)[1] = "withdrawRelay"
  BY DEF Wallets, WithdrawRelay
<1>3. \A b \in 1..BatchCount, i \in 1..Slots :
        Batch(t, b, i) \in Wallets /\ Batch(t, b, i)[1] = "batch" /\ Batch(t, b, i)[3] = b
  BY DEF Wallets, Batch
<1>4. \A i \in 1..Slots : Outside(t, i) \in Wallets /\ Outside(t, i)[1] = "outside"
  BY DEF Wallets, Outside
<1> QED BY <1>1, <1>2, <1>3, <1>4 DEF Height

LEMMA RowsDiffer ==
  ASSUME NEW t \in Tasks
  PROVE  /\ \A b \in 1..BatchCount, i, j \in 1..Slots : Row(t, b)[i] = Row(t, b)[j] => i = j
         /\ \A i, j \in 1..Slots : Ends(t)[i] = Ends(t)[j] => i = j
         /\ \A b \in 1..BatchCount, i \in 1..Slots : Row(t, b)[i] = Batch(t, b, i)
         /\ \A i \in 1..Slots : Ends(t)[i] = Outside(t, i)
BY DEF Row, Ends, Batch, Outside

LEMMA BatchHopsLead ==
  ASSUME NEW t \in Tasks, NEW b \in 1..(BatchCount - 1)
  PROVE  Leads(BatchHops(t)[b], Depth, 2 + b) /\ Leads(BatchHops(t)[b], Height, 1 + b)
<1>1. BatchCount \in Nat \ {0} /\ b \in 1..BatchCount /\ b + 1 \in 1..BatchCount
      /\ 2 + (b + 1) = (2 + b) + 1 /\ 1 + (b + 1) = (1 + b) + 1
  BY ConstantsAssumption
<1>2. BatchHops(t)[b] = Sweeps(Row(t, b), Row(t, b + 1))
  BY DEF BatchHops
<1>3. \A i \in 1..Slots : Row(t, b)[i] = Batch(t, b, i) /\ Row(t, b + 1)[i] = Batch(t, b + 1, i)
  BY <1>1, RowsDiffer
<1>4. \A i, j \in 1..Slots : Row(t, b)[i] = Row(t, b)[j] => i = j
  BY <1>1, RowsDiffer
<1>5. /\ \A i \in 1..Slots : Depth[Row(t, b)[i]] = 2 + b /\ Depth[Row(t, b + 1)[i]] = (2 + b) + 1
      /\ \A i \in 1..Slots : Height[Row(t, b)[i]] = 1 + b /\ Height[Row(t, b + 1)[i]] = (1 + b) + 1
  BY <1>1, <1>3, DepthOf, HeightOf
<1> HIDE DEF Depth, Height
<1> QED BY <1>2, <1>4, <1>5, SweepsLead

LEMMA DistributeLeads ==
  ASSUME NEW t \in Tasks
  PROVE  \A k \in 1..Len(Distribute(t)) : Leads(Distribute(t)[k], Depth, k)
<1> DEFINE deposit ==
             [from |-> DepositCold,
              to |-> [k \in 1..Len(ActiveRelays) |-> DepositRelay(ActiveRelays[k])]]
           Fan(r) ==
             [from |-> DepositRelay(r),
              to |-> [k \in 1..(Before(r + 1) - Before(r)) |-> Batch(t, 1, Before(r) + k)]]
           first == << {deposit}, {Fan(r) : r \in Active} >>
           end == Sweeps(Row(t, BatchCount), Ends(t))
<1>1. RelayCount \in Nat \ {0} /\ Slots \in Nat \ {0} /\ BatchCount \in Nat \ {0}
  BY ConstantsAssumption
<1> HIDE DEF Depth
<1>2. Leads({deposit}, Depth, 1)
  <2>1. \A k \in 1..Len(ActiveRelays) : ActiveRelays[k] \in Relays
    <3>1. CASE Slots < RelayCount
      <4>1. ActiveRelays = [k \in 1..Slots |-> RelayOf(k)] /\ Len(ActiveRelays) = Slots
        BY <1>1, <3>1 DEF ActiveRelays
      <4> QED BY <4>1, RelayOfIs
    <3>2. CASE ~(Slots < RelayCount)
      <4>1. ActiveRelays = [k \in 1..RelayCount |-> k - 1] /\ Len(ActiveRelays) = RelayCount
        BY <1>1, <3>2 DEF ActiveRelays
      <4> QED BY <1>1, <4>1 DEF Relays
    <3> QED BY <3>1, <3>2
  <2>2. Depth[deposit.from] = 1 /\ \A k \in DOMAIN deposit.to : Depth[deposit.to[k]] = 1 + 1
    BY <2>1, DepthOf
  <2>3. IsFiniteSet({deposit})
    BY FS_Singleton
  <2> HIDE DEF deposit
  <2> QED BY <2>2, <2>3 DEF Leads
<1>3. Leads({Fan(r) : r \in Active}, Depth, 2)
  <2> DEFINE fan == [r \in Active |-> Fan(r)]
  <2>1. Active \subseteq Relays
    BY DEF Active
  <2>2. IsFiniteSet({fan[r] : r \in Active})
    <3>1. IsFiniteSet(Relays)
      BY <1>1, FS_Interval DEF Relays
    <3>2. IsFiniteSet(Active)
      BY <2>1, <3>1, FS_Subset
    <3> HIDE DEF fan
    <3> QED BY <3>2, ImageIsFinite
  <2>3. {fan[r] : r \in Active} = {Fan(r) : r \in Active}
    OBVIOUS
  <2>4. ASSUME NEW r \in Active
        PROVE  Depth[Fan(r).from] = 2 /\ \A k \in DOMAIN Fan(r).to : Depth[Fan(r).to[k]] = 2 + 1
    <3>1. r \in Relays /\ Before(r) \in 0..Slots /\ Before(r + 1) \in 0..Slots
      BY <1>1, BeforeIs DEF Active, Relays
    <3>2. \A k \in 1..(Before(r + 1) - Before(r)) : Before(r) + k \in 1..Slots
      BY <1>1, <3>1
    <3>3. \A i \in 1..Slots : Depth[Batch(t, 1, i)] = 2 + 1
      BY <1>1, DepthOf
    <3> QED BY <3>1, <3>2, <3>3, DepthOf
  <2>5. \A r, q \in Active : Fan(r).from = Fan(q).from => r = q
    BY DEF DepositRelay
  <2> HIDE DEF Fan, fan
  <2>6. IsFiniteSet({Fan(r) : r \in Active})
    BY <2>2, <2>3
  <2>7. ASSUME NEW s \in {Fan(r) : r \in Active}
        PROVE  Depth[s.from] = 2 /\ \A k \in DOMAIN s.to : Depth[s.to[k]] = 2 + 1
    BY <2>4, <2>7
  <2>8. ASSUME NEW s \in {Fan(r) : r \in Active}, NEW u \in {Fan(r) : r \in Active},
               s.from = u.from
        PROVE  s = u
    BY <2>5, <2>8
  <2> QED BY <2>6, <2>7, <2>8 DEF Leads
<1>4. Leads(end, Depth, BatchCount + 2)
  <2>1. /\ BatchCount \in 1..BatchCount /\ 2 + BatchCount = BatchCount + 2
        /\ (BatchCount + 2) + 1 = BatchCount + 3
    BY <1>1
  <2>2. \A i \in 1..Slots : /\ Depth[Row(t, BatchCount)[i]] = BatchCount + 2
                            /\ Depth[Ends(t)[i]] = (BatchCount + 2) + 1
    BY <2>1, RowsDiffer, DepthOf
  <2>3. \A i, j \in 1..Slots : Row(t, BatchCount)[i] = Row(t, BatchCount)[j] => i = j
    BY <2>1, RowsDiffer
  <2> QED BY <2>2, <2>3, SweepsLead
<1>5. Len(first) = 2 /\ first[1] = {deposit} /\ first[2] = {Fan(r) : r \in Active}
  OBVIOUS
<1>6. BatchHops(t) \in Seq(SUBSET Specs) /\ Len(BatchHops(t)) = BatchCount - 1
  BY <1>1, BatchHopsAre DEF BatchHops
<1>7. Distribute(t) = (first \o BatchHops(t)) \o <<end>>
  BY DEF Distribute
<1> DEFINE S == UNION {SUBSET Specs, {{deposit}, {Fan(r) : r \in Active}, end}}
<1>8. first \in Seq(S) /\ BatchHops(t) \in Seq(S) /\ <<end>> \in Seq(S) /\ Len(<<end>>) = 1
      /\ <<end>>[1] = end
  <2>1. BatchHops(t) \in Seq(S)
    <3>1. \A k \in 1..Len(BatchHops(t)) : BatchHops(t)[k] \in S
      BY <1>6, ElementOfSeq
    <3> HIDE DEF S
    <3> QED BY <1>6, <3>1, LenProperties, SeqDef
  <2> QED BY <2>1
<1> HIDE DEF S, first, end, deposit, Fan
<1> DEFINE front == first \o BatchHops(t)
<1>9. /\ front \in Seq(S) /\ Len(front) = BatchCount + 1
      /\ \A k \in 1..(BatchCount + 1) : front[k] = IF k <= 2 THEN first[k] ELSE BatchHops(t)[k - 2]
  <2>1. 2 + (BatchCount - 1) = BatchCount + 1
    BY <1>1
  <2>2. /\ front \in Seq(S) /\ Len(front) = Len(first) + Len(BatchHops(t))
        /\ \A k \in 1..(Len(first) + Len(BatchHops(t))) :
             front[k] = IF k <= Len(first) THEN first[k] ELSE BatchHops(t)[k - Len(first)]
    BY <1>8, ConcatProperties
  <2> HIDE DEF front
  <2> QED BY <1>5, <1>6, <2>1, <2>2
<1> HIDE DEF front
<1>10. /\ Len(Distribute(t)) = BatchCount + 2
       /\ \A k \in 1..(BatchCount + 2) :
            Distribute(t)[k] = IF k <= BatchCount + 1 THEN front[k] ELSE <<end>>[k - (BatchCount + 1)]
  <2>1. (BatchCount + 1) + 1 = BatchCount + 2 /\ Distribute(t) = front \o <<end>>
    BY <1>1, <1>7 DEF front
  <2>2. /\ Len(front \o <<end>>) = Len(front) + Len(<<end>>)
        /\ \A k \in 1..(Len(front) + Len(<<end>>)) :
             (front \o <<end>>)[k] = IF k <= Len(front) THEN front[k] ELSE <<end>>[k - Len(front)]
    BY <1>8, <1>9, ConcatProperties
  <2> QED BY <1>8, <1>9, <2>1, <2>2
<1>11. ASSUME NEW k \in 1..(BatchCount + 2) PROVE Leads(Distribute(t)[k], Depth, k)
  <2>1. CASE k = 1
    <3>1. 1 \in 1..(BatchCount + 2) /\ 1 \in 1..(BatchCount + 1) /\ 1 <= BatchCount + 1 /\ 1 <= 2
      BY <1>1
    <3>2. Distribute(t)[1] = {deposit}
      BY <1>5, <1>9, <1>10, <3>1
    <3> QED BY <1>2, <2>1, <3>2
  <2>2. CASE k = 2
    <3>1. 2 \in 1..(BatchCount + 2) /\ 2 \in 1..(BatchCount + 1) /\ 2 <= BatchCount + 1 /\ 2 <= 2
      BY <1>1
    <3>2. Distribute(t)[2] = {Fan(r) : r \in Active}
      BY <1>5, <1>9, <1>10, <3>1
    <3> QED BY <1>3, <2>2, <3>2
  <2>3. CASE k \in 3..(BatchCount + 1)
    <3>1. k - 2 \in 1..(BatchCount - 1) /\ 2 + (k - 2) = k /\ ~(k <= 2)
          /\ k <= BatchCount + 1 /\ k \in 1..(BatchCount + 1) /\ k \in 1..(BatchCount + 2)
      BY <1>1, <2>3
    <3>2. Distribute(t)[k] = BatchHops(t)[k - 2]
      BY <1>9, <1>10, <3>1
    <3>3. Leads(BatchHops(t)[k - 2], Depth, 2 + (k - 2))
      BY <3>1, BatchHopsLead
    <3> QED BY <3>1, <3>2, <3>3
  <2>4. CASE k = BatchCount + 2
    <3>1. ~(k <= BatchCount + 1) /\ k - (BatchCount + 1) = 1
      BY <1>1, <2>4
    <3>2. Distribute(t)[k] = end
      BY <1>8, <1>10, <3>1
    <3> QED BY <1>4, <2>4, <3>2
  <2> QED BY <1>1, <2>1, <2>2, <2>3, <2>4
<1> QED BY <1>10, <1>11

LEMMA WithdrawLeads ==
  ASSUME NEW t \in Tasks
  PROVE  \A k \in 1..Len(Withdraw(t)) : Leads(Withdraw(t)[k], Height, k)
<1> DEFINE relays == [i \in 1..Slots |-> WithdrawRelay(RelayOf(i))]
           begin == Sweeps(Ends(t), Row(t, 1))
           gather == Sweeps(Row(t, BatchCount), relays)
           end == {Sweep(WithdrawRelay(r), WithdrawCold) : r \in Relays}
           last == <<gather, end>>
<1>1. RelayCount \in Nat \ {0} /\ Slots \in Nat \ {0} /\ BatchCount \in Nat \ {0}
  BY ConstantsAssumption
<1> HIDE DEF Height
<1>2. Leads(begin, Height, 1)
  <2>1. \A i \in 1..Slots : Height[Ends(t)[i]] = 1 /\ Height[Row(t, 1)[i]] = 1 + 1
    <3>1. 1 \in 1..BatchCount
      BY <1>1
    <3> QED BY <3>1, RowsDiffer, HeightOf
  <2>2. \A i, j \in 1..Slots : Ends(t)[i] = Ends(t)[j] => i = j
    BY RowsDiffer
  <2> QED BY <2>1, <2>2, SweepsLead
<1>3. Leads(gather, Height, BatchCount + 1)
  <2>1. /\ BatchCount \in 1..BatchCount /\ 1 + BatchCount = BatchCount + 1
        /\ (BatchCount + 1) + 1 = BatchCount + 2
    BY <1>1
  <2>2. \A i \in 1..Slots : /\ Height[Row(t, BatchCount)[i]] = BatchCount + 1
                            /\ Height[relays[i]] = (BatchCount + 1) + 1
    BY <2>1, RelayOfIs, RowsDiffer, HeightOf
  <2>3. \A i, j \in 1..Slots : Row(t, BatchCount)[i] = Row(t, BatchCount)[j] => i = j
    BY <2>1, RowsDiffer
  <2> HIDE DEF relays
  <2> QED BY <2>2, <2>3, SweepsLead
<1>4. Leads(end, Height, BatchCount + 2)
  <2> DEFINE sweep == [r \in Relays |-> Sweep(WithdrawRelay(r), WithdrawCold)]
  <2>1. IsFiniteSet(end)
    <3>1. IsFiniteSet(Relays)
      BY <1>1, FS_Interval DEF Relays
    <3>2. end = {sweep[r] : r \in Relays}
      OBVIOUS
    <3> HIDE DEF sweep, end
    <3>3. IsFiniteSet({sweep[r] : r \in Relays})
      BY <3>1, ImageIsFinite
    <3> QED BY <3>2, <3>3
  <2>2. ASSUME NEW s \in end
        PROVE  Height[s.from] = BatchCount + 2 /\ \A i \in DOMAIN s.to : Height[s.to[i]] = (BatchCount + 2) + 1
    <3>1. PICK r \in Relays : s.from = WithdrawRelay(r) /\ s.to = <<WithdrawCold>>
      BY <2>2 DEF Sweep
    <3>2. DOMAIN <<WithdrawCold>> = {1} /\ <<WithdrawCold>>[1] = WithdrawCold
      OBVIOUS
    <3>3. (BatchCount + 2) + 1 = BatchCount + 3
      BY <1>1
    <3> QED BY <3>1, <3>2, <3>3, HeightOf
  <2>3. ASSUME NEW s \in end, NEW u \in end, s.from = u.from PROVE s = u
    BY <2>3 DEF Sweep
  <2> HIDE DEF end
  <2> QED BY <2>1, <2>2, <2>3 DEF Leads
<1>5. Len(<<begin>>) = 1 /\ <<begin>>[1] = begin /\ Len(last) = 2 /\ last[1] = gather /\ last[2] = end
  OBVIOUS
<1>6. BatchHops(t) \in Seq(SUBSET Specs) /\ Len(BatchHops(t)) = BatchCount - 1
  BY <1>1, BatchHopsAre DEF BatchHops
<1>7. Withdraw(t) = (<<begin>> \o BatchHops(t)) \o last
  BY DEF Withdraw
<1> DEFINE S == UNION {SUBSET Specs, {begin, gather, end}}
<1>8. <<begin>> \in Seq(S) /\ BatchHops(t) \in Seq(S) /\ last \in Seq(S)
  <2>1. BatchHops(t) \in Seq(S)
    <3>1. \A k \in 1..Len(BatchHops(t)) : BatchHops(t)[k] \in S
      BY <1>6, ElementOfSeq
    <3> HIDE DEF S
    <3> QED BY <1>6, <3>1, LenProperties, SeqDef
  <2> QED BY <2>1
<1> HIDE DEF S, begin, gather, end, last
<1> DEFINE front == <<begin>> \o BatchHops(t)
<1>9. /\ front \in Seq(S) /\ Len(front) = BatchCount
      /\ \A k \in 1..BatchCount : front[k] = IF k <= 1 THEN <<begin>>[k] ELSE BatchHops(t)[k - 1]
  <2>1. 1 + (BatchCount - 1) = BatchCount
    BY <1>1
  <2>2. /\ front \in Seq(S) /\ Len(front) = Len(<<begin>>) + Len(BatchHops(t))
        /\ \A k \in 1..(Len(<<begin>>) + Len(BatchHops(t))) :
             front[k] = IF k <= Len(<<begin>>) THEN <<begin>>[k] ELSE BatchHops(t)[k - Len(<<begin>>)]
    BY <1>8, ConcatProperties
  <2> HIDE DEF front
  <2> QED BY <1>5, <1>6, <2>1, <2>2
<1> HIDE DEF front
<1>10. /\ Len(Withdraw(t)) = BatchCount + 2
       /\ \A k \in 1..(BatchCount + 2) :
            Withdraw(t)[k] = IF k <= BatchCount THEN front[k] ELSE last[k - BatchCount]
  <2>1. Withdraw(t) = front \o last
    BY <1>7 DEF front
  <2>2. /\ Len(front \o last) = Len(front) + Len(last)
        /\ \A k \in 1..(Len(front) + Len(last)) :
             (front \o last)[k] = IF k <= Len(front) THEN front[k] ELSE last[k - Len(front)]
    BY <1>8, <1>9, ConcatProperties
  <2> QED BY <1>5, <1>9, <2>1, <2>2
<1>11. ASSUME NEW k \in 1..(BatchCount + 2) PROVE Leads(Withdraw(t)[k], Height, k)
  <2>1. CASE k = 1
    <3>1. 1 \in 1..(BatchCount + 2) /\ 1 \in 1..BatchCount /\ 1 <= BatchCount /\ 1 <= 1
      BY <1>1
    <3>2. Withdraw(t)[1] = begin
      BY <1>5, <1>9, <1>10, <3>1
    <3> QED BY <1>2, <2>1, <3>2
  <2>2. CASE k \in 2..BatchCount
    <3>1. k - 1 \in 1..(BatchCount - 1) /\ 1 + (k - 1) = k /\ ~(k <= 1)
          /\ k <= BatchCount /\ k \in 1..BatchCount /\ k \in 1..(BatchCount + 2)
      BY <1>1, <2>2
    <3>2. Withdraw(t)[k] = BatchHops(t)[k - 1]
      BY <1>9, <1>10, <3>1
    <3>3. Leads(BatchHops(t)[k - 1], Height, 1 + (k - 1))
      BY <3>1, BatchHopsLead
    <3> QED BY <3>1, <3>2, <3>3
  <2>3. CASE k = BatchCount + 1
    <3>1. ~(k <= BatchCount) /\ k - BatchCount = 1
      BY <1>1, <2>3
    <3>2. Withdraw(t)[k] = gather
      BY <1>5, <1>10, <3>1
    <3> QED BY <1>3, <2>3, <3>2
  <2>4. CASE k = BatchCount + 2
    <3>1. ~(k <= BatchCount) /\ k - BatchCount = 2
      BY <1>1, <2>4
    <3>2. Withdraw(t)[k] = end
      BY <1>5, <1>10, <3>1
    <3> QED BY <1>4, <2>4, <3>2
  <2> QED BY <1>1, <2>1, <2>2, <2>3, <2>4
<1> QED BY <1>10, <1>11

\* What the route of a task is like: a wallet sends in one hop at most, once, and
\* what it is paid in a hop it can send in the next hop only.
IsRoute(hops) ==
  /\ hops \in Seq(SUBSET Specs)
  /\ \A k \in DOMAIN hops : IsFiniteSet(hops[k])
  /\ \A j, k \in DOMAIN hops : \A s \in hops[j], u \in hops[k] :
       /\ s.from = u.from => j = k /\ s = u
       /\ \A i \in DOMAIN s.to : s.to[i] = u.from => k = j + 1

LEMMA LeadsIsRoute ==
  ASSUME NEW hops \in Seq(SUBSET Specs), NEW depth, \A k \in 1..Len(hops) : Leads(hops[k], depth, k)
  PROVE  IsRoute(hops)
<1>1. DOMAIN hops = 1..Len(hops)
  BY LenProperties
<1>2. \A k \in DOMAIN hops : /\ IsFiniteSet(hops[k])
                             /\ \A s \in hops[k] : /\ depth[s.from] = k
                                                   /\ \A i \in DOMAIN s.to : depth[s.to[i]] = k + 1
                             /\ \A s, u \in hops[k] : s.from = u.from => s = u
  BY <1>1 DEF Leads
<1>3. ASSUME NEW j \in DOMAIN hops, NEW k \in DOMAIN hops, NEW s \in hops[j], NEW u \in hops[k]
      PROVE  /\ s.from = u.from => j = k /\ s = u
             /\ \A i \in DOMAIN s.to : s.to[i] = u.from => k = j + 1
  BY <1>2
<1> QED BY <1>2, <1>3 DEF IsRoute

LEMMA HopsAreRoute == ASSUME NEW t \in Tasks PROVE IsRoute(Hops(t))
<1>1. IsRoute(Distribute(t))
  BY DistributeIs, DistributeLeads, LeadsIsRoute
<1>2. IsRoute(Withdraw(t))
  BY WithdrawIs, WithdrawLeads, LeadsIsRoute
<1> QED BY <1>1, <1>2 DEF Hops

-----------------------------------------------------------------------------
(* The ether that a run leaves behind.                                     *)

\* The orders of the first k hops, what their senders have, and what it may be.
Behind(hops, k) == UNION {hops[j] : j \in 1..k}
Ether(b, C) == SumOf([s \in C |-> b[s.from]])
Gas(s) == Len(s.to) * Reserve
GasOf(C) == SumOf([s \in C |-> Gas(s)])

LEMMA PassedIs == \A t, k : Passed(t, k) = Behind(Hops(t), k)
BY DEF Passed, Behind

LEMMA BehindIs ==
  ASSUME NEW hops, IsRoute(hops), NEW k \in 0..Len(hops)
  PROVE  /\ IsFiniteSet(Behind(hops, k)) /\ Behind(hops, k) \subseteq Specs
         /\ \A s \in Behind(hops, k) : \E j \in DOMAIN hops : j <= k /\ s \in hops[j]
<1>1. Len(hops) \in Nat /\ DOMAIN hops = 1..Len(hops)
      /\ \A j \in DOMAIN hops : hops[j] \subseteq Specs /\ IsFiniteSet(hops[j])
  <2>1. hops \in Seq(SUBSET Specs)
    BY DEF IsRoute
  <2> QED BY <2>1, ElementOfSeq, LenProperties DEF IsRoute
<1> DEFINE S == 1..k
<1>2. S \subseteq DOMAIN hops /\ IsFiniteSet(S) /\ \A j \in S : j <= k
  BY <1>1, FS_Interval
<1> HIDE DEF S
<1>3. IsFiniteSet({hops[j] : j \in S})
  BY <1>2, ImageIsFinite
<1>4. IsFiniteSet(UNION {hops[j] : j \in S})
  <2>1. \A T \in {hops[j] : j \in S} : IsFiniteSet(T)
    BY <1>1, <1>2
  <2> DEFINE U == {hops[j] : j \in S}
  <2> HIDE DEF U
  <2>2. IsFiniteSet(UNION U)
    BY <1>3, <2>1, FS_UNION DEF U
  <2> QED BY <2>2 DEF U
<1> QED BY <1>1, <1>2, <1>4 DEF Behind, S

\* What the sums are made of.
LEMMA EtherIs ==
  ASSUME NEW C \in SUBSET Specs, IsFiniteSet(C), NEW b \in [Wallets -> Nat]
  PROVE  /\ [s \in C |-> b[s.from]] \in [C -> Int] /\ Ether(b, C) \in Int
         /\ [s \in C |-> Gas(s)] \in [C -> Int] /\ GasOf(C) \in Int
         /\ \A s \in C : b[s.from] \in Nat /\ Gas(s) \in Nat
<1>1. \A s \in C : s.from \in Wallets /\ Len(s.to) \in Nat
  BY DEF Specs
<1>2. \A s \in C : b[s.from] \in Nat
  BY <1>1
<1>3. ASSUME NEW s \in C PROVE Gas(s) \in Nat
  <2>1. Len(s.to) \in Nat /\ Reserve \in Nat
    BY <1>1, ConstantsAssumption
  <2>2. \A m, n \in Nat : m * n \in Nat
    OBVIOUS
  <2> QED BY <2>1, <2>2 DEF Gas
<1>4. [s \in C |-> b[s.from]] \in [C -> Int] /\ [s \in C |-> Gas(s)] \in [C -> Int]
  BY <1>2, <1>3
<1>5. SumOf([s \in C |-> b[s.from]]) \in Int
  BY <1>4, SumIsInt
<1>6. SumOf([s \in C |-> Gas(s)]) \in Int
  BY <1>4, SumIsInt
<1> QED BY <1>2, <1>3, <1>4, <1>5, <1>6 DEF Ether, GasOf

\* One more sender.
LEMMA EtherAdd ==
  ASSUME NEW C \in SUBSET Specs, IsFiniteSet(C), NEW b \in [Wallets -> Nat],
         NEW s \in Specs, s \notin C
  PROVE  /\ Ether(b, C \cup {s}) = Ether(b, C) + b[s.from]
         /\ GasOf(C \cup {s}) = GasOf(C) + Gas(s)
<1> DEFINE D == C \cup {s}
           f == [u \in D |-> b[u.from]]
           g == [u \in D |-> Gas(u)]
<1>1. D \in SUBSET Specs /\ IsFiniteSet(D)
  BY FS_AddElement
<1>2. f \in [D -> Int] /\ g \in [D -> Int]
  BY <1>1, EtherIs
<1>3. /\ [u \in C |-> f[u]] = [u \in C |-> b[u.from]] /\ f[s] = b[s.from]
      /\ [u \in C |-> g[u]] = [u \in C |-> Gas(u)] /\ g[s] = Gas(s)
  OBVIOUS
<1>4. Ether(b, D) = SumOf(f) /\ GasOf(D) = SumOf(g)
  BY DEF Ether, GasOf
<1> HIDE DEF f, g
<1>5. f \in [C \cup {s} -> Int] /\ g \in [C \cup {s} -> Int]
  BY <1>2
<1>6. SumOf(f) = SumOf([u \in C |-> f[u]]) + f[s]
  BY <1>5, SumAdd
<1>7. SumOf(g) = SumOf([u \in C |-> g[u]]) + g[s]
  BY <1>5, SumAdd
<1> QED BY <1>3, <1>4, <1>6, <1>7 DEF Ether, GasOf

-----------------------------------------------------------------------------
(* What the inclusion of a transfer does to these sums.                    *)

\* A transfer is an order's.
Orders(hops, s, tx) ==
  /\ \E k \in DOMAIN hops : s \in hops[k]
  /\ tx.from = s.from /\ \E i \in DOMAIN s.to : tx.to = s.to[i]

\* The balances after a transfer.
Pays(b, c, tx) ==
  /\ \A w \in Wallets : w # tx.from /\ w # tx.to => c[w] = b[w]
  /\ tx.from # tx.to => c[tx.from] = b[tx.from] - tx.amount - Cost /\ c[tx.to] = b[tx.to] + tx.amount

\* Whoever pays one of the senders is one of them.
Closed(hops, C) ==
  \A u \in C : \A k \in DOMAIN hops : \A s \in hops[k] :
    (\E i \in DOMAIN s.to : s.to[i] = u.from) => s \in C

LEMMA BehindClosed ==
  ASSUME NEW hops, IsRoute(hops), NEW k \in 0..Len(hops)
  PROVE  Closed(hops, Behind(hops, k))
<1>1. DOMAIN hops = 1..Len(hops) /\ Len(hops) \in Nat
  BY LenProperties DEF IsRoute
<1> SUFFICES ASSUME NEW u \in Behind(hops, k), NEW j \in DOMAIN hops, NEW s \in hops[j],
                    NEW i \in DOMAIN s.to, s.to[i] = u.from
             PROVE  s \in Behind(hops, k)
  BY DEF Closed
<1>2. PICK l \in DOMAIN hops : l <= k /\ u \in hops[l]
  BY BehindIs
<1>3. l = j + 1
  BY <1>2 DEF IsRoute
<1>4. j \in 1..k
  BY <1>1, <1>2, <1>3
<1> QED BY <1>4 DEF Behind

LEMMA OneOrder ==
  ASSUME NEW hops, IsRoute(hops), NEW s, NEW tx, Orders(hops, s, tx)
  PROVE  /\ tx.from # tx.to
         /\ \A k \in DOMAIN hops : \A u \in hops[k] : u.from = tx.from => u = s
<1>1. PICK k \in DOMAIN hops : s \in hops[k]
  BY DEF Orders
<1>2. PICK i \in DOMAIN s.to : tx.to = s.to[i] /\ tx.from = s.from
  BY DEF Orders
<1>3. s.to[i] = s.from => k = k + 1
  BY <1>1, <1>2 DEF IsRoute
<1>4. k # k + 1
  BY <1>1, LenProperties DEF IsRoute
<1>5. ASSUME NEW j \in DOMAIN hops, NEW u \in hops[j], u.from = s.from PROVE u = s
  BY <1>1, <1>5 DEF IsRoute
<1> QED BY <1>2, <1>3, <1>4, <1>5

\* The orders of the route of which C is a part.
OfRoute(hops, C) ==
  /\ C \subseteq Specs /\ IsFiniteSet(C)
  /\ \A u \in C : \E k \in DOMAIN hops : u \in hops[k]

LEMMA OfRouteOrder ==
  ASSUME NEW hops, IsRoute(hops), NEW C, OfRoute(hops, C), NEW s, NEW tx, Orders(hops, s, tx)
  PROVE  \A u \in C : u.from = tx.from => u = s
BY OneOrder DEF OfRoute

LEMMA OneReceiver ==
  ASSUME NEW hops, IsRoute(hops), NEW C, OfRoute(hops, C), NEW u \in C, NEW v \in C, u.from = v.from
  PROVE  u = v
<1>1. PICK j \in DOMAIN hops : u \in hops[j]
  BY DEF OfRoute
<1>2. PICK k \in DOMAIN hops : v \in hops[k]
  BY DEF OfRoute
<1> QED BY <1>1, <1>2 DEF IsRoute

\* Senders among whom no transfer comes from without have no more after it.
LEMMA EtherFalls ==
  ASSUME NEW hops, IsRoute(hops), NEW C, OfRoute(hops, C), Closed(hops, C),
         NEW b \in [Wallets -> Nat], NEW c \in [Wallets -> Nat],
         NEW tx \in Tx, NEW s, Orders(hops, s, tx), Pays(b, c, tx)
  PROVE  Ether(c, C) <= Ether(b, C)
<1> DEFINE f == [u \in C |-> b[u.from]]
           g == [u \in C |-> c[u.from]]
<1>1. C \in SUBSET Specs /\ IsFiniteSet(C)
  BY DEF OfRoute
<1>2. /\ f \in [C -> Int] /\ g \in [C -> Int]
      /\ Ether(b, C) = SumOf(f) /\ Ether(c, C) = SumOf(g)
  BY <1>1, EtherIs DEF Ether
<1>3. \A u \in C : f[u] = b[u.from] /\ g[u] = c[u.from] /\ u.from \in Wallets
                   /\ b[u.from] \in Nat /\ c[u.from] \in Nat
  BY <1>1 DEF Specs
<1> HIDE DEF f, g
<1>4. tx.from # tx.to /\ tx.amount \in Nat /\ Cost \in Nat
  BY OneOrder, ConstantsAssumption DEF Tx
<1>5. \A u \in C : /\ u.from # tx.from /\ u.from # tx.to => g[u] = f[u]
                   /\ u.from = tx.from => g[u] <= f[u] - tx.amount
                   /\ u.from = tx.to => g[u] <= f[u] + tx.amount
  BY <1>3, <1>4 DEF Pays
<1>6. \A u \in C : u.from = tx.from => u = s
  BY OfRouteOrder
<1>7. CASE \A u \in C : u.from # tx.to
  <2>1. \A u \in C : g[u] <= f[u]
    BY <1>3, <1>4, <1>5, <1>7
  <2> QED BY <1>1, <1>2, <2>1, SumMonotone
<1>8. CASE \E u \in C : u.from = tx.to
  <2>1. PICK u \in C : u.from = tx.to
    BY <1>8
  <2>2. s \in C /\ s.from = tx.from
    BY <2>1 DEF Orders, Closed
  <2>3. \A v \in C : v.from = tx.to => v = u
    BY <2>1, OneReceiver
  <2>4. s # u
    BY <1>4, <2>1, <2>2
  <2>5. \A v \in C : v # s /\ v # u => g[v] <= f[v]
    BY <1>3, <1>5, <1>6, <2>3
  <2>6. g[s] <= f[s] - tx.amount /\ g[u] <= f[u] + tx.amount /\ tx.amount \in Int
    BY <1>4, <1>5, <2>1, <2>2
  <2> QED BY <1>1, <1>2, <2>1, <2>2, <2>4, <2>5, <2>6, SumMoved
<1> QED BY <1>7, <1>8

\* Senders who pay somebody else have less.
LEMMA EtherPaid ==
  ASSUME NEW hops, IsRoute(hops), NEW C, OfRoute(hops, C),
         NEW b \in [Wallets -> Nat], NEW c \in [Wallets -> Nat],
         NEW tx \in Tx, NEW s \in C, Orders(hops, s, tx), Pays(b, c, tx),
         \A u \in C : u.from # tx.to
  PROVE  Ether(c, C) <= Ether(b, C) - tx.amount
<1> DEFINE f == [u \in C |-> b[u.from]]
           g == [u \in C |-> c[u.from]]
<1>1. C \in SUBSET Specs /\ IsFiniteSet(C)
  BY DEF OfRoute
<1>2. /\ f \in [C -> Int] /\ g \in [C -> Int]
      /\ Ether(b, C) = SumOf(f) /\ Ether(c, C) = SumOf(g)
  BY <1>1, EtherIs DEF Ether
<1>3. \A u \in C : f[u] = b[u.from] /\ g[u] = c[u.from] /\ u.from \in Wallets
                   /\ b[u.from] \in Nat /\ c[u.from] \in Nat
  BY <1>1 DEF Specs
<1> HIDE DEF f, g
<1>4. tx.from # tx.to /\ tx.amount \in Int /\ tx.amount \in Nat /\ Cost \in Nat
  BY OneOrder, ConstantsAssumption DEF Tx
<1>5. \A u \in C : u.from = tx.from => u = s
  BY OfRouteOrder
<1>6. g[s] <= f[s] - tx.amount
  BY <1>3, <1>4 DEF Pays, Orders
<1>7. \A u \in C : u # s => g[u] <= f[u]
  BY <1>3, <1>5 DEF Pays
<1> QED BY <1>1, <1>2, <1>4, <1>6, <1>7, SumLess

-----------------------------------------------------------------------------
(* What a run still owes: the amounts its senders have not sent, and those  *)
(* that are sent and not mined.                                             *)

Busy(r) == r.pc \in {"hop", "confirm"}

\* The orders of this hop whose senders have read their balance, and with those
\* of the hops before, all whose ether is settled but for what is owed.
Started(hops, r) == {s \in hops[r.hop] : r.work[s.from].at # "balance"}
Counted(hops, r) == Behind(hops, r.hop - 1) \cup Started(hops, r)
Unsent(r) == SumOf([w \in DOMAIN r.work |-> SumOf(r.work[w].amounts)])
Unmined(r) == SumOf([tx \in r.sent |-> tx.amount])

\* A sender has sent with the nonces below its next one, and none before it has
\* read them.
OnWork(hops, r) ==
  /\ IsFiniteSet(r.sent)
  /\ r.pc = "done" => r.hop = Len(hops) + 1
  /\ Busy(r) =>
       /\ r.hop \in 1..Len(hops)
       /\ DOMAIN r.work = Senders(hops[r.hop])
       /\ \A w \in DOMAIN r.work : r.work[w].at \in {"balance", "over"} => r.work[w].amounts = <<>>
       /\ \A tx \in r.sent :
            /\ tx.from \in DOMAIN r.work /\ r.work[tx.from].at \in {"send", "over"}
            /\ r.work[tx.from].at = "send" => tx.nonce < r.work[tx.from].nonce
  /\ r.pc = "confirm" => ~r.failed /\ \A w \in DOMAIN r.work : r.work[w].at = "over"

\* What is settled is no more than the gas; of the hops passed, nothing is owed.
Settled(hops, r, b) ==
  Ether(b, Counted(hops, r)) - Unsent(r) - Unmined(r) <= GasOf(Counted(hops, r))
Left(hops, r, b) ==
  r.pc # "none" =>
    /\ \A k \in 1..(r.hop - 1) : Ether(b, Behind(hops, k)) <= GasOf(Behind(hops, k))
    /\ Busy(r) /\ ~r.failed => Settled(hops, r, b)

LEMMA NatSeqIsIntSeq == Seq(Nat) \subseteq Seq(Int)
<1> SUFFICES ASSUME NEW s \in Seq(Nat) PROVE s \in Seq(Int)
  OBVIOUS
<1>1. Len(s) \in Nat /\ s \in [1..Len(s) -> Nat]
  BY LenProperties
<1>2. s \in [1..Len(s) -> Int]
  BY <1>1
<1> QED BY <1>1, <1>2, SeqDef

LEMMA SendersFinite ==
  ASSUME NEW hop, IsFiniteSet(hop)
  PROVE  IsFiniteSet(Senders(hop))
<1> DEFINE f == [s \in hop |-> s.from]
<1>1. Senders(hop) = {f[s] : s \in hop}
  BY DEF Senders
<1> HIDE DEF f
<1>2. IsFiniteSet({f[s] : s \in hop})
  BY ImageIsFinite
<1> QED BY <1>1, <1>2

LEMMA WorkIs ==
  ASSUME NEW hops, IsRoute(hops), NEW r \in Run, OnWork(hops, r), Busy(r)
  PROVE  /\ IsFiniteSet(DOMAIN r.work) /\ DOMAIN r.work \subseteq Wallets
         /\ \A w \in DOMAIN r.work : /\ r.work[w] \in Job
                                     /\ r.work[w].amounts \in Seq(Int)
                                     /\ SumOf(r.work[w].amounts) \in Int
         /\ [w \in DOMAIN r.work |-> SumOf(r.work[w].amounts)] \in [DOMAIN r.work -> Int]
         /\ Unsent(r) \in Int
<1>1. r.hop \in DOMAIN hops /\ IsFiniteSet(hops[r.hop])
  BY LenProperties DEF OnWork, IsRoute
<1>2. IsFiniteSet(DOMAIN r.work)
  BY <1>1, SendersFinite DEF OnWork
<1>3. DOMAIN r.work \subseteq Wallets
  <2>1. hops[r.hop] \subseteq Specs
    BY <1>1, ElementOfSeq, LenProperties DEF IsRoute
  <2> QED BY <2>1 DEF OnWork, Senders, Specs
<1>4. ASSUME NEW w \in DOMAIN r.work
      PROVE  r.work[w] \in Job /\ r.work[w].amounts \in Seq(Int) /\ SumOf(r.work[w].amounts) \in Int
  <2>1. r.work[w] \in Job
    BY WorkOf
  <2>2. r.work[w].amounts \in Seq(Int)
    BY <2>1, NatSeqIsIntSeq DEF Job
  <2> QED BY <2>1, <2>2, SumSeqIsInt
<1> DEFINE f == [w \in DOMAIN r.work |-> SumOf(r.work[w].amounts)]
<1>5. f \in [DOMAIN r.work -> Int]
  BY <1>4
<1>6. Unsent(r) = SumOf(f)
  BY DEF Unsent
<1>7. SumOf(f) \in Int
  <2> HIDE DEF f
  <2> QED BY <1>2, <1>5, SumIsInt
<1> QED BY <1>2, <1>3, <1>4, <1>5, <1>6, <1>7

LEMMA CountedIs ==
  ASSUME NEW hops, IsRoute(hops), NEW r, r.hop \in 1..Len(hops)
  PROVE  OfRoute(hops, Counted(hops, r)) /\ Closed(hops, Counted(hops, r))
<1> DEFINE k == r.hop - 1
<1>1. Len(hops) \in Nat /\ DOMAIN hops = 1..Len(hops) /\ r.hop \in DOMAIN hops /\ k \in 0..Len(hops)
      /\ k + 1 = r.hop
  BY LenProperties DEF IsRoute
<1>2. hops[r.hop] \subseteq Specs /\ IsFiniteSet(hops[r.hop])
  BY <1>1, ElementOfSeq DEF IsRoute
<1>3. Started(hops, r) \subseteq hops[r.hop] /\ IsFiniteSet(Started(hops, r))
  BY <1>2, FS_Subset DEF Started
<1> HIDE DEF k
<1>4. OfRoute(hops, Behind(hops, k))
  BY <1>1, BehindIs DEF OfRoute
<1>5. Counted(hops, r) = Behind(hops, k) \cup Started(hops, r)
  BY DEF Counted, k
<1>6. IsFiniteSet(Counted(hops, r))
  BY <1>3, <1>4, <1>5, FS_Union DEF OfRoute
<1>7. OfRoute(hops, Counted(hops, r))
  BY <1>1, <1>2, <1>3, <1>4, <1>5, <1>6 DEF OfRoute
<1>8. ASSUME NEW u \in Counted(hops, r), NEW j \in DOMAIN hops, NEW s \in hops[j],
             NEW i \in DOMAIN s.to, s.to[i] = u.from
      PROVE  s \in Counted(hops, r)
  <2>1. CASE u \in Behind(hops, k)
    <3>1. Closed(hops, Behind(hops, k))
      BY <1>1, BehindClosed
    <3> QED BY <1>5, <1>8, <2>1, <3>1 DEF Closed
  <2>2. CASE u \in Started(hops, r)
    <3>1. r.hop = j + 1
      BY <1>1, <1>3, <1>8, <2>2 DEF IsRoute
    <3>2. j \in 1..k
      BY <1>1, <3>1 DEF k
    <3> QED BY <1>5, <3>2 DEF Behind
  <2> QED BY <1>5, <2>1, <2>2
<1> QED BY <1>7, <1>8 DEF Closed

\* No transfer of this hop is to one who counts.
LEMMA SentOnward ==
  ASSUME NEW hops, IsRoute(hops), NEW r, OnWork(hops, r), Busy(r),
         NEW tx \in r.sent, NEW s, Orders(hops, s, tx)
  PROVE  s \in Counted(hops, r) /\ \A u \in Counted(hops, r) : u.from # tx.to
<1>1. /\ Len(hops) \in Nat /\ DOMAIN hops = 1..Len(hops) /\ r.hop \in DOMAIN hops
      /\ r.hop - 1 \in 0..Len(hops)
  BY LenProperties DEF IsRoute, OnWork
<1>2. PICK u \in hops[r.hop] : u.from = tx.from
  BY DEF OnWork, Senders
<1>3. u = s
  BY <1>1, <1>2, OneOrder
<1>4. s \in hops[r.hop] /\ s.from = tx.from
  BY <1>2, <1>3
<1>5. r.work[s.from].at # "balance"
  BY <1>4 DEF OnWork
<1>6. s \in Counted(hops, r)
  BY <1>4, <1>5 DEF Counted, Started
<1>7. PICK i \in DOMAIN s.to : tx.to = s.to[i]
  BY DEF Orders
<1>8. ASSUME NEW v \in Counted(hops, r), v.from = tx.to PROVE FALSE
  <2>1. PICK j \in DOMAIN hops : j <= r.hop /\ v \in hops[j]
    <3>1. CASE v \in Behind(hops, r.hop - 1)
      <4>1. PICK j \in DOMAIN hops : j <= r.hop - 1 /\ v \in hops[j]
        BY <1>1, <3>1, BehindIs
      <4> QED BY <1>1, <4>1
    <3>2. CASE v \in Started(hops, r)
      BY <1>1, <3>2 DEF Started
    <3> QED BY <1>8, <3>1, <3>2 DEF Counted
  <2>2. j = r.hop + 1
    BY <1>1, <1>4, <1>7, <1>8, <2>1 DEF IsRoute
  <2> QED BY <1>1, <2>1, <2>2
<1> QED BY <1>6, <1>8

-----------------------------------------------------------------------------
(* How the steps of a run change what it owes.                             *)

LEMMA UnsentChange ==
  ASSUME NEW hops, IsRoute(hops), NEW r \in Run, OnWork(hops, r), Busy(r),
         NEW w \in DOMAIN r.work, NEW job, SumOf(job.amounts) \in Int,
         NEW q, q.work = [r.work EXCEPT ![w] = job]
  PROVE  Unsent(q) = Unsent(r) - SumOf(r.work[w].amounts) + SumOf(job.amounts)
<1> DEFINE f == [v \in DOMAIN r.work |-> SumOf(r.work[v].amounts)]
           g == [v \in DOMAIN q.work |-> SumOf(q.work[v].amounts)]
<1>1. IsFiniteSet(DOMAIN r.work) /\ f \in [DOMAIN r.work -> Int]
  BY WorkIs
<1>2. /\ DOMAIN q.work = DOMAIN r.work
      /\ \A v \in DOMAIN r.work : q.work[v] = IF v = w THEN job ELSE r.work[v]
  OBVIOUS
<1>3. g \in [DOMAIN r.work -> Int] /\ g[w] = SumOf(job.amounts) /\ f[w] = SumOf(r.work[w].amounts)
      /\ \A v \in DOMAIN r.work : v # w => g[v] = f[v]
  BY <1>1, <1>2
<1>4. Unsent(r) = SumOf(f) /\ Unsent(q) = SumOf(g)
  BY DEF Unsent
<1> DEFINE D == DOMAIN r.work
<1>5. /\ IsFiniteSet(D) /\ f \in [D -> Int] /\ g \in [D -> Int] /\ w \in D
      /\ \A v \in D : v # w => g[v] = f[v]
  BY <1>1, <1>3
<1> HIDE DEF f, g, D
<1>6. SumOf(g) = SumOf(f) - f[w] + g[w]
  BY <1>5, SumChanged
<1> QED BY <1>3, <1>4, <1>6

LEMMA CountedStays ==
  ASSUME NEW hops, NEW r, OnWork(hops, r), Busy(r), NEW w \in DOMAIN r.work, NEW job,
         job.at = "balance" <=> r.work[w].at = "balance",
         NEW q, q.hop = r.hop, q.work = [r.work EXCEPT ![w] = job]
  PROVE  Counted(hops, q) = Counted(hops, r)
<1>1. \A s \in hops[r.hop] : s.from \in DOMAIN r.work
  BY DEF OnWork, Senders
<1>2. \A v \in DOMAIN r.work : q.work[v].at = "balance" <=> r.work[v].at = "balance"
  OBVIOUS
<1>3. Started(hops, q) = Started(hops, r)
  BY <1>1, <1>2 DEF Started
<1> QED BY <1>3 DEF Counted

LEMMA CountedGrows ==
  ASSUME NEW hops, IsRoute(hops), NEW r, OnWork(hops, r), Busy(r), NEW w \in DOMAIN r.work, NEW job,
         r.work[w].at = "balance", job.at # "balance",
         NEW q, q.hop = r.hop, q.work = [r.work EXCEPT ![w] = job],
         NEW s \in hops[r.hop], s.from = w
  PROVE  s \in Specs /\ s \notin Counted(hops, r) /\ Counted(hops, q) = Counted(hops, r) \cup {s}
<1>1. /\ Len(hops) \in Nat /\ DOMAIN hops = 1..Len(hops) /\ r.hop \in DOMAIN hops
      /\ r.hop - 1 \in 0..Len(hops) /\ hops[r.hop] \subseteq Specs
  BY LenProperties, ElementOfSeq DEF IsRoute, OnWork
<1>2. \A u \in hops[r.hop] : u.from \in DOMAIN r.work /\ (u.from = w <=> u = s)
  BY <1>1 DEF OnWork, Senders, IsRoute
<1>3. \A v \in DOMAIN r.work : q.work[v] = IF v = w THEN job ELSE r.work[v]
  OBVIOUS
<1>4. Started(hops, q) = Started(hops, r) \cup {s} /\ s \notin Started(hops, r)
  BY <1>2, <1>3 DEF Started
<1>5. s \notin Behind(hops, r.hop - 1)
  <2> SUFFICES ASSUME s \in Behind(hops, r.hop - 1) PROVE FALSE
    OBVIOUS
  <2>1. PICK j \in DOMAIN hops : j <= r.hop - 1 /\ s \in hops[j]
    BY <1>1, BehindIs
  <2>2. j = r.hop
    BY <1>1, <2>1 DEF IsRoute
  <2> QED BY <1>1, <2>1, <2>2
<1> QED BY <1>1, <1>4, <1>5 DEF Counted

\* The sums of a run, as numbers.
LEMMA OwedIs ==
  ASSUME NEW hops, IsRoute(hops), NEW r \in Run, OnWork(hops, r), Busy(r), NEW b \in [Wallets -> Nat]
  PROVE  /\ Ether(b, Counted(hops, r)) \in Int /\ GasOf(Counted(hops, r)) \in Int
         /\ Unsent(r) \in Int /\ Unmined(r) \in Int
         /\ [tx \in r.sent |-> tx.amount] \in [r.sent -> Int]
<1>1. Counted(hops, r) \in SUBSET Specs /\ IsFiniteSet(Counted(hops, r))
  BY CountedIs DEF OfRoute, OnWork
<1> DEFINE f == [tx \in r.sent |-> tx.amount]
<1>2. f \in [r.sent -> Int]
  BY DEF Run, Tx
<1>3. Unmined(r) = SumOf(f) /\ IsFiniteSet(r.sent)
  BY DEF Unmined, OnWork
<1>4. Unmined(r) \in Int
  <2> HIDE DEF f
  <2> QED BY <1>2, <1>3, SumIsInt
<1> QED BY <1>1, <1>2, <1>4, EtherIs, WorkIs

\* A sender has read its balance: it owes all of it but the gas.
LEMMA ReadSettles ==
  ASSUME NEW hops, IsRoute(hops), NEW r \in Run, OnWork(hops, r), Busy(r), NEW w \in DOMAIN r.work,
         NEW b \in [Wallets -> Nat], Settled(hops, r, b), r.work[w].at = "balance",
         NEW job, job.at # "balance", SumOf(job.amounts) \in Int,
         NEW s \in hops[r.hop], s.from = w, b[w] <= SumOf(job.amounts) + Gas(s),
         NEW q, q.hop = r.hop, q.sent = r.sent, q.work = [r.work EXCEPT ![w] = job]
  PROVE  Settled(hops, q, b)
<1> DEFINE C == Counted(hops, r)
<1>1. C \in SUBSET Specs /\ IsFiniteSet(C)
  BY CountedIs DEF OfRoute, OnWork
<1>2. s \in Specs /\ s \notin C /\ Counted(hops, q) = C \cup {s}
  BY CountedGrows
<1> HIDE DEF C
<1>3. Ether(b, C \cup {s}) = Ether(b, C) + b[s.from] /\ GasOf(C \cup {s}) = GasOf(C) + Gas(s)
  BY <1>1, <1>2, EtherAdd
<1>4. Unsent(q) = Unsent(r) - SumOf(r.work[w].amounts) + SumOf(job.amounts)
  BY UnsentChange
<1>5. SumOf(r.work[w].amounts) = 0
  <2>1. r.work[w].amounts = <<>>
    BY DEF OnWork
  <2> QED BY <2>1, SumEmpty
<1>6. Unmined(q) = Unmined(r)
  BY DEF Unmined
<1>7. /\ Ether(b, C) \in Int /\ GasOf(C) \in Int /\ Unsent(r) \in Int /\ Unmined(r) \in Int
  BY OwedIs DEF C
<1>8. b[s.from] \in Nat /\ Gas(s) \in Nat
  <2>1. s \in Specs /\ s.from \in Wallets
    BY <1>2 DEF Specs
  <2>2. {s} \in SUBSET Specs /\ IsFiniteSet({s})
    BY <2>1, FS_Singleton
  <2> QED BY <2>2, EtherIs
<1>9. Ether(b, C) - Unsent(r) - Unmined(r) <= GasOf(C)
  BY DEF Settled, C
<1> DEFINE x == SumOf(job.amounts)
<1>10. x \in Int /\ b[s.from] <= x + Gas(s) /\ Unsent(q) = Unsent(r) - 0 + x
  BY <1>4, <1>5
<1> HIDE DEF x
<1>11. Unsent(q) = Unsent(r) + x
  BY <1>7, <1>10
<1>12. (Ether(b, C) + b[s.from]) - (Unsent(r) + x) - Unmined(r) <= GasOf(C) + Gas(s)
  BY <1>7, <1>8, <1>9, <1>10
<1> QED BY <1>2, <1>3, <1>6, <1>11, <1>12 DEF Settled

LEMMA OneMoreSent ==
  ASSUME NEW S \in SUBSET Tx, IsFiniteSet(S), NEW tx \in Tx, tx \notin S
  PROVE  SumOf([y \in S \cup {tx} |-> y.amount]) = SumOf([y \in S |-> y.amount]) + tx.amount
<1> DEFINE f == [y \in S \cup {tx} |-> y.amount]
           g == [y \in S |-> y.amount]
<1>1. /\ f \in [S \cup {tx} -> Int] /\ g \in [S -> Int] /\ f[tx] = tx.amount
      /\ \A y \in S : f[y] = g[y]
  BY DEF Tx
<1> HIDE DEF f, g
<1>2. SumOf(f) = SumOf(g) + f[tx]
  BY <1>1, SumAdded
<1> QED BY <1>1, <1>2 DEF f, g

\* Amounts are sent.
LEMMA SendSettles ==
  ASSUME NEW hops, IsRoute(hops), NEW r \in Run, OnWork(hops, r), Busy(r), NEW w \in DOMAIN r.work,
         NEW b \in [Wallets -> Nat], Settled(hops, r, b), r.work[w].at # "balance",
         NEW job, job.at # "balance", SumOf(job.amounts) \in Int,
         NEW tx \in Tx, tx \notin r.sent, SumOf(r.work[w].amounts) = tx.amount + SumOf(job.amounts),
         NEW q, q.hop = r.hop, q.sent = r.sent \cup {tx}, q.work = [r.work EXCEPT ![w] = job]
  PROVE  Settled(hops, q, b)
<1>1. Counted(hops, q) = Counted(hops, r)
  BY CountedStays
<1>2. Unsent(q) = Unsent(r) - SumOf(r.work[w].amounts) + SumOf(job.amounts)
  BY UnsentChange
<1>3. /\ Ether(b, Counted(hops, r)) \in Int /\ GasOf(Counted(hops, r)) \in Int
      /\ Unsent(r) \in Int /\ Unmined(r) \in Int
  BY OwedIs
<1>4. Unmined(q) = Unmined(r) + tx.amount
  <2>1. r.sent \in SUBSET Tx /\ IsFiniteSet(r.sent)
    BY DEF Run, OnWork
  <2> QED BY <2>1, OneMoreSent DEF Unmined
<1> DEFINE x == SumOf(job.amounts)
           y == SumOf(r.work[w].amounts)
<1>5. x \in Int /\ tx.amount \in Int /\ y = tx.amount + x /\ Unsent(q) = Unsent(r) - y + x
  BY <1>2 DEF Tx
<1> HIDE DEF x, y
<1>6. Unsent(q) + Unmined(q) = Unsent(r) + Unmined(r) /\ Unsent(q) \in Int /\ Unmined(q) \in Int
  BY <1>3, <1>4, <1>5
<1>7. Ether(b, Counted(hops, r)) - Unsent(r) - Unmined(r) <= GasOf(Counted(hops, r))
  BY DEF Settled
<1>8. Ether(b, Counted(hops, r)) - Unsent(q) - Unmined(q) <= GasOf(Counted(hops, r))
  BY <1>3, <1>6, <1>7
<1> QED BY <1>1, <1>8 DEF Settled

\* A job goes on, owing the same.
LEMMA JobSettles ==
  ASSUME NEW hops, IsRoute(hops), NEW r \in Run, OnWork(hops, r), Busy(r), NEW w \in DOMAIN r.work,
         NEW b, Settled(hops, r, b), r.work[w].at # "balance",
         NEW job, job.at # "balance", job.amounts = r.work[w].amounts,
         NEW q, q.hop = r.hop, q.sent = r.sent, q.work = [r.work EXCEPT ![w] = job]
  PROVE  Settled(hops, q, b)
<1>1. Counted(hops, q) = Counted(hops, r)
  BY CountedStays
<1>2. Unsent(q) = Unsent(r)
  <2>1. DOMAIN q.work = DOMAIN r.work /\ \A v \in DOMAIN r.work : q.work[v].amounts = r.work[v].amounts
    OBVIOUS
  <2> QED BY <2>1 DEF Unsent
<1> QED BY <1>1, <1>2 DEF Settled, Unmined

\* The transfers of a hop are all mined.
LEMMA HopPassed ==
  ASSUME NEW hops, IsRoute(hops), NEW r \in Run, OnWork(hops, r), NEW b \in [Wallets -> Nat],
         Left(hops, r, b), r.pc = "confirm", r.sent = {}
  PROVE  \A k \in 1..r.hop : Ether(b, Behind(hops, k)) <= GasOf(Behind(hops, k))
<1>1. Busy(r) /\ ~r.failed /\ r.hop \in 1..Len(hops) /\ Len(hops) \in Nat
      /\ \A w \in DOMAIN r.work : r.work[w].at = "over" /\ r.work[w].amounts = <<>>
  BY LenProperties DEF Busy, OnWork, IsRoute
<1>2. Settled(hops, r, b)
  BY <1>1 DEF Left
<1>3. Counted(hops, r) = Behind(hops, r.hop)
  <2>1. Started(hops, r) = hops[r.hop]
    BY <1>1 DEF Started, OnWork, Senders
  <2>2. 1..r.hop = 1..(r.hop - 1) \cup {r.hop}
    BY <1>1
  <2> QED BY <2>1, <2>2 DEF Counted, Behind
<1>4. Unsent(r) = 0
  <2>1. [w \in DOMAIN r.work |-> SumOf(r.work[w].amounts)] = [w \in DOMAIN r.work |-> 0]
    BY <1>1, SumEmpty
  <2>2. IsFiniteSet(DOMAIN r.work)
    BY <1>1, WorkIs
  <2> QED BY <2>1, <2>2, SumZero DEF Unsent
<1>5. Unmined(r) = 0
  <2>1. [tx \in r.sent |-> tx.amount] = [tx \in {} |-> 0]
    OBVIOUS
  <2>2. IsFiniteSet({})
    BY FS_EmptySet
  <2> QED BY <2>1, <2>2, SumZero DEF Unmined
<1>6. Ether(b, Behind(hops, r.hop)) \in Int /\ GasOf(Behind(hops, r.hop)) \in Int
  BY <1>1, <1>3, OwedIs
<1>7. Ether(b, Behind(hops, r.hop)) <= GasOf(Behind(hops, r.hop))
  BY <1>2, <1>3, <1>4, <1>5, <1>6 DEF Settled
<1>8. ASSUME NEW k \in 1..r.hop PROVE k \in 1..(r.hop - 1) \/ k = r.hop
  BY <1>1
<1> QED BY <1>1, <1>7, <1>8 DEF Left

\* A hop begins.
LEMMA HopBegins ==
  ASSUME NEW hops, IsRoute(hops), NEW b \in [Wallets -> Nat], NEW r, r.hop \in 1..Len(hops),
         \A k \in 1..(r.hop - 1) : Ether(b, Behind(hops, k)) <= GasOf(Behind(hops, k)),
         r.work = [w \in Senders(hops[r.hop]) |-> ToRead], r.sent = {}
  PROVE  Settled(hops, r, b)
<1>1. Len(hops) \in Nat /\ r.hop \in Nat \ {0} /\ DOMAIN hops = 1..Len(hops)
      /\ IsFiniteSet(hops[r.hop]) /\ r.hop - 1 \in 0..Len(hops)
  BY LenProperties DEF IsRoute
<1>2. ToRead.at = "balance" /\ ToRead.amounts = <<>>
  BY DEF ToRead
<1>3. Started(hops, r) = {}
  BY <1>2 DEF Started, Senders
<1> DEFINE C == Behind(hops, r.hop - 1)
<1>4. Counted(hops, r) = C
  BY <1>3 DEF Counted
<1>5. Unsent(r) = 0
  <2>1. [w \in DOMAIN r.work |-> SumOf(r.work[w].amounts)] = [w \in Senders(hops[r.hop]) |-> 0]
    BY <1>2, SumEmpty
  <2>2. IsFiniteSet(Senders(hops[r.hop]))
    BY <1>1, SendersFinite
  <2> QED BY <2>1, <2>2, SumZero DEF Unsent
<1>6. Unmined(r) = 0
  <2>1. [tx \in r.sent |-> tx.amount] = [tx \in {} |-> 0]
    OBVIOUS
  <2>2. IsFiniteSet({})
    BY FS_EmptySet
  <2> QED BY <2>1, <2>2, SumZero DEF Unmined
<1>7. C \in SUBSET Specs /\ IsFiniteSet(C)
  BY <1>1, BehindIs
<1>8. Ether(b, C) \in Int /\ GasOf(C) \in Int
  BY <1>7, EtherIs
<1>9. Ether(b, C) <= GasOf(C)
  <2>1. CASE r.hop = 1
    <3>1. C = {}
      BY <2>1 DEF Behind
    <3>2. Ether(b, C) = 0 /\ GasOf(C) = 0
      <4>1. /\ [s \in C |-> b[s.from]] = [s \in {} |-> 0]
            /\ [s \in C |-> Gas(s)] = [s \in {} |-> 0]
        BY <3>1
      <4>2. IsFiniteSet({})
        BY FS_EmptySet
      <4> QED BY <4>1, <4>2, SumZero DEF Ether, GasOf
    <3> QED BY <3>2
  <2>2. CASE r.hop # 1
    <3>1. r.hop - 1 \in 1..(r.hop - 1)
      BY <1>1, <2>2
    <3> QED BY <3>1
  <2> QED BY <2>1, <2>2
<1> HIDE DEF C
<1>10. Ether(b, C) - 0 - 0 <= GasOf(C)
  BY <1>8, <1>9
<1> QED BY <1>4, <1>5, <1>6, <1>10 DEF Settled

\* A transfer is included.
LEMMA IncludeSettles ==
  ASSUME NEW hops, IsRoute(hops), NEW r \in Run, OnWork(hops, r), Busy(r),
         NEW b \in [Wallets -> Nat], NEW c \in [Wallets -> Nat], Settled(hops, r, b),
         NEW tx \in Tx, NEW s, Orders(hops, s, tx), Pays(b, c, tx),
         NEW q, q.hop = r.hop, q.work = r.work, q.sent = r.sent \ {tx}
  PROVE  Settled(hops, q, c)
<1> DEFINE C == Counted(hops, r)
<1>1. Counted(hops, q) = C /\ Unsent(q) = Unsent(r)
  BY DEF Counted, Started, Unsent
<1>2. OfRoute(hops, C) /\ Closed(hops, C)
  BY CountedIs DEF OnWork
<1>3. /\ Ether(b, C) \in Int /\ Ether(c, C) \in Int /\ GasOf(C) \in Int
      /\ Unsent(r) \in Int /\ Unmined(r) \in Int
  BY OwedIs
<1>4. Ether(b, C) - Unsent(r) - Unmined(r) <= GasOf(C)
  BY DEF Settled
<1> HIDE DEF C
<1>5. CASE tx \in r.sent
  <2>1. s \in C /\ \A u \in C : u.from # tx.to
    BY <1>5, SentOnward DEF C
  <2>2. Ether(c, C) <= Ether(b, C) - tx.amount
    BY <1>2, <2>1, EtherPaid
  <2>3. Unmined(r) = Unmined(q) + tx.amount
    <3> DEFINE S == r.sent \ {tx}
    <3>1. S \in SUBSET Tx /\ IsFiniteSet(S) /\ tx \notin S /\ S \cup {tx} = r.sent
      BY <1>5, FS_Subset DEF Run, OnWork
    <3>2. q.sent = S
      OBVIOUS
    <3> HIDE DEF S
    <3>3. SumOf([y \in S \cup {tx} |-> y.amount]) = SumOf([y \in S |-> y.amount]) + tx.amount
      BY <3>1, OneMoreSent
    <3> QED BY <3>1, <3>2, <3>3 DEF Unmined
  <2>4. Unmined(q) \in Int /\ tx.amount \in Int
    <3>1. IsFiniteSet(q.sent) /\ [y \in q.sent |-> y.amount] \in [q.sent -> Int]
      BY FS_Subset DEF OnWork, Run, Tx
    <3> DEFINE f == [y \in q.sent |-> y.amount]
               S == q.sent
    <3>2. IsFiniteSet(S) /\ f \in [S -> Int]
      BY <3>1
    <3> HIDE DEF f, S
    <3>3. SumOf(f) \in Int
      BY <3>2, SumIsInt
    <3> QED BY <3>3 DEF Unmined, Tx, f
  <2>5. Ether(c, C) - Unsent(r) - Unmined(q) <= GasOf(C)
    BY <1>3, <1>4, <2>2, <2>3, <2>4
  <2> QED BY <1>1, <2>5 DEF Settled
<1>6. CASE tx \notin r.sent
  <2>1. q.sent = r.sent
    BY <1>6
  <2>2. Ether(c, C) <= Ether(b, C)
    BY <1>2, EtherFalls
  <2>3. Ether(c, C) - Unsent(r) - Unmined(r) <= GasOf(C)
    BY <1>3, <1>4, <2>2
  <2> QED BY <1>1, <2>1, <2>3 DEF Settled, Unmined
<1> QED BY <1>5, <1>6

LEMMA IncludeLeft ==
  ASSUME NEW hops, IsRoute(hops), NEW r \in Run, OnWork(hops, r),
         NEW b \in [Wallets -> Nat], NEW c \in [Wallets -> Nat], Left(hops, r, b),
         NEW tx \in Tx, NEW s, Orders(hops, s, tx), Pays(b, c, tx),
         NEW q, q.pc = r.pc, q.hop = r.hop, q.work = r.work, q.failed = r.failed,
         q.sent = r.sent \ {tx}
  PROVE  OnWork(hops, q) /\ Left(hops, q, c)
<1>1. OnWork(hops, q)
  <2>1. IsFiniteSet(q.sent) /\ q.sent \subseteq r.sent /\ (Busy(q) <=> Busy(r))
    BY FS_Subset DEF OnWork, Busy
  <2> QED BY <2>1 DEF OnWork
<1>2. Busy(q) /\ ~q.failed => Settled(hops, q, c)
  <2> SUFFICES ASSUME Busy(q), ~q.failed PROVE Settled(hops, q, c)
    OBVIOUS
  <2>1. Busy(r) /\ Settled(hops, r, b)
    BY DEF Busy, Left
  <2> QED BY <2>1, IncludeSettles
<1>3. ASSUME q.pc # "none", NEW k \in 1..(q.hop - 1)
      PROVE  Ether(c, Behind(hops, k)) <= GasOf(Behind(hops, k))
  <2>1. k \in 0..Len(hops)
    <3>1. r.hop \in Nat /\ Len(hops) \in Nat /\ r.hop <= Len(hops) + 1
      <4>1. r.pc = "done" \/ Busy(r)
        BY <1>3 DEF Run, Busy
      <4> QED BY <4>1, LenProperties DEF Run, OnWork, IsRoute
    <3> QED BY <1>3, <3>1
  <2> DEFINE C == Behind(hops, k)
  <2>2. OfRoute(hops, C) /\ Closed(hops, C)
    BY <2>1, BehindIs, BehindClosed DEF OfRoute
  <2>3. Ether(b, C) <= GasOf(C)
    BY <1>3 DEF Left
  <2> HIDE DEF C
  <2>4. Ether(c, C) <= Ether(b, C)
    BY <2>2, EtherFalls
  <2>5. Ether(b, C) \in Int /\ Ether(c, C) \in Int /\ GasOf(C) \in Int
    BY <2>2, EtherIs DEF OfRoute
  <2>6. Ether(c, C) <= GasOf(C)
    BY <2>3, <2>4, <2>5
  <2> QED BY <2>6 DEF C
<1> QED BY <1>1, <1>2, <1>3 DEF Left

\* Nobody has more than before.
LEMMA LessEther ==
  ASSUME NEW C \in SUBSET Specs, IsFiniteSet(C),
         NEW b \in [Wallets -> Nat], NEW c \in [Wallets -> Nat], \A w \in Wallets : c[w] <= b[w]
  PROVE  Ether(c, C) <= Ether(b, C)
<1> DEFINE f == [u \in C |-> b[u.from]]
           g == [u \in C |-> c[u.from]]
<1>1. /\ f \in [C -> Int] /\ g \in [C -> Int]
      /\ Ether(b, C) = SumOf(f) /\ Ether(c, C) = SumOf(g)
  BY EtherIs DEF Ether
<1>2. \A u \in C : g[u] <= f[u]
  BY DEF Specs
<1> HIDE DEF f, g
<1> QED BY <1>1, <1>2, SumMonotone

LEMMA LessLeft ==
  ASSUME NEW hops, IsRoute(hops), NEW r \in Run, OnWork(hops, r),
         NEW b \in [Wallets -> Nat], NEW c \in [Wallets -> Nat], Left(hops, r, b),
         \A w \in Wallets : c[w] <= b[w]
  PROVE  Left(hops, r, c)
<1>1. ASSUME Busy(r), Settled(hops, r, b) PROVE Settled(hops, r, c)
  <2> DEFINE C == Counted(hops, r)
  <2>1. OfRoute(hops, C)
    BY <1>1, CountedIs DEF OnWork
  <2>2. /\ Ether(b, C) \in Int /\ Ether(c, C) \in Int /\ GasOf(C) \in Int
        /\ Unsent(r) \in Int /\ Unmined(r) \in Int
    BY <1>1, OwedIs
  <2>3. Ether(b, C) - Unsent(r) - Unmined(r) <= GasOf(C)
    BY <1>1 DEF Settled
  <2> HIDE DEF C
  <2>4. Ether(c, C) <= Ether(b, C)
    BY <2>1, LessEther DEF OfRoute
  <2>5. Ether(c, C) - Unsent(r) - Unmined(r) <= GasOf(C)
    BY <2>2, <2>3, <2>4
  <2> QED BY <2>5 DEF Settled, C
<1>2. ASSUME r.pc # "none", NEW k \in 1..(r.hop - 1)
      PROVE  Ether(c, Behind(hops, k)) <= GasOf(Behind(hops, k))
  <2>1. k \in 0..Len(hops)
    <3>1. r.hop \in Nat /\ Len(hops) \in Nat /\ r.hop <= Len(hops) + 1
      <4>1. r.pc = "done" \/ Busy(r)
        BY <1>2 DEF Run, Busy
      <4> QED BY <4>1, LenProperties DEF Run, OnWork, IsRoute
    <3> QED BY <1>2, <3>1
  <2> DEFINE C == Behind(hops, k)
  <2>2. C \in SUBSET Specs /\ IsFiniteSet(C)
    BY <2>1, BehindIs
  <2>3. Ether(b, C) <= GasOf(C)
    BY <1>2 DEF Left
  <2> HIDE DEF C
  <2>4. Ether(c, C) <= Ether(b, C)
    BY <2>2, LessEther
  <2>5. Ether(b, C) \in Int /\ Ether(c, C) \in Int /\ GasOf(C) \in Int
    BY <2>2, EtherIs
  <2>6. Ether(c, C) <= GasOf(C)
    BY <2>3, <2>4, <2>5
  <2> QED BY <2>6 DEF C
<1> QED BY <1>1, <1>2 DEF Left

\* A sender's job changes.
LEMMA JobOnWork ==
  ASSUME NEW hops, NEW r, OnWork(hops, r), r.pc = "hop", NEW w \in DOMAIN r.work, NEW job,
         job.at \in {"balance", "over"} => job.amounts = <<>>,
         NEW q, q.pc = "hop", q.hop = r.hop, q.work = [r.work EXCEPT ![w] = job], IsFiniteSet(q.sent),
         \A tx \in q.sent : tx \in r.sent \/ tx.from = w,
         \A tx \in q.sent : tx.from = w => /\ job.at \in {"send", "over"}
                                           /\ job.at = "send" => tx.nonce < job.nonce
  PROVE  OnWork(hops, q)
<1>1. /\ DOMAIN q.work = DOMAIN r.work
      /\ \A v \in DOMAIN r.work : q.work[v] = IF v = w THEN job ELSE r.work[v]
  OBVIOUS
<1>2. Busy(r)
  BY DEF Busy
<1>3. ASSUME NEW tx \in q.sent
      PROVE  /\ tx.from \in DOMAIN q.work /\ q.work[tx.from].at \in {"send", "over"}
             /\ q.work[tx.from].at = "send" => tx.nonce < q.work[tx.from].nonce
  <2>1. CASE tx.from = w
    BY <1>1, <2>1
  <2>2. CASE tx.from # w
    BY <1>1, <1>2, <2>2 DEF OnWork
  <2> QED BY <2>1, <2>2
<1>4. \A v \in DOMAIN q.work : q.work[v].at \in {"balance", "over"} => q.work[v].amounts = <<>>
  BY <1>1, <1>2 DEF OnWork
<1>5. r.hop \in 1..Len(hops) /\ DOMAIN r.work = Senders(hops[r.hop])
  BY <1>2 DEF OnWork
<1> QED BY <1>1, <1>3, <1>4, <1>5 DEF OnWork

\* A run that goes on in its hop.
LEMMA LeftStays ==
  ASSUME NEW hops, NEW r, NEW b, Left(hops, r, b), r.pc # "none",
         NEW q, q.hop = r.hop, Busy(q) /\ ~q.failed => Settled(hops, q, b)
  PROVE  Left(hops, q, b)
BY DEF Left

LEMMA SplitsSum ==
  ASSUME NEW total \in Nat, NEW n \in Nat \ {0}, NEW parts \in Splits(total, n)
  PROVE  SumOf(parts) = total
<1> DEFINE least == (total * 850) \div (850 + 1150 * (n - 1))
           most == (total * 1150) \div (1150 + 850 * (n - 1))
<1>1. PICK ps \in [1..(n - 1) -> least..most] : parts = Append(ps, Rest(total, ps))
  BY DEF Splits
<1> HIDE DEF least, most
<1> DEFINE m == n - 1
<1>2. m \in Nat /\ ps \in [1..m -> Int]
  BY <1>1
<1> HIDE DEF m
<1>3. ps \in Seq(Int)
  BY <1>2, SeqDef
<1>4. SumOf(ps) \in Int
  BY <1>3, SumSeqIsInt
<1> DEFINE x == Rest(total, ps)
<1>5. x \in Int /\ SumOf(ps) + x = total
  BY <1>4 DEF Rest
<1> HIDE DEF x
<1>6. SumOf(Append(ps, x)) = SumOf(ps) + x
  BY <1>3, <1>5, SumAppend
<1> QED BY <1>1, <1>5, <1>6 DEF x

-----------------------------------------------------------------------------
(* The invariant.  Tasks share the relays and the cold wallets, and sweep   *)
(* each other's ether: what follows is about a task that has them alone.    *)

Alone(t) == Tasks = {t}

\* Before the task is created, nothing is sent.
NotYet(t) == kind[t] = None => pool = {}

\* Nothing is in the pool but transfers of the route.
Ordered(t) == \A tx \in pool : \E s : Orders(Hops(t), s, tx)

RunLeft(t) == OnWork(Hops(t), run[t]) /\ Left(Hops(t), run[t], bal)

Remains == \A t \in Tasks : NotYet(t) /\ Ordered(t) /\ RunLeft(t)

Full == Inv /\ Remains

LEMMA RemainsMeans == Full => NothingLeftBehind
<1> SUFFICES ASSUME Full, NEW t \in Tasks, run[t].pc # "none", NEW k \in 1..(run[t].hop - 1)
             PROVE  Ether(bal, Behind(Hops(t), k)) <= GasOf(Behind(Hops(t), k))
  BY PassedIs DEF NothingLeftBehind, Ether, GasOf, Gas
<1> QED BY DEF Full, Remains, RunLeft, Left

LEMMA FullTypes ==
  ASSUME Full, NEW t \in Tasks
  PROVE  /\ bal \in [Wallets -> Nat] /\ run \in [Tasks -> Run] /\ run[t] \in Run
         /\ pool \subseteq Tx /\ OnRoute(Hops(t), run[t]) /\ kind \in [Tasks -> Kinds \cup {None}]
         /\ IsRoute(Hops(t)) /\ OnWork(Hops(t), run[t]) /\ Left(Hops(t), run[t], bal)
         /\ NotYet(t) /\ Ordered(t) /\ RunsOK
BY HopsAreRoute DEF Full, Inv, Typed, ChainOK, StoreOK, CallsOK, RunsOK, Remains, RunLeft

LEMMA OneRemains ==
  ASSUME NEW t \in Tasks, Alone(t), NotYet(t)', Ordered(t)', RunLeft(t)'
  PROVE  Remains'
BY DEF Remains, Alone

\* Steps of a task that exists.
LEMMA MadeRemains ==
  ASSUME Full, NEW t \in Tasks, Alone(t), kind[t] # None, UNCHANGED kind,
         Ordered(t)', OnWork(Hops(t), run'[t]), Left(Hops(t), run'[t], bal')
  PROVE  Remains'
<1>1. Hops(t)' = Hops(t)
  BY HopsStay
<1>2. RunLeft(t)'
  BY <1>1 DEF RunLeft
<1>3. NotYet(t)'
  BY DEF NotYet
<1> QED BY <1>2, <1>3, OneRemains

LEMMA OrderedStays ==
  ASSUME NEW t \in Tasks, Ordered(t), UNCHANGED kind, pool' \subseteq pool
  PROVE  Ordered(t)'
BY HopsStay DEF Ordered

LEMMA QuietRemains ==
  ASSUME Full, NEW t \in Tasks, Alone(t), UNCHANGED <<bal, pool, kind, run>>
  PROVE  Remains'
<1>1. Hops(t)' = Hops(t)
  BY HopsStay
<1>2. NotYet(t)' /\ Ordered(t)' /\ RunLeft(t)'
  BY <1>1, FullTypes DEF NotYet, Ordered, RunLeft
<1> QED BY <1>2, OneRemains

LEMMA NoRunLeft ==
  ASSUME NEW hops, NEW b
  PROVE  OnWork(hops, NoRun) /\ Left(hops, NoRun, b)
BY NoRunIs, FS_EmptySet DEF OnWork, Left, Busy

\* The calls and the saves leave the chain and the runs alone.
LEMMA CallRemains ==
  ASSUME Full, NEW t \in Tasks, Alone(t),
         \/ StartRead(t) \/ StartRefused(t) \/ StartReserve(t) \/ StopFundingTask(t) \/ DeleteCheck(t)
         \/ \E ok : DeleteFundingTask(t, ok) \/ \E state : RunSave(t, state, ok)
  PROVE  Remains'
<1>1. UNCHANGED <<bal, pool, kind, run>>
  BY DEF StartRead, StartRefused, StartReserve, StopFundingTask, DeleteCheck, DeleteFundingTask,
         RunSave, chainVars
<1> QED BY <1>1, QuietRemains

\* The run ends, or was none.
LEMMA EndRemains ==
  ASSUME Full, NEW t \in Tasks, Alone(t), kind[t] # None, UNCHANGED <<pool, kind>>, run'[t] = NoRun
  PROVE  Remains'
<1>1. Ordered(t)'
  BY FullTypes, OrderedStays
<1> QED BY <1>1, NoRunLeft, MadeRemains

LEMMA EndedRemains ==
  ASSUME Full, NEW t \in Tasks, Alone(t), run[t].pc # "none", UNCHANGED <<pool, kind>>,
         run' = [run EXCEPT ![t] = NoRun]
  PROVE  Remains'
<1>1. kind[t] # None /\ run'[t] = NoRun
  BY Made, FullTypes DEF Full
<1> QED BY <1>1, EndRemains

LEMMA CrashRemains ==
  ASSUME Full, NEW t \in Tasks, Alone(t), Crash
  PROVE  Remains'
<1>1. UNCHANGED <<bal, pool, kind>> /\ run'[t] = NoRun
  BY DEF Crash, chainVars
<1>2. NotYet(t)' /\ Ordered(t)'
  BY <1>1, FullTypes, OrderedStays DEF NotYet
<1>3. RunLeft(t)'
  BY <1>1, NoRunLeft DEF RunLeft
<1> QED BY <1>2, <1>3, OneRemains

LEMMA CreateRemains ==
  ASSUME Full, NEW t \in Tasks, Alone(t), NEW k \in Kinds, NEW ok, CreateFundingTask(t, k, ok)
  PROVE  Remains'
<1>1. kind[t] = None /\ kind' = [kind EXCEPT ![t] = k] /\ UNCHANGED <<pool, run>>
  BY DEF CreateFundingTask
<1>2. kind'[t] = k /\ k # None /\ pool = {}
  BY <1>1, FullTypes, ConstantsAssumption DEF NotYet
<1>3. run[t].pc = "none"
  BY <1>1, TidyTypes DEF Full, TidyTask, Unmade
<1>4. NotYet(t)'
  BY <1>2 DEF NotYet
<1>5. Ordered(t)'
  BY <1>1, <1>2 DEF Ordered
<1>6. RunLeft(t)'
  <2>1. OnWork(Hops(t)', run[t])
    BY <1>3, FullTypes DEF OnWork, Busy
  <2>2. Left(Hops(t)', run[t], bal')
    BY <1>3 DEF Left
  <2> QED BY <1>1, <2>1, <2>2 DEF RunLeft
<1> QED BY <1>4, <1>5, <1>6, OneRemains

LEMMA DropRemains ==
  ASSUME Full, NEW t \in Tasks, Alone(t), NEW tx, Drop(tx)
  PROVE  Remains'
<1>1. UNCHANGED <<bal, kind, run>> /\ pool' \subseteq pool
  BY DEF Drop
<1>2. NotYet(t)' /\ Ordered(t)'
  BY <1>1, FullTypes, OrderedStays DEF NotYet
<1>3. Hops(t)' = Hops(t)
  BY <1>1, HopsStay
<1>4. RunLeft(t)'
  BY <1>1, <1>3, FullTypes DEF RunLeft
<1> QED BY <1>2, <1>4, OneRemains

\* A transfer that is refused takes ether from its sender and gives none.
LEMMA RefusedRemains ==
  ASSUME Full, NEW t \in Tasks, Alone(t), NEW tx, Refused(tx)
  PROVE  Remains'
<1>1. UNCHANGED <<kind, run>> /\ pool' \subseteq pool
  BY DEF Refused
<1>2. bal' \in [Wallets -> Nat] /\ \A w \in Wallets : bal'[w] <= bal[w]
  BY RefusedTyped DEF Full, Inv, Typed, ChainOK
<1>3. NotYet(t)' /\ Ordered(t)'
  BY <1>1, FullTypes, OrderedStays DEF NotYet
<1>4. Hops(t)' = Hops(t)
  BY <1>1, HopsStay
<1>5. Left(Hops(t), run[t], bal')
  <2>1. /\ IsRoute(Hops(t)) /\ run[t] \in Run /\ OnWork(Hops(t), run[t])
        /\ Left(Hops(t), run[t], bal) /\ bal \in [Wallets -> Nat]
    BY FullTypes
  <2> QED BY <1>2, <2>1, LessLeft
<1>6. RunLeft(t)'
  BY <1>1, <1>4, <1>5, FullTypes DEF RunLeft
<1> QED BY <1>3, <1>6, OneRemains

LEMMA IncludeRemains ==
  ASSUME Full, NEW t \in Tasks, Alone(t), NEW tx, Include(tx)
  PROVE  Remains'
<1>1. /\ tx \in pool /\ pool' \subseteq pool /\ UNCHANGED kind
      /\ run'[t] = [run[t] EXCEPT !.sent = @ \ {tx}]
  BY DEF Include, Includable
<1>2. tx \in Tx /\ tx.from \in Wallets /\ tx.to \in Wallets /\ tx.amount \in Nat
  BY <1>1, FullTypes DEF Tx
<1>3. PICK s : Orders(Hops(t), s, tx)
  BY <1>1, FullTypes DEF Ordered
<1>4. bal' \in [Wallets -> Nat]
  BY IncludeTyped DEF Full, Inv, Typed, ChainOK
<1>5. Pays(bal, bal', tx)
  <2>1. \A w \in Wallets :
          bal'[w] = bal[w] - (IF w = tx.from THEN tx.amount + Cost ELSE 0)
                           + (IF w = tx.to THEN tx.amount ELSE 0)
    BY DEF Include
  <2>2. \A w \in Wallets : bal[w] \in Nat
    BY FullTypes
  <2>3. Cost \in Nat
    BY ConstantsAssumption
  <2>4. \A w \in Wallets : w # tx.from /\ w # tx.to => bal'[w] = bal[w]
    BY <2>1, <2>2
  <2>5. ASSUME tx.from # tx.to
        PROVE  /\ bal'[tx.from] = bal[tx.from] - tx.amount - Cost
               /\ bal'[tx.to] = bal[tx.to] + tx.amount
    BY <1>2, <2>1, <2>2, <2>3, <2>5
  <2> QED BY <2>4, <2>5 DEF Pays
<1>6. kind[t] # None
  BY <1>1, FullTypes DEF NotYet
<1> DEFINE r == run[t]
           q == run'[t]
<1>7. /\ q.pc = r.pc /\ q.hop = r.hop /\ q.work = r.work /\ q.failed = r.failed
      /\ q.sent = r.sent \ {tx}
  BY <1>1, FullTypes DEF Run
<1>8. OnWork(Hops(t), q) /\ Left(Hops(t), q, bal')
  <2>1. /\ r \in Run /\ IsRoute(Hops(t)) /\ OnWork(Hops(t), r) /\ Left(Hops(t), r, bal)
        /\ bal \in [Wallets -> Nat]
    BY FullTypes
  <2> HIDE DEF r, q
  <2> QED BY <1>2, <1>3, <1>4, <1>5, <1>7, <2>1, IncludeLeft
<1>9. Ordered(t)'
  BY <1>1, FullTypes, OrderedStays
<1> QED BY <1>1, <1>6, <1>8, <1>9, MadeRemains

LEMMA RunDoneRemains ==
  ASSUME Full, NEW t \in Tasks, Alone(t), RunDone(t) \/ ConfirmFails(t)
  PROVE  Remains'
<1>1. /\ run[t].pc # "none" /\ UNCHANGED <<pool, kind>> /\ run' = [run EXCEPT ![t] = NoRun]
  BY DEF RunDone, ConfirmFails, Ended, End, chainVars
<1> QED BY <1>1, EndedRemains

LEMMA StartSaveRemains ==
  ASSUME Full, NEW t \in Tasks, Alone(t), NEW ok \in BOOLEAN, StartSave(t, ok)
  PROVE  Remains'
<1>1. call[t].save /\ UNCHANGED <<bal, pool, kind>>
  BY DEF StartSave, chainVars
<1>2. kind[t] # None
  BY <1>1, Made DEF Full
<1>3. CASE ok
  <2> DEFINE q == Hop(t, 1)
             hops == Hops(t)
  <2>1. run'[t] = q
    BY <1>3, FullTypes DEF StartSave
  <2>2. 1 \in 1..Len(hops)
    BY HopsAre
  <2>3. /\ q.pc = "hop" /\ q.hop = 1 /\ q.sent = {} /\ q.work = [w \in Senders(hops[1]) |-> ToRead]
        /\ ~q.failed
    BY DEF Hop, NoRun
  <2>4. OnWork(hops, q)
    <3>1. ToRead.at = "balance" /\ ToRead.amounts = <<>>
      BY DEF ToRead
    <3>2. \A w \in DOMAIN q.work : q.work[w] = ToRead
      BY <2>3
    <3> HIDE DEF q, hops
    <3> QED BY <2>2, <2>3, <3>1, <3>2, FS_EmptySet DEF OnWork, Busy
  <2>5. Left(hops, q, bal)
    <3>1. IsRoute(hops) /\ bal \in [Wallets -> Nat]
      BY FullTypes
    <3>2. \A k \in 1..(q.hop - 1) : FALSE
      BY <2>3
    <3> HIDE DEF q, hops
    <3>3. Settled(hops, q, bal)
      BY <2>2, <2>3, <3>1, <3>2, HopBegins
    <3> QED BY <3>2, <3>3 DEF Left
  <2>6. Ordered(t)'
    BY <1>1, FullTypes, OrderedStays
  <2> HIDE DEF q
  <2>7. OnWork(Hops(t), run'[t]) /\ Left(Hops(t), run'[t], bal')
    BY <1>1, <2>1, <2>4, <2>5
  <2> QED BY <1>1, <1>2, <2>6, <2>7, MadeRemains
<1>4. CASE ~ok
  <2>1. UNCHANGED run
    BY <1>4 DEF StartSave
  <2> QED BY <1>1, <2>1, QuietRemains
<1> QED BY <1>3, <1>4

LEMMA HopSentRemains ==
  ASSUME Full, NEW t \in Tasks, Alone(t), HopSent(t)
  PROVE  Remains'
<1>1. run[t].pc = "hop" /\ AllOver(t) /\ UNCHANGED <<bal, pool, kind>>
  BY DEF HopSent, chainVars
<1>2. CASE run[t].failed
  <2>1. run' = [run EXCEPT ![t] = NoRun]
    BY <1>2 DEF HopSent, Ended, End
  <2> QED BY <1>1, <2>1, EndedRemains
<1>3. CASE ~run[t].failed
  <2> DEFINE r == run[t]
             q == run'[t]
             hops == Hops(t)
  <2>1. q = [r EXCEPT !.pc = "confirm"]
    BY <1>3, FullTypes DEF HopSent
  <2>2. q.pc = "confirm" /\ q.hop = r.hop /\ q.work = r.work /\ q.sent = r.sent /\ q.failed = r.failed
    BY <2>1, FullTypes DEF Run
  <2>3. r.pc = "hop" /\ ~r.failed /\ OnWork(hops, r) /\ Left(hops, r, bal)
        /\ \A w \in DOMAIN r.work : r.work[w].at = "over"
    BY <1>1, <1>3, FullTypes DEF AllOver
  <2> HIDE DEF r, q, hops
  <2>4. OnWork(hops, q)
    BY <2>2, <2>3 DEF OnWork, Busy
  <2>5. Settled(hops, q, bal)
    <3>1. Settled(hops, r, bal)
      BY <2>3 DEF Left, Busy
    <3> QED BY <2>2, <3>1 DEF Settled, Counted, Started, Unsent, Unmined
  <2>6. Left(hops, q, bal)
    BY <2>2, <2>3, <2>5, LeftStays
  <2>7. OnWork(Hops(t), run'[t]) /\ Left(Hops(t), run'[t], bal')
    BY <1>1, <2>4, <2>6 DEF q, hops
  <2>8. kind[t] # None /\ Ordered(t)'
    BY <1>1, Made, FullTypes, OrderedStays DEF Full
  <2> QED BY <1>1, <2>7, <2>8, MadeRemains
<1> QED BY <1>2, <1>3

LEMMA HopConfirmedRemains ==
  ASSUME Full, NEW t \in Tasks, Alone(t), NEW ok, HopConfirmed(t, ok)
  PROVE  Remains'
<1> DEFINE r == run[t]
           q == run'[t]
           hops == Hops(t)
<1>1. r.pc = "confirm" /\ r.sent = {} /\ UNCHANGED <<bal, pool, kind>>
  BY DEF HopConfirmed, chainVars
<1>2. /\ IsRoute(hops) /\ r \in Run /\ OnWork(hops, r) /\ Left(hops, r, bal)
      /\ bal \in [Wallets -> Nat] /\ r.hop \in 1..Len(hops) /\ Len(hops) \in Nat
  BY <1>1, FullTypes, HopsAre DEF OnRoute
<1>3. q = IF r.hop < Len(hops) THEN Hop(t, r.hop + 1)
          ELSE [NoRun EXCEPT !.pc = "done", !.hop = r.hop + 1]
  BY FullTypes DEF HopConfirmed
<1>4. kind[t] # None /\ Ordered(t)'
  BY <1>1, Made, FullTypes, OrderedStays DEF Full
<1>5. \A k \in 1..r.hop : Ether(bal, Behind(hops, k)) <= GasOf(Behind(hops, k))
  <2> HIDE DEF r, q, hops
  <2> QED BY <1>1, <1>2, HopPassed
<1>6. q.hop = r.hop + 1 /\ q.hop - 1 = r.hop /\ q.sent = {} /\ ~q.failed
  BY <1>2, <1>3 DEF Hop, NoRun
<1>7. OnWork(hops, q) /\ Left(hops, q, bal)
  <2>1. CASE r.hop < Len(hops)
    <3>1. /\ q.pc = "hop" /\ q.hop \in 1..Len(hops)
          /\ q.work = [w \in Senders(hops[q.hop]) |-> ToRead]
      BY <1>2, <1>3, <2>1 DEF Hop, NoRun
    <3>2. ToRead.at = "balance" /\ ToRead.amounts = <<>>
      BY DEF ToRead
    <3>3. \A w \in DOMAIN q.work : q.work[w] = ToRead
      BY <3>1
    <3> HIDE DEF q, r, hops
    <3>4. OnWork(hops, q)
      BY <1>6, <3>1, <3>2, <3>3, FS_EmptySet DEF OnWork, Busy
    <3>5. \A k \in 1..(q.hop - 1) : Ether(bal, Behind(hops, k)) <= GasOf(Behind(hops, k))
      BY <1>5, <1>6
    <3>6. Settled(hops, q, bal)
      BY <1>2, <1>6, <3>1, <3>5, HopBegins
    <3> QED BY <3>4, <3>5, <3>6 DEF Left
  <2>2. CASE ~(r.hop < Len(hops))
    <3>1. q.pc = "done" /\ r.hop = Len(hops)
      BY <1>2, <1>3, <2>2 DEF NoRun
    <3> HIDE DEF q, r, hops
    <3>2. OnWork(hops, q)
      BY <1>6, <3>1, FS_EmptySet DEF OnWork, Busy
    <3>3. Left(hops, q, bal)
      BY <1>5, <1>6, <3>1 DEF Left, Busy
    <3> QED BY <3>2, <3>3
  <2> QED BY <2>1, <2>2
<1> QED BY <1>1, <1>4, <1>7, MadeRemains

-----------------------------------------------------------------------------
(* The steps of a sender's goroutine.                                      *)

LEMMA WorkFields ==
  ASSUME RunsOK, NEW t \in Tasks, NEW w, NEW job, Work(t, w, job)
  PROVE  /\ run'[t].pc = run[t].pc /\ run'[t].hop = run[t].hop /\ run'[t].sent = run[t].sent
         /\ run'[t].failed = run[t].failed /\ run'[t].work = [run[t].work EXCEPT ![w] = job]
<1>1. run[t] \in Run /\ run'[t] = [run[t] EXCEPT !.work = [run[t].work EXCEPT ![w] = job]]
  BY DEF RunsOK, Work
<1> QED BY <1>1 DEF Run

LEMMA FailFields ==
  ASSUME RunsOK, NEW t \in Tasks, NEW w, Fail(t, w)
  PROVE  /\ run'[t].pc = run[t].pc /\ run'[t].hop = run[t].hop /\ run'[t].sent = run[t].sent
         /\ run'[t].failed /\ run'[t].work = [run[t].work EXCEPT ![w] = Over]
<1>1. run[t] \in Run
      /\ run'[t] = [run[t] EXCEPT !.work = [run[t].work EXCEPT ![w] = Over], !.failed = TRUE]
  BY DEF RunsOK, Fail
<1> QED BY <1>1 DEF Run

LEMMA WorkerRemains ==
  ASSUME Full, NEW t \in Tasks, Alone(t), run[t].pc = "hop", UNCHANGED <<bal, kind>>, Ordered(t)',
         run'[t].pc = "hop", run'[t].hop = run[t].hop, OnWork(Hops(t), run'[t]),
         ~run'[t].failed => ~run[t].failed /\ (Settled(Hops(t), run[t], bal) => Settled(Hops(t), run'[t], bal))
  PROVE  Remains'
<1>1. kind[t] # None
  BY Made DEF Full
<1> DEFINE r == run[t]
           q == run'[t]
           hops == Hops(t)
<1>2. Left(hops, r, bal)
  BY FullTypes
<1>3. Left(hops, q, bal)
  <2>1. Busy(q) /\ ~q.failed => Settled(hops, q, bal)
    BY <1>2 DEF Left, Busy
  <2>2. r.pc # "none" /\ q.hop = r.hop
    OBVIOUS
  <2> HIDE DEF r, q, hops
  <2> QED BY <1>2, <2>1, <2>2, LeftStays
<1> QED BY <1>1, <1>3, MadeRemains

LEMMA FailRemains ==
  ASSUME Full, NEW t \in Tasks, Alone(t), NEW w \in DOMAIN run[t].work, run[t].pc = "hop",
         Fail(t, w), UNCHANGED <<bal, kind>>, Ordered(t)'
  PROVE  Remains'
<1> DEFINE r == run[t]
           q == run'[t]
           hops == Hops(t)
<1>1. /\ q.pc = r.pc /\ q.hop = r.hop /\ q.sent = r.sent /\ q.failed
      /\ q.work = [r.work EXCEPT ![w] = Over]
  BY FailFields, FullTypes
<1>2. OnWork(hops, q)
  <2>1. Over.at = "over" /\ Over.amounts = <<>>
    BY DEF Over, ToRead
  <2>2. OnWork(hops, r) /\ IsFiniteSet(r.sent) /\ r.pc = "hop" /\ w \in DOMAIN r.work
    BY FullTypes DEF OnWork
  <2> DEFINE job == Over
  <2>3. job.at = "over" /\ job.amounts = <<>> /\ q.work = [r.work EXCEPT ![w] = job]
    BY <1>1, <2>1
  <2> HIDE DEF r, q, hops, job
  <2> QED BY <1>1, <2>2, <2>3, JobOnWork
<1> QED BY <1>1, <1>2, WorkerRemains

LEMMA ReadNonceRemains ==
  ASSUME Full, NEW t \in Tasks, Alone(t), NEW w, ReadNonce(t, w)
  PROVE  Remains'
<1> DEFINE r == run[t]
           q == run'[t]
           hops == Hops(t)
           job == [r.work[w] EXCEPT !.at = "send", !.nonce = PendingNonce(w)]
<1>1. /\ r.pc = "hop" /\ w \in DOMAIN r.work /\ r.work[w].at = "nonce"
      /\ Work(t, w, job) /\ UNCHANGED <<bal, pool, kind>>
  BY DEF ReadNonce, Working, chainVars, UnchangedByRun
<1>2. /\ q.pc = "hop" /\ q.hop = r.hop /\ q.sent = r.sent /\ q.failed = r.failed
      /\ q.work = [r.work EXCEPT ![w] = job]
  BY <1>1, WorkFields, FullTypes
<1>3. r \in Run /\ OnWork(hops, r) /\ IsRoute(hops) /\ IsFiniteSet(r.sent) /\ Busy(r)
  BY <1>1, FullTypes DEF OnWork, Busy
<1>4. job.at = "send" /\ job.amounts = r.work[w].amounts
  <2>1. r.work[w] \in Job
    BY <1>1, <1>3, WorkOf
  <2> QED BY <2>1 DEF Job
<1>5. \A tx \in r.sent : tx.from # w
  BY <1>1, <1>3 DEF OnWork
<1> HIDE DEF job
<1>6. OnWork(hops, q)
  <2> HIDE DEF r, q, hops
  <2> QED BY <1>1, <1>2, <1>3, <1>4, <1>5, JobOnWork
<1>7. Settled(hops, r, bal) => Settled(hops, q, bal)
  <2> HIDE DEF r, q, hops
  <2> QED BY <1>1, <1>2, <1>3, <1>4, JobSettles
<1>8. Ordered(t)'
  BY <1>1, FullTypes, OrderedStays
<1> QED BY <1>1, <1>2, <1>6, <1>7, <1>8, WorkerRemains

LEMMA RecipientsIs ==
  ASSUME NEW hop, NEW w \in Senders(hop)
  PROVE  \E s \in hop : s.from = w /\ Recipients(hop, w) = s.to
<1> DEFINE s == CHOOSE s \in hop : s.from = w
<1>1. s \in hop /\ s.from = w
  BY DEF Senders
<1> QED BY <1>1 DEF Recipients

LEMMA ReadBalanceRemains ==
  ASSUME Full, NEW t \in Tasks, Alone(t), NEW w, ReadBalance(t, w)
  PROVE  Remains'
<1> DEFINE r == run[t]
           q == run'[t]
           hops == Hops(t)
           n == Len(Recipients(hops[r.hop], w))
           spendable == bal[w] - n * Reserve
<1>1. r.pc = "hop" /\ w \in DOMAIN r.work /\ r.work[w].at = "balance" /\ UNCHANGED <<bal, pool, kind>>
  BY DEF ReadBalance, Working, chainVars, UnchangedByRun
<1>2. /\ r \in Run /\ OnWork(hops, r) /\ IsRoute(hops) /\ IsFiniteSet(r.sent) /\ Busy(r)
      /\ bal \in [Wallets -> Nat]
  BY <1>1, FullTypes DEF OnWork, Busy
<1>3. PICK s \in hops[r.hop] : s.from = w /\ Gas(s) = n * Reserve
  <2>1. PICK s \in hops[r.hop] : s.from = w /\ Recipients(hops[r.hop], w) = s.to
    BY <1>1, <1>2, RecipientsIs DEF OnWork
  <2> QED BY <2>1 DEF Gas
<1>4. n \in Nat \ {0} /\ n * Reserve \in Nat /\ bal[w] \in Nat
  <2>1. n \in Nat \ {0} /\ w \in Wallets
    BY <1>1, FullTypes, RecipientsOf
  <2>2. Reserve \in Nat /\ \A x, y \in Nat : x * y \in Nat
    BY ConstantsAssumption
  <2> QED BY <1>2, <2>1, <2>2
<1>5. PICK job : /\ Work(t, w, job) /\ job.at \in {"nonce", "over"}
                 /\ job.at = "over" => job.amounts = <<>>
                 /\ SumOf(job.amounts) \in Int /\ bal[w] <= SumOf(job.amounts) + Gas(s)
  <2>1. CASE spendable <= 0
    <3>1. Work(t, w, Over)
      BY <2>1 DEF ReadBalance
    <3>2. Over.at = "over" /\ Over.amounts = <<>>
      BY DEF Over, ToRead
    <3>3. SumOf(Over.amounts) = 0
      BY <3>2, SumEmpty
    <3>4. bal[w] <= 0 + Gas(s)
      BY <1>3, <1>4, <2>1
    <3> QED BY <3>1, <3>2, <3>3, <3>4
  <2>2. CASE ~(spendable <= 0)
    <3>1. PICK amounts \in Splits(spendable, n) : Work(t, w, [at |-> "nonce", amounts |-> amounts, nonce |-> 0])
      BY <2>2 DEF ReadBalance
    <3>2. spendable \in Nat /\ bal[w] = spendable + Gas(s)
      BY <1>3, <1>4, <2>2
    <3> HIDE DEF spendable, n
    <3>3. SumOf(amounts) = spendable
      BY <1>4, <3>1, <3>2, SplitsSum
    <3>4. SumOf(amounts) \in Int /\ bal[w] <= SumOf(amounts) + Gas(s)
      <4>1. bal[w] <= spendable + Gas(s) /\ spendable \in Int
        BY <1>4, <3>2
      <4> QED BY <3>3, <4>1
    <3> DEFINE next == [at |-> "nonce", amounts |-> amounts, nonce |-> 0]
    <3>5. next.at = "nonce" /\ next.amounts = amounts /\ Work(t, w, next)
      BY <3>1
    <3> HIDE DEF next
    <3>6. /\ Work(t, w, next) /\ next.at \in {"nonce", "over"}
          /\ next.at = "over" => next.amounts = <<>>
          /\ SumOf(next.amounts) \in Int /\ bal[w] <= SumOf(next.amounts) + Gas(s)
      BY <3>4, <3>5
    <3> QED BY <3>6
  <2> QED BY <2>1, <2>2
<1> HIDE DEF n, spendable
<1>6. /\ q.pc = "hop" /\ q.hop = r.hop /\ q.sent = r.sent /\ q.failed = r.failed
      /\ q.work = [r.work EXCEPT ![w] = job]
  BY <1>1, <1>5, WorkFields, FullTypes
<1>7. \A tx \in r.sent : tx.from # w
  BY <1>1, <1>2 DEF OnWork
<1>8. OnWork(hops, q)
  <2>1. job.at \in {"balance", "over"} => job.amounts = <<>>
    BY <1>5
  <2> HIDE DEF r, q, hops
  <2> QED BY <1>1, <1>2, <1>6, <1>7, <2>1, JobOnWork
<1>9. Settled(hops, r, bal) => Settled(hops, q, bal)
  <2>1. job.at # "balance"
    BY <1>5
  <2> HIDE DEF r, q, hops
  <2> QED BY <1>1, <1>2, <1>3, <1>5, <1>6, <2>1, ReadSettles
<1>10. Ordered(t)'
  BY <1>1, FullTypes, OrderedStays
<1> QED BY <1>1, <1>6, <1>8, <1>9, <1>10, WorkerRemains

\* What a sender sends is its order's, and the first of the amounts it has left.
LEMMA TransferIs ==
  ASSUME Full, NEW t \in Tasks, NEW w \in DOMAIN run[t].work, run[t].pc = "hop",
         run[t].work[w].at = "send"
  PROVE  /\ Transfer(t, w) \in Tx /\ Transfer(t, w).from = w
         /\ Transfer(t, w).nonce = run[t].work[w].nonce
         /\ Transfer(t, w).amount = Head(run[t].work[w].amounts)
         /\ Len(run[t].work[w].amounts) \in Nat \ {0}
         /\ \E s : Orders(Hops(t), s, Transfer(t, w))
<1> DEFINE job == run[t].work[w]
           hop == Hops(t)[run[t].hop]
           to == Recipients(hop, w)
           i == Len(to) - Len(job.amounts) + 1
           tx == Transfer(t, w)
<1>1. tx \in Tx
  BY FullTypes, TransferIn
<1>2. tx.from = w /\ tx.to = to[i] /\ tx.nonce = job.nonce /\ tx.amount = Head(job.amounts)
  BY DEF Transfer
<1>3. OnRoute(Hops(t), run[t])
  BY FullTypes
<1>4. Len(job.amounts) \in 1..Len(to) /\ to \in Seq(Wallets) /\ Len(to) \in Nat \ {0}
      /\ w \in Senders(hop)
  BY <1>3, RecipientsOf DEF OnRoute
<1>5. PICK s \in hop : s.from = w /\ to = s.to
  BY <1>4, RecipientsIs
<1>6. run[t].hop \in DOMAIN Hops(t)
  BY FullTypes, LenProperties DEF OnRoute, IsRoute
<1> HIDE DEF tx, to, job
<1>7. i \in DOMAIN to
  <2>1. DOMAIN to = 1..Len(to)
    BY <1>4, LenProperties
  <2>2. i \in 1..Len(to)
    BY <1>4
  <2> QED BY <2>1, <2>2
<1> HIDE DEF i
<1>8. Orders(Hops(t), s, tx)
  BY <1>2, <1>5, <1>6, <1>7 DEF Orders
<1>9. Len(job.amounts) \in Nat \ {0}
  BY <1>4
<1> QED BY <1>1, <1>2, <1>8, <1>9 DEF tx, job

LEMMA PoolOrdered ==
  ASSUME Full, NEW t \in Tasks, UNCHANGED kind, NEW tx, \E s : Orders(Hops(t), s, tx),
         pool' \subseteq pool \cup {tx}
  PROVE  Ordered(t)'
<1>1. Hops(t)' = Hops(t) /\ Ordered(t)
  BY FullTypes, HopsStay
<1> QED BY <1>1 DEF Ordered

LEMMA SentFields ==
  ASSUME RunsOK, NEW t \in Tasks, NEW w, NEW tx, Sent(t, w, tx)
  PROVE  /\ run'[t].pc = run[t].pc /\ run'[t].hop = run[t].hop /\ run'[t].failed = run[t].failed
         /\ run'[t].sent = run[t].sent \cup {tx}
         /\ run'[t].work = [run[t].work EXCEPT ![w] =
              IF Len(run[t].work[w].amounts) = 1 THEN Over
              ELSE [run[t].work[w] EXCEPT !.amounts = Tail(@), !.nonce = @ + 1]]
<1> DEFINE job == run[t].work[w]
           next == IF Len(job.amounts) = 1 THEN Over
                   ELSE [job EXCEPT !.amounts = Tail(@), !.nonce = @ + 1]
<1>1. run[t] \in Run
      /\ run'[t] = [run[t] EXCEPT !.sent = @ \cup {tx}, !.work = [run[t].work EXCEPT ![w] = next]]
  BY DEF RunsOK, Sent
<1> HIDE DEF next
<1>2. /\ run'[t].pc = run[t].pc /\ run'[t].hop = run[t].hop /\ run'[t].failed = run[t].failed
      /\ run'[t].sent = run[t].sent \cup {tx} /\ run'[t].work = [run[t].work EXCEPT ![w] = next]
  BY <1>1 DEF Run
<1> QED BY <1>2 DEF next

LEMMA SentRemains ==
  ASSUME Full, NEW t \in Tasks, Alone(t), NEW w \in DOMAIN run[t].work, run[t].pc = "hop",
         run[t].work[w].at = "send", Sent(t, w, Transfer(t, w)), UNCHANGED <<bal, kind>>, Ordered(t)'
  PROVE  Remains'
<1> DEFINE r == run[t]
           q == run'[t]
           hops == Hops(t)
           tx == Transfer(t, w)
           old == r.work[w]
           job == IF Len(old.amounts) = 1 THEN Over
                  ELSE [old EXCEPT !.amounts = Tail(@), !.nonce = @ + 1]
<1>1. /\ q.pc = "hop" /\ q.hop = r.hop /\ q.failed = r.failed /\ q.sent = r.sent \cup {tx}
      /\ q.work = [r.work EXCEPT ![w] = job]
  BY SentFields, FullTypes
<1>2. /\ r \in Run /\ OnWork(hops, r) /\ IsRoute(hops) /\ IsFiniteSet(r.sent) /\ Busy(r)
      /\ bal \in [Wallets -> Nat]
  BY FullTypes DEF OnWork, Busy
<1>3. /\ tx \in Tx /\ tx.from = w /\ tx.nonce = old.nonce /\ tx.amount = Head(old.amounts)
      /\ Len(old.amounts) \in Nat \ {0}
  BY TransferIs
<1>4. /\ old \in Job /\ old.amounts \in Seq(Int) /\ old.nonce \in Nat
      /\ SumOf(old.amounts) \in Int
  BY <1>2, WorkIs DEF Job
<1> HIDE DEF tx, old
<1>5. SumOf(old.amounts) = Head(old.amounts) + SumOf(Tail(old.amounts))
      /\ Tail(old.amounts) \in Seq(Int) /\ Len(Tail(old.amounts)) = Len(old.amounts) - 1
  <2>1. old.amounts # <<>>
    BY <1>3
  <2> QED BY <1>4, <2>1, SumHead, HeadTailProperties
<1>6. /\ job.at \in {"send", "over"} /\ (job.at = "over" => job.amounts = <<>>)
      /\ SumOf(job.amounts) = SumOf(Tail(old.amounts))
      /\ job.at = "send" => job.nonce = old.nonce + 1
  <2>1. CASE Len(old.amounts) = 1
    <3>1. Len(Tail(old.amounts)) = 0
      BY <1>5, <2>1
    <3>2. Tail(old.amounts) = <<>>
      BY <1>5, <3>1, EmptySeq
    <3>3. job = Over
      BY <2>1
    <3> HIDE DEF job
    <3>4. job.at = "over" /\ job.amounts = <<>>
      BY <3>3 DEF Over, ToRead
    <3> QED BY <3>2, <3>4
  <2>2. CASE Len(old.amounts) # 1
    <3> DEFINE amounts == Tail(old.amounts)
               m == old.nonce + 1
    <3>1. job = [old EXCEPT !.amounts = amounts, !.nonce = m]
      BY <2>2
    <3> HIDE DEF amounts, m, job
    <3>2. job.at = old.at /\ job.amounts = amounts /\ job.nonce = m
      BY <1>4, <3>1 DEF Job
    <3>3. old.at = "send"
      BY DEF old
    <3> QED BY <3>2, <3>3 DEF amounts, m
  <2> QED BY <2>1, <2>2
<1> HIDE DEF job
<1>7. SumOf(job.amounts) \in Int /\ SumOf(old.amounts) = tx.amount + SumOf(job.amounts)
  <2>1. SumOf(Tail(old.amounts)) \in Int
    BY <1>5, SumSeqIsInt
  <2> QED BY <1>3, <1>5, <1>6, <2>1
<1>8. /\ \A y \in r.sent : y.from = w => y.nonce < old.nonce /\ y.nonce \in Nat
      /\ tx \notin r.sent
  <2>1. \A y \in r.sent : y.from = w => y.nonce < old.nonce
    BY <1>2 DEF OnWork, old
  <2>2. \A y \in r.sent : y.nonce \in Nat
    BY <1>2 DEF Run, Tx
  <2>3. ~(tx.nonce < old.nonce)
    BY <1>3, <1>4
  <2> QED BY <1>3, <2>1, <2>2, <2>3
<1>9. OnWork(hops, q)
  <2>1. IsFiniteSet(q.sent)
    BY <1>1, <1>2, FS_AddElement
  <2>2. \A y \in q.sent : y \in r.sent \/ y.from = w
    BY <1>1, <1>3
  <2>3. \A y \in q.sent : y.from = w => /\ job.at \in {"send", "over"}
                                        /\ job.at = "send" => y.nonce < job.nonce
    <3> SUFFICES ASSUME NEW y \in q.sent, y.from = w, job.at = "send" PROVE y.nonce < job.nonce
      BY <1>6
    <3>1. job.nonce = old.nonce + 1 /\ old.nonce \in Nat
      BY <1>4, <1>6
    <3>2. y = tx \/ y \in r.sent
      BY <1>1
    <3> QED BY <1>3, <1>8, <3>1, <3>2
  <2>4. job.at \in {"balance", "over"} => job.amounts = <<>>
    BY <1>6
  <2>5. r.pc = "hop" /\ w \in DOMAIN r.work
    OBVIOUS
  <2> HIDE DEF r, q, hops
  <2> QED BY <1>1, <1>2, <2>1, <2>2, <2>3, <2>4, <2>5, JobOnWork
<1>10. Settled(hops, r, bal) => Settled(hops, q, bal)
  <2>1. r.work[w].at # "balance" /\ job.at # "balance" /\ w \in DOMAIN r.work
    BY <1>6
  <2>2. SumOf(r.work[w].amounts) = tx.amount + SumOf(job.amounts)
    BY <1>7 DEF old
  <2> HIDE DEF r, q, hops
  <2> QED BY <1>1, <1>2, <1>3, <1>7, <1>8, <2>1, <2>2, SendSettles
<1> QED BY <1>1, <1>9, <1>10, WorkerRemains

LEMMA SendRemains ==
  ASSUME Full, NEW t \in Tasks, Alone(t), NEW w, Send(t, w) \/ SendLost(t, w)
  PROVE  Remains'
<1>1. /\ w \in DOMAIN run[t].work /\ run[t].pc = "hop" /\ run[t].work[w].at = "send"
      /\ UNCHANGED <<bal, kind>> /\ pool' \subseteq pool \cup {Transfer(t, w)}
      /\ Sent(t, w, Transfer(t, w)) \/ Fail(t, w)
  BY DEF Send, SendLost, Working, UnchangedByRun
<1>2. Ordered(t)'
  <2>1. \E s : Orders(Hops(t), s, Transfer(t, w))
    BY <1>1, TransferIs
  <2> QED BY <1>1, <2>1, PoolOrdered
<1>3. CASE Sent(t, w, Transfer(t, w))
  BY <1>1, <1>2, <1>3, SentRemains
<1>4. CASE Fail(t, w)
  BY <1>1, <1>2, <1>4, FailRemains
<1> QED BY <1>1, <1>3, <1>4

LEMMA CallFailsRemains ==
  ASSUME Full, NEW t \in Tasks, Alone(t), NEW w, CallFails(t, w)
  PROVE  Remains'
<1>1. /\ w \in DOMAIN run[t].work /\ run[t].pc = "hop" /\ Fail(t, w) /\ UNCHANGED <<bal, pool, kind>>
  BY DEF CallFails, chainVars, UnchangedByRun
<1>2. Ordered(t)'
  BY <1>1, FullTypes, OrderedStays
<1> QED BY <1>1, <1>2, FailRemains

-----------------------------------------------------------------------------

LEMMA InitRemains == Init => Remains
<1> SUFFICES ASSUME Init, NEW t \in Tasks PROVE NotYet(t) /\ Ordered(t) /\ RunLeft(t)
  BY DEF Remains
<1>1. NotYet(t) /\ Ordered(t)
  BY DEF Init, NotYet, Ordered
<1>2. run[t] = NoRun
  BY DEF Init
<1> QED BY <1>1, <1>2, NoRunLeft DEF RunLeft

LEMMA NextRemains ==
  ASSUME Full, NEW t \in Tasks, Alone(t), [Next]_vars
  PROVE  Remains'
<1>1. CASE UNCHANGED vars
  <2>1. UNCHANGED <<bal, pool, kind, run>>
    BY <1>1 DEF vars, chainVars
  <2> QED BY <2>1, QuietRemains
<1>2. ASSUME NEW tx, Include(tx) \/ Refused(tx) \/ Drop(tx) PROVE Remains'
  BY <1>2, IncludeRemains, RefusedRemains, DropRemains
<1>3. CASE Crash
  BY <1>3, CrashRemains
<1>4. ASSUME NEW u \in Tasks PROVE u = t
  BY DEF Alone
<1>5. ASSUME NEW k \in Kinds, NEW ok \in BOOLEAN, CreateFundingTask(t, k, ok) PROVE Remains'
  BY <1>5, CreateRemains
<1>6. ASSUME \/ StartRead(t) \/ StartRefused(t) \/ StartReserve(t)
             \/ StopFundingTask(t) \/ DeleteCheck(t)
             \/ \E ok : DeleteFundingTask(t, ok) \/ \E state : RunSave(t, state, ok)
      PROVE  Remains'
  BY <1>6, CallRemains
<1>7. ASSUME HopSent(t) \/ RunDone(t) \/ ConfirmFails(t)
      PROVE  Remains'
  BY <1>7, HopSentRemains, RunDoneRemains
<1>8. ASSUME NEW ok \in BOOLEAN, StartSave(t, ok) \/ HopConfirmed(t, ok)
      PROVE  Remains'
  BY <1>8, StartSaveRemains, HopConfirmedRemains
<1>9. ASSUME NEW w,
             \/ ReadBalance(t, w) \/ ReadNonce(t, w) \/ Send(t, w)
             \/ SendLost(t, w) \/ CallFails(t, w)
      PROVE  Remains'
  BY <1>9, ReadBalanceRemains, ReadNonceRemains, SendRemains, CallFailsRemains
<1> QED BY <1>1, <1>2, <1>3, <1>4, <1>5, <1>6, <1>7, <1>8, <1>9, NextIs, Zenon

\* A task alone on its wallets leaves nothing behind: when a run of it has passed a
\* hop, all the senders up to there have together no more than the gas of their
\* transfers, whatever was lost, stopped, killed or is late in the node's pool.
THEOREM NothingLeftBehindCorrect ==
  ASSUME \A t, u \in Tasks : t = u
  PROVE  Spec => []NothingLeftBehind
<1>1. Init => Full
  BY InitTyped, InitTidy, InitRemains DEF Full, Inv
<1>2. Full /\ [Next]_vars => Full'
  <2> SUFFICES ASSUME Full, [Next]_vars PROVE Full'
    OBVIOUS
  <2>1. Inv'
    BY NextInv DEF Full
  <2>2. ASSUME NEW t \in Tasks PROVE Remains'
    <3>1. Alone(t)
      BY DEF Alone
    <3> QED BY <3>1, NextRemains
  <2>3. Tasks = {} => Remains'
    BY DEF Remains
  <2> QED BY <2>1, <2>2, <2>3 DEF Full
<1> QED BY <1>1, <1>2, RemainsMeans, PTL DEF Spec

=============================================================================
