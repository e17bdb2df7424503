---------------------------- MODULE MonitorProofs ----------------------------
(***************************************************************************)
(* Proofs about Monitor for every value of its constants: its types, that    *)
(* every trade is counted once and none of a block that recovery has passed  *)
(* is left out, that the position is never too low and always wakes the      *)
(* engine.                                                                  *)
(***************************************************************************)
EXTENDS Monitor, SequenceTheorems, FiniteSetTheorems, TLAPS

\* Blocks lie below the head, and so does what recovery reads.
BlockInv ==
  /\ \A i \in 1..Len(chain) : chain[i].block <= head
  /\ from <= head + 1 /\ upto <= head

\* What a replay has read is seen or is about to be.
ReplayInv ==
  pc = "consume" => \A i \in 1..Len(chain) : chain[i].block \in from..upto => i \in Seen \cup todo

-----------------------------------------------------------------------------
(* Sequences.                                                               *)

LEMMA SeqOfSome ==
  ASSUME NEW S, NEW s \in Seq(S) PROVE Len(s) \in Nat /\ DOMAIN s = 1..Len(s) /\ \A i \in 1..Len(s) : s[i] \in S
BY LenProperties

LEMMA TradesType == \A kinds \in Transactions :
  /\ Len(kinds) \in {1, 2} /\ DOMAIN kinds = 1..Len(kinds)
  /\ \A i \in 1..Len(kinds) : kinds[i] \in Kinds
BY DEF Transactions, Kinds

\* What a transaction adds to the chain.
LEMMA MineAdds ==
  ASSUME ConstantsAssumption, TypeOK, NEW kinds \in Transactions, Mine(kinds)
  PROVE /\ chain' \in Seq(Trade) /\ Len(chain') = Len(chain) + Len(kinds)
        /\ \A i \in 1..Len(chain) : chain'[i] = chain[i]
        /\ \A i \in 1..Len(chain') : i > Len(chain) =>
             chain'[i].block = head + 1 /\ chain'[i].kind = kinds[i - Len(chain)]
<1> DEFINE new == [i \in 1..Len(kinds) |->
                     [kind |-> kinds[i], block |-> head + 1, second |-> i = 2]]
<1>1. head + 1 \in 1..MaxBlocks
  BY DEF Mine, TypeOK
<1>2. new \in [1..Len(kinds) -> Trade] /\ Len(kinds) \in Nat
  BY <1>1, TradesType DEF Trade
<1>3. new \in Seq(Trade)
  BY <1>2, SeqDef
<1>4. Len(new) = Len(kinds) /\ \A i \in 1..Len(kinds) : new[i].block = head + 1 /\ new[i].kind = kinds[i]
  BY <1>2
<1>5. chain' = chain \o new /\ chain \in Seq(Trade)
  BY DEF Mine, TypeOK
<1> HIDE DEF new
<1>6. /\ Len(chain \o new) = Len(chain) + Len(new)
      /\ \A i \in 1..Len(chain) + Len(new) :
           (chain \o new)[i] = IF i <= Len(chain) THEN chain[i] ELSE new[i - Len(chain)]
      /\ chain \o new \in Seq(Trade)
  BY <1>3, <1>5, ConcatProperties
<1>7. Len(chain) \in Nat
  BY <1>5
<1> QED
  BY <1>2, <1>4, <1>5, <1>6, <1>7

LEMMA RangeAppend ==
  ASSUME NEW S, NEW s \in Seq(S), NEW e \in S
  PROVE Range(Append(s, e)) = Range(s) \cup {e}
<1>1. Append(s, e) = s \o <<e>> /\ <<e>> \in Seq(S)
  BY AppendIsConcat
<1>2. Range(<<e>>) = {e}
  BY DEF Range
<1>3. Range(s \o <<e>>) = Range(s) \cup Range(<<e>>)
  BY <1>1, RangeConcatenation, SMTT(30)
<1> QED
  BY <1>1, <1>2, <1>3

\* Take, in terms of what is seen.
LEMMA TakeIs ==
  ASSUME TypeOK, NEW i \in 1..Len(chain), Take(i)
  PROVE \/ i \in Seen /\ UNCHANGED <<order, net, bought, pushing>>
        \/ /\ i \notin Seen /\ order' = Append(order, i) /\ Seen' = Seen \cup {i}
           /\ \/ chain[i].kind \in tagged /\ UNCHANGED <<net, bought, pushing>>
              \/ /\ chain[i].kind \notin tagged /\ pushing' = i
                 /\ \/ chain[i].kind = "buy" /\ net' = net + 1 /\ bought' = bought + 1
                    \/ /\ chain[i].kind # "buy"
                       /\ net' = IF net = 0 THEN 0 ELSE net - 1
                       /\ bought' = IF net <= 1 THEN 0 ELSE bought
<1>1. order \in Seq(1..Len(chain)) /\ net \in Nat
  BY DEF TypeOK
<1>2. CASE i \in Seen
  BY <1>2 DEF Take
<1>3. CASE i \notin Seen
  <2>1. order' = Append(order, i)
    BY <1>3 DEF Take
  <2>2. Seen' = Seen \cup {i}
    BY <1>1, <2>1, RangeAppend DEF Seen
  <2>3. CASE chain[i].kind \in tagged
    BY <1>3, <2>1, <2>2, <2>3 DEF Take
  <2>4. CASE chain[i].kind \notin tagged
    BY <1>1, <1>3, <2>1, <2>2, <2>4 DEF Take
  <2> QED
    BY <2>3, <2>4
<1> QED
  BY <1>2, <1>3

LEMMA TakeType ==
  ASSUME TypeOK, NEW i \in 1..Len(chain), Take(i)
  PROVE /\ order' \in Seq(1..Len(chain)) /\ net' \in Nat /\ bought' \in Nat
        /\ pushing' \in 1..Len(chain) \cup {None}
<1>1. order \in Seq(1..Len(chain)) /\ Append(order, i) \in Seq(1..Len(chain))
  BY AppendProperties DEF TypeOK
<1>2. net \in Nat /\ bought \in Nat /\ pushing \in 1..Len(chain) \cup {None}
  BY DEF TypeOK
<1>3. order' = order \/ order' = Append(order, i)
  BY TakeIs
<1>4. net' \in Nat /\ bought' \in Nat
  BY <1>2, TakeIs
<1>5. pushing' = pushing \/ pushing' = i
  BY TakeIs
<1> QED
  BY <1>1, <1>2, <1>3, <1>4, <1>5

-----------------------------------------------------------------------------
(* Types.                                                                   *)

LEMMA InitType == ConstantsAssumption /\ Init => TypeOK
<1> SUFFICES ASSUME ConstantsAssumption, Init PROVE TypeOK
  OBVIOUS
<1>1. MaxBlocks \in Nat /\ \A S : <<>> \in Seq(S)
  BY EmptySeq DEF ConstantsAssumption
<1>2. /\ chain \in Seq(Trade) /\ live \in Seq(1..Len(chain)) /\ order \in Seq(1..Len(chain))
      /\ retail \in Seq(1..Len(chain))
  BY <1>1 DEF Init
<1>3. /\ head \in 0..MaxBlocks /\ from \in 0..(MaxBlocks + 1) /\ upto \in 0..MaxBlocks
      /\ net \in Nat /\ bought \in Nat /\ looked \in Nat
  BY <1>1 DEF Init
<1>4. /\ tagged \subseteq Own /\ sent \subseteq Own /\ curveMode \in BOOLEAN /\ ready \in BOOLEAN
      /\ todo \subseteq 1..Len(chain) /\ sub = "none" /\ pc = "watch" /\ pushing = None
  BY DEF Init
<1>5. startBlock \in {0, 1}
  BY DEF Init
<1> QED
  BY <1>2, <1>3, <1>4, <1>5 DEF TypeOK, Places

LEMMA MineType ==
  ASSUME ConstantsAssumption, TypeOK, NEW kinds \in Transactions, Mine(kinds)
  PROVE TypeOK'
<1>1. chain' \in Seq(Trade) /\ Len(chain) \in Nat /\ Len(chain') = Len(chain) + Len(kinds)
  BY MineAdds DEF TypeOK
<1>2. Len(kinds) \in {1, 2}
  BY TradesType
<1>3. 1..Len(chain) \subseteq 1..Len(chain')
  BY <1>1, <1>2
<1>4. /\ order \in Seq(1..Len(chain')) /\ retail \in Seq(1..Len(chain'))
      /\ live \in Seq(1..Len(chain'))
  BY <1>3, SeqMonotonic DEF TypeOK
<1>5. live' \in Seq(1..Len(chain'))
  <2> DEFINE new == [i \in 1..Len(kinds) |-> Len(chain) + i]
  <2>1. new \in [1..Len(kinds) -> 1..Len(chain')]
    BY <1>1, <1>2
  <2>2. new \in Seq(1..Len(chain')) /\ Len(new) = Len(kinds)
    BY <1>2, <2>1, SeqDef
  <2>3. live' = Delivered(new)
    BY DEF Mine
  <2> HIDE DEF new
  <2>4. ASSUME NEW n \in Int, n < Len(new) PROVE SubSeq(new, 1, n) \in Seq(1..Len(chain'))
    <3>1. \A i \in 1..n : new[i] \in 1..Len(chain')
      BY <1>2, <2>2, <2>4, SeqOfSome
    <3> QED
      BY <3>1, SubSeqProperties
  <2>5. CASE live' = live
    BY <1>4, <2>5
  <2>6. CASE live' = live \o new
    BY <1>4, <2>2, <2>6, ConcatProperties
  <2>7. CASE LiveCap - Len(live) < Len(new) /\ live' = live \o SubSeq(new, 1, LiveCap - Len(live))
    <3>1. LiveCap - Len(live) \in Int
      BY <1>4 DEF ConstantsAssumption
    <3>2. SubSeq(new, 1, LiveCap - Len(live)) \in Seq(1..Len(chain'))
      BY <2>4, <2>7, <3>1
    <3> QED
      BY <1>4, <2>7, <3>2, ConcatProperties
  <2> QED
    BY <2>3, <2>5, <2>6, <2>7 DEF Delivered
<1>6. head' \in 0..MaxBlocks
  BY DEF Mine, TypeOK, ConstantsAssumption
<1> QED
  BY <1>1, <1>3, <1>4, <1>5, <1>6
     DEF Mine, TypeOK, sendVars, startVars, recovery, position

\* Steps of recovery: only where Run is and what it is about to read change.
LEMMA RecoveryType ==
  ASSUME ConstantsAssumption, TypeOK, NEW ok \in BOOLEAN,
         \/ Watch(ok) \/ RecoveryStart(ok) \/ ReplayHead(ok) \/ ReplayFilter(ok)
         \/ Tick \/ ReplayEnd \/ SubscriptionFails
  PROVE TypeOK'
<1>1. /\ pc' \in Places /\ sub' \in {"none", "open", "closed"} /\ ready' \in BOOLEAN
      /\ todo' \subseteq 1..Len(chain)
      /\ UNCHANGED <<chain, head, tagged, sent, curveMode, startBlock, order, net, bought,
                     pushing, retail, looked>>
  BY DEF Watch, RecoveryStart, ReplayHead, ReplayFilter, Tick, ReplayEnd, SubscriptionFails, TypeOK,
         Places, chainVars, sendVars, startVars, position, recovery
<1>4. live' \in Seq(1..Len(chain))
  <2>1. live \in Seq(1..Len(chain))
    BY DEF TypeOK
  <2>2. CASE SubscriptionFails
    <3>1. PICK n \in 0..Len(live) : live' = SubSeq(live, 1, n)
      BY <2>2 DEF SubscriptionFails
    <3> QED
      BY <2>1, <3>1, SubSeqProperties
  <2>3. CASE ~SubscriptionFails
    BY <2>1, <2>3 DEF Watch, RecoveryStart, ReplayHead, ReplayFilter, Tick, ReplayEnd
  <2> QED
    BY <2>2, <2>3
<1>2. head \in 0..MaxBlocks /\ upto \in 0..MaxBlocks /\ from \in 0..(MaxBlocks + 1)
      /\ startBlock \in {0, 1} /\ MaxBlocks \in Nat
  BY DEF TypeOK, ConstantsAssumption
<1>3. from' \in 0..(MaxBlocks + 1) /\ upto' \in 0..MaxBlocks
  BY <1>2 DEF Watch, RecoveryStart, ReplayHead, ReplayFilter, Tick, ReplayEnd, SubscriptionFails, recovery
<1> QED
  BY <1>1, <1>3, <1>4 DEF TypeOK

LEMMA ConsumeType ==
  ASSUME ConstantsAssumption, TypeOK, ConsumeReplayed \/ ConsumeLive
  PROVE TypeOK'
<1>1. CASE ConsumeReplayed
  <2>1. PICK i \in todo : Take(i) /\ todo' = todo \ {i}
    BY <1>1 DEF ConsumeReplayed
  <2>2. i \in 1..Len(chain)
    BY DEF TypeOK
  <2> QED
    BY <1>1, <2>1, <2>2, TakeType
       DEF ConsumeReplayed, TypeOK, chainVars, sendVars, startVars, recovery
<1>2. CASE ConsumeLive
  <2>1. Head(live) \in 1..Len(chain) /\ Tail(live) \in Seq(1..Len(chain))
    BY <1>2, HeadTailProperties DEF ConsumeLive, TypeOK
  <2> QED
    BY <1>2, <2>1, TakeType DEF ConsumeLive, TypeOK, chainVars, sendVars, startVars, recovery
<1> QED
  BY <1>1, <1>2

LEMMA QueueType ==
  ASSUME ConstantsAssumption, TypeOK, Push \/ OnRetail \/ \E o \in Own : Send(o)
  PROVE TypeOK'
<1>1. CASE Push
  <2>1. pushing \in 1..Len(chain)
    BY <1>1 DEF Push, TypeOK
  <2>2. retail' \in Seq(1..Len(chain))
    BY <1>1, <2>1, AppendProperties DEF Push, TypeOK
  <2> QED
    BY <1>1, <2>2 DEF Push, TypeOK, chainVars, sendVars, startVars, recovery, position
<1>2. CASE OnRetail
  <2>1. Tail(retail) \in Seq(1..Len(chain))
    BY <1>2, HeadTailProperties DEF OnRetail, TypeOK
  <2> QED
    BY <1>2, <2>1 DEF OnRetail, TypeOK, chainVars, sendVars, startVars, recovery, position
<1>3. CASE \E o \in Own : Send(o)
  BY <1>3 DEF Send, TypeOK, chainVars, startVars, recovery, position
<1> QED
  BY <1>1, <1>2, <1>3

LEMMA StepType ==
  ASSUME ConstantsAssumption, TypeOK, [Next]_vars
  PROVE TypeOK'
<1>1. CASE \E kinds \in Transactions : Mine(kinds)
  BY <1>1, MineType
<1>2. CASE Push \/ OnRetail \/ \E o \in Own : Send(o)
  BY <1>2, QueueType
<1>3. CASE ConsumeReplayed \/ ConsumeLive
  BY <1>3, ConsumeType
<1>4. CASE \/ \E ok \in BOOLEAN : Watch(ok) \/ RecoveryStart(ok) \/ ReplayHead(ok) \/ ReplayFilter(ok)
           \/ Tick \/ ReplayEnd \/ SubscriptionFails
  BY <1>4, RecoveryType
<1>5. CASE UNCHANGED vars
  BY <1>5 DEF vars, TypeOK, chainVars, sendVars, startVars, recovery, position
<1> QED
  BY <1>1, <1>2, <1>3, <1>4, <1>5 DEF Next, Loop

\* Every reachable state of the monitor is well typed.
THEOREM TypeCorrect == Spec => []TypeOK
BY ConstantsAssumption, InitType, StepType, PTL DEF Spec

-----------------------------------------------------------------------------
(* Each trade once, none left out, the engine woken.                        *)

CountInv == BlockInv /\ ReplayInv /\ NoTradeSkipped /\ CountedOnce /\ NoLostWakeup

LEMMA InitCount == ConstantsAssumption /\ Init => CountInv
BY DEF Init, CountInv, BlockInv, ReplayInv, NoTradeSkipped, CountedOnce, NoLostWakeup, ConstantsAssumption

LEMMA MineCount ==
  ASSUME ConstantsAssumption, TypeOK, CountInv, NEW kinds \in Transactions, Mine(kinds)
  PROVE CountInv'
<1>1. /\ head' = head + 1 /\ head \in Nat /\ upto \in Nat /\ from \in Nat
      /\ UNCHANGED <<startBlock, pc, ready, from, upto, todo, order, net, pushing, retail, looked>>
  BY DEF Mine, TypeOK, sendVars, startVars, recovery, position
<1>2. /\ \A i \in 1..Len(chain) : chain'[i] = chain[i] /\ chain[i].block \in Nat
      /\ \A i \in 1..Len(chain') : i \notin 1..Len(chain) => chain'[i].block = head + 1
  <2>1. \A i \in 1..Len(chain) : chain[i].block \in Nat
    <3>1. \A i \in 1..Len(chain) : chain[i] \in Trade
      BY SeqOfSome DEF TypeOK
    <3> QED
      BY <3>1 DEF Trade, ConstantsAssumption
  <2>2. Len(chain) \in Nat /\ Len(chain') \in Nat
    BY MineAdds, SeqOfSome DEF TypeOK
  <2> QED
    BY <2>1, <2>2, MineAdds
<1>3. Seen' = Seen
  BY <1>1 DEF Seen
<1>4. BlockInv'
  BY <1>1, <1>2 DEF CountInv, BlockInv
<1>5. ReplayInv'
  BY <1>1, <1>2, <1>3, SMTT(30) DEF CountInv, BlockInv, ReplayInv
<1>6. NoTradeSkipped'
  BY <1>1, <1>2, <1>3, SMTT(30) DEF CountInv, BlockInv, NoTradeSkipped
<1> QED
  BY <1>1, <1>4, <1>5, <1>6 DEF CountInv, CountedOnce, NoLostWakeup

LEMMA RecoveryCount ==
  ASSUME ConstantsAssumption, TypeOK, CountInv, NEW ok \in BOOLEAN,
         \/ Watch(ok) \/ RecoveryStart(ok) \/ ReplayHead(ok) \/ ReplayFilter(ok)
         \/ Tick \/ ReplayEnd \/ SubscriptionFails
  PROVE CountInv'
<1>1. UNCHANGED <<chain, head, startBlock, order, net, pushing, retail, looked>>
  BY DEF Watch, RecoveryStart, ReplayHead, ReplayFilter, Tick, ReplayEnd, SubscriptionFails,
         chainVars, startVars, position
<1>2. Seen' = Seen
  BY <1>1 DEF Seen
<1>3. /\ head \in Nat /\ upto \in Nat /\ from \in Nat /\ startBlock \in {0, 1}
      /\ \A i \in 1..Len(chain) : chain[i].block \in Nat
  <2>1. \A i \in 1..Len(chain) : chain[i] \in Trade
    BY SeqOfSome DEF TypeOK
  <2>2. \A i \in 1..Len(chain) : chain[i].block \in Nat
    BY <2>1 DEF Trade, ConstantsAssumption
  <2> QED
    BY <2>2 DEF TypeOK, ConstantsAssumption
<1>4. BlockInv'
  BY <1>1, <1>3 DEF CountInv, BlockInv, Watch, RecoveryStart, ReplayHead, ReplayFilter, Tick, ReplayEnd,
                    SubscriptionFails, recovery
<1>5. ReplayInv'
  BY <1>1, <1>2 DEF CountInv, ReplayInv, Watch, RecoveryStart, ReplayHead, ReplayFilter, Tick, ReplayEnd,
                    SubscriptionFails, recovery
<1>6. NoTradeSkipped'
  <2>1. CASE ReplayEnd
    BY <1>1, <1>2, <1>3, <2>1 DEF CountInv, ReplayInv, NoTradeSkipped, ReplayEnd
  <2>2. CASE RecoveryStart(ok)
    BY <1>1, <1>2, <1>3, <2>2 DEF CountInv, NoTradeSkipped, RecoveryStart
  <2>3. CASE \/ Watch(ok) \/ ReplayHead(ok) \/ ReplayFilter(ok) \/ Tick \/ SubscriptionFails
    BY <1>1, <1>2, <2>3
       DEF CountInv, NoTradeSkipped, Watch, ReplayHead, ReplayFilter, Tick, SubscriptionFails, recovery
  <2> QED
    BY <2>1, <2>2, <2>3
<1>7. CountedOnce' /\ NoLostWakeup'
  BY <1>1 DEF CountInv, CountedOnce, NoLostWakeup
<1> QED
  BY <1>4, <1>5, <1>6, <1>7 DEF CountInv

LEMMA TakeCount ==
  ASSUME ConstantsAssumption, TypeOK, CountInv, pushing = None, NEW i \in 1..Len(chain), Take(i),
         UNCHANGED <<retail, looked>>
  PROVE CountedOnce' /\ NoLostWakeup' /\ Seen' = Seen \cup {i}
<1>1. CASE i \in Seen /\ UNCHANGED <<order, net, bought, pushing>>
  BY <1>1 DEF CountInv, CountedOnce, NoLostWakeup, Seen
<1>2. CASE i \notin Seen /\ order' = Append(order, i) /\ Seen' = Seen \cup {i}
  <2>1. order \in Seq(1..Len(chain)) /\ Len(order) \in Nat /\ Len(order') = Len(order) + 1
        /\ (\A j \in 1..Len(order) : order'[j] = order[j]) /\ order'[Len(order) + 1] = i
    BY <1>2, AppendProperties, SeqOfSome DEF TypeOK
  <2>2. \A j \in 1..Len(order) : order[j] # i
    <3>1. DOMAIN order = 1..Len(order)
      BY <2>1, SeqOfSome
    <3> QED
      BY <1>2, <3>1 DEF Seen, Range
  <2>3. CountedOnce'
    BY <2>1, <2>2 DEF CountInv, CountedOnce
  <2>4. NoLostWakeup'
    <3>1. i # None
      BY DEF ConstantsAssumption
    <3>2. pushing' = i \/ UNCHANGED <<net, pushing>>
      BY TakeIs
    <3> QED
      BY <3>1, <3>2 DEF CountInv, NoLostWakeup
  <2> QED
    BY <1>2, <2>3, <2>4
<1> QED
  BY <1>1, <1>2, TakeIs

LEMMA ConsumeCount ==
  ASSUME ConstantsAssumption, TypeOK, CountInv, ConsumeReplayed \/ ConsumeLive
  PROVE CountInv'
<1>1. /\ pushing = None
      /\ UNCHANGED <<chain, head, startBlock, pc, ready, from, upto, retail, looked>>
  BY DEF ConsumeReplayed, ConsumeLive, chainVars, startVars, recovery
<1>2. PICK i \in 1..Len(chain) : Take(i) /\ todo' \in {todo, todo \ {i}}
  <2>1. CASE ConsumeReplayed
    BY <2>1 DEF ConsumeReplayed, TypeOK
  <2>2. CASE ConsumeLive
    <3>1. Head(live) \in 1..Len(chain)
      BY <2>2, HeadTailProperties DEF ConsumeLive, TypeOK
    <3> QED
      BY <2>2, <3>1 DEF ConsumeLive
  <2> QED
    BY <2>1, <2>2
<1>3. CountedOnce' /\ NoLostWakeup' /\ Seen' = Seen \cup {i}
  BY <1>1, <1>2, TakeCount
<1>4. BlockInv'
  BY <1>1 DEF CountInv, BlockInv
<1>5. ReplayInv' /\ NoTradeSkipped'
  BY <1>1, <1>2, <1>3 DEF CountInv, ReplayInv, NoTradeSkipped
<1> QED
  BY <1>3, <1>4, <1>5 DEF CountInv

LEMMA QueueCount ==
  ASSUME ConstantsAssumption, TypeOK, CountInv, Push \/ OnRetail \/ \E o \in Own : Send(o)
  PROVE CountInv'
<1>1. UNCHANGED <<chain, head, startBlock, pc, ready, from, upto, todo, order, net>>
  BY DEF Push, OnRetail, Send, chainVars, startVars, recovery, position
<1>2. Seen' = Seen
  BY <1>1 DEF Seen
<1>3. NoLostWakeup'
  <2>1. CASE Push
    <3>1. Append(retail, pushing) # <<>>
      <4>1. pushing \in 1..Len(chain) /\ retail \in Seq(1..Len(chain))
        BY <2>1 DEF Push, TypeOK
      <4> QED
        BY <4>1, AppendProperties
    <3>2. Len(retail) >= RetailCap => retail # <<>>
      BY EmptySeq DEF ConstantsAssumption
    <3>3. retail \in Seq(1..Len(chain)) /\ Len(retail) \in Nat /\ RetailCap \in Nat
      BY SeqOfSome DEF TypeOK, ConstantsAssumption
    <3> QED
      BY <2>1, <3>1, <3>2, <3>3 DEF Push, NoLostWakeup
  <2>2. CASE OnRetail
    BY <1>1, <2>2 DEF OnRetail, NoLostWakeup
  <2>3. CASE \E o \in Own : Send(o)
    BY <1>1, <2>3 DEF Send, CountInv, NoLostWakeup
  <2> QED
    BY <2>1, <2>2, <2>3
<1> QED
  BY <1>1, <1>2, <1>3 DEF CountInv, BlockInv, ReplayInv, NoTradeSkipped, CountedOnce

LEMMA StepCount ==
  ASSUME ConstantsAssumption, TypeOK, CountInv, [Next]_vars
  PROVE CountInv'
<1>1. CASE \E kinds \in Transactions : Mine(kinds)
  BY <1>1, MineCount
<1>2. CASE Push \/ OnRetail \/ \E o \in Own : Send(o)
  BY <1>2, QueueCount
<1>3. CASE ConsumeReplayed \/ ConsumeLive
  BY <1>3, ConsumeCount
<1>4. CASE \/ \E ok \in BOOLEAN : Watch(ok) \/ RecoveryStart(ok) \/ ReplayHead(ok) \/ ReplayFilter(ok)
           \/ Tick \/ ReplayEnd \/ SubscriptionFails
  BY <1>4, RecoveryCount
<1>5. CASE UNCHANGED vars
  BY <1>5 DEF vars, chainVars, startVars, recovery, position, CountInv, BlockInv, ReplayInv,
              NoTradeSkipped, CountedOnce, NoLostWakeup, Seen
<1> QED
  BY <1>1, <1>2, <1>3, <1>4, <1>5 DEF Next, Loop

LEMMA CountHolds == Spec => []CountInv
<1>1. Init => TypeOK /\ CountInv
  BY ConstantsAssumption, InitType, InitCount
<1>2. TypeOK /\ CountInv /\ [Next]_vars => TypeOK' /\ CountInv'
  BY ConstantsAssumption, StepType, StepCount
<1> QED
  BY <1>1, <1>2, PTL DEF Spec

\* consumeTrade: whatever the live feed and the replays deliver twice is counted once.
THEOREM EachTradeOnce == Spec => []CountedOnce
BY CountHolds, PTL DEF CountInv

\* replayCurve, replayPool: whatever the subscription drops and whichever reads fail,
\* recovery leaves no trade of a block behind that it has passed.
THEOREM NoneIsSkipped == Spec => []NoTradeSkipped
BY CountHolds, PTL DEF CountInv

\* onTrade, onRetail: a full Retail channel drops trades, never the news.
THEOREM EngineIsWoken == Spec => []NoLostWakeup
BY CountHolds, PTL DEF CountInv

-----------------------------------------------------------------------------
(* The position.                                                            *)

\* Only our own sales are tagged, all that are on the chain, and outsiders sell
\* what they have bought.
OwnInv ==
  /\ sent \subseteq tagged
  /\ \A i \in 1..Len(chain) : chain[i].kind \in Own => chain[i].kind \in sent
PrefixInv == \A k \in 0..Len(chain) : Held(1..k) >= 0

PositionInv == OwnInv /\ PrefixInv /\ NetNotLow /\ NetExact

Gain(kind) == IF kind = "buy" THEN 1 ELSE IF kind = "sell" THEN -1 ELSE 0

\* Held on any sequence of trades.
HeldIn(c, ids) == Cardinality({i \in ids : c[i].kind = "buy"})
                  - Cardinality({i \in ids : c[i].kind = "sell"})

LEMMA HeldType ==
  ASSUME NEW c, NEW ids, IsFiniteSet(ids) PROVE HeldIn(c, ids) \in Int
<1>1. /\ IsFiniteSet({i \in ids : c[i].kind = "buy"})
      /\ IsFiniteSet({i \in ids : c[i].kind = "sell"})
  BY FS_Subset
<1> QED
  BY <1>1, FS_CardinalityType DEF HeldIn

LEMMA HeldAgree ==
  ASSUME NEW c, NEW d, NEW ids, \A i \in ids : c[i].kind = d[i].kind
  PROVE HeldIn(c, ids) = HeldIn(d, ids)
<1>1. /\ {i \in ids : c[i].kind = "buy"} = {i \in ids : d[i].kind = "buy"}
      /\ {i \in ids : c[i].kind = "sell"} = {i \in ids : d[i].kind = "sell"}
  OBVIOUS
<1> QED
  BY <1>1 DEF HeldIn

LEMMA HeldInAdd ==
  ASSUME NEW c, NEW ids, IsFiniteSet(ids), NEW i, i \notin ids
  PROVE HeldIn(c, ids \cup {i}) = HeldIn(c, ids) + Gain(c[i].kind)
<1> DEFINE Of(kind, set) == {j \in set : c[j].kind = kind}
<1>1. \A kind : IsFiniteSet(Of(kind, ids)) /\ i \notin Of(kind, ids)
  BY FS_Subset
<1>2. \A kind : Of(kind, ids \cup {i}) = IF c[i].kind = kind THEN Of(kind, ids) \cup {i} ELSE Of(kind, ids)
  OBVIOUS
<1>3. \A kind : Cardinality(Of(kind, ids)) \in Nat
  BY <1>1, FS_CardinalityType
<1>4. \A kind : Cardinality(Of(kind, ids) \cup {i}) = Cardinality(Of(kind, ids)) + 1
  <2> SUFFICES ASSUME NEW kind
               PROVE Cardinality(Of(kind, ids) \cup {i}) = Cardinality(Of(kind, ids)) + 1
    OBVIOUS
  <2> HIDE DEF Of
  <2> QED
    BY <1>1, FS_AddElement
<1>5. \A set : HeldIn(c, set) = Cardinality(Of("buy", set)) - Cardinality(Of("sell", set))
  BY DEF HeldIn
<1> HIDE DEF Of
<1>6. ASSUME NEW kind
      PROVE Cardinality(Of(kind, ids \cup {i}))
              = Cardinality(Of(kind, ids)) + IF c[i].kind = kind THEN 1 ELSE 0
  <2>1. Cardinality(Of(kind, ids)) \in Nat
    BY <1>3
  <2>2. CASE c[i].kind = kind
    <3>1. Of(kind, ids \cup {i}) = Of(kind, ids) \cup {i}
      BY <1>2, <2>2
    <3> QED
      BY <1>4, <2>2, <3>1
  <2>3. CASE c[i].kind # kind
    <3>1. Of(kind, ids \cup {i}) = Of(kind, ids)
      BY <1>2, <2>3
    <3> QED
      BY <2>1, <2>3, <3>1
  <2> QED
    BY <2>2, <2>3
<1>7. /\ HeldIn(c, ids \cup {i}) = Cardinality(Of("buy", ids \cup {i})) - Cardinality(Of("sell", ids \cup {i}))
      /\ HeldIn(c, ids) = Cardinality(Of("buy", ids)) - Cardinality(Of("sell", ids))
  BY <1>5
<1>8. Cardinality(Of("buy", ids)) \in Nat /\ Cardinality(Of("sell", ids)) \in Nat
  BY <1>3
<1> DEFINE buys == Cardinality(Of("buy", ids))
           sells == Cardinality(Of("sell", ids))
           buysNow == Cardinality(Of("buy", ids \cup {i}))
           sellsNow == Cardinality(Of("sell", ids \cup {i}))
<1>9. /\ buys \in Nat /\ sells \in Nat
      /\ HeldIn(c, ids) = buys - sells /\ HeldIn(c, ids \cup {i}) = buysNow - sellsNow
      /\ buysNow = buys + IF c[i].kind = "buy" THEN 1 ELSE 0
      /\ sellsNow = sells + IF c[i].kind = "sell" THEN 1 ELSE 0
  BY <1>6, <1>7, <1>8
<1> HIDE DEF buys, sells, buysNow, sellsNow
<1>10. "buy" # "sell"
  OBVIOUS
<1>11. CASE c[i].kind = "buy"
  BY <1>9, <1>10, <1>11 DEF Gain
<1>12. CASE c[i].kind = "sell"
  BY <1>9, <1>10, <1>12 DEF Gain
<1>13. CASE c[i].kind # "buy" /\ c[i].kind # "sell"
  BY <1>9, <1>13 DEF Gain
<1> QED
  BY <1>11, <1>12, <1>13

LEMMA SeenFinite ==
  ASSUME TypeOK PROVE Seen \subseteq 1..Len(chain) /\ IsFiniteSet(Seen) /\ Len(chain) \in Nat
<1>1. Len(chain) \in Nat
  BY SeqOfSome DEF TypeOK
<1>2. Seen \subseteq 1..Len(chain)
  BY RangeOfSeq DEF Seen, TypeOK
<1>3. IsFiniteSet(1..Len(chain))
  BY <1>1, FS_Interval
<1> QED
  BY <1>1, <1>2, <1>3, FS_Subset

LEMMA InitPosition == ConstantsAssumption /\ Init => PositionInv
<1> SUFFICES ASSUME ConstantsAssumption, Init PROVE PositionInv
  OBVIOUS
<1>1. Held({}) = 0
  BY FS_EmptySet DEF Held
<1>2. Seen = {} /\ Len(chain) = 0 /\ net = 0 /\ bought = 0 /\ sent = {}
  BY DEF Init, Seen, Range
<1>3. 1..0 = {}
  OBVIOUS
<1> QED
  BY <1>1, <1>2, <1>3 DEF PositionInv, OwnInv, PrefixInv, NetNotLow, NetExact

\* A step that consumes nothing and adds nothing to the chain.
LEMMA SamePosition ==
  ASSUME PositionInv, UNCHANGED <<chain, sent, order, net, bought>>, tagged \subseteq tagged'
  PROVE PositionInv'
BY DEF PositionInv, OwnInv, PrefixInv, NetNotLow, NetExact, Held, Seen

LEMMA TakePosition ==
  ASSUME ConstantsAssumption, TypeOK, PositionInv, NEW i \in 1..Len(chain), Take(i),
         UNCHANGED <<chain, sent, tagged>>
  PROVE PositionInv'
<1>1. net \in Nat /\ bought \in Nat /\ Held(Seen) \in Int
  BY SeenFinite, HeldType DEF TypeOK, Held, HeldIn
<1>2. /\ chain[i].kind \in Kinds
      /\ chain[i].kind \in tagged <=> chain[i].kind \in Own
  <2>1. chain[i] \in Trade
    BY SeqOfSome DEF TypeOK
  <2> QED
    BY <2>1 DEF Trade, TypeOK, PositionInv, OwnInv
<1>3. \A set : Held(set)' = Held(set)
  BY DEF Held
<1>4. OwnInv' /\ PrefixInv'
  BY <1>3 DEF PositionInv, OwnInv, PrefixInv
<1>5. CASE i \in Seen /\ UNCHANGED <<order, net, bought, pushing>>
  BY <1>5, SamePosition
<1>6. CASE i \notin Seen /\ order' = Append(order, i) /\ Seen' = Seen \cup {i}
  <2>1. Held(Seen)' = Held(Seen) + Gain(chain[i].kind)
    BY <1>3, <1>6, SeenFinite, HeldInAdd DEF Held, HeldIn
  <2>2. \/ Gain(chain[i].kind) = 0 /\ UNCHANGED <<net, bought>>
        \/ Gain(chain[i].kind) = 1 /\ net' = net + 1 /\ bought' = bought + 1
        \/ /\ Gain(chain[i].kind) = -1
           /\ net' = IF net = 0 THEN 0 ELSE net - 1
           /\ bought' = IF net <= 1 THEN 0 ELSE bought
    <3>1. "buy" \notin Own /\ "sell" \notin Own /\ "buy" # "sell"
      BY DEF ConstantsAssumption
    <3>2. \/ chain[i].kind \in tagged /\ UNCHANGED <<net, bought>>
          \/ /\ chain[i].kind \notin tagged
             /\ \/ chain[i].kind = "buy" /\ net' = net + 1 /\ bought' = bought + 1
                \/ /\ chain[i].kind # "buy"
                   /\ net' = IF net = 0 THEN 0 ELSE net - 1
                   /\ bought' = IF net <= 1 THEN 0 ELSE bought
      BY <1>6, TakeIs
    <3>3. CASE chain[i].kind \in tagged
      <4>1. Gain(chain[i].kind) = 0
        BY <1>2, <3>1, <3>3 DEF Gain
      <4> QED
        BY <3>2, <3>3, <4>1
    <3>4. CASE chain[i].kind \notin tagged /\ chain[i].kind = "buy"
      <4>1. Gain(chain[i].kind) = 1
        BY <3>4 DEF Gain
      <4> QED
        BY <3>2, <3>4, <4>1
    <3>5. CASE chain[i].kind \notin tagged /\ chain[i].kind # "buy"
      <4>1. chain[i].kind = "sell"
        BY <1>2, <3>5 DEF Kinds
      <4>2. Gain(chain[i].kind) = -1
        BY <3>1, <4>1 DEF Gain
      <4> QED
        BY <3>2, <3>5, <4>2
    <3> QED
      BY <3>3, <3>4, <3>5
  <2>4. NetNotLow'
    <3>1. net >= Held(Seen) /\ bought >= net /\ (net = 0 <=> bought = 0)
      BY DEF PositionInv, NetNotLow
    <3> DEFINE held == Held(Seen)
               heldNow == Held(Seen)'
               gain == Gain(chain[i].kind)
    <3>2. held \in Int /\ heldNow = held + gain
      BY <1>1, <2>1
    <3>5. \/ gain = 0 /\ UNCHANGED <<net, bought>>
          \/ gain = 1 /\ net' = net + 1 /\ bought' = bought + 1
          \/ /\ gain = -1
             /\ net' = IF net = 0 THEN 0 ELSE net - 1
             /\ bought' = IF net <= 1 THEN 0 ELSE bought
      BY <2>2
    <3>6. net \in Nat /\ bought \in Nat
      BY <1>1
    <3> HIDE DEF held, heldNow, gain
    <3>3. net >= held
      BY <3>1 DEF held
    <3>4. net' >= heldNow /\ bought' >= net' /\ (net' = 0 <=> bought' = 0)
      BY <3>1, <3>2, <3>3, <3>5, <3>6
    <3> QED
      BY <3>4 DEF NetNotLow, heldNow
  <2>5. NetExact'
    <3> SUFFICES ASSUME \A k \in 1..Len(order') : order'[k] = k PROVE net' = Held(Seen)'
      BY DEF NetExact
    <3>1. /\ Len(order) \in Nat /\ Len(order') = Len(order) + 1 /\ DOMAIN order = 1..Len(order)
          /\ \A k \in 1..Len(order) : order'[k] = order[k]
          /\ order'[Len(order) + 1] = i
      BY <1>6, AppendProperties, SeqOfSome DEF TypeOK
    <3>2. \A k \in 1..Len(order) : order[k] = k
      BY <3>1
    <3>3. Seen = 1..Len(order) /\ i = Len(order) + 1
      BY <3>1, <3>2 DEF Seen, Range
    <3>4. net = Held(Seen)
      BY <3>2 DEF PositionInv, NetExact
    <3>5. Seen \cup {i} = 1..i
      BY <3>1, <3>3
    <3>6. Held(Seen)' >= 0
      <4>1. Held(1..i) >= 0
        BY SeenFinite DEF PositionInv, PrefixInv
      <4>2. Seen' = 1..i
        BY <1>6, <3>5
      <4> QED
        BY <1>3, <4>1, <4>2
    <3> DEFINE held == Held(Seen)
               heldNow == Held(Seen)'
               gain == Gain(chain[i].kind)
    <3>7. held = net /\ heldNow = held + gain /\ heldNow >= 0
      BY <2>1, <3>4, <3>6
    <3>9. \/ gain = 0 /\ UNCHANGED <<net, bought>>
          \/ gain = 1 /\ net' = net + 1 /\ bought' = bought + 1
          \/ /\ gain = -1
             /\ net' = IF net = 0 THEN 0 ELSE net - 1
             /\ bought' = IF net <= 1 THEN 0 ELSE bought
      BY <2>2
    <3>10. net \in Nat
      BY <1>1
    <3> HIDE DEF held, heldNow, gain
    <3>8. net' = heldNow
      BY <3>7, <3>9, <3>10
    <3> QED
      BY <3>8 DEF heldNow
  <2> QED
    BY <1>4, <2>4, <2>5 DEF PositionInv
<1> QED
  BY <1>5, <1>6, TakeIs

LEMMA GainType ==
  ASSUME NEW kind PROVE Gain(kind) \in {-1, 0, 1} /\ (Gain(kind) = -1 => kind = "sell")
BY DEF Gain

LEMMA HeldNext ==
  ASSUME NEW c, NEW n \in Nat
  PROVE /\ HeldIn(c, 1..n) \in Int
        /\ HeldIn(c, 1..(n + 1)) = HeldIn(c, 1..n) + Gain(c[n + 1].kind)
<1>1. IsFiniteSet(1..n)
  BY FS_Interval
<1>2. n + 1 \notin 1..n /\ (1..n) \cup {n + 1} = 1..(n + 1)
  OBVIOUS
<1>3. HeldIn(c, (1..n) \cup {n + 1}) = HeldIn(c, 1..n) + Gain(c[n + 1].kind)
  BY <1>1, <1>2, HeldInAdd
<1> QED
  BY <1>1, <1>2, <1>3, HeldType

\* The chain so far never sold more than was bought, and a block keeps that.
LEMMA BlockFits ==
  ASSUME ConstantsAssumption, TypeOK, PositionInv, NEW kinds \in Transactions, Fits(kinds)
  PROVE /\ Held(1..Len(chain)) \in Int /\ Held(1..Len(chain)) >= 0
        /\ Held(1..Len(chain)) + Gain(kinds[1]) >= 0
        /\ Len(kinds) = 2 => Held(1..Len(chain)) + Gain(kinds[1]) + Gain(kinds[2]) >= 0
<1> DEFINE h == Held(1..Len(chain))
           Sold(i, kind) == {j \in 1..(i - 1) : kinds[j] = kind}
<1>1. h \in Int /\ h >= 0
  <2>1. Len(chain) \in Nat
    BY SeqOfSome DEF TypeOK
  <2>2. Len(chain) \in 0..Len(chain)
    BY <2>1
  <2>3. h = HeldIn(chain, 1..Len(chain)) /\ h >= 0
    BY <2>2 DEF Held, HeldIn, PositionInv, PrefixInv
  <2> QED
    BY <2>1, <2>3, HeldNext
<1>2. \A i \in 1..Len(kinds) :
        kinds[i] = "sell" => h + Cardinality(Sold(i, "buy")) > Cardinality(Sold(i, "sell"))
  BY DEF Fits
<1>3. Sold(1, "buy") = {} /\ Sold(1, "sell") = {}
  OBVIOUS
<1>4. /\ kinds[1] = "buy" => Sold(2, "buy") = {1} /\ Sold(2, "sell") = {}
      /\ kinds[1] = "sell" => Sold(2, "buy") = {} /\ Sold(2, "sell") = {1}
  OBVIOUS
<1>5. Len(kinds) = 1 \/ (Len(kinds) = 2 /\ kinds[1] \in {"buy", "sell"} /\ kinds[2] \in {"buy", "sell"})
  <2>1. CASE kinds \in {<<k>> : k \in Kinds}
    <3>1. PICK k \in Kinds : kinds = <<k>>
      BY <2>1
    <3>2. Len(kinds) = 1
      BY <3>1
    <3> QED
      BY <3>2
  <2>2. CASE kinds \in {<<k, l>> : k, l \in {"buy", "sell"}}
    BY <2>2
  <2> QED
    BY <2>1, <2>2 DEF Transactions
<1>6. Cardinality({}) = 0 /\ Cardinality({1}) = 1
  BY FS_EmptySet, FS_Singleton
<1> HIDE DEF h, Sold
<1>7. kinds[1] = "sell" => h > 0
  <2>1. 1 \in 1..Len(kinds)
    BY <1>5
  <2>2. kinds[1] = "sell" => h + 0 > 0
    BY <1>2, <1>3, <1>6, <2>1
  <2> QED
    BY <1>1, <2>2
<1>8. h + Gain(kinds[1]) >= 0
  BY <1>1, <1>7, GainType
<1>9. ASSUME Len(kinds) = 2 PROVE h + Gain(kinds[1]) + Gain(kinds[2]) >= 0
  <2>1. kinds[1] \in {"buy", "sell"} /\ kinds[2] \in {"buy", "sell"}
    BY <1>5, <1>9
  <2>2. CASE kinds[1] = "buy"
    <3>1. Gain(kinds[1]) = 1
      BY <2>2 DEF Gain
    <3> QED
      BY <1>1, <3>1, GainType
  <2>3. CASE kinds[1] = "sell"
    <3>1. Gain(kinds[1]) = -1
      BY <2>3 DEF Gain
    <3>2. kinds[2] = "sell" => h > 1
      BY <1>1, <1>2, <1>4, <1>6, <1>9, <2>3
    <3>3. h > 0
      BY <1>7, <2>3
    <3>4. Gain(kinds[2]) \in {-1, 0, 1} /\ (kinds[2] # "sell" => Gain(kinds[2]) # -1)
      BY GainType
    <3> QED
      BY <1>1, <3>1, <3>2, <3>3, <3>4
  <2> QED
    BY <2>1, <2>2, <2>3
<1> QED
  BY <1>1, <1>8, <1>9 DEF h

LEMMA PlaceOf ==
  ASSUME NEW n \in Nat, NEW m \in {1, 2}, NEW k \in 0..(n + m)
  PROVE k \in 0..n \/ k = n + 1 \/ (m = 2 /\ k = n + 2)
<1>1. CASE m = 1
  BY <1>1
<1>2. CASE m = 2
  BY <1>2
<1> QED
  BY <1>1, <1>2

LEMMA MinePosition ==
  ASSUME ConstantsAssumption, TypeOK, PositionInv, NEW kinds \in Transactions, Mine(kinds)
  PROVE PositionInv'
<1> DEFINE n == Len(chain)
           m == Len(kinds)
           Now(k) == HeldIn(chain', 1..k)
<1>1. n \in Nat /\ m \in {1, 2} /\ Len(chain') = n + m
  BY MineAdds, SeqOfSome, TradesType DEF TypeOK
<1>2. UNCHANGED <<sent, tagged, order, net, bought>>
  BY DEF Mine, sendVars, position
<1>3. \A i \in 1..n : chain'[i] = chain[i]
  BY MineAdds
<1>4. /\ chain'[n + 1].kind = kinds[1]
      /\ m = 2 => chain'[n + 2].kind = kinds[2]
  <2>1. \A i \in 1..Len(chain') : i > n => chain'[i].kind = kinds[i - n]
    BY MineAdds
  <2> QED
    BY <1>1, <2>1
<1>5. \A ids \in SUBSET (1..n) : Held(ids)' = Held(ids)
  <2> SUFFICES ASSUME NEW ids \in SUBSET (1..n) PROVE Held(ids)' = Held(ids)
    OBVIOUS
  <2>1. HeldIn(chain', ids) = HeldIn(chain, ids)
    <3>1. \A i \in ids : chain'[i].kind = chain[i].kind
      BY <1>3
    <3> QED
      BY <3>1, HeldAgree
  <2> QED
    BY <2>1 DEF Held, HeldIn
<1>6. NetNotLow' /\ NetExact'
  <2>1. Seen' = Seen
    BY <1>2 DEF Seen
  <2>2. Held(Seen)' = Held(Seen)
    BY <1>5, <2>1, SeenFinite
  <2> QED
    BY <1>2, <2>2 DEF PositionInv, NetNotLow, NetExact
<1>7. OwnInv'
  <2>1. \A k \in 1..m : kinds[k] \in Own => kinds[k] \in sent
    <3>1. CASE kinds \in {<<k>> : k \in Kinds}
      BY <3>1 DEF Mine, Fits
    <3>2. CASE kinds \in {<<k, l>> : k, l \in {"buy", "sell"}}
      BY <3>2 DEF ConstantsAssumption
    <3> QED
      BY <3>1, <3>2 DEF Transactions
  <2>2. \A i \in 1..n : chain[i].kind \in Own => chain[i].kind \in sent
    BY DEF PositionInv, OwnInv
  <2>3. \A i \in 1..(n + m) : i \in 1..n \/ i = n + 1 \/ (m = 2 /\ i = n + 2)
    <3> SUFFICES ASSUME NEW i \in 1..(n + m)
                 PROVE i \in 1..n \/ i = n + 1 \/ (m = 2 /\ i = n + 2)
      OBVIOUS
    <3>1. i \in 0..(n + m) /\ i # 0
      BY <1>1
    <3>2. i \in 0..n \/ i = n + 1 \/ (m = 2 /\ i = n + 2)
      BY <1>1, <3>1, PlaceOf
    <3> QED
      BY <1>1, <3>1, <3>2
  <2>4. \A i \in 1..Len(chain') : chain'[i].kind \in Own => chain'[i].kind \in sent
    <3> SUFFICES ASSUME NEW i \in 1..Len(chain'), chain'[i].kind \in Own PROVE chain'[i].kind \in sent
      OBVIOUS
    <3>1. CASE i \in 1..n
      BY <1>3, <2>2, <3>1
    <3>2. CASE i = n + 1
      BY <1>1, <1>4, <2>1, <3>2
    <3>3. CASE m = 2 /\ i = n + 2
      BY <1>1, <1>4, <2>1, <3>3
    <3> QED
      BY <1>1, <2>3, <3>1, <3>2, <3>3
  <2> QED
    BY <1>2, <2>4 DEF PositionInv, OwnInv
<1>8. \A k : Held(1..k)' = Now(k)
  BY DEF Held, HeldIn
<1>9. \A k \in 0..n : Now(k) >= 0
  <2>1. \A k \in 0..n : 1..k \in SUBSET (1..n)
    BY <1>1
  <2> QED
    BY <1>5, <1>8, <2>1 DEF PositionInv, PrefixInv
<1>10. Now(n) = Held(1..n)
  BY <1>1, <1>5, <1>8
<1>11. Now(n + 1) = Now(n) + Gain(kinds[1]) /\ Now(n + 1) >= 0
  <2>1. Now(n + 1) = Now(n) + Gain(kinds[1])
    BY <1>1, <1>4, HeldNext
  <2>2. Held(1..n) + Gain(kinds[1]) >= 0
    BY BlockFits DEF Mine
  <2> QED
    BY <1>10, <2>1, <2>2
<1>12. m = 2 => Now(n + 2) >= 0
  <2> SUFFICES ASSUME m = 2 PROVE Now(n + 2) >= 0
    OBVIOUS
  <2>1. n + 1 \in Nat /\ (n + 1) + 1 = n + 2
    BY <1>1
  <2>2. Now((n + 1) + 1) = Now(n + 1) + Gain(chain'[(n + 1) + 1].kind)
    BY <2>1, HeldNext
  <2>3. Now(n + 2) = Now(n) + Gain(kinds[1]) + Gain(kinds[2])
    BY <1>4, <1>11, <2>1, <2>2
  <2>4. Held(1..n) + Gain(kinds[1]) + Gain(kinds[2]) >= 0
    BY BlockFits DEF Mine
  <2> QED
    BY <1>10, <2>3, <2>4
<1> HIDE DEF Now
<1>13. \A k \in 0..(n + m) : Now(k) >= 0
  <2> SUFFICES ASSUME NEW k \in 0..(n + m) PROVE Now(k) >= 0
    OBVIOUS
  <2>1. k \in 0..n \/ k = n + 1 \/ (m = 2 /\ k = n + 2)
    BY <1>1, PlaceOf
  <2> QED
    BY <1>9, <1>11, <1>12, <2>1
<1>14. PrefixInv'
  BY <1>1, <1>8, <1>13 DEF PrefixInv
<1> QED
  BY <1>6, <1>7, <1>14 DEF PositionInv

LEMMA StepPosition ==
  ASSUME ConstantsAssumption, TypeOK, PositionInv, [Next]_vars
  PROVE PositionInv'
<1>1. ASSUME NEW kinds \in Transactions, Mine(kinds) PROVE PositionInv'
  BY <1>1, MinePosition
<1>2. ASSUME NEW o \in Own, Send(o) PROVE PositionInv'
  BY <1>2 DEF Send, chainVars, position, PositionInv, OwnInv, PrefixInv, NetNotLow, NetExact, Held, Seen
<1>3. CASE ConsumeReplayed
  <2>1. PICK i \in todo : Take(i)
    BY <1>3 DEF ConsumeReplayed
  <2>2. i \in 1..Len(chain) /\ UNCHANGED <<chain, sent, tagged>>
    BY <1>3 DEF ConsumeReplayed, TypeOK, chainVars, sendVars
  <2> QED
    BY <2>1, <2>2, TakePosition
<1>4. CASE ConsumeLive
  <2>1. Take(Head(live)) /\ UNCHANGED <<chain, sent, tagged>>
    BY <1>4 DEF ConsumeLive, chainVars, sendVars
  <2>2. Head(live) \in 1..Len(chain)
    BY <1>4, HeadTailProperties DEF ConsumeLive, TypeOK
  <2> QED
    BY <2>1, <2>2, TakePosition
<1>5. CASE \/ \E ok \in BOOLEAN : Watch(ok) \/ RecoveryStart(ok) \/ ReplayHead(ok) \/ ReplayFilter(ok)
           \/ SubscriptionFails \/ Tick \/ Push \/ ReplayEnd \/ OnRetail
           \/ UNCHANGED vars
  <2>1. UNCHANGED <<chain, sent, order, net, bought, tagged>>
    BY <1>5 DEF Watch, RecoveryStart, ReplayHead, ReplayFilter, SubscriptionFails, Tick, Push,
                ReplayEnd, OnRetail, vars, chainVars, sendVars, position
  <2> QED
    BY <2>1, SamePosition
<1> QED
  BY <1>1, <1>2, <1>3, <1>4, <1>5 DEF Next, Loop

LEMMA PositionHolds == Spec => []PositionInv
<1>1. Init => TypeOK /\ PositionInv
  BY ConstantsAssumption, InitType, InitPosition
<1>2. TypeOK /\ PositionInv /\ [Next]_vars => TypeOK' /\ PositionInv'
  BY ConstantsAssumption, StepType, StepPosition
<1> QED
  BY <1>1, <1>2, PTL DEF Spec

\* Snapshot: "retail net token holding (their buys - sells)", exact as long as the
\* trades are consumed in chain order, whatever the channels drop.
THEOREM NetIsExact == Spec => []NetExact
BY PositionHolds, PTL DEF PositionInv

\* onTrade: consumed in whatever order, with the clamp at zero, the position the
\* engine is shown never hides tokens outsiders hold.
THEOREM NetIsNotLow == Spec => []NetNotLow
BY PositionHolds, PTL DEF PositionInv
=============================================================================
