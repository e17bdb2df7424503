------------------------------ MODULE Funding ------------------------------
(***************************************************************************)
(* Funding tasks (internal/control/funding.go and funding_engine.go): ether *)
(* is moved along a fixed route of wallets, hop by hop; within a hop the    *)
(* senders work concurrently, and all transfers of a hop are confirmed      *)
(* before the next begins.  A task that fails, is stopped or is interrupted *)
(* by a crash is started again from its first hop, and moves what is left.  *)
(***************************************************************************)
EXTENDS Integers, Sequences, FiniteSets, Sums

CONSTANTS
  Tasks,
  Kinds,        \* subset of {"distribute", "withdraw"}
  None,
  RelayCount,   \* fundingRelayCount (10)
  BatchCount,   \* fundingBatchCount (5)
  Slots,        \* targets of a task
  Reserve,      \* what a sender keeps back for the gas of one transfer
  Cost,         \* what the transfer then pays for it
  Funds,        \* what the deposit wallet, or each source, holds at first
  MaxCalls,     \* bound: calls of a task's StartFundingTask that have read its record at one time
  MaxFaults     \* bound: failed calls, lost or reverted transfers, crashes, stops and deletes

States == {"ready", "running", "stopped", "error", "done"}

ASSUME ConstantsAssumption ==
  /\ None \notin States \cup Kinds
  /\ Kinds \subseteq {"distribute", "withdraw"}
  /\ RelayCount \in Nat \ {0} /\ BatchCount \in Nat \ {0} /\ Slots \in Nat \ {0}
  /\ Cost \in Nat /\ Reserve \in Nat /\ Cost <= Reserve
  /\ Funds \in Nat /\ MaxCalls \in Nat /\ MaxFaults \in Nat

VARIABLES
  bal, nonce,     \* of every wallet, on the chain
  pool,           \* transfers broadcast and not yet included
  recs, file,     \* the tasks' State in fundingStore.data and in its file
  kind,
  fundingRuns, cancelled,
  run,            \* the goroutine of each task
  ending,         \* the States that runs which have left fundingRuns are about to save
  call,           \* the calls of StartFundingTask and DeleteFundingTask under way
  faults,
  crossed,        \* tasks whose run was started between the steps of finish or of a delete
  unwritten       \* tasks whose last start could not be written

chainVars == <<bal, nonce, pool>>
store == <<recs, file>>
notes == <<crossed, unwritten>>
vars == <<chainVars, store, kind, fundingRuns, cancelled, run, ending, call, faults, notes>>

Fault == faults > 0 /\ faults' = faults - 1

-----------------------------------------------------------------------------
(* The route, buildFundingHops.                                            *)

Relays == 0..(RelayCount - 1)
\* relaySlice: relay r serves the slots (counted from 1) after Before(r), up to Before(r + 1)
Before(r) == (r * Slots) \div RelayCount
RelaySlice(r) == (Before(r) + 1)..Before(r + 1)
RelayOf(i) == CHOOSE r \in Relays : i \in RelaySlice(r)
Active == {r \in Relays : RelaySlice(r) # {}}
\* The active relays in order: all of them, or one for each slot.
ActiveRelays ==
  IF Slots < RelayCount THEN [k \in 1..Slots |-> RelayOf(k)] ELSE [k \in 1..RelayCount |-> k - 1]

DepositCold == <<"deposit">>
WithdrawCold == <<"withdraw">>
DepositRelay(r) == <<"depositRelay", r>>
WithdrawRelay(r) == <<"withdrawRelay", r>>
Batch(t, b, i) == <<"batch", t, b, i>>
Outside(t, i) == <<"outside", t, i>>   \* target i, or source i

Sweep(from, to) == [from |-> from, to |-> <<to>>]
Sweeps(from, to) == {Sweep(from[i], to[i]) : i \in 1..Slots}
\* The wallets of every slot, in a batch and outside.
Row(t, b) == [i \in 1..Slots |-> Batch(t, b, i)]
Ends(t) == [i \in 1..Slots |-> Outside(t, i)]
BatchHops(t) == [b \in 1..(BatchCount - 1) |-> Sweeps(Row(t, b), Row(t, b + 1))]

Distribute(t) ==
  << {[from |-> DepositCold,
       to |-> [k \in 1..Len(ActiveRelays) |-> DepositRelay(ActiveRelays[k])]]},
     {[from |-> DepositRelay(r),
       to |-> [k \in 1..(Before(r + 1) - Before(r)) |-> Batch(t, 1, Before(r) + k)]] : r \in Active} >>
  \o BatchHops(t) \o << Sweeps(Row(t, BatchCount), Ends(t)) >>

Withdraw(t) ==
  LET relays == [i \in 1..Slots |-> WithdrawRelay(RelayOf(i))]
  IN << Sweeps(Ends(t), Row(t, 1)) >> \o BatchHops(t)
     \o << Sweeps(Row(t, BatchCount), relays),
           {Sweep(WithdrawRelay(r), WithdrawCold) : r \in Relays} >>

Hops(t) == IF kind[t] = "distribute" THEN Distribute(t) ELSE Withdraw(t)
Senders(hop) == {spec.from : spec \in hop}
Recipients(hop, w) == (CHOOSE spec \in hop : spec.from = w).to

Wallets ==
  {DepositCold, WithdrawCold} \cup {DepositRelay(r) : r \in Relays}
  \cup {WithdrawRelay(r) : r \in Relays}
  \cup {Batch(t, b, i) : t \in Tasks, b \in 1..BatchCount, i \in 1..Slots}
  \cup {Outside(t, i) : t \in Tasks, i \in 1..Slots}

-----------------------------------------------------------------------------
(* The chain: transfers are included in the order of their nonces; the node *)
(* refuses, and forgets, those the sender cannot pay.                       *)

Payable(tx, b) == b[tx.from] >= tx.amount + Reserve
Includable(tx) == tx \in pool /\ tx.nonce = nonce[tx.from] /\ Payable(tx, bal)

Include(tx) ==
  /\ Includable(tx)
  /\ bal' = [w \in Wallets |-> bal[w] - (IF w = tx.from THEN tx.amount + Cost ELSE 0)
                                     + (IF w = tx.to THEN tx.amount ELSE 0)]
  /\ nonce' = [nonce EXCEPT ![tx.from] = @ + 1]
  /\ pool' = {q \in pool \ {tx} : Payable(q, bal')}
  /\ run' = [t \in Tasks |-> [run[t] EXCEPT !.sent = @ \ {tx}]]
  /\ UNCHANGED <<store, kind, fundingRuns, cancelled, ending, call, faults, notes>>

\* A wallet outside the program may be a contract that refuses the ether: only the
\* gas is paid, and the transfer has no successful receipt.
Refused(tx) ==
  /\ Fault
  /\ Includable(tx)
  /\ tx.to = WithdrawCold \/ \E t \in Tasks, i \in 1..Slots : tx.to = Outside(t, i)
  /\ bal' = [bal EXCEPT ![tx.from] = @ - Cost]
  /\ nonce' = [nonce EXCEPT ![tx.from] = @ + 1]
  /\ pool' = {q \in pool \ {tx} : Payable(q, bal')}
  /\ UNCHANGED <<store, kind, fundingRuns, cancelled, run, ending, call, notes>>

\* The node forgets a transfer.
Drop(tx) ==
  /\ Fault
  /\ tx \in pool
  /\ pool' = pool \ {tx}
  /\ UNCHANGED <<bal, nonce, store, kind, fundingRuns, cancelled, run, ending, call, notes>>

PendingNonce(w) ==
  CHOOSE n \in nonce[w]..(nonce[w] + Cardinality(pool)) :
    /\ \A tx \in pool : tx.from = w => tx.nonce # n
    /\ \A m \in nonce[w]..(n - 1) : \E tx \in pool : tx.from = w /\ tx.nonce = m

-----------------------------------------------------------------------------
(* The task store and the calls.                                           *)

\* saveTask: memory has changed already when the write fails.
Save(t, state, ok) ==
  /\ recs' = [recs EXCEPT ![t] = state]
  /\ IF ok THEN file' = recs' /\ UNCHANGED faults ELSE Fault /\ UNCHANGED file

\* A task whose first write fails is in the store all the same.
CreateFundingTask(t, k, ok) ==
  /\ kind[t] = None
  /\ kind' = [kind EXCEPT ![t] = k]
  /\ bal' = [w \in Wallets |->
               IF \/ k = "distribute" /\ w = DepositCold
                  \/ k = "withdraw" /\ \E i \in 1..Slots : w = Outside(t, i)
                 THEN bal[w] + Funds ELSE bal[w]]
  /\ Save(t, "ready", ok)
  /\ UNCHANGED <<nonce, pool, fundingRuns, cancelled, run, ending, call, notes>>

\* Calls of one task overlap as they like: start, delete: how many have read the
\* record, or found the task idle; save: one has registered its run.
NoCalls == [start |-> 0, save |-> FALSE, delete |-> 0]

\* StartFundingTask reads the record, then registers the run, then saves.
StartRead(t) ==
  /\ call[t].start < MaxCalls
  /\ recs[t] # None
  /\ call' = [call EXCEPT ![t].start = @ + 1]
  /\ UNCHANGED <<chainVars, store, kind, fundingRuns, cancelled, run, ending, faults, notes>>

StartRefused(t) ==
  /\ call[t].start > 0
  /\ t \in fundingRuns
  /\ call' = [call EXCEPT ![t].start = @ - 1]
  /\ UNCHANGED <<chainVars, store, kind, fundingRuns, cancelled, run, ending, faults, notes>>

StartReserve(t) ==
  /\ call[t].start > 0
  /\ t \notin fundingRuns
  /\ fundingRuns' = fundingRuns \cup {t}
  /\ call' = [call EXCEPT ![t].start = @ - 1, ![t].save = TRUE]
  /\ crossed' = IF ending[t] # {} \/ call[t].delete > 0 THEN crossed \cup {t} ELSE crossed \ {t}
  /\ unwritten' = unwritten \ {t}
  /\ UNCHANGED <<chainVars, store, kind, cancelled, run, ending, faults>>

\* sent: the hashes that have no receipt yet
NoRun == [pc |-> "none", hop |-> 0, work |-> <<>>, sent |-> {}, failed |-> FALSE]
ToRead == [at |-> "balance", amounts |-> <<>>, nonce |-> 0]
Hop(t, k) ==
  [NoRun EXCEPT !.pc = "hop", !.hop = k, !.work = [w \in Senders(Hops(t)[k]) |-> ToRead]]

StartSave(t, ok) ==
  /\ call[t].save
  /\ call' = [call EXCEPT ![t].save = FALSE]
  /\ Save(t, "running", ok)
  /\ IF ok THEN run' = [run EXCEPT ![t] = Hop(t, 1)] /\ UNCHANGED <<fundingRuns, cancelled, unwritten>>
           ELSE /\ fundingRuns' = fundingRuns \ {t} /\ cancelled' = cancelled \ {t}
                /\ unwritten' = unwritten \cup {t}
                /\ UNCHANGED run
  /\ UNCHANGED <<chainVars, kind, ending, crossed>>

\* Mutant: the run is unregistered before its goroutine has ended.
StopFundingTaskAtOnce(t) ==
  /\ Fault
  /\ t \in fundingRuns \ cancelled
  /\ fundingRuns' = fundingRuns \ {t}
  /\ UNCHANGED <<chainVars, store, kind, cancelled, run, ending, call, notes>>

StopFundingTask(t) ==
  /\ Fault
  /\ t \in fundingRuns \ cancelled
  /\ cancelled' = cancelled \cup {t}
  /\ UNCHANGED <<chainVars, store, kind, fundingRuns, run, ending, call, notes>>

\* Mutant: a running task is not refused.
DeleteCheckNothing(t) ==
  /\ Fault
  /\ kind[t] # None
  /\ call' = [call EXCEPT ![t].delete = @ + 1]
  /\ UNCHANGED <<chainVars, store, kind, fundingRuns, cancelled, run, ending, notes>>

\* DeleteFundingTask looks once whether the task is active, then deletes it.
DeleteCheck(t) ==
  /\ Fault
  /\ kind[t] # None
  /\ t \notin fundingRuns
  /\ call' = [call EXCEPT ![t].delete = @ + 1]
  /\ UNCHANGED <<chainVars, store, kind, fundingRuns, cancelled, run, ending, notes>>

DeleteFundingTask(t, ok) ==
  /\ call[t].delete > 0
  /\ call' = [call EXCEPT ![t].delete = @ - 1]
  /\ IF recs[t] = None THEN UNCHANGED <<store, faults>> ELSE Save(t, None, ok)
  /\ UNCHANGED <<chainVars, kind, fundingRuns, cancelled, run, ending, notes>>

\* Mutant: newFundingStore leaves the tasks as they were written.
CrashAsWritten ==
  /\ Fault
  /\ recs' = file
  /\ fundingRuns' = {} /\ cancelled' = {}
  /\ run' = [t \in Tasks |-> NoRun]
  /\ ending' = [t \in Tasks |-> {}]
  /\ call' = [t \in Tasks |-> NoCalls]
  /\ crossed' = {} /\ unwritten' = {}
  /\ UNCHANGED <<chainVars, file, kind>>

\* The process dies; newFundingStore makes what was running stopped.
Crash ==
  /\ Fault
  /\ recs' = [t \in Tasks |-> IF file[t] = "running" THEN "stopped" ELSE file[t]]
  /\ fundingRuns' = {} /\ cancelled' = {}
  /\ run' = [t \in Tasks |-> NoRun]
  /\ ending' = [t \in Tasks |-> {}]
  /\ call' = [t \in Tasks |-> NoCalls]
  /\ crossed' = {} /\ unwritten' = {}
  /\ UNCHANGED <<chainVars, file, kind>>

-----------------------------------------------------------------------------
(* execFundingHop: one goroutine per sender, then the receipts.             *)

Working(t, w, at) == run[t].pc = "hop" /\ w \in DOMAIN run[t].work /\ run[t].work[w].at = at
Work(t, w, job) == run' = [run EXCEPT ![t].work[w] = job]
Over == [ToRead EXCEPT !.at = "over"]
Fail(t, w) == run' = [run EXCEPT ![t].work[w] = Over, ![t].failed = TRUE]
UnchangedByRun == <<store, kind, fundingRuns, cancelled, ending, call, notes>>

\* randomNearEvenSplit: weights of 850 to 1150; the last takes the rest, its own
\* share and what rounding has left of the others'.
Rest(total, ps) == total - SumOf(ps)
Splits(total, n) ==
  LET least == (total * 850) \div (850 + 1150 * (n - 1))
      most == (total * 1150) \div (1150 + 850 * (n - 1))
  IN {parts \in {Append(ps, Rest(total, ps)) : ps \in [1..(n - 1) -> least..most]} :
        parts[n] \in least..(most + n - 1)}

\* A sender with no more than the gas of its transfers is passed over.
ReadBalance(t, w) ==
  LET n == Len(Recipients(Hops(t)[run[t].hop], w))
      spendable == bal[w] - n * Reserve
  IN /\ Working(t, w, "balance") /\ t \notin cancelled
     /\ IF spendable <= 0 THEN Work(t, w, Over)
        ELSE \E amounts \in Splits(spendable, n) :
               Work(t, w, [at |-> "nonce", amounts |-> amounts, nonce |-> 0])
     /\ UNCHANGED <<chainVars, UnchangedByRun, faults>>

ReadNonce(t, w) ==
  /\ Working(t, w, "nonce") /\ t \notin cancelled
  /\ Work(t, w, [run[t].work[w] EXCEPT !.at = "send", !.nonce = PendingNonce(w)])
  /\ UNCHANGED <<chainVars, UnchangedByRun, faults>>

Transfer(t, w) ==
  LET job == run[t].work[w]
      to == Recipients(Hops(t)[run[t].hop], w)
      i == Len(to) - Len(job.amounts) + 1
  IN [from |-> w, to |-> to[i], amount |-> Head(job.amounts), nonce |-> job.nonce]

Sent(t, w, tx) ==
  LET job == run[t].work[w]
  IN run' = [run EXCEPT ![t].sent = @ \cup {tx},
                        ![t].work[w] = IF Len(job.amounts) = 1 THEN Over
                                       ELSE [job EXCEPT !.amounts = Tail(@), !.nonce = @ + 1]]
Taken(tx) == \E q \in pool : q # tx /\ q.from = tx.from /\ q.nonce = tx.nonce

\* Accepted, or already known, or its nonce is used up, which is taken for the same.
Send(t, w) ==
  LET tx == Transfer(t, w)
  IN /\ Working(t, w, "send") /\ t \notin cancelled
     /\ IF tx.nonce < nonce[w] THEN Sent(t, w, tx) /\ UNCHANGED pool
        ELSE IF Taken(tx) \/ ~Payable(tx, bal) THEN Fail(t, w) /\ UNCHANGED pool
        ELSE Sent(t, w, tx) /\ pool' = pool \cup {tx}
     /\ UNCHANGED <<bal, nonce, UnchangedByRun, faults>>

\* The answer is an error although the node has taken the transfer.
SendLost(t, w) ==
  LET tx == Transfer(t, w)
  IN /\ Fault
     /\ Working(t, w, "send")
     /\ tx.nonce >= nonce[w] /\ ~Taken(tx) /\ Payable(tx, bal)
     /\ pool' = pool \cup {tx}
     /\ Fail(t, w)
     /\ UNCHANGED <<bal, nonce, UnchangedByRun>>

\* A call fails after its retries; after a stop every call does.
CallFails(t, w) ==
  /\ run[t].pc = "hop" /\ w \in DOMAIN run[t].work /\ run[t].work[w].at # "over"
  /\ IF t \in cancelled THEN UNCHANGED faults ELSE Fault
  /\ Fail(t, w)
  /\ UNCHANGED <<chainVars, UnchangedByRun>>

AllOver(t) == \A w \in DOMAIN run[t].work : run[t].work[w].at = "over"

\* Mutant: finish forgets the run but not its cancellation.
EndKeepsStop(t, state) ==
  /\ state \notin ending[t]
  /\ run' = [run EXCEPT ![t] = NoRun]
  /\ fundingRuns' = fundingRuns \ {t}
  /\ UNCHANGED cancelled
  /\ ending' = [ending EXCEPT ![t] = @ \cup {state}]

\* finish, first step: the run leaves fundingRuns.  (Bound: a run that would save the
\* same state as an earlier one waits until that one has done so.)
End(t, state) ==
  /\ state \notin ending[t]
  /\ run' = [run EXCEPT ![t] = NoRun]
  /\ fundingRuns' = fundingRuns \ {t}
  /\ cancelled' = cancelled \ {t}
  /\ ending' = [ending EXCEPT ![t] = @ \cup {state}]

Ended(t) == End(t, IF t \in cancelled THEN "stopped" ELSE "error")

HopSent(t) ==
  /\ run[t].pc = "hop" /\ AllOver(t)
  /\ IF run[t].failed
       THEN Ended(t)
       ELSE run' = [run EXCEPT ![t].pc = "confirm"] /\ UNCHANGED <<fundingRuns, cancelled, ending>>
  /\ UNCHANGED <<chainVars, store, kind, call, faults, notes>>

\* Mutant: the next hop begins before the receipts.
HopConfirmedEarly(t, ok) ==
  /\ run[t].pc = "confirm"
  /\ Save(t, "running", ok)
  /\ run' = [run EXCEPT ![t] =
               IF run[t].hop < Len(Hops(t)) THEN Hop(t, run[t].hop + 1)
               ELSE [NoRun EXCEPT !.pc = "done", !.hop = run[t].hop + 1]]
  /\ UNCHANGED <<chainVars, kind, fundingRuns, cancelled, ending, call, notes>>

HopConfirmed(t, ok) ==
  /\ run[t].pc = "confirm"
  /\ run[t].sent = {}
  /\ Save(t, "running", ok)
  /\ run' = [run EXCEPT ![t] =
               IF run[t].hop < Len(Hops(t)) THEN Hop(t, run[t].hop + 1)
               ELSE [NoRun EXCEPT !.pc = "done", !.hop = run[t].hop + 1]]
  /\ UNCHANGED <<chainVars, kind, fundingRuns, cancelled, ending, call, notes>>

RunDone(t) ==
  /\ run[t].pc = "done"
  /\ End(t, "done")
  /\ UNCHANGED <<chainVars, store, kind, call, faults, notes>>

\* Mutant: a receipt is waited for as long as it takes.
ConfirmNeverTimesOut(t) ==
  /\ run[t].pc = "confirm"
  /\ run[t].sent # {} /\ t \in cancelled
  /\ Ended(t)
  /\ UNCHANGED <<chainVars, store, kind, call, faults, notes>>

\* No receipt in 120 s: always so for a transfer that cannot be included.
ConfirmFails(t) ==
  /\ run[t].pc = "confirm"
  /\ run[t].sent # {}
  /\ IF t \in cancelled \/ ~ \E tx \in pool : Includable(tx) THEN UNCHANGED faults ELSE Fault
  /\ Ended(t)
  /\ UNCHANGED <<chainVars, store, kind, call, notes>>

\* finish, second step.
RunSave(t, state, ok) ==
  /\ state \in ending[t]
  /\ Save(t, state, ok)
  /\ ending' = [ending EXCEPT ![t] = @ \ {state}]
  /\ UNCHANGED <<chainVars, kind, fundingRuns, cancelled, run, call, notes>>

-----------------------------------------------------------------------------

Init ==
  /\ bal = [w \in Wallets |-> 0]
  /\ nonce = [w \in Wallets |-> 0]
  /\ pool = {}
  /\ recs = [t \in Tasks |-> None] /\ file = recs
  /\ kind = [t \in Tasks |-> None]
  /\ fundingRuns = {} /\ cancelled = {}
  /\ run = [t \in Tasks |-> NoRun]
  /\ ending = [t \in Tasks |-> {}]
  /\ call = [t \in Tasks |-> NoCalls]
  /\ faults = MaxFaults
  /\ crossed = {} /\ unwritten = {}

Call(t) ==
  \/ \E k \in Kinds, ok \in BOOLEAN : CreateFundingTask(t, k, ok)
  \/ StartRead(t) \/ StartRefused(t) \/ StartReserve(t)
  \/ StopFundingTask(t)
  \/ DeleteCheck(t) \/ \E ok \in BOOLEAN : DeleteFundingTask(t, ok)

Worker(t, w) == ReadBalance(t, w) \/ ReadNonce(t, w) \/ Send(t, w)

Runner(t) ==
  \/ HopSent(t) \/ RunDone(t) \/ ConfirmFails(t)
  \/ \E ok \in BOOLEAN : StartSave(t, ok) \/ HopConfirmed(t, ok)
                       \/ \E state \in ending[t] : RunSave(t, state, ok)

Next ==
  \/ \E t \in Tasks :
       \/ Call(t) \/ Runner(t)
       \/ \E w \in DOMAIN run[t].work : Worker(t, w) \/ SendLost(t, w) \/ CallFails(t, w)
  \/ \E tx \in pool : Include(tx) \/ Refused(tx) \/ Drop(tx)
  \/ Crash

\* The chain includes what it can, goroutines run, and the user starts again
\* what has not been done.
Fairness ==
  /\ WF_vars(\E tx \in pool : Include(tx))
  /\ \A t \in Tasks :
       /\ WF_vars(Runner(t))
       /\ \A w \in Wallets : WF_vars(w \in DOMAIN run[t].work /\ (Worker(t, w) \/ CallFails(t, w)))
       /\ WF_vars(recs[t] # "done" /\ StartRead(t))
       /\ WF_vars(StartRefused(t) \/ StartReserve(t))
       /\ WF_vars(\E ok \in BOOLEAN : DeleteFundingTask(t, ok))

Spec == Init /\ [][Next]_vars
FairSpec == Spec /\ Fairness

-----------------------------------------------------------------------------

Tx == [from : Wallets, to : Wallets, amount : Nat, nonce : Nat]
TypeOK ==
  /\ bal \in [Wallets -> Nat] /\ nonce \in [Wallets -> Nat]
  /\ pool \subseteq Tx
  /\ recs \in [Tasks -> States \cup {None}] /\ file \in [Tasks -> States \cup {None}]
  /\ kind \in [Tasks -> Kinds \cup {None}]
  /\ fundingRuns \subseteq Tasks /\ cancelled \subseteq fundingRuns
  /\ ending \in [Tasks -> SUBSET States]
  /\ call \in [Tasks -> [start : 0..MaxCalls, save : BOOLEAN, delete : 0..MaxFaults]]
  /\ faults \in 0..MaxFaults /\ crossed \subseteq Tasks /\ unwritten \subseteq Tasks
  /\ \A t \in Tasks : run[t].pc \in {"none", "hop", "confirm", "done"}
                      /\ run[t].sent \subseteq Tx /\ run[t].failed \in BOOLEAN

\* A goroutine that may send is registered: a start is refused while it lives, and a
\* stop reaches it (StartFundingTask, StopFundingTask, finish, wg.Wait), however
\* starts and deletes of its task overlap.
RunsRegistered == \A t \in Tasks : run[t].pc # "none" => t \in fundingRuns

\* "Every hop only moves balances that actually exist on chain, so restarting an
\* interrupted task safely continues": a run that has passed a hop, or is done, has
\* left no more behind up to there than the gas of the transfers, whatever earlier
\* runs have left in the node's pool (execFundingHop).  One sender may be left with
\* more than its own gas: a transfer of an earlier run can come to it late.
Passed(t, k) == UNION {Hops(t)[j] : j \in 1..k}
NothingLeftBehind ==
  \A t \in Tasks : run[t].pc # "none" =>
    \A k \in 1..(run[t].hop - 1) :
      SumOf([spec \in Passed(t, k) |-> bal[spec.from]])
        <= SumOf([spec \in Passed(t, k) |-> Len(spec.to) * Reserve])

\* No record says "running" that nothing stands behind: a run is registered, one is
\* about to save how it ended, or the start's own write failed, whatever calls
\* overlap and after every crash (StartFundingTask, finish, newFundingStore).
NoPhantomRun ==
  \A t \in Tasks :
    recs[t] = "running" => t \in fundingRuns \/ ending[t] # {} \/ t \in unwritten

\* What moves money is shown as running: the record is there and says so as long as
\* the run lives.  Left out is a run whose start came between the two steps of an
\* earlier run's finish, which then overwrites the record, or between the check and
\* the deletion of DeleteFundingTask, which then deletes it ("stop the funding task
\* before deleting it" is not enforced there).
RunIsRecorded == \A t \in Tasks \ crossed : run[t].pc # "none" => recs[t] = "running"

\* A funded task that is not deleted and is started again whenever it ended
\* early is done in the end, whatever failed, was lost or is stuck in the pool.
EventuallyDone ==
  \A t \in Tasks : (recs[t] # None) ~> (recs[t] \in {"done", None})
=============================================================================
