--------------------------- MODULE ServiceProofs ---------------------------
(***************************************************************************)
(* Proofs about Service for every set of strategies, keys and calls: what   *)
(* a run reserves is its own, its keys and its token stay on disk, and      *)
(* reported keys are never lost, as long as the calls named in the premise  *)
(* of each property do not overlap.                                         *)
(***************************************************************************)
EXTENDS Service, TLAPS

Ops == {"idle", "start", "save", "delete", "reset", "resetJob", "lock",
        "clear", "clearConfig", "exit"}

\* Runs and calls that name a strategy name one that there is.
Named ==
  /\ \A r \in Runs : Live(r) => run[r].s \in Strategies
  /\ \A c \in Calls :
       call[c].op \in {"start", "save", "delete", "reset", "resetJob", "exit"} =>
         call[c].s \in Strategies

Typed == TypeOK /\ Named

\* Of calls that are in progress together, both are noted.
Busy(c) == call[c].op \notin {"idle", "exit"}
OverlapsNoted ==
  \A c, d \in Calls :
    c # d /\ Busy(c) /\ Busy(d) => {Kind(call[c].op), Kind(call[d].op)} \subseteq lapses

\* Jobs, reservations and live runs correspond, and a strategy that is being
\* reset has no run.
Reserved ==
  /\ \A r \in Runs : Live(r) =>
       LET j == job[run[r].s]
       IN j # None /\ j.active /\ j.run = r /\ j.wallets = run[r].rec.wallets
  /\ \A s \in Strategies : IsActive(s) => Live(job[s].run) /\ run[job[s].run].s = s
  /\ \A w \in Trading, s \in Strategies :
       used[w] = s <=> \E r \in Runs : Live(r) /\ run[r].s = s /\ w \in run[r].rec.wallets
  /\ \A c \in Calls : call[c].op \in {"reset", "resetJob"} => ~IsActive(call[c].s)
ReservedInv == "reset" \notin lapses => Reserved

\* Memory and the vault file hold the same keys unless a write failed; no file,
\* no keys.
VaultInv ==
  /\ vault = "absent" => keys = {} /\ vfile = {}
  /\ "write" \notin lapses /\ vault = "open" => keys = vfile

\* What a start has checked still holds, and nothing runs while keys are cleared.
KeptInv ==
  lapses \cap {"reset", "clear", "write"} = {} =>
    /\ \A r \in Runs : Live(r) => run[r].rec.wallets \subseteq vfile
    /\ \A c \in Calls : call[c].op = "start" => call[c].rec.wallets \subseteq vfile
    /\ \A c \in Calls : call[c].op = "clear" => \A r \in Runs : ~Live(r)

\* A clear that is in progress keeps every reported routing key.
AckedInv ==
  /\ AckedKeysDurable
  /\ "clear" \notin lapses =>
       \A c \in Calls : call[c].op = "clear" => acked \cap Funding \subseteq call[c].keep

\* The stored strategy is the copy its run has, from its start to its end, and
\* no call that changes a stored strategy is in progress while it runs.
Stored ==
  /\ \A r \in Runs : Live(r) => cfg[run[r].s] = run[r].rec
  /\ \A c \in Calls : call[c].op = "start" =>
       cfg[call[c].s] = call[c].rec /\ ~IsActive(call[c].s)
  /\ \A c \in Calls : call[c].op \in {"save", "delete", "reset"} => ~IsActive(call[c].s)
  /\ \A c \in Calls : call[c].op \in {"clear", "clearConfig"} => ~AnyActive
\* Memory and file hold the same strategies unless a write failed.
FileInv == "write" \notin lapses => file = cfg
StoredInv ==
  /\ FileInv
  /\ lapses \cap {"start", "save", "delete", "reset", "clear"} = {} => Stored

-----------------------------------------------------------------------------
(* The values.                                                              *)

LEMMA Values ==
  /\ Idle \in Call /\ Idle.op = "idle"
  /\ NoRun \in Run /\ Gone \in Run /\ NoRun.pc = "none" /\ Gone.pc = "done"
  /\ NoStrategy \in Strategy /\ NoStrategy.wallets = {}
  /\ Runs \subseteq Nat
  /\ \A s \in Strategies : s # None
  /\ \A rec \in Strategy : rec # None
  /\ \A j \in Job : j # None
<1>1. NoStrategy \in Strategy /\ NoStrategy.wallets = {}
  BY DEF NoStrategy, Strategy
<1>2. Idle \in Call /\ Idle.op = "idle"
  BY <1>1 DEF Idle, Call
<1>3. NoRun \in Run /\ NoRun.pc = "none"
  BY <1>1 DEF NoRun, Run
<1>4. Gone \in Run /\ Gone.pc = "done"
  BY <1>3 DEF Gone, Run
<1> QED
  BY <1>1, <1>2, <1>3, <1>4, ConstantsAssumption DEF Runs

\* The calls change in three ways: one begins, one ends, one goes on.
LEMMA CallSet ==
  ASSUME Typed, NEW c \in Calls, NEW v \in Call, call' = [call EXCEPT ![c] = v],
         v.op \in {"start", "save", "delete", "reset", "resetJob", "exit"} => v.s \in Strategies
  PROVE  /\ call' \in [Calls -> Call]
         /\ \A d \in Calls :
              call'[d].op \in {"start", "save", "delete", "reset", "resetJob", "exit"} =>
                call'[d].s \in Strategies
BY DEF Typed, TypeOK, Named

LEMMA BeginTyped ==
  ASSUME Typed, NEW c \in Calls, NEW op \in Lapses \ {"write"}, NEW s \in Strategies \cup {None},
         NEW rec \in Strategy, Begin(c, op, s, rec),
         op \in {"start", "save", "delete", "reset"} => s \in Strategies
  PROVE  /\ call' \in [Calls -> Call]
         /\ \A d \in Calls :
              call'[d].op \in {"start", "save", "delete", "reset", "resetJob", "exit"} =>
                call'[d].s \in Strategies
         /\ lapses' \subseteq Lapses
<1> DEFINE v == [Idle EXCEPT !.op = op, !.s = s, !.rec = rec,
                             !.keep = IF op = "clear" THEN RoutingKeys ELSE {}]
<1>1. RoutingKeys \subseteq Wallets
  BY DEF RoutingKeys, Wallets
<1>2. v \in Call /\ v.op = op /\ v.s = s
  BY <1>1 DEF Idle, Call, NoStrategy, Strategy, Lapses
<1>3. call' = [call EXCEPT ![c] = v]
  BY DEF Begin
<1>4. InProgress \subseteq Lapses
  BY DEF InProgress, Kind, Lapses, Typed, TypeOK, Call
<1>5. lapses' \subseteq Lapses
  BY <1>4 DEF Begin, Typed, TypeOK
<1>6. op \notin {"resetJob", "exit"}
  BY DEF Lapses
<1> HIDE DEF v
<1>7. v.op \in {"start", "save", "delete", "reset", "resetJob", "exit"} => v.s \in Strategies
  BY <1>2, <1>6
<1> QED
  BY <1>2, <1>3, <1>5, <1>7, CallSet

LEMMA EndTyped ==
  ASSUME Typed, NEW c \in Calls, End(c)
  PROVE  /\ call' \in [Calls -> Call]
         /\ \A d \in Calls :
              call'[d].op \in {"start", "save", "delete", "reset", "resetJob", "exit"} =>
                call'[d].s \in Strategies
BY CallSet, Values DEF End

LEMMA WriteTyped ==
  ASSUME Typed, NEW new \in [Strategies -> Strategy \cup {None}], NEW ok \in BOOLEAN, Write(new, ok)
  PROVE  /\ cfg' \in [Strategies -> Strategy \cup {None}]
         /\ file' \in [Strategies -> Strategy \cup {None}]
         /\ faults' \in 0..MaxFaults
         /\ lapses' \subseteq Lapses
<1>1. cfg' = new /\ (file' = file \/ file' = new)
  BY DEF Write
<1>2. faults' \in 0..MaxFaults
  BY ConstantsAssumption DEF Typed, TypeOK, Write
<1>3. lapses' \subseteq Lapses
  BY DEF Typed, TypeOK, Write, Lapses
<1> QED
  BY <1>1, <1>2, <1>3 DEF Typed, TypeOK

LEMMA SaveKeysTyped ==
  ASSUME Typed, NEW new \in SUBSET Wallets, NEW ok \in BOOLEAN, NEW during \in SUBSET Lapses,
         SaveKeys(new, ok, during)
  PROVE  /\ keys' \subseteq Wallets /\ vfile' \subseteq Wallets
         /\ faults' \in 0..MaxFaults
         /\ lapses' \subseteq Lapses
BY ConstantsAssumption DEF Typed, TypeOK, SaveKeys, Lapses

LEMMA EditTyped == ASSUME Typed, Edit PROVE edits' \in 0..MaxEdits
BY ConstantsAssumption DEF Typed, TypeOK, Edit

LEMMA VaultTyped ==
  ASSUME Typed
  PROVE  /\ CheckInit => Typed'
         /\ UnlockVault => Typed'
         /\ \A ok \in BOOLEAN : CreateVault(ok) => Typed'
         /\ \A ok \in BOOLEAN, new \in (SUBSET Trading) \cup (SUBSET Funding) : Import(new, ok) => Typed'
<1>1. CheckInit => Typed'
  BY DEF CheckInit, Typed, TypeOK, Named, Live, store, vaultVars, jobVars
<1>2. UnlockVault => Typed'
  BY DEF UnlockVault, Typed, TypeOK, Named, Live, store, jobVars
<1>3. ASSUME NEW ok \in BOOLEAN, CreateVault(ok) PROVE Typed'
  BY <1>3, ConstantsAssumption DEF CreateVault, Typed, TypeOK, Named, Live, store, jobVars
<1>4. ASSUME NEW ok \in BOOLEAN, NEW new \in (SUBSET Trading) \cup (SUBSET Funding), Import(new, ok)
      PROVE  Typed'
  <2>1. keys \cup new \in SUBSET Wallets /\ new \subseteq Wallets
    BY DEF Typed, TypeOK, Wallets
  <2>2. InProgress \cap {"clear"} \in SUBSET Lapses
    BY DEF Lapses
  <2>3. SaveKeys(keys \cup new, ok, InProgress \cap {"clear"})
    BY <1>4 DEF Import
  <2>4. /\ keys' \subseteq Wallets /\ vfile' \subseteq Wallets
        /\ faults' \in 0..MaxFaults /\ lapses' \subseteq Lapses
    BY <2>1, <2>2, <2>3, SaveKeysTyped
  <2>5. acked' \subseteq Wallets
    BY <1>4, <2>1 DEF Import, Typed, TypeOK
  <2> QED
    BY <1>4, <2>4, <2>5 DEF Import, Typed, TypeOK, Named, Live, store, jobVars
<1> QED
  BY <1>1, <1>2, <1>3, <1>4

\* The calls that only begin.
LEMMA CheckTyped ==
  ASSUME Typed, NEW c \in Calls
  PROVE  /\ LockCheck(c) => Typed'
         /\ ClearCheck(c) => Typed'
         /\ \A s \in Strategies :
              /\ \A mode \in {"launch", "existing"}, wallets \in Selections :
                   SaveCheck(c, s, mode, wallets) => Typed'
              /\ DeleteCheck(c, s) => Typed'
              /\ ResetCheck(c, s) => Typed'
              /\ StartRead(c, s) => Typed'
<1> DEFINE Begins(op, s, rec) ==
      /\ Begin(c, op, s, rec)
      /\ edits' = edits \/ Edit
      /\ UNCHANGED <<store, vaultVars, initOK, jobVars, run, faults>>
<1>1. ASSUME NEW op \in Lapses \ {"write"}, NEW s \in Strategies \cup {None}, NEW rec \in Strategy,
             op \in {"start", "save", "delete", "reset"} => s \in Strategies, Begins(op, s, rec)
      PROVE  Typed'
  <2>1. /\ call' \in [Calls -> Call] /\ lapses' \subseteq Lapses
        /\ \A d \in Calls :
             call'[d].op \in {"start", "save", "delete", "reset", "resetJob", "exit"} =>
               call'[d].s \in Strategies
    BY <1>1, BeginTyped
  <2>2. edits' \in 0..MaxEdits
    BY <1>1, EditTyped DEF Typed, TypeOK
  <2> QED
    BY <1>1, <2>1, <2>2 DEF Typed, TypeOK, Named, Live, store, vaultVars, jobVars
<1>2. LockCheck(c) => Begins("lock", None, NoStrategy)
  BY DEF LockCheck
<1>3. ClearCheck(c) => Begins("clear", None, NoStrategy)
  BY DEF ClearCheck
<1>4. ASSUME NEW s \in Strategies, NEW mode \in {"launch", "existing"}, NEW wallets \in Selections,
             SaveCheck(c, s, mode, wallets)
      PROVE  Typed'
  <2> DEFINE rec == [mode |-> mode, wallets |-> wallets,
                     token |-> IF cfg[s] = None THEN 0 ELSE cfg[s].token]
  <2>1. rec \in Strategy
    BY ConstantsAssumption DEF Typed, TypeOK, Strategy
  <2>2. Begins("save", s, rec)
    BY <1>4 DEF SaveCheck
  <2> QED
    BY <1>1, <2>1, <2>2 DEF Lapses
<1>5. ASSUME NEW s \in Strategies
      PROVE  /\ DeleteCheck(c, s) => Begins("delete", s, NoStrategy)
             /\ ResetCheck(c, s) => Begins("reset", s, [cfg[s] EXCEPT !.mode = "launch", !.token = 0])
             /\ StartRead(c, s) => Begins("start", s, cfg[s])
  BY DEF DeleteCheck, ResetCheck, StartRead
<1>6. ASSUME NEW s \in Strategies, cfg[s] # None
      PROVE  cfg[s] \in Strategy /\ [cfg[s] EXCEPT !.mode = "launch", !.token = 0] \in Strategy
  BY <1>6 DEF Typed, TypeOK, Strategy
<1> HIDE DEF Begins
<1>7. NoStrategy \in Strategy
  BY Values
<1>8. ASSUME NEW s \in Strategies
      PROVE  /\ DeleteCheck(c, s) => Typed'
             /\ ResetCheck(c, s) => Typed'
             /\ StartRead(c, s) => Typed'
  BY <1>1, <1>5, <1>6, <1>7 DEF Lapses, ResetCheck, StartRead
<1>9. LockCheck(c) => Typed'
  BY <1>1, <1>2, <1>7 DEF Lapses
<1>10. ClearCheck(c) => Typed'
  BY <1>1, <1>3, <1>7 DEF Lapses
<1> QED
  BY <1>4, <1>8, <1>9, <1>10

\* What a call does between its beginning and its end.
LEMMA EditActTyped ==
  ASSUME Typed, NEW c \in Calls
  PROVE  /\ LockVault(c) => Typed'
         /\ RetainLocked(c) => Typed'
         /\ ResetJob(c) => Typed'
         /\ \A ok \in BOOLEAN :
              /\ Retain(c, ok) => Typed'
              /\ ClearConfig(c, ok) => Typed'
              /\ SaveStrategy(c, ok) => Typed'
              /\ DeleteStrategy(c, ok) => Typed'
              /\ ResetSave(c, ok) => Typed'
<1>1. LockVault(c) => Typed'
  BY EndTyped DEF LockVault, Typed, TypeOK, Named, Live, store, jobVars
<1>2. RetainLocked(c) => Typed'
  BY EndTyped DEF RetainLocked, Typed, TypeOK, Named, Live, store, vaultVars, jobVars
<1>3. ASSUME ResetJob(c) PROVE Typed'
  <2>1. job' \in [Strategies -> Job \cup {None}]
    BY <1>3 DEF ResetJob, Typed, TypeOK
  <2> QED
    BY <1>3, <2>1, EndTyped DEF ResetJob, Typed, TypeOK, Named, Live, store, vaultVars
<1>4. ASSUME NEW ok \in BOOLEAN, Retain(c, ok) PROVE Typed'
  <2>1. keys \cap call[c].keep \in SUBSET Wallets /\ {} \in SUBSET Lapses
    BY DEF Typed, TypeOK
  <2>2. /\ keys' \subseteq Wallets /\ vfile' \subseteq Wallets
        /\ faults' \in 0..MaxFaults /\ lapses' \subseteq Lapses
    BY <1>4, <2>1, SaveKeysTyped DEF Retain
  <2>3. [Idle EXCEPT !.op = "clearConfig"] \in Call /\ [Idle EXCEPT !.op = "clearConfig"].op = "clearConfig"
    BY Values DEF Call
  <2>4. /\ call' \in [Calls -> Call]
        /\ \A d \in Calls :
             call'[d].op \in {"start", "save", "delete", "reset", "resetJob", "exit"} =>
               call'[d].s \in Strategies
    BY <1>4, <2>3, CallSet, Values DEF Retain
  <2>5. acked' \subseteq Wallets
    BY <1>4 DEF Retain, Typed, TypeOK
  <2> QED
    BY <1>4, <2>2, <2>4, <2>5 DEF Retain, Typed, TypeOK, Named, Live, store, jobVars
<1>5. ASSUME NEW ok \in BOOLEAN, NEW new \in [Strategies -> Strategy \cup {None}], Write(new, ok),
             \/ End(c)
             \/ call' = [call EXCEPT ![c] = [@ EXCEPT !.op = "resetJob"]] /\ call[c].op = "reset",
             UNCHANGED <<vaultVars, initOK, jobVars, run, edits>>
      PROVE  Typed'
  <2>1. /\ call' \in [Calls -> Call]
        /\ \A d \in Calls :
             call'[d].op \in {"start", "save", "delete", "reset", "resetJob", "exit"} =>
               call'[d].s \in Strategies
    <3>1. CASE End(c)
      BY <3>1, EndTyped
    <3>2. CASE call' = [call EXCEPT ![c] = [@ EXCEPT !.op = "resetJob"]] /\ call[c].op = "reset"
      <4> DEFINE v == [call[c] EXCEPT !.op = "resetJob"]
      <4>1. v \in Call /\ v.s = call[c].s /\ call[c].s \in Strategies
        BY <3>2 DEF Typed, TypeOK, Named, Call
      <4>2. call' = [call EXCEPT ![c] = v]
        BY <3>2
      <4> HIDE DEF v
      <4> QED
        BY <4>1, <4>2, CallSet
    <3> QED
      BY <1>5, <3>1, <3>2
  <2>2. /\ cfg' \in [Strategies -> Strategy \cup {None}]
        /\ file' \in [Strategies -> Strategy \cup {None}]
        /\ faults' \in 0..MaxFaults
        /\ lapses' \subseteq Lapses
    BY <1>5, WriteTyped
  <2> QED
    BY <1>5, <2>1, <2>2 DEF Typed, TypeOK, Named, Live, vaultVars, jobVars
<1>6. ASSUME NEW ok \in BOOLEAN, ClearConfig(c, ok) PROVE Typed'
  <2> DEFINE new == [s \in Strategies |->
              IF cfg[s] = None THEN None ELSE [cfg[s] EXCEPT !.wallets = {}]]
  <2>1. new \in [Strategies -> Strategy \cup {None}]
    BY DEF Typed, TypeOK, Strategy
  <2>2. Write(new, ok) /\ End(c) /\ UNCHANGED <<vaultVars, initOK, jobVars, run, edits>>
    BY <1>6 DEF ClearConfig
  <2> HIDE DEF new
  <2> QED
    BY <1>5, <2>1, <2>2
<1>7. /\ [cfg EXCEPT ![call[c].s] = call[c].rec] \in [Strategies -> Strategy \cup {None}]
      /\ [cfg EXCEPT ![call[c].s] = None] \in [Strategies -> Strategy \cup {None}]
  <2>1. call[c].rec \in Strategy /\ cfg \in [Strategies -> Strategy \cup {None}]
    BY DEF Typed, TypeOK, Call
  <2> QED
    BY <2>1
<1>8. ASSUME NEW ok \in BOOLEAN, SaveStrategy(c, ok) PROVE Typed'
  BY <1>5, <1>7, <1>8 DEF SaveStrategy
<1>9. ASSUME NEW ok \in BOOLEAN, DeleteStrategy(c, ok) PROVE Typed'
  <2>1. CASE cfg[call[c].s] = None
    BY <1>9, <2>1, EndTyped DEF DeleteStrategy, Typed, TypeOK, Named, Live, store, vaultVars, jobVars
  <2>2. CASE cfg[call[c].s] # None
    BY <1>5, <1>7, <1>9, <2>2 DEF DeleteStrategy
  <2> QED
    BY <2>1, <2>2
<1>10. ASSUME NEW ok \in BOOLEAN, ResetSave(c, ok) PROVE Typed'
  BY <1>5, <1>7, <1>10 DEF ResetSave, End
<1> QED
  BY <1>1, <1>2, <1>3, <1>4, <1>6, <1>8, <1>9, <1>10

LEMMA StartActTyped ==
  ASSUME Typed, NEW c \in Calls
  PROVE  /\ StartRefused(c) => Typed'
         /\ \A r \in Runs : StartRun(c, r) => Typed'
         /\ ExitReady(c) => Typed'
         /\ ExitTimeout(c) => Typed'
         /\ \A s \in Strategies : ExitRequest(c, s) => Typed'
<1>1. StartRefused(c) => Typed'
  BY EndTyped DEF StartRefused, Typed, TypeOK, Named, Live, store, vaultVars, jobVars
<1>2. ExitTimeout(c) => Typed'
  BY EndTyped DEF ExitTimeout, Typed, TypeOK, Named, Live, store, vaultVars, jobVars
<1>3. ASSUME NEW r \in Runs, StartRun(c, r) PROVE Typed'
  <2>1. call[c].s \in Strategies /\ call[c].rec \in Strategy /\ call[c].rec.wallets \subseteq Trading
    BY <1>3 DEF StartRun, Typed, TypeOK, Named, Call, Strategy
  <2> DEFINE new == [NoRun EXCEPT !.pc = "setup", !.s = call[c].s, !.rec = call[c].rec]
             made == [active |-> TRUE, exit |-> FALSE, wallets |-> call[c].rec.wallets,
                      run |-> r, engine |-> 0]
  <2>2. new \in Run /\ new.s = call[c].s
    BY <2>1 DEF NoRun, Run
  <2>3. made \in Job
    BY <2>1 DEF Job
  <2>4. run' = [run EXCEPT ![r] = new] /\ job' = [job EXCEPT ![call[c].s] = made]
    BY <1>3 DEF StartRun
  <2>5. used' \in [Trading -> Strategies \cup {None}]
    BY <1>3, <2>1 DEF StartRun, Typed, TypeOK
  <2> HIDE DEF new, made
  <2>6. run' \in [Runs -> Run] /\ \A q \in Runs : run'[q] = IF q = r THEN new ELSE run[q]
    BY <2>2, <2>4 DEF Typed, TypeOK
  <2>7. job' \in [Strategies -> Job \cup {None}]
    BY <2>3, <2>4 DEF Typed, TypeOK
  <2>8. \A q \in Runs : Live(q)' => run'[q].s \in Strategies
    BY <2>1, <2>2, <2>6 DEF Typed, Named, Live
  <2> QED
    BY <1>3, <2>5, <2>6, <2>7, <2>8, EndTyped DEF StartRun, Typed, TypeOK, Named, store, vaultVars
<1>4. ASSUME ExitReady(c) PROVE Typed'
  <2>1. run' \in [Runs -> Run] /\ \A q \in Runs : run'[q].s = run[q].s /\ run'[q].pc = run[q].pc
    <3> DEFINE engine == IF job[call[c].s] = None THEN 0 ELSE job[call[c].s].engine
    <3>1. run' = [r \in Runs |-> IF r = engine THEN [run[r] EXCEPT !.told = TRUE] ELSE run[r]]
      BY <1>4 DEF ExitReady
    <3> HIDE DEF engine
    <3>2. \A q \in Runs : /\ [run[q] EXCEPT !.told = TRUE] \in Run
                          /\ [run[q] EXCEPT !.told = TRUE].s = run[q].s
                          /\ [run[q] EXCEPT !.told = TRUE].pc = run[q].pc
      BY DEF Typed, TypeOK, Run
    <3> QED
      BY <3>1, <3>2 DEF Typed, TypeOK
  <2> QED
    BY <1>4, <2>1, EndTyped DEF ExitReady, Typed, TypeOK, Named, Live, store, vaultVars, jobVars
<1>5. ASSUME NEW s \in Strategies, ExitRequest(c, s) PROVE Typed'
  <2>1. job[s] \in Job
    BY <1>5 DEF ExitRequest, IsActive, Typed, TypeOK
  <2>2. job' \in [Strategies -> Job \cup {None}]
    BY <1>5, <2>1 DEF ExitRequest, Typed, TypeOK, Job
  <2> DEFINE v == [Idle EXCEPT !.op = "exit", !.s = s, !.run = job[s].run]
  <2>3. v \in Call /\ v.s = s /\ call' = [call EXCEPT ![c] = v]
    BY <1>5, <2>1 DEF ExitRequest, Idle, Call, Job, NoStrategy, Strategy
  <2> HIDE DEF v
  <2>4. /\ call' \in [Calls -> Call]
        /\ \A d \in Calls :
             call'[d].op \in {"start", "save", "delete", "reset", "resetJob", "exit"} =>
               call'[d].s \in Strategies
    BY <2>3, CallSet
  <2> QED
    BY <1>5, <2>2, <2>4 DEF ExitRequest, Typed, TypeOK, Named, Live, store, vaultVars
<1> QED
  BY <1>1, <1>2, <1>3, <1>4, <1>5

\* Telling runs to stop changes nothing else of them.
LEMMA ToldTyped ==
  ASSUME Typed, (\E s \in Strategies : Stop(s)) \/ Shutdown
  PROVE  /\ Typed'
         /\ \A r \in Runs : run'[r].s = run[r].s /\ run'[r].pc = run[r].pc /\ run'[r].rec = run[r].rec
         /\ UNCHANGED <<store, vaultVars, jobVars, call, lapses>>
<1>1. \A r \in Runs : /\ [run[r] EXCEPT !.told = TRUE] \in Run
                      /\ [run[r] EXCEPT !.told = TRUE].s = run[r].s
                      /\ [run[r] EXCEPT !.told = TRUE].pc = run[r].pc
                      /\ [run[r] EXCEPT !.told = TRUE].rec = run[r].rec
  BY DEF Typed, TypeOK, Run
<1>2. /\ run' \in [Runs -> Run]
      /\ \A r \in Runs : run'[r] = run[r] \/ run'[r] = [run[r] EXCEPT !.told = TRUE]
  <2>1. ASSUME NEW s \in Strategies, Stop(s)
        PROVE  /\ run' \in [Runs -> Run]
               /\ \A r \in Runs : run'[r] = run[r] \/ run'[r] = [run[r] EXCEPT !.told = TRUE]
    <3>1. run' = [run EXCEPT ![job[s].run].told = TRUE] /\ job[s].run \in Runs
      BY <2>1 DEF Stop, IsActive, Typed, TypeOK, Job
    <3>2. run' \in [Runs -> Run]
      BY <1>1, <3>1 DEF Typed, TypeOK
    <3>3. \A r \in Runs : run'[r] = run[r] \/ run'[r] = [run[r] EXCEPT !.told = TRUE]
      BY <3>1 DEF Typed, TypeOK
    <3> QED
      BY <3>2, <3>3
  <2>2. ASSUME Shutdown
        PROVE  /\ run' \in [Runs -> Run]
               /\ \A r \in Runs : run'[r] = run[r] \/ run'[r] = [run[r] EXCEPT !.told = TRUE]
    <3>1. \A r \in Runs : run'[r] = run[r] \/ run'[r] = [run[r] EXCEPT !.told = TRUE]
      BY <2>2 DEF Shutdown
    <3>2. run' \in [Runs -> Run]
      BY <1>1, <2>2 DEF Shutdown, Typed, TypeOK
    <3> QED
      BY <3>1, <3>2
  <2> QED
    BY <2>1, <2>2
<1>3. UNCHANGED <<store, vaultVars, initOK, jobVars, call, edits, faults, lapses>>
  BY DEF Stop, Shutdown
<1>4. \A r \in Runs : run'[r].s = run[r].s /\ run'[r].pc = run[r].pc /\ run'[r].rec = run[r].rec
  BY <1>1, <1>2
<1>5. Typed'
  BY <1>2, <1>3, <1>4 DEF Typed, TypeOK, Named, Live, store, vaultVars, jobVars
<1> QED
  BY <1>3, <1>4, <1>5

LEMMA GotoTyped ==
  ASSUME Typed, NEW r \in Runs, NEW pc \in {"save", "attach", "run", "finish"}, Goto(r, pc), Live(r)
  PROVE  /\ run' \in [Runs -> Run]
         /\ \A q \in Runs : run'[q] = IF q = r THEN [run[r] EXCEPT !.pc = pc] ELSE run[q]
         /\ \A q \in Runs : Live(q)' <=> Live(q)
         /\ \A q \in Runs : run'[q].s = run[q].s /\ run'[q].rec = run[q].rec
<1>1. [run[r] EXCEPT !.pc = pc] \in Run
  BY DEF Typed, TypeOK, Run
<1>2. run' = [run EXCEPT ![r] = [run[r] EXCEPT !.pc = pc]]
  BY DEF Goto, Typed, TypeOK
<1>3. \A q \in Runs : run'[q] = IF q = r THEN [run[r] EXCEPT !.pc = pc] ELSE run[q]
  BY <1>2 DEF Typed, TypeOK
<1>4. \A q \in Runs : run'[q].s = run[q].s /\ run'[q].rec = run[q].rec
  BY <1>3 DEF Typed, TypeOK, Run
<1>5. \A q \in Runs : Live(q)' <=> Live(q)
  BY <1>3 DEF Live, Typed, TypeOK, Run
<1> QED
  BY <1>1, <1>2, <1>3, <1>4, <1>5 DEF Typed, TypeOK

\* What a run's save writes, and what it leaves of the run.
LEMMA RunSaveEffect ==
  ASSUME Typed, NEW r \in Runs, NEW ok \in BOOLEAN, RunSave(r, ok)
  PROVE  \E rec \in Strategy :
           /\ rec.wallets = run[r].rec.wallets
           /\ Write([cfg EXCEPT ![run[r].s] = rec], ok)
           /\ run' \in [Runs -> Run]
           /\ \A q \in Runs : run'[q].s = run[q].s
           /\ \A q \in Runs : run'[q].rec = IF q = r THEN rec ELSE run[q].rec
           /\ \A q \in Runs : Live(q)' <=> Live(q)
           /\ run[r].s \in Strategies /\ Live(r)
<1> DEFINE bound == [run[r].rec EXCEPT !.mode = "existing", !.token = r]
           after == [run[r] EXCEPT !.pc = "attach", !.rec = bound]
<1>0. run[r] \in Run /\ run[r].rec \in Strategy /\ run[r].pc = "save"
  BY DEF RunSave, Typed, TypeOK, Run
<1>1. bound \in Strategy /\ bound.wallets = run[r].rec.wallets
  BY <1>0 DEF Strategy
<1>2. run' = [run EXCEPT ![r].pc = "attach", ![r].rec = bound] /\ Write([cfg EXCEPT ![run[r].s] = bound], ok)
  BY DEF RunSave
<1> HIDE DEF bound
<1>3. after \in Run /\ after.s = run[r].s /\ after.rec = bound /\ after.pc = "attach"
  BY <1>0, <1>1 DEF Run
<1>4. run' = [run EXCEPT ![r] = after]
  BY <1>2 DEF Typed, TypeOK
<1> HIDE DEF after
<1>5. run' \in [Runs -> Run] /\ \A q \in Runs : run'[q] = IF q = r THEN after ELSE run[q]
  BY <1>3, <1>4 DEF Typed, TypeOK
<1>6. \A q \in Runs : Live(q)' <=> Live(q)
  BY <1>0, <1>3, <1>5 DEF Live
<1>7. run[r].s \in Strategies /\ Live(r)
  BY <1>0 DEF Typed, Named, Live
<1>8. \A q \in Runs : /\ run'[q].s = run[q].s
                      /\ run'[q].rec = IF q = r THEN bound ELSE run[q].rec
  BY <1>3, <1>5
<1>9. Write([cfg EXCEPT ![run[r].s] = bound], ok)
  BY <1>2
<1> HIDE DEF after
<1> QED
  BY <1>1, <1>5, <1>6, <1>7, <1>8, <1>9

LEMMA RunTyped ==
  ASSUME Typed, NEW r \in Runs
  PROVE  /\ RunSetup(r) => Typed'
         /\ RunAttach(r) => Typed'
         /\ RunEnds(r) => Typed'
         /\ RunFinish(r) => Typed'
         /\ \A ok \in BOOLEAN : RunSave(r, ok) => Typed'
<1>1. ASSUME RunSetup(r) \/ RunEnds(r) PROVE Typed'
  <2>1. /\ \E pc \in {"save", "attach", "run", "finish"} : Goto(r, pc)
        /\ Live(r) /\ UNCHANGED <<store, vaultVars, initOK, jobVars, call, edits, faults, lapses>>
    BY <1>1 DEF RunSetup, RunEnds, Live
  <2> QED
    BY <2>1, GotoTyped DEF Typed, TypeOK, Named, store, vaultVars, jobVars
<1>2. ASSUME RunAttach(r) PROVE Typed'
  <2>1. Goto(r, "run") /\ Live(r) /\ UNCHANGED <<store, vaultVars, initOK, used, call, edits, faults, lapses>>
    BY <1>2 DEF RunAttach, Live
  <2>2. run[r].s \in Strategies
    BY <2>1 DEF Typed, Named
  <2>3. job' \in [Strategies -> Job \cup {None}] /\ closed' \subseteq Runs
    <3>1. CASE job[run[r].s] = None
      BY <1>2, <3>1 DEF RunAttach, Typed, TypeOK
    <3>2. CASE job[run[r].s] # None
      <4>1. job[run[r].s] \in Job /\ [job[run[r].s] EXCEPT !.engine = r] \in Job
        BY <2>2, <3>2 DEF Typed, TypeOK, Job
      <4>2. job' = [job EXCEPT ![run[r].s] = [job[run[r].s] EXCEPT !.engine = r]] /\ closed' = closed \cup {job[run[r].s].run}
        BY <1>2, <2>2, <3>2 DEF RunAttach, Typed, TypeOK
      <4>3. job[run[r].s].run \in Runs
        BY <4>1 DEF Job
      <4> QED
        BY <4>1, <4>2, <4>3 DEF Typed, TypeOK
    <3> QED
      BY <3>1, <3>2
  <2> QED
    BY <2>1, <2>3, GotoTyped DEF Typed, TypeOK, Named, store, vaultVars
<1>3. ASSUME RunFinish(r) PROVE Typed'
  <2>1. run' = [run EXCEPT ![r] = Gone] /\ Live(r) /\ UNCHANGED <<store, vaultVars, initOK, call, edits, faults, lapses>>
    BY <1>3 DEF RunFinish, Live
  <2>2. run[r].s \in Strategies
    BY <2>1 DEF Typed, Named
  <2>3. /\ job' \in [Strategies -> Job \cup {None}] /\ closed' \subseteq Runs
        /\ used' \in [Trading -> Strategies \cup {None}]
    <3>1. CASE job[run[r].s] = None
      BY <1>3, <3>1 DEF RunFinish, Typed, TypeOK, jobVars
    <3>2. CASE job[run[r].s] # None
      <4>1. job[run[r].s] \in Job /\ [job[run[r].s] EXCEPT !.active = FALSE] \in Job
        BY <2>2, <3>2 DEF Typed, TypeOK, Job
      <4>2. job' = [job EXCEPT ![run[r].s] = [job[run[r].s] EXCEPT !.active = FALSE]] /\ closed' = closed \cup {job[run[r].s].run}
        BY <1>3, <2>2, <3>2 DEF RunFinish, Typed, TypeOK
      <4>3. job[run[r].s].run \in Runs
        BY <4>1 DEF Job
      <4>4. used' \in [Trading -> Strategies \cup {None}]
        BY <1>3, <3>2 DEF RunFinish, Typed, TypeOK
      <4> QED
        BY <4>1, <4>2, <4>3, <4>4 DEF Typed, TypeOK
    <3> QED
      BY <3>1, <3>2
  <2>4. run' \in [Runs -> Run] /\ \A q \in Runs : Live(q)' => run'[q].s \in Strategies
    BY <2>1, Values DEF Typed, TypeOK, Named, Live
  <2> QED
    BY <2>1, <2>3, <2>4 DEF Typed, TypeOK, Named, store, vaultVars
<1>4. ASSUME NEW ok \in BOOLEAN, RunSave(r, ok) PROVE Typed'
  <2>1. PICK bound \in Strategy :
           /\ Write([cfg EXCEPT ![run[r].s] = bound], ok)
           /\ run' \in [Runs -> Run]
           /\ \A q \in Runs : run'[q].s = run[q].s
           /\ \A q \in Runs : Live(q)' <=> Live(q)
    BY <1>4, RunSaveEffect
  <2>2. [cfg EXCEPT ![run[r].s] = bound] \in [Strategies -> Strategy \cup {None}]
    BY DEF Typed, TypeOK
  <2>3. /\ cfg' \in [Strategies -> Strategy \cup {None}]
        /\ file' \in [Strategies -> Strategy \cup {None}]
        /\ faults' \in 0..MaxFaults /\ lapses' \subseteq Lapses
    BY <2>1, <2>2, WriteTyped
  <2>4. UNCHANGED <<vaultVars, initOK, jobVars, call, edits>>
    BY <1>4 DEF RunSave
  <2> QED
    BY <2>1, <2>3, <2>4 DEF Typed, TypeOK, Named, vaultVars, jobVars
<1> QED
  BY <1>1, <1>2, <1>3, <1>4

LEMMA CrashTyped ==
  ASSUME Typed, Crash
  PROVE  /\ Typed'
         /\ \A r \in Runs : ~Live(r)'
         /\ \A c \in Calls : call'[c] = Idle
<1>1. call' \in [Calls -> Call] /\ \A c \in Calls : call'[c] = Idle
  BY Values DEF Crash
<1>2. run' \in [Runs -> Run] /\ \A r \in Runs : ~Live(r)'
  BY Values DEF Crash, Live
<1>3. job' \in [Strategies -> Job \cup {None}] /\ used' \in [Trading -> Strategies \cup {None}]
  BY DEF Crash
<1>5. faults' \in 0..MaxFaults
  BY ConstantsAssumption DEF Crash, Typed, TypeOK
<1>6. TypeOK'
  BY <1>1, <1>2, <1>3, <1>5 DEF Crash, Typed, TypeOK
<1>4. call' = [c \in Calls |-> Idle] /\ Idle.op = "idle"
  BY Values DEF Crash
<1> QED
  BY <1>1, <1>2, <1>4, <1>6 DEF Typed, Named

LEMMA InitTyped == ASSUME Init PROVE Typed
<1>1. cfg \in [Strategies -> Strategy \cup {None}] /\ file = cfg
  BY DEF Init, Strategy
<1>2. run \in [Runs -> Run] /\ \A r \in Runs : ~Live(r)
  BY Values DEF Init, Live
<1>3. call \in [Calls -> Call] /\ \A c \in Calls : call[c].op = "idle"
  BY Values DEF Init
<1>4. /\ job \in [Strategies -> Job \cup {None}] /\ used \in [Trading -> Strategies \cup {None}]
      /\ vault \in {"absent", "locked", "open"} /\ initOK \in BOOLEAN
      /\ keys \subseteq Wallets /\ vfile \subseteq Wallets /\ acked \subseteq Wallets
      /\ closed \subseteq Runs /\ lapses \subseteq Lapses
  BY DEF Init
<1>5. edits \in 0..MaxEdits /\ faults \in 0..MaxFaults
  BY ConstantsAssumption DEF Init
<1> QED
  BY <1>1, <1>2, <1>3, <1>4, <1>5 DEF Typed, TypeOK, Named

-----------------------------------------------------------------------------
(* The steps, by what they do to the calls and to the runs.                 *)

\* A call begins.
Checks ==
  \E c \in Calls :
    \/ LockCheck(c) \/ ClearCheck(c)
    \/ \E s \in Strategies :
         \/ \E mode \in {"launch", "existing"}, wallets \in Selections :
              SaveCheck(c, s, mode, wallets)
         \/ DeleteCheck(c, s) \/ ResetCheck(c, s) \/ StartRead(c, s)

\* A call goes on, or is no longer in progress.
GoesOn(c) ==
  \/ call'[c] = call[c]
  \/ ~Busy(c)'
  \/ call[c].op = "clear" /\ call'[c].op = "clearConfig"
  \/ call[c].op = "reset" /\ call'[c].op = "resetJob" /\ call'[c].s = call[c].s

\* No run starts or ends, and no reservation changes.
SameRuns ==
  /\ \A r \in Runs : /\ Live(r)' <=> Live(r)
                     /\ run'[r].s = run[r].s /\ run'[r].rec.wallets = run[r].rec.wallets
  /\ \A s \in Strategies :
       /\ job'[s] = None <=> job[s] = None
       /\ job[s] # None => /\ job'[s].active = job[s].active
                           /\ job'[s].run = job[s].run /\ job'[s].wallets = job[s].wallets
  /\ used' = used

LEMMA UnchangedSameRuns == ASSUME UNCHANGED <<run, jobVars>> PROVE SameRuns
BY DEF SameRuns, jobVars, Live

LEMMA EndGoesOn == ASSUME Typed, NEW c \in Calls, End(c) PROVE \A d \in Calls : GoesOn(d)
BY Values DEF End, GoesOn, Busy, Typed, TypeOK

Begun(c, op, s, rec) ==
  /\ op \in Lapses \ {"write"} /\ s \in Strategies \cup {None} /\ rec \in Strategy
  /\ op \in {"start", "save", "delete", "reset"} => s \in Strategies
  /\ Begin(c, op, s, rec)

LEMMA ChecksSteps ==
  ASSUME Typed, Checks
  PROVE  /\ lapses \subseteq lapses' /\ SameRuns
         /\ UNCHANGED <<store, vaultVars, job, run>>
         /\ \E c \in Calls : \E op, s, rec : Begun(c, op, s, rec)
<1>1. PICK c \in Calls : 
    \/ LockCheck(c) \/ ClearCheck(c)
    \/ \E s \in Strategies :
         \/ \E mode \in {"launch", "existing"}, wallets \in Selections :
              SaveCheck(c, s, mode, wallets)
         \/ DeleteCheck(c, s) \/ ResetCheck(c, s) \/ StartRead(c, s)
  BY DEF Checks
<1>2. ASSUME NEW op, NEW s, NEW rec, Begin(c, op, s, rec) PROVE lapses \subseteq lapses'
  BY <1>2 DEF Begin
<1>3. UNCHANGED <<store, vaultVars, job, run, jobVars>>
  BY <1>1 DEF LockCheck, ClearCheck, SaveCheck, DeleteCheck, ResetCheck, StartRead, jobVars
<1> DEFINE Goal == \E op, s, rec : Begun(c, op, s, rec)
<1>4. ASSUME LockCheck(c) PROVE Goal
  <2>1. Begin(c, "lock", None, NoStrategy)
    BY <1>4 DEF LockCheck
  <2>2. Begun(c, "lock", None, NoStrategy)
    BY <2>1, Values DEF Lapses, Begun
  <2> QED
    BY <2>2
<1>5. ASSUME ClearCheck(c) PROVE Goal
  <2>1. Begin(c, "clear", None, NoStrategy)
    BY <1>5 DEF ClearCheck
  <2>2. Begun(c, "clear", None, NoStrategy)
    BY <2>1, Values DEF Lapses, Begun
  <2> QED
    BY <2>2
<1>6. ASSUME NEW s \in Strategies, NEW mode \in {"launch", "existing"}, NEW wallets \in Selections,
             SaveCheck(c, s, mode, wallets)
      PROVE  Goal
  <2> DEFINE rec == [mode |-> mode, wallets |-> wallets,
                     token |-> IF cfg[s] = None THEN 0 ELSE cfg[s].token]
  <2>1. rec \in Strategy
    BY ConstantsAssumption DEF Typed, TypeOK, Strategy
  <2>2. Begin(c, "save", s, rec)
    BY <1>6 DEF SaveCheck
  <2> HIDE DEF rec
  <2>3. Begun(c, "save", s, rec)
    BY <2>1, <2>2 DEF Lapses, Begun
  <2> QED
    BY <2>3
<1>7. ASSUME NEW s \in Strategies, DeleteCheck(c, s) PROVE Goal
  <2>1. Begin(c, "delete", s, NoStrategy)
    BY <1>7 DEF DeleteCheck
  <2>2. Begun(c, "delete", s, NoStrategy)
    BY <2>1, Values DEF Lapses, Begun
  <2> QED
    BY <2>2
<1>8. ASSUME NEW s \in Strategies, ResetCheck(c, s) PROVE Goal
  <2>1. Begin(c, "reset", s, [cfg[s] EXCEPT !.mode = "launch", !.token = 0]) /\ cfg[s] # None
    BY <1>8 DEF ResetCheck
  <2>2. [cfg[s] EXCEPT !.mode = "launch", !.token = 0] \in Strategy
    BY <2>1 DEF Typed, TypeOK, Strategy
  <2>3. Begun(c, "reset", s, [cfg[s] EXCEPT !.mode = "launch", !.token = 0])
    BY <2>1, <2>2 DEF Lapses, Begun
  <2> QED
    BY <2>3
<1>9. ASSUME NEW s \in Strategies, StartRead(c, s) PROVE Goal
  <2>1. Begin(c, "start", s, cfg[s]) /\ cfg[s] # None
    BY <1>9 DEF StartRead
  <2>2. cfg[s] \in Strategy
    BY <2>1 DEF Typed, TypeOK
  <2>3. Begun(c, "start", s, cfg[s])
    BY <2>1, <2>2 DEF Lapses, Begun
  <2> QED
    BY <2>3
<1>10. Goal
  BY <1>1, <1>4, <1>5, <1>6, <1>7, <1>8, <1>9
<1>11. lapses \subseteq lapses'
  BY <1>2, <1>10 DEF Begun
<1>12. SameRuns
  BY <1>3, UnchangedSameRuns
<1> QED
  BY <1>3, <1>10, <1>11, <1>12

LEMMA VaultSteps ==
  ASSUME Typed, VaultCall
  PROVE  lapses \subseteq lapses' /\ (\A c \in Calls : GoesOn(c)) /\ SameRuns /\ UNCHANGED store
<1>1. lapses \subseteq lapses' /\ UNCHANGED <<call, run, jobVars, store>>
  BY DEF VaultCall, CheckInit, UnlockVault, CreateVault, Import, SaveKeys
<1> QED
  BY <1>1, UnchangedSameRuns DEF GoesOn

\* What an edit does after it has begun leaves runs and reservations alone,
\* except that a reset forgets the job.
EditActs(c) ==
  \/ LockVault(c) \/ RetainLocked(c)
  \/ \E ok \in BOOLEAN : \/ Retain(c, ok) \/ ClearConfig(c, ok) \/ SaveStrategy(c, ok)
                         \/ DeleteStrategy(c, ok) \/ ResetSave(c, ok)

LEMMA WriteGrows ==
  ASSUME NEW new, NEW ok \in BOOLEAN, Write(new, ok)
  PROVE  lapses \subseteq lapses'
BY DEF Write

LEMMA EditActSteps ==
  ASSUME Typed, NEW c \in Calls, EditActs(c)
  PROVE  lapses \subseteq lapses' /\ (\A d \in Calls : GoesOn(d)) /\ SameRuns
<1>1. UNCHANGED <<run, jobVars>>
  BY DEF EditActs, LockVault, RetainLocked, Retain, ClearConfig, SaveStrategy, DeleteStrategy, ResetSave
<1>2. lapses \subseteq lapses'
  <2>1. CASE LockVault(c) \/ RetainLocked(c)
    BY <2>1 DEF LockVault, RetainLocked
  <2>2. ASSUME NEW ok \in BOOLEAN, Retain(c, ok) PROVE lapses \subseteq lapses'
    BY <2>2 DEF Retain, SaveKeys
  <2>3. ASSUME NEW ok \in BOOLEAN, ClearConfig(c, ok) \/ SaveStrategy(c, ok) \/ ResetSave(c, ok)
        PROVE  lapses \subseteq lapses'
    BY <2>3, WriteGrows DEF ClearConfig, SaveStrategy, ResetSave
  <2>4. ASSUME NEW ok \in BOOLEAN, DeleteStrategy(c, ok) PROVE lapses \subseteq lapses'
    BY <2>4, WriteGrows DEF DeleteStrategy
  <2> QED
    BY <2>1, <2>2, <2>3, <2>4 DEF EditActs
<1>3. \A d \in Calls : GoesOn(d)
  <2>1. CASE LockVault(c) \/ RetainLocked(c)
    BY <2>1, EndGoesOn DEF LockVault, RetainLocked
  <2>2. ASSUME NEW ok \in BOOLEAN, Retain(c, ok) PROVE \A d \in Calls : GoesOn(d)
    <3>1. \/ call' = [call EXCEPT ![c] = Idle]
          \/ call' = [call EXCEPT ![c] = [Idle EXCEPT !.op = "clearConfig"]]
      BY <2>2 DEF Retain
    <3>2. [Idle EXCEPT !.op = "clearConfig"].op = "clearConfig" /\ call[c].op = "clear"
      BY <2>2 DEF Retain, Idle
    <3> QED
      BY <3>1, <3>2, Values DEF GoesOn, Busy, Typed, TypeOK
  <2>3. ASSUME NEW ok \in BOOLEAN, ClearConfig(c, ok) \/ SaveStrategy(c, ok) \/ DeleteStrategy(c, ok)
        PROVE  \A d \in Calls : GoesOn(d)
    BY <2>3, EndGoesOn DEF ClearConfig, SaveStrategy, DeleteStrategy
  <2>4. ASSUME NEW ok \in BOOLEAN, ResetSave(c, ok) PROVE \A d \in Calls : GoesOn(d)
    <3>1. \/ call' = [call EXCEPT ![c] = Idle]
          \/ call' = [call EXCEPT ![c] = [call[c] EXCEPT !.op = "resetJob"]]
      BY <2>4 DEF ResetSave, Typed, TypeOK
    <3>2. /\ [call[c] EXCEPT !.op = "resetJob"].op = "resetJob"
          /\ [call[c] EXCEPT !.op = "resetJob"].s = call[c].s
          /\ call[c].op = "reset"
      BY <2>4 DEF ResetSave, Typed, TypeOK, Call
    <3> QED
      BY <3>1, <3>2, Values DEF GoesOn, Busy, Typed, TypeOK
  <2> QED
    BY <2>1, <2>2, <2>3, <2>4 DEF EditActs
<1> QED
  BY <1>1, <1>2, <1>3, UnchangedSameRuns

\* The other steps of calls and runs that leave the reservations alone.
OtherActs ==
  \/ \E c \in Calls : \/ StartRefused(c) \/ ExitReady(c) \/ ExitTimeout(c)
                      \/ \E s \in Strategies : ExitRequest(c, s)
  \/ \E s \in Strategies : Stop(s)
  \/ Shutdown
  \/ \E r \in Runs : RunSetup(r) \/ RunAttach(r) \/ RunEnds(r)

LEMMA OtherActSteps ==
  ASSUME Typed, OtherActs
  PROVE  /\ lapses' = lapses /\ (\A d \in Calls : GoesOn(d)) /\ SameRuns
         /\ UNCHANGED <<store, vaultVars>>
         /\ \A r \in Runs : run'[r].rec = run[r].rec
<1> DEFINE Goal == /\ lapses' = lapses /\ (\A d \in Calls : GoesOn(d)) /\ SameRuns
                   /\ UNCHANGED <<store, vaultVars>>
                   /\ \A r \in Runs : run'[r].rec = run[r].rec
<1>1. ASSUME NEW c \in Calls, StartRefused(c) \/ ExitTimeout(c) PROVE Goal
  <2>1. End(c) /\ UNCHANGED <<store, vaultVars, run, jobVars, lapses>>
    BY <1>1 DEF StartRefused, ExitTimeout
  <2> QED
    BY <2>1, EndGoesOn, UnchangedSameRuns
<1>2. ASSUME NEW c \in Calls, ExitReady(c) PROVE Goal
  <2>1. End(c) /\ UNCHANGED <<store, vaultVars, jobVars, lapses>>
    BY <1>2 DEF ExitReady
  <2> DEFINE engine == IF job[call[c].s] = None THEN 0 ELSE job[call[c].s].engine
  <2>2. run' = [r \in Runs |-> IF r = engine THEN [run[r] EXCEPT !.told = TRUE] ELSE run[r]]
    BY <1>2 DEF ExitReady
  <2> HIDE DEF engine
  <2>3. \A r \in Runs : run'[r].s = run[r].s /\ run'[r].pc = run[r].pc /\ run'[r].rec = run[r].rec
    BY <2>2 DEF Typed, TypeOK, Run
  <2>4. SameRuns
    BY <2>1, <2>3 DEF SameRuns, jobVars, Live
  <2> QED
    BY <2>1, <2>3, <2>4, EndGoesOn
<1>3. ASSUME NEW c \in Calls, NEW s \in Strategies, ExitRequest(c, s) PROVE Goal
  <2>1. /\ call' = [call EXCEPT ![c] = [Idle EXCEPT !.op = "exit", !.s = s, !.run = job[s].run]]
        /\ UNCHANGED <<store, vaultVars, run, used, lapses>>
        /\ job' = [job EXCEPT ![s].exit = TRUE] /\ IsActive(s)
    BY <1>3 DEF ExitRequest
  <2>2. \A d \in Calls : GoesOn(d)
    <3> DEFINE v == [Idle EXCEPT !.op = "exit", !.s = s, !.run = job[s].run]
    <3>1. v.op = "exit"
      BY DEF Idle
    <3>2. call' = [call EXCEPT ![c] = v]
      BY <2>1
    <3> HIDE DEF v
    <3> QED
      BY <3>1, <3>2 DEF GoesOn, Busy, Typed, TypeOK
  <2>3. job[s] \in Job /\ [job[s] EXCEPT !.exit = TRUE] \in Job
    BY <2>1 DEF IsActive, Typed, TypeOK, Job
  <2>4. \A t \in Strategies :
          /\ job'[t] = None <=> job[t] = None
          /\ job[t] # None => /\ job'[t].active = job[t].active
                              /\ job'[t].run = job[t].run /\ job'[t].wallets = job[t].wallets
    BY <2>1, <2>3, Values DEF Typed, TypeOK, Job
  <2>5. SameRuns
    BY <2>1, <2>4 DEF SameRuns, Live
  <2> QED
    BY <2>1, <2>2, <2>5
<1>4. ASSUME (\E s \in Strategies : Stop(s)) \/ Shutdown PROVE Goal
  <2>1. /\ \A r \in Runs : run'[r].s = run[r].s /\ run'[r].pc = run[r].pc /\ run'[r].rec = run[r].rec
        /\ UNCHANGED <<store, vaultVars, jobVars, call, lapses>>
    BY <1>4, ToldTyped
  <2>2. SameRuns
    BY <2>1 DEF SameRuns, jobVars, Live
  <2> QED
    BY <2>1, <2>2 DEF GoesOn
<1>5. ASSUME NEW r \in Runs, RunSetup(r) \/ RunEnds(r) PROVE Goal
  <2>1. /\ \E pc \in {"save", "attach", "run", "finish"} : Goto(r, pc)
        /\ Live(r) /\ UNCHANGED <<store, vaultVars, jobVars, call, lapses>>
    BY <1>5 DEF RunSetup, RunEnds, Live
  <2>2. \A q \in Runs : (Live(q)' <=> Live(q)) /\ run'[q].s = run[q].s /\ run'[q].rec = run[q].rec
    BY <2>1, GotoTyped
  <2>3. SameRuns
    BY <2>1, <2>2 DEF SameRuns, jobVars
  <2> QED
    BY <2>1, <2>2, <2>3 DEF GoesOn
<1>6. ASSUME NEW r \in Runs, RunAttach(r) PROVE Goal
  <2>1. Goto(r, "run") /\ Live(r) /\ UNCHANGED <<store, vaultVars, used, call, lapses>>
    BY <1>6 DEF RunAttach, Live
  <2>2. \A q \in Runs : (Live(q)' <=> Live(q)) /\ run'[q].s = run[q].s /\ run'[q].rec = run[q].rec
    BY <2>1, GotoTyped
  <2>3. job' = job \/ (job[run[r].s] # None /\ job' = [job EXCEPT ![run[r].s].engine = r])
    BY <1>6 DEF RunAttach
  <2>4. run[r].s \in Strategies
    BY <2>1 DEF Typed, Named
  <2>5. \A t \in Strategies :
          /\ job'[t] = None <=> job[t] = None
          /\ job[t] # None => /\ job'[t].active = job[t].active
                              /\ job'[t].run = job[t].run /\ job'[t].wallets = job[t].wallets
    <3>1. CASE job' = job
      BY <3>1
    <3>2. CASE job[run[r].s] # None /\ job' = [job EXCEPT ![run[r].s].engine = r]
      <4>1. job[run[r].s] \in Job /\ [job[run[r].s] EXCEPT !.engine = r] \in Job
        BY <2>4, <3>2 DEF Typed, TypeOK, Job
      <4>2. job' = [job EXCEPT ![run[r].s] = [job[run[r].s] EXCEPT !.engine = r]]
        BY <2>4, <3>2 DEF Typed, TypeOK
      <4> QED
        BY <3>2, <4>1, <4>2, Values DEF Typed, TypeOK, Job
    <3> QED
      BY <2>3, <3>1, <3>2
  <2>6. SameRuns
    BY <2>1, <2>2, <2>5 DEF SameRuns
  <2> QED
    BY <2>1, <2>2, <2>6 DEF GoesOn
<1> QED
  BY <1>1, <1>2, <1>3, <1>4, <1>5, <1>6 DEF OtherActs

LEMMA RunSaveSteps ==
  ASSUME Typed, NEW r \in Runs, NEW ok \in BOOLEAN, RunSave(r, ok)
  PROVE  lapses \subseteq lapses' /\ (\A d \in Calls : GoesOn(d)) /\ SameRuns
<1>1. PICK bound \in Strategy :
           /\ bound.wallets = run[r].rec.wallets
           /\ Write([cfg EXCEPT ![run[r].s] = bound], ok)
           /\ run' \in [Runs -> Run]
           /\ \A q \in Runs : run'[q].s = run[q].s
           /\ \A q \in Runs : run'[q].rec = IF q = r THEN bound ELSE run[q].rec
           /\ \A q \in Runs : Live(q)' <=> Live(q)
           /\ run[r].s \in Strategies /\ Live(r)
  BY RunSaveEffect
<1>2. UNCHANGED <<jobVars, call>>
  BY DEF RunSave
<1>3. SameRuns
  BY <1>1, <1>2 DEF SameRuns, jobVars
<1> QED
  BY <1>1, <1>2, <1>3, WriteGrows DEF GoesOn

\* Every step, by its kind: what the rest of the proofs distinguish.
Steps ==
  \/ Checks
  \/ VaultCall
  \/ \E c \in Calls : EditActs(c)
  \/ \E c \in Calls : ResetJob(c)
  \/ \E c \in Calls, r \in Runs : StartRun(c, r)
  \/ OtherActs
  \/ \E r \in Runs, ok \in BOOLEAN : RunSave(r, ok)
  \/ \E r \in Runs : RunFinish(r)
  \/ Crash

LEMMA NextSteps == ASSUME Next PROVE Steps
<1>1. EditCalls \subseteq Calls /\ RunCalls \subseteq Calls
  BY DEF Calls
<1>2. ASSUME NEW c \in EditCalls, EditCall(c) PROVE Checks
  BY <1>1, <1>2 DEF EditCall, Checks
<1>3. ASSUME NEW c \in RunCalls, NEW s \in Strategies, StartRead(c, s) PROVE Checks
  BY <1>1, <1>3 DEF Checks
<1>4. ASSUME NEW c \in RunCalls, NEW s \in Strategies, ExitRequest(c, s) PROVE OtherActs
  BY <1>1, <1>4 DEF OtherActs
<1>5. ASSUME NEW c \in Calls, Act(c) PROVE Steps
  BY <1>5 DEF Act, EditActs, OtherActs, Steps
<1>6. ASSUME NEW r \in Runs, Step(r) \/ RunEnds(r) PROVE Steps
  BY <1>6 DEF Step, OtherActs, Steps
<1>7. Shutdown \/ (\E s \in Strategies : Stop(s)) => OtherActs
  BY DEF OtherActs
<1> QED
  BY <1>2, <1>3, <1>4, <1>5, <1>6, <1>7 DEF Next, Steps

LEMMA StepsTyped == ASSUME Typed, Steps PROVE Typed'
<1>1. Checks => Typed'
  BY CheckTyped DEF Checks
<1>2. VaultCall => Typed'
  BY VaultTyped DEF VaultCall
<1>3. ASSUME NEW c \in Calls, EditActs(c) \/ ResetJob(c) PROVE Typed'
  BY <1>3, EditActTyped DEF EditActs
<1>4. ASSUME NEW c \in Calls, NEW r \in Runs, StartRun(c, r) PROVE Typed'
  BY <1>4, StartActTyped
<1>5. OtherActs => Typed'
  BY StartActTyped, ToldTyped, RunTyped DEF OtherActs
<1>6. ASSUME NEW r \in Runs, RunFinish(r) \/ \E ok \in BOOLEAN : RunSave(r, ok) PROVE Typed'
  BY <1>6, RunTyped
<1> QED
  BY <1>1, <1>2, <1>3, <1>4, <1>5, <1>6, CrashTyped DEF Steps

LEMMA StepTyped == ASSUME Typed, [Next]_vars PROVE Typed'
<1>1. CASE UNCHANGED vars
  BY <1>1 DEF vars, store, vaultVars, jobVars, Typed, TypeOK, Named, Live
<1> QED
  BY <1>1, NextSteps, StepsTyped

\* Every variable keeps its type, and what names a strategy names one that exists.
THEOREM TypeCorrect == Spec => []TypeOK
<1>1. Spec => []Typed
  BY InitTyped, StepTyped, PTL DEF Spec
<1>2. Typed => TypeOK
  BY DEF Typed
<1> QED
  BY <1>1, <1>2, PTL

-----------------------------------------------------------------------------
(* Overlapping calls are noted.                                             *)

LEMMA StepCalls ==
  ASSUME Typed, Steps
  PROVE  lapses \subseteq lapses' /\ (Checks \/ \A c \in Calls : GoesOn(c))
<1> DEFINE Goal == lapses \subseteq lapses' /\ (Checks \/ \A c \in Calls : GoesOn(c))
<1>1. Checks => Goal
  BY ChecksSteps
<1>2. VaultCall => Goal
  BY VaultSteps
<1>3. ASSUME NEW c \in Calls, EditActs(c) PROVE Goal
  BY <1>3, EditActSteps
<1>4. ASSUME NEW c \in Calls, ResetJob(c) PROVE Goal
  BY <1>4, EndGoesOn DEF ResetJob
<1>5. ASSUME NEW c \in Calls, NEW r \in Runs, StartRun(c, r) PROVE Goal
  BY <1>5, EndGoesOn DEF StartRun
<1>6. OtherActs => Goal
  BY OtherActSteps
<1>7. ASSUME NEW r \in Runs, NEW ok \in BOOLEAN, RunSave(r, ok) PROVE Goal
  BY <1>7, RunSaveSteps
<1>8. ASSUME NEW r \in Runs, RunFinish(r) PROVE Goal
  BY <1>8 DEF RunFinish, GoesOn
<1>9. Crash => Goal
  BY CrashTyped, Values DEF Crash, GoesOn, Busy
<1> QED
  BY <1>1, <1>2, <1>3, <1>4, <1>5, <1>6, <1>7, <1>8, <1>9 DEF Steps

LEMMA BeginEffect ==
  ASSUME Typed, NEW c \in Calls, NEW op \in Lapses \ {"write"}, NEW s, NEW rec, Begin(c, op, s, rec)
  PROVE  /\ call[c].op = "idle" /\ call'[c].op = op /\ call'[c].s = s /\ call'[c].rec = rec
         /\ call'[c].keep = IF op = "clear" THEN RoutingKeys ELSE {}
         /\ \A d \in Calls : d # c => call'[d] = call[d]
         /\ op = "start" /\ IsActive(s) => "start" \in lapses'
         /\ \A d \in Calls : Busy(d) => {Kind(call[d].op), op} \subseteq lapses'
<1> DEFINE v == [Idle EXCEPT !.op = op, !.s = s, !.rec = rec,
                             !.keep = IF op = "clear" THEN RoutingKeys ELSE {}]
<1>1. /\ v.op = op /\ v.s = s /\ v.rec = rec
      /\ v.keep = IF op = "clear" THEN RoutingKeys ELSE {}
  BY DEF Idle
<1>2. call[c].op = "idle" /\ call' = [call EXCEPT ![c] = v]
  BY DEF Begin
<1> HIDE DEF v
<1>3. call'[c] = v /\ \A d \in Calls : d # c => call'[d] = call[d]
  BY <1>2 DEF Typed, TypeOK
<1>4. op = "start" /\ IsActive(s) => "start" \in lapses'
  BY DEF Begin
<1>5. ASSUME NEW d \in Calls, Busy(d) PROVE {Kind(call[d].op), op} \subseteq lapses'
  <2>1. Kind(call[d].op) \in InProgress
    BY <1>5 DEF InProgress, Kind, Busy
  <2> QED
    BY <2>1 DEF Begin
<1> QED
  BY <1>1, <1>2, <1>3, <1>4, <1>5

LEMMA GoesOnKind ==
  ASSUME NEW c \in Calls, GoesOn(c), Busy(c)'
  PROVE  /\ Busy(c) /\ Kind(call[c].op)' = Kind(call[c].op)
         /\ call'[c].op \in {"start", "save", "delete", "reset", "lock", "clear"} => call'[c] = call[c]
BY DEF GoesOn, Busy, Kind

LEMMA StepOverlaps ==
  ASSUME Typed, OverlapsNoted, Steps
  PROVE  OverlapsNoted'
<1>1. lapses \subseteq lapses'
  BY StepCalls
<1>2. CASE \A c \in Calls : GoesOn(c)
  BY <1>1, <1>2, GoesOnKind DEF OverlapsNoted
<1>3. CASE Checks
  <2>0. PICK c \in Calls : \E op, s, rec : Begun(c, op, s, rec)
    BY <1>3, ChecksSteps
  <2>1. PICK op, s, rec : Begun(c, op, s, rec)
    BY <2>0
  <2>2. /\ op \in Lapses \ {"write"} /\ call'[c].op = op
        /\ \A d \in Calls : d # c => call'[d] = call[d]
        /\ \A d \in Calls : Busy(d) => {Kind(call[d].op), op} \subseteq lapses'
    BY <2>1, BeginEffect DEF Begun
  <2>3. Kind(op) = op
    BY <2>2 DEF Kind, Lapses
  <2>4. ASSUME NEW d \in Calls, d # c, Busy(d)'
        PROVE  {Kind(call'[d].op), Kind(call'[c].op)} \subseteq lapses'
    BY <2>2, <2>3, <2>4 DEF Busy
  <2>5. ASSUME NEW d \in Calls, NEW e \in Calls, d # c, e # c, d # e, Busy(d)', Busy(e)'
        PROVE  {Kind(call'[d].op), Kind(call'[e].op)} \subseteq lapses'
    BY <1>1, <2>2, <2>5 DEF OverlapsNoted, Busy
  <2> QED
    BY <2>4, <2>5 DEF OverlapsNoted
<1> QED
  BY <1>2, <1>3, StepCalls

-----------------------------------------------------------------------------
(* Reservations.                                                            *)

LEMMA RunFinishEffect ==
  ASSUME Typed, Reserved, NEW r \in Runs, RunFinish(r)
  PROVE  LET s == run[r].s IN
         /\ Live(r) /\ s \in Strategies /\ IsActive(s) /\ job[s].run = r
         /\ job[s].wallets = run[r].rec.wallets
         /\ ~Live(r)' /\ \A q \in Runs \ {r} : run'[q] = run[q]
         /\ job'[s].active = FALSE /\ \A t \in Strategies \ {s} : job'[t] = job[t]
         /\ \A w \in Trading : used'[w] = IF w \in run[r].rec.wallets /\ used[w] = s THEN None ELSE used[w]
         /\ UNCHANGED <<call, lapses>>
<1> DEFINE s == run[r].s
<1>1. Live(r) /\ s \in Strategies
  BY DEF RunFinish, Live, Typed, Named
<1>2. IsActive(s) /\ job[s].run = r /\ job[s].wallets = run[r].rec.wallets
  BY <1>1 DEF Reserved, IsActive
<1>3. job[s] # None /\ job[s] \in Job
  BY <1>1, <1>2 DEF IsActive, Typed, TypeOK
<1>4. /\ run' = [run EXCEPT ![r] = Gone]
      /\ job' = [job EXCEPT ![s].active = FALSE]
      /\ used' = [w \in Trading |-> IF w \in job[s].wallets /\ used[w] = s THEN None ELSE used[w]]
      /\ UNCHANGED <<call, lapses>>
  BY <1>3 DEF RunFinish
<1>5. ~Live(r)' /\ \A q \in Runs \ {r} : run'[q] = run[q]
  BY <1>4, Values DEF Live, Typed, TypeOK
<1>6. job'[s].active = FALSE /\ \A t \in Strategies \ {s} : job'[t] = job[t]
  BY <1>1, <1>3, <1>4 DEF Typed, TypeOK, Job
<1> HIDE DEF s
<1>7. \A w \in Trading : used'[w] = IF w \in run[r].rec.wallets /\ used[w] = s THEN None ELSE used[w]
  BY <1>2, <1>4
<1> USE DEF s
<1> QED
  BY <1>1, <1>2, <1>4, <1>5, <1>6, <1>7

LEMMA StartRunEffect ==
  ASSUME Typed, NEW c \in Calls, NEW r \in Runs, StartRun(c, r)
  PROVE  LET s == call[c].s IN
         /\ call[c].op = "start" /\ s \in Strategies /\ ~IsActive(s)
         /\ \A w \in call[c].rec.wallets : used[w] = None
         /\ run'[r].s = s /\ run'[r].rec = call[c].rec /\ Live(r)' /\ ~Live(r)
         /\ \A q \in Runs \ {r} : run'[q] = run[q]
         /\ job'[s] # None /\ job'[s].active /\ job'[s].run = r /\ job'[s].wallets = call[c].rec.wallets
         /\ \A t \in Strategies \ {s} : job'[t] = job[t]
         /\ \A w \in Trading : used'[w] = IF w \in call[c].rec.wallets THEN s ELSE used[w]
         /\ UNCHANGED <<store, vaultVars, lapses>>
         /\ call'[c] = Idle /\ \A d \in Calls \ {c} : call'[d] = call[d]
<1> DEFINE s == call[c].s
           made == [active |-> TRUE, exit |-> FALSE, wallets |-> call[c].rec.wallets,
                    run |-> r, engine |-> 0]
           new == [NoRun EXCEPT !.pc = "setup", !.s = s, !.rec = call[c].rec]
<1>1. call[c].op = "start" /\ s \in Strategies /\ call[c].rec \in Strategy
  BY DEF StartRun, Typed, TypeOK, Named, Call
<1>2. ~IsActive(s) /\ (\A w \in call[c].rec.wallets : used[w] = None) /\ run[r].pc = "none"
  BY DEF StartRun, Refused
<1>3. made \in Job /\ made.active /\ made.run = r /\ made.wallets = call[c].rec.wallets
  BY <1>1 DEF Job, Strategy
<1>4. new.pc = "setup" /\ new.s = s /\ new.rec = call[c].rec
  BY DEF NoRun
<1>5. run' = [run EXCEPT ![r] = new] /\ job' = [job EXCEPT ![s] = made]
  BY DEF StartRun
<1>6. \A w \in Trading : used'[w] = IF w \in call[c].rec.wallets THEN s ELSE used[w]
  BY DEF StartRun
<1> HIDE DEF made, new
<1>7. run'[r] = new /\ \A q \in Runs \ {r} : run'[q] = run[q]
  BY <1>5 DEF Typed, TypeOK
<1> HIDE DEF s
<1>8. job'[s] = made /\ \A t \in Strategies \ {s} : job'[t] = job[t]
  BY <1>1, <1>5 DEF Typed, TypeOK
<1>10. job'[s] # None /\ job'[s].active
  BY <1>3, <1>8, Values
<1>11. Live(r)' /\ ~Live(r)
  BY <1>2, <1>4, <1>7 DEF Live
<1>12. call'[c] = Idle /\ \A d \in Calls \ {c} : call'[d] = call[d]
  BY DEF StartRun, End, Typed, TypeOK
<1>13. UNCHANGED <<store, vaultVars, lapses>>
  BY DEF StartRun
<1> USE DEF s
<1> QED
  BY <1>1, <1>2, <1>3, <1>4, <1>6, <1>7, <1>8, <1>10, <1>11, <1>12, <1>13

LEMMA StepReserved ==
  ASSUME Typed, OverlapsNoted, Reserved, "reset" \notin lapses', Steps
  PROVE  Reserved'
<1> DEFINE Resetting(c) == call[c].op \in {"reset", "resetJob"}
<1>1. lapses \subseteq lapses' /\ (Checks \/ \A c \in Calls : GoesOn(c))
  BY StepCalls
<1>2. OverlapsNoted'
  BY StepOverlaps
\* A call that is resetting was, or has found its strategy not running.
<1>3. ASSUME NEW c \in Calls, Resetting(c)', GoesOn(c)
      PROVE  Resetting(c) /\ call'[c].s = call[c].s
  BY <1>3 DEF GoesOn, Busy
<1>3b. ASSUME NEW c \in Calls, Resetting(c)', Checks
      PROVE  (Resetting(c) /\ call'[c].s = call[c].s) \/ ~IsActive(call'[c].s)
  <2>1. PICK d \in Calls :
          \/ LockCheck(d) \/ ClearCheck(d)
          \/ \E s \in Strategies :
               \/ \E mode \in {"launch", "existing"}, wallets \in Selections :
                    SaveCheck(d, s, mode, wallets)
               \/ DeleteCheck(d, s) \/ ResetCheck(d, s) \/ StartRead(d, s)
    BY <1>3b DEF Checks
  <2>2. ASSUME NEW op \in Lapses \ {"write"}, NEW s, NEW rec, Begin(d, op, s, rec), op # "reset"
        PROVE  Resetting(c) /\ call'[c].s = call[c].s
    BY <1>3b, <2>2, BeginEffect DEF Lapses
  <2>3. ASSUME NEW s \in Strategies, ResetCheck(d, s)
        PROVE  (Resetting(c) /\ call'[c].s = call[c].s) \/ ~IsActive(call'[c].s)
    <3>1. "reset" \in Lapses \ {"write"} /\ ~IsActive(s)
      BY <2>3 DEF Lapses, ResetCheck
    <3>2. Begin(d, "reset", s, [cfg[s] EXCEPT !.mode = "launch", !.token = 0])
      BY <2>3 DEF ResetCheck
    <3>3. call'[d].s = s /\ \A e \in Calls : e # d => call'[e] = call[e]
      BY <3>1, <3>2, BeginEffect
    <3> QED
      BY <1>3b, <3>1, <3>3
  <2>4. {"lock", "clear", "save", "delete", "start"} \subseteq Lapses \ {"write"}
    BY DEF Lapses
  <2>5. CASE LockCheck(d) \/ ClearCheck(d)
    BY <2>2, <2>4, <2>5 DEF LockCheck, ClearCheck
  <2>6. ASSUME NEW s \in Strategies,
               \/ \E mode \in {"launch", "existing"}, wallets \in Selections :
                    SaveCheck(d, s, mode, wallets)
               \/ DeleteCheck(d, s) \/ StartRead(d, s)
        PROVE  Resetting(c) /\ call'[c].s = call[c].s
    BY <2>2, <2>4, <2>6 DEF SaveCheck, DeleteCheck, StartRead
  <2> QED
    BY <1>3b, <2>1, <2>3, <2>5, <2>6
<1> HIDE DEF Resetting
<1>4. Typed'
  BY StepsTyped
<1>5. \A c \in Calls : Resetting(c) => ~IsActive(call[c].s)
  BY DEF Reserved, Resetting
<1>6. ASSUME \A s \in Strategies : IsActive(s)' => IsActive(s), \A c \in Calls : GoesOn(c)
      PROVE  \A c \in Calls : Resetting(c)' => ~IsActive(call[c].s)'
  <2>1. SUFFICES ASSUME NEW c \in Calls, Resetting(c)' PROVE ~IsActive(call[c].s)'
    OBVIOUS
  <2>2. call'[c].s \in Strategies /\ ~IsActive(call'[c].s)
    BY <1>3, <1>4, <1>5, <1>6, <2>1 DEF Typed, Named, Resetting
  <2> QED
    BY <1>6, <2>2 DEF IsActive
<1>7. CASE SameRuns
  <2>1. \A s \in Strategies :
          /\ job'[s] = None <=> job[s] = None
          /\ job[s] # None => /\ job'[s].active = job[s].active
                              /\ job'[s].run = job[s].run /\ job'[s].wallets = job[s].wallets
    BY <1>7 DEF SameRuns
  <2>2. \A s \in Strategies : (job'[s] # None /\ job'[s].active) <=> IsActive(s)
    BY <2>1 DEF IsActive
  <2>3. \A s \in Strategies : IsActive(s)' <=> IsActive(s)
    BY <2>2 DEF IsActive
  <2>4. /\ \A r \in Runs : /\ Live(r)' <=> Live(r)
                           /\ run'[r].s = run[r].s /\ run'[r].rec.wallets = run[r].rec.wallets
        /\ used' = used
    BY <1>7 DEF SameRuns
  <2>5. \A r \in Runs : Live(r) => run[r].s \in Strategies
    BY DEF Typed, Named
  <2>6. \A s \in Strategies : IsActive(s) => job[s] # None /\ job[s].run \in Runs
    BY DEF IsActive, Typed, TypeOK, Job
  <2>7. \A r \in Runs : Live(r)' =>
       LET j == job'[run'[r].s]
       IN j # None /\ j.active /\ j.run = r /\ j.wallets = run'[r].rec.wallets
    BY <2>1, <2>4, <2>5 DEF Reserved
  <2>8. \A s \in Strategies : IsActive(s)' => Live(job[s].run)' /\ run'[job'[s].run].s = s
    <3>1. SUFFICES ASSUME NEW s \in Strategies, IsActive(s)
                   PROVE  Live(job[s].run)' /\ run'[job'[s].run].s = s
      BY <2>3
    <3>2. job'[s].run = job[s].run /\ job[s].run \in Runs /\ Live(job[s].run) /\ run[job[s].run].s = s
      BY <2>1, <2>6, <3>1 DEF Reserved
    <3> QED
      BY <2>4, <3>2 DEF Live
  <2>9. \A w \in Trading, s \in Strategies :
         used'[w] = s <=> \E r \in Runs : Live(r)' /\ run'[r].s = s /\ w \in run'[r].rec.wallets
    BY <2>4 DEF Reserved
  <2>10. \A c \in Calls : Resetting(c)' => ~IsActive(call[c].s)'
    <3>1. SUFFICES ASSUME NEW c \in Calls, Resetting(c)' PROVE ~IsActive(call[c].s)'
      OBVIOUS
    <3>2. call'[c].s \in Strategies /\ ~IsActive(call'[c].s)
      BY <1>1, <1>3, <1>4, <1>5, <1>3b, <3>1 DEF Typed, Named, Resetting
    <3> QED
      BY <2>2, <3>2 DEF IsActive
  <2> QED
    BY <2>7, <2>8, <2>9, <2>10 DEF Reserved, Resetting
<1>8. ASSUME NEW c \in Calls, ResetJob(c) PROVE Reserved'
  <2> DEFINE s == call[c].s
  <2>1. s \in Strategies /\ ~IsActive(s) /\ run' = run /\ used' = used /\ job' = [job EXCEPT ![s] = None]
    BY <1>8 DEF ResetJob, Typed, Named, Reserved
  <2>2. \A d \in Calls : GoesOn(d)
    BY <1>8, EndGoesOn DEF ResetJob
  <2> HIDE DEF s
  <2>3. job'[s] = None /\ \A t \in Strategies : t # s => job'[t] = job[t]
    BY <2>1 DEF Typed, TypeOK
  <2>4. \A t \in Strategies : IsActive(t)' => IsActive(t) /\ t # s
    BY <2>3 DEF IsActive
  <2>5. \A r \in Runs : Live(r) => run[r].s \in Strategies /\ run[r].s # s
    BY <2>1 DEF Typed, Named, Reserved, IsActive
  <2>6. \A r \in Runs : Live(r)' <=> Live(r)
    BY <2>1 DEF Live
  <2>7. \A r \in Runs : Live(r)' =>
       LET j == job'[run'[r].s]
       IN j # None /\ j.active /\ j.run = r /\ j.wallets = run'[r].rec.wallets
    BY <2>1, <2>3, <2>5, <2>6 DEF Reserved
  <2>8. \A t \in Strategies : IsActive(t)' => Live(job[t].run)' /\ run'[job'[t].run].s = t
    BY <2>1, <2>3, <2>4 DEF Reserved, Live
  <2>9. \A w \in Trading, t \in Strategies :
         used'[w] = t <=> \E r \in Runs : Live(r)' /\ run'[r].s = t /\ w \in run'[r].rec.wallets
    BY <2>1, <2>6 DEF Reserved
  <2> QED
    BY <1>6, <2>2, <2>4, <2>7, <2>8, <2>9 DEF Reserved, Resetting
<1>10. ASSUME NEW c \in Calls, NEW r \in Runs, StartRun(c, r) PROVE Reserved'
  <2> DEFINE s == call[c].s
             rec == call[c].rec
  <2>1. /\ call[c].op = "start" /\ s \in Strategies /\ ~IsActive(s)
        /\ \A w \in rec.wallets : used[w] = None
        /\ run'[r].s = s /\ run'[r].rec = rec /\ Live(r)' /\ ~Live(r)
        /\ \A q \in Runs \ {r} : run'[q] = run[q]
        /\ job'[s] # None /\ job'[s].active /\ job'[s].run = r /\ job'[s].wallets = rec.wallets
        /\ \A t \in Strategies \ {s} : job'[t] = job[t]
        /\ \A w \in Trading : used'[w] = IF w \in rec.wallets THEN s ELSE used[w]
        /\ lapses' = lapses
        /\ call'[c] = Idle /\ \A d \in Calls \ {c} : call'[d] = call[d]
    BY <1>10, StartRunEffect
  <2>2. \A d \in Calls : ~Resetting(d)'
    <3>1. SUFFICES ASSUME NEW d \in Calls, Resetting(d)' PROVE FALSE
      OBVIOUS
    <3>2. d # c /\ Resetting(d)
      BY <2>1, <3>1, Values DEF Resetting
    <3>3. Kind(call[d].op) = "reset" /\ Busy(d) /\ Busy(c)
      BY <2>1, <3>2 DEF Kind, Busy, Resetting
    <3> QED
      BY <2>1, <3>2, <3>3 DEF OverlapsNoted
  <2> HIDE DEF s, rec
  <2>3. \A q \in Runs \ {r} : /\ Live(q)' <=> Live(q)
                              /\ Live(q) => run[q].s \in Strategies /\ run[q].s # s
    BY <2>1 DEF Live, Typed, Named, Reserved, IsActive
  <2>4. \A q \in Runs : Live(q)' =>
       LET j == job'[run'[q].s]
       IN j # None /\ j.active /\ j.run = q /\ j.wallets = run'[q].rec.wallets
    BY <2>1, <2>3 DEF Reserved
  <2>5. \A t \in Strategies \ {s} : IsActive(t)' => Live(job[t].run)' /\ run'[job'[t].run].s = t
    <3>1. SUFFICES ASSUME NEW t \in Strategies \ {s}, IsActive(t)'
                   PROVE  Live(job[t].run)' /\ run'[job'[t].run].s = t
      OBVIOUS
    <3>2. job'[t] = job[t] /\ IsActive(t)
      BY <2>1, <3>1 DEF IsActive
    <3>3. Live(job[t].run) /\ run[job[t].run].s = t /\ job[t].run \in Runs
      BY <3>2 DEF Reserved, IsActive, Typed, TypeOK, Job
    <3>4. job[t].run # r
      BY <2>1, <3>3
    <3>5. run'[job'[t].run] = run[job[t].run]
      BY <2>1, <3>2, <3>3, <3>4
    <3> QED
      BY <3>3, <3>5 DEF Live
  <2>6. \A t \in Strategies : IsActive(t)' => Live(job[t].run)' /\ run'[job'[t].run].s = t
    BY <2>1, <2>5
  <2>7. ASSUME NEW w \in Trading, NEW t \in Strategies
        PROVE  used'[w] = t <=> \E q \in Runs : Live(q)' /\ run'[q].s = t /\ w \in run'[q].rec.wallets
    <3>1. used[w] = t <=> \E q \in Runs : Live(q) /\ run[q].s = t /\ w \in run[q].rec.wallets
      BY DEF Reserved
    <3>2. CASE w \in rec.wallets
      <4>1. ~\E q \in Runs : Live(q) /\ run[q].s = t /\ w \in run[q].rec.wallets
        BY <2>1, <3>1, <3>2, Values
      <4>2. used'[w] = s
        BY <2>1, <3>2
      <4>3. CASE t = s
        BY <2>1, <3>2, <4>2, <4>3
      <4>4. CASE t # s
        BY <2>1, <2>3, <4>1, <4>2, <4>4
      <4> QED
        BY <4>3, <4>4
    <3>3. CASE w \notin rec.wallets
      BY <2>1, <2>3, <3>1, <3>3
    <3> QED
      BY <3>2, <3>3
  <2> QED
    BY <2>2, <2>4, <2>6, <2>7 DEF Reserved, Resetting
<1>11. ASSUME NEW r \in Runs, RunFinish(r) PROVE Reserved'
  <2> DEFINE s == run[r].s
             wallets == run[r].rec.wallets
  <2>1. /\ Live(r) /\ s \in Strategies /\ IsActive(s) /\ job[s].run = r
        /\ job[s].wallets = wallets
        /\ ~Live(r)' /\ \A q \in Runs \ {r} : run'[q] = run[q]
        /\ job'[s].active = FALSE /\ \A t \in Strategies \ {s} : job'[t] = job[t]
        /\ \A w \in Trading : used'[w] = IF w \in wallets /\ used[w] = s THEN None ELSE used[w]
        /\ UNCHANGED <<call, lapses>>
    BY <1>11, RunFinishEffect
  <2>2. run[r].s = s /\ run[r].rec.wallets = wallets
    OBVIOUS
  <2> HIDE DEF s, wallets
  <2>3. \A t \in Strategies : IsActive(t)' => IsActive(t) /\ t # s
    BY <2>1 DEF IsActive
  <2>4. \A q \in Runs \ {r} : /\ Live(q)' <=> Live(q)
                              /\ Live(q) => run[q].s \in Strategies /\ run[q].s # s
    BY <2>1 DEF Live, Typed, Named, Reserved
  <2>5. \A q \in Runs : Live(q)' =>
       LET j == job'[run'[q].s]
       IN j # None /\ j.active /\ j.run = q /\ j.wallets = run'[q].rec.wallets
    BY <2>1, <2>4 DEF Reserved
  <2>6. \A t \in Strategies : IsActive(t)' => Live(job[t].run)' /\ run'[job'[t].run].s = t
    <3>1. SUFFICES ASSUME NEW t \in Strategies, IsActive(t), t # s
                   PROVE  Live(job[t].run)' /\ run'[job'[t].run].s = t
      BY <2>3
    <3>2. job'[t] = job[t]
      BY <2>1, <3>1
    <3>3. Live(job[t].run) /\ run[job[t].run].s = t /\ job[t].run \in Runs
      BY <3>1 DEF Reserved, IsActive, Typed, TypeOK, Job
    <3>4. job[t].run # r
      BY <2>2, <3>1, <3>3
    <3>5. run'[job'[t].run] = run[job[t].run]
      BY <2>1, <3>2, <3>3, <3>4
    <3> QED
      BY <3>3, <3>5 DEF Live
  <2>7. ASSUME NEW w \in Trading, NEW t \in Strategies
        PROVE  used'[w] = t <=> \E q \in Runs : Live(q)' /\ run'[q].s = t /\ w \in run'[q].rec.wallets
    <3>1. used[w] = t <=> \E q \in Runs : Live(q) /\ run[q].s = t /\ w \in run[q].rec.wallets
      BY DEF Reserved
    <3>2. CASE t = s
      <4>1. ~\E q \in Runs : Live(q)' /\ run'[q].s = t /\ w \in run'[q].rec.wallets
        BY <2>1, <2>4, <3>2
      <4>2. used[w] = s => w \in wallets
        BY <2>1, <2>2, <2>4, <3>1, <3>2
      <4>3. used'[w] # s
        BY <2>1, <4>2, Values
      <4> QED
        BY <3>2, <4>1, <4>3
    <3>3. CASE t # s
      <4>1. used'[w] = t <=> used[w] = t
        BY <2>1, <3>3, Values
      <4>2. \A q \in Runs : (Live(q)' /\ run'[q].s = t /\ w \in run'[q].rec.wallets)
                              <=> (Live(q) /\ run[q].s = t /\ w \in run[q].rec.wallets)
        BY <2>1, <2>2, <2>4, <3>3
      <4> QED
        BY <3>1, <4>1, <4>2
    <3> QED
      BY <3>2, <3>3
  <2>8. \A d \in Calls : GoesOn(d)
    BY <2>1 DEF GoesOn
  <2> QED
    BY <1>6, <2>3, <2>5, <2>6, <2>7, <2>8 DEF Reserved, Resetting
<1>12. CASE Crash
  <2>1. /\ \A r \in Runs : ~Live(r)'
        /\ \A c \in Calls : call'[c].op = "idle"
        /\ \A s \in Strategies : job'[s] = None
        /\ \A w \in Trading : used'[w] = None
    BY <1>12, CrashTyped, Values DEF Crash
  <2>2. \A s \in Strategies : ~IsActive(s)'
    BY <2>1 DEF IsActive
  <2> QED
    BY <2>1, <2>2, Values DEF Reserved
<1>13. SameRuns \/ (\E c \in Calls : ResetJob(c)) \/ (\E c \in Calls, r \in Runs : StartRun(c, r))
        \/ (\E r \in Runs : RunFinish(r)) \/ Crash
  BY ChecksSteps, VaultSteps, EditActSteps, OtherActSteps, RunSaveSteps DEF Steps
<1> QED
  BY <1>7, <1>8, <1>10, <1>11, <1>12, <1>13

LEMMA ReservedExclusive == ASSUME Typed, Reserved PROVE Exclusive
<1>1. Disjoint
  <2>1. SUFFICES ASSUME NEW q \in Runs, NEW r \in Runs, q # r, Live(q), Live(r),
                        NEW w \in run[q].rec.wallets \cap run[r].rec.wallets
                 PROVE  FALSE
    BY DEF Disjoint
  <2>2. w \in Trading /\ run[q].s \in Strategies /\ run[r].s \in Strategies
    BY <2>1 DEF Typed, TypeOK, Named, Run, Strategy
  <2>3. used[w] = run[q].s /\ used[w] = run[r].s
    BY <2>1, <2>2 DEF Reserved
  <2>4. job[run[q].s].run = q /\ job[run[r].s].run = r
    BY <2>1 DEF Reserved
  <2> QED
    BY <2>1, <2>3, <2>4
<1> QED
  BY <1>1 DEF Exclusive, Reserved, IsActive

\* What the other invariants rest on.
Core == Typed /\ OverlapsNoted /\ ReservedInv

LEMMA InitCore == ASSUME Init PROVE Core
<1>1. /\ \A c \in Calls : call[c].op = "idle"
      /\ \A r \in Runs : ~Live(r)
      /\ \A s \in Strategies : job[s] = None
      /\ \A w \in Trading : used[w] = None
  BY Values DEF Init, Live
<1>2. OverlapsNoted
  BY <1>1 DEF OverlapsNoted, Busy
<1>3. Reserved
  BY <1>1, Values DEF Reserved, IsActive
<1> QED
  BY <1>2, <1>3, InitTyped DEF Core, ReservedInv

LEMMA StepCore == ASSUME Core, [Next]_vars PROVE Core'
<1>1. Typed'
  BY StepTyped DEF Core
<1>2. CASE UNCHANGED vars
  <2>1. UNCHANGED <<call, lapses, job, used, run>>
    BY <1>2 DEF vars, jobVars
  <2> QED
    BY <1>1, <2>1 DEF Core, OverlapsNoted, Busy, ReservedInv, Reserved, IsActive, Live
<1>3. CASE Steps
  <2>1. OverlapsNoted'
    BY <1>3, StepOverlaps DEF Core
  <2>2. ReservedInv'
    BY <1>3, StepReserved, StepCalls DEF Core, ReservedInv
  <2> QED
    BY <1>1, <2>1, <2>2 DEF Core
<1> QED
  BY <1>2, <1>3, NextSteps

LEMMA CoreCorrect == Spec => []Core
BY InitCore, StepCore, PTL DEF Spec

\* Unless a reset overlaps a start, no two live runs trade with the same wallet,
\* and a wallet is reserved exactly while a live run has it (Start, finish).
THEOREM ExclusiveCorrect == Spec => []Exclusive
<1>1. Core => Exclusive
  BY ReservedExclusive DEF Core, ReservedInv, Exclusive
<1> QED
  BY <1>1, CoreCorrect, PTL

-----------------------------------------------------------------------------
(* The vault.                                                               *)

\* Only these steps change it.
LEMMA VaultSame ==
  ASSUME Typed, Steps
  PROVE  \/ UNCHANGED <<vaultVars>>
         \/ UnlockVault \/ \E ok \in BOOLEAN : CreateVault(ok)
         \/ \E ok \in BOOLEAN, new \in (SUBSET Trading) \cup (SUBSET Funding) : Import(new, ok)
         \/ \E c \in Calls : LockVault(c)
         \/ \E c \in Calls, ok \in BOOLEAN : Retain(c, ok)
         \/ Crash
<1>1. Checks => UNCHANGED vaultVars
  BY ChecksSteps
<1>2. CheckInit => UNCHANGED vaultVars
  BY DEF CheckInit
<1>3. ASSUME NEW c \in Calls,
             \/ RetainLocked(c)
             \/ \E ok \in BOOLEAN : \/ ClearConfig(c, ok) \/ SaveStrategy(c, ok)
                                    \/ DeleteStrategy(c, ok) \/ ResetSave(c, ok)
      PROVE  UNCHANGED vaultVars
  BY <1>3 DEF RetainLocked, ClearConfig, SaveStrategy, DeleteStrategy, ResetSave
<1>4. ASSUME NEW c \in Calls, ResetJob(c) \/ \E r \in Runs : StartRun(c, r) PROVE UNCHANGED vaultVars
  BY <1>4 DEF ResetJob, StartRun
<1>5. OtherActs => UNCHANGED vaultVars
  BY OtherActSteps
<1>6. ASSUME NEW r \in Runs, RunFinish(r) \/ \E ok \in BOOLEAN : RunSave(r, ok) PROVE UNCHANGED vaultVars
  BY <1>6 DEF RunFinish, RunSave
<1> QED
  BY <1>1, <1>2, <1>3, <1>4, <1>5, <1>6 DEF Steps, VaultCall, EditActs

LEMMA StepVault == ASSUME Core, VaultInv, [Next]_vars PROVE VaultInv'
<1>1. CASE UNCHANGED vars
  BY <1>1 DEF vars, vaultVars, VaultInv
<1>2. CASE Steps
  <2>1. Typed /\ lapses \subseteq lapses'
    BY <1>2, StepCalls DEF Core
  <2>2. CASE UNCHANGED vaultVars
    BY <2>1, <2>2 DEF VaultInv, vaultVars
  <2>3. CASE UnlockVault
    BY <2>3 DEF UnlockVault, VaultInv
  <2>4. ASSUME NEW ok \in BOOLEAN, CreateVault(ok) PROVE VaultInv'
    BY <2>4 DEF CreateVault, VaultInv
  <2>5. ASSUME NEW ok \in BOOLEAN, NEW new, Import(new, ok) PROVE VaultInv'
    BY <2>5 DEF Import, SaveKeys, VaultInv
  <2>6. ASSUME NEW c \in Calls, LockVault(c) PROVE VaultInv'
    BY <2>6 DEF LockVault, VaultInv
  <2>7. ASSUME NEW c \in Calls, NEW ok \in BOOLEAN, Retain(c, ok) PROVE VaultInv'
    BY <2>7 DEF Retain, SaveKeys, VaultInv
  <2>8. CASE Crash
    BY <2>8 DEF Crash, VaultInv
  <2> QED
    BY <1>2, <2>1, <2>2, <2>3, <2>4, <2>5, <2>6, <2>7, <2>8, VaultSame
<1> QED
  BY <1>1, <1>2, NextSteps

\* A start is the only step after which more runs are live, or more jobs active.
LEMMA RunsShrink ==
  ASSUME Core, "reset" \notin lapses, Steps,
         ~\E c \in Calls, r \in Runs : StartRun(c, r)
  PROVE  /\ \A r \in Runs : Live(r)' =>
              Live(r) /\ run'[r].s = run[r].s /\ run'[r].rec.wallets = run[r].rec.wallets
         /\ \A s \in Strategies : IsActive(s)' => IsActive(s)
<1> DEFINE Goal == /\ \A r \in Runs : Live(r)' =>
                        /\ Live(r) /\ run'[r].s = run[r].s
                        /\ run'[r].rec.wallets = run[r].rec.wallets
                   /\ \A s \in Strategies : IsActive(s)' => IsActive(s)
<1>1. Typed /\ Reserved
  BY DEF Core, ReservedInv
<1>2. SameRuns => Goal
  BY DEF SameRuns, IsActive
<1>3. ASSUME NEW c \in Calls, ResetJob(c) PROVE Goal
  BY <1>1, <1>3 DEF ResetJob, IsActive, Live, Typed, TypeOK
<1>4. ASSUME NEW r \in Runs, RunFinish(r) PROVE Goal
  <2> DEFINE s == run[r].s
  <2>1. /\ ~Live(r)' /\ \A q \in Runs \ {r} : run'[q] = run[q]
        /\ job'[s].active = FALSE /\ \A t \in Strategies \ {s} : job'[t] = job[t]
    BY <1>1, <1>4, RunFinishEffect
  <2> HIDE DEF s
  <2>2. \A q \in Runs : Live(q)' =>
          /\ Live(q) /\ run'[q].s = run[q].s
          /\ run'[q].rec.wallets = run[q].rec.wallets
    BY <2>1 DEF Live
  <2>3. \A t \in Strategies : IsActive(t)' => IsActive(t)
    BY <2>1 DEF IsActive
  <2> QED
    BY <2>2, <2>3
<1>5. Crash => Goal
  <2> SUFFICES ASSUME Crash PROVE Goal
    OBVIOUS
  <2>1. \A r \in Runs : ~Live(r)'
    BY <1>1, CrashTyped
  <2>2. \A s \in Strategies : ~IsActive(s)'
    BY DEF Crash, IsActive
  <2> QED
    BY <2>1, <2>2
<1>6. SameRuns \/ (\E c \in Calls : ResetJob(c)) \/ (\E r \in Runs : RunFinish(r)) \/ Crash
  BY <1>1, ChecksSteps, VaultSteps, EditActSteps, OtherActSteps, RunSaveSteps DEF Steps
<1> QED
  BY <1>2, <1>3, <1>4, <1>5, <1>6

\* A start overlaps no call of another kind that is not noted.
LEMMA StartAlone ==
  ASSUME Core, NEW c \in Calls, call[c].op = "start", NEW d \in Calls, c # d, Busy(d)
  PROVE  {"start", Kind(call[d].op)} \subseteq lapses
<1>1. Busy(c) /\ Kind(call[c].op) = "start"
  BY DEF Busy, Kind
<1> QED
  BY <1>1 DEF Core, OverlapsNoted

\* Nothing is live while no job is active.
LEMMA NoneLive == ASSUME Core, "reset" \notin lapses, ~AnyActive PROVE \A r \in Runs : ~Live(r)
BY DEF Core, Typed, Named, ReservedInv, Reserved, AnyActive, IsActive

\* What a call has read or checked when it begins.
LEMMA ChecksFound ==
  ASSUME Typed, Checks, NEW c \in Calls, call'[c] # call[c]
  PROVE  /\ \A d \in Calls \ {c} : call'[d] = call[d]
         /\ call'[c].op = "start" =>
              /\ call'[c].rec = cfg[call'[c].s]
              /\ vault = "open" /\ call'[c].rec.wallets \subseteq keys
              /\ IsActive(call'[c].s) => "start" \in lapses'
         /\ call'[c].op \in {"save", "delete", "reset"} => ~IsActive(call'[c].s)
         /\ call'[c].op = "clear" => ~AnyActive /\ call'[c].keep = RoutingKeys
         /\ call'[c].op # "clearConfig"
<1>1. PICK d \in Calls :
        \/ LockCheck(d) \/ ClearCheck(d)
        \/ \E s \in Strategies :
             \/ \E mode \in {"launch", "existing"}, wallets \in Selections :
                  SaveCheck(d, s, mode, wallets)
             \/ DeleteCheck(d, s) \/ ResetCheck(d, s) \/ StartRead(d, s)
  BY DEF Checks
<1>2. ASSUME NEW op \in Lapses \ {"write"}, NEW s, NEW rec, Begin(d, op, s, rec)
      PROVE  /\ d = c /\ call'[c].op = op /\ call'[c].s = s /\ call'[c].rec = rec
             /\ call'[c].keep = IF op = "clear" THEN RoutingKeys ELSE {}
             /\ op = "start" /\ IsActive(s) => "start" \in lapses'
             /\ \A e \in Calls \ {c} : call'[e] = call[e]
  BY <1>2, BeginEffect
<1>3. {"lock", "clear", "save", "delete", "reset", "start"} \subseteq Lapses \ {"write"}
  BY DEF Lapses
<1>4. CASE LockCheck(d)
  BY <1>2, <1>3, <1>4 DEF LockCheck
<1>5. CASE ClearCheck(d)
  BY <1>2, <1>3, <1>5 DEF ClearCheck
<1>6. ASSUME NEW s \in Strategies, NEW mode, NEW wallets, SaveCheck(d, s, mode, wallets)
      PROVE  /\ call'[c].op = "save" /\ ~IsActive(call'[c].s)
             /\ \A e \in Calls \ {c} : call'[e] = call[e]
  BY <1>2, <1>3, <1>6 DEF SaveCheck
<1>7. ASSUME NEW s \in Strategies, DeleteCheck(d, s) \/ ResetCheck(d, s)
      PROVE  /\ call'[c].op \in {"delete", "reset"} /\ ~IsActive(call'[c].s)
             /\ \A e \in Calls \ {c} : call'[e] = call[e]
  BY <1>2, <1>3, <1>7 DEF DeleteCheck, ResetCheck
<1>8. ASSUME NEW s \in Strategies, StartRead(d, s)
      PROVE  /\ call'[c].op = "start" /\ call'[c].s = s /\ call'[c].rec = cfg[s]
             /\ vault = "open" /\ cfg[s].wallets \subseteq keys
             /\ IsActive(s) => "start" \in lapses'
             /\ \A e \in Calls \ {c} : call'[e] = call[e]
  BY <1>2, <1>3, <1>8 DEF StartRead
<1> QED
  BY <1>1, <1>4, <1>5, <1>6, <1>7, <1>8

LEMMA StepKept == ASSUME Core, VaultInv, KeptInv, [Next]_vars PROVE KeptInv'
<1> SUFFICES ASSUME lapses' \cap {"reset", "clear", "write"} = {} PROVE KeptInv'
  BY DEF KeptInv
<1> DEFINE Kept == /\ \A r \in Runs : Live(r) => run[r].rec.wallets \subseteq vfile
                   /\ \A c \in Calls : call[c].op = "start" => call[c].rec.wallets \subseteq vfile
                   /\ \A c \in Calls : call[c].op = "clear" => \A r \in Runs : ~Live(r)
<1>1. CASE UNCHANGED vars
  BY <1>1 DEF vars, vaultVars, KeptInv, Live
<1>2. CASE Steps
  <2>1. Typed /\ lapses \subseteq lapses'
    BY <1>2, StepCalls DEF Core
  <2>2. lapses \cap {"reset", "clear", "write"} = {} /\ Kept
    BY <2>1 DEF KeptInv
  <2>3. CASE Checks
    <3>1. UNCHANGED <<vaultVars, run>>
      BY <2>1, <2>3, ChecksSteps
    <3>2. ASSUME NEW c \in Calls, call'[c].op = "start" PROVE call'[c].rec.wallets \subseteq vfile
      BY <2>1, <2>2, <2>3, <3>2, ChecksFound DEF VaultInv
    <3>3. ASSUME NEW c \in Calls, call'[c].op = "clear" PROVE \A r \in Runs : ~Live(r)
      BY <2>1, <2>2, <2>3, <3>3, ChecksFound, NoneLive
    <3> QED
      BY <2>2, <3>1, <3>2, <3>3 DEF KeptInv, vaultVars, Live
  <2>4. ASSUME NEW c \in Calls, NEW r \in Runs, StartRun(c, r) PROVE KeptInv'
    <3>1. /\ call[c].op = "start" /\ run'[r].rec = call[c].rec /\ vfile' = vfile /\ call'[c].op = "idle"
          /\ \A q \in Runs \ {r} : run'[q] = run[q]
          /\ \A d \in Calls \ {c} : call'[d] = call[d]
      BY <2>1, <2>4, StartRunEffect, Values DEF vaultVars
    <3>2. ASSUME NEW d \in Calls, call'[d].op = "clear" PROVE FALSE
      <4>1. d # c /\ call[d].op = "clear"
        BY <3>1, <3>2
      <4>2. Busy(d) /\ Kind(call[d].op) = "clear"
        BY <4>1 DEF Busy, Kind
      <4> QED
        BY <2>2, <3>1, <4>1, <4>2, StartAlone
    <3> QED
      BY <2>2, <3>1, <3>2 DEF KeptInv, Live
  <2>5. CASE ~Checks /\ ~\E c \in Calls, r \in Runs : StartRun(c, r)
    <3>1. \A r \in Runs : Live(r)' => Live(r) /\ run'[r].rec.wallets = run[r].rec.wallets
      BY <1>2, <2>2, <2>5, RunsShrink
    <3>2. \A c \in Calls : call'[c].op \in {"start", "clear"} => call'[c] = call[c]
      BY <1>2, <2>1, <2>5, StepCalls, GoesOnKind DEF Busy
    <3>3. CASE vfile \subseteq vfile'
      BY <2>2, <3>1, <3>2, <3>3 DEF KeptInv
    <3>4. ASSUME NEW c \in Calls, NEW ok \in BOOLEAN, Retain(c, ok) PROVE KeptInv'
      <4>1. call[c].op = "clear" /\ Busy(c) /\ Kind(call[c].op) = "clear"
        BY <3>4 DEF Retain, Busy, Kind
      <4>2. \A d \in Calls : call[d].op # "start"
        BY <2>2, <4>1, StartAlone
      <4> QED
        BY <2>2, <3>1, <3>2, <4>1, <4>2 DEF KeptInv
    <3>5. vfile \subseteq vfile' \/ \E c \in Calls, ok \in BOOLEAN : Retain(c, ok)
      <4>1. CASE UNCHANGED vaultVars
        BY <4>1 DEF vaultVars
      <4>2. CASE \/ UnlockVault \/ (\E ok \in BOOLEAN : CreateVault(ok))
                 \/ (\E c \in Calls : LockVault(c)) \/ Crash
        BY <4>2 DEF UnlockVault, CreateVault, LockVault, Crash
      <4>3. ASSUME NEW ok \in BOOLEAN, NEW new, Import(new, ok) PROVE vfile \subseteq vfile'
        BY <2>1, <2>2, <4>3 DEF Import, SaveKeys, VaultInv
      <4> QED
        BY <1>2, <2>1, <4>1, <4>2, <4>3, VaultSame
    <3> QED
      BY <3>3, <3>4, <3>5
  <2> QED
    BY <2>3, <2>4, <2>5
<1> QED
  BY <1>1, <1>2, NextSteps

LEMMA InitVaultKept == ASSUME Init PROVE VaultInv /\ KeptInv /\ AckedInv /\ StoredInv
<1>1. /\ \A c \in Calls : call[c].op = "idle"
      /\ \A r \in Runs : ~Live(r)
      /\ keys = {} /\ acked = vfile /\ file = cfg
      /\ vault \in {"absent", "locked"} /\ (vault = "absent" => vfile = {})
  BY Values DEF Init, Live
<1> QED
  BY <1>1 DEF VaultInv, KeptInv, AckedInv, AckedKeysDurable, FileInv, StoredInv, Stored

\* Unless a clear or a reset overlaps a start or a write fails, the keys of a
\* live run are in the vault file (ClearWallets, Start).
THEOREM KeysKeptCorrect == Spec => []KeysKept
<1>1. Spec => [](Core /\ VaultInv /\ KeptInv)
  <2>1. Init => Core /\ VaultInv /\ KeptInv
    BY InitCore, InitVaultKept
  <2>2. (Core /\ VaultInv /\ KeptInv) /\ [Next]_vars => (Core /\ VaultInv /\ KeptInv)'
    BY StepCore, StepVault, StepKept
  <2> QED
    BY <2>1, <2>2, PTL DEF Spec
<1>2. KeptInv => KeysKept
  BY DEF KeptInv, KeysKept
<1> QED
  BY <1>1, <1>2, PTL

LEMMA StepAcked == ASSUME Core, VaultInv, AckedInv, [Next]_vars PROVE AckedInv'
<1> SUFFICES ASSUME "clear" \notin lapses' PROVE AckedInv'
  BY DEF AckedInv, AckedKeysDurable
<1> DEFINE Durable == /\ acked \subseteq vfile
                      /\ vault = "open" => acked \subseteq keys
                      /\ \A c \in Calls : call[c].op = "clear" => acked \cap Funding \subseteq call[c].keep
<1>0. Durable' => AckedInv'
  BY DEF AckedInv, AckedKeysDurable
<1>1. CASE UNCHANGED vars
  BY <1>1 DEF vars, vaultVars, AckedInv, AckedKeysDurable
<1>2. CASE Steps
  <2>1. Typed /\ lapses \subseteq lapses'
    BY <1>2, StepCalls DEF Core
  <2>2. "clear" \notin lapses /\ Durable
    BY <2>1 DEF AckedInv, AckedKeysDurable
  <2>3. CASE Checks
    <3>1. UNCHANGED vaultVars
      BY <2>1, <2>3, ChecksSteps
    <3>2. acked \cap Funding \subseteq RoutingKeys
      BY DEF RoutingKeys
    <3>3. \A c \in Calls : call'[c].op = "clear" => acked \cap Funding \subseteq call'[c].keep
      BY <2>1, <2>2, <2>3, <3>2, ChecksFound
    <3> QED
      BY <1>0, <2>2, <3>1, <3>3 DEF vaultVars
  <2>4. CASE ~Checks
    <3>1. \A c \in Calls : call'[c].op = "clear" => call'[c] = call[c]
      BY <1>2, <2>1, <2>4, StepCalls, GoesOnKind DEF Busy
    <3>2. CASE UNCHANGED vaultVars
      BY <1>0, <2>2, <3>1, <3>2 DEF vaultVars
    <3>3. CASE UnlockVault
      BY <1>0, <2>2, <3>1, <3>3 DEF UnlockVault
    <3>4. ASSUME NEW ok \in BOOLEAN, CreateVault(ok) PROVE AckedInv'
      <4>1. acked = {}
        BY <2>2, <3>4 DEF CreateVault, VaultInv
      <4> QED
        BY <1>0, <2>2, <3>1, <3>4, <4>1 DEF CreateVault
    <3>5. ASSUME NEW ok \in BOOLEAN, NEW new, Import(new, ok) PROVE AckedInv'
      <4>1. \A c \in Calls : call[c].op # "clear"
        <5>1. SUFFICES ASSUME NEW c \in Calls, call[c].op = "clear" PROVE FALSE
          OBVIOUS
        <5>2. "clear" \in InProgress
          BY <5>1 DEF InProgress, Kind
        <5> QED
          BY <3>5, <5>2 DEF Import, SaveKeys
      <4>2. acked' \subseteq vfile' /\ acked' \subseteq keys'
        BY <2>2, <3>5 DEF Import, SaveKeys
      <4> QED
        BY <1>0, <3>1, <4>1, <4>2
    <3>6. ASSUME NEW c \in Calls, LockVault(c) PROVE AckedInv'
      BY <1>0, <2>2, <3>1, <3>6 DEF LockVault
    <3>7. ASSUME NEW c \in Calls, NEW ok \in BOOLEAN, Retain(c, ok) PROVE AckedInv'
      <4>1. acked \cap Funding \subseteq keys \cap call[c].keep
        BY <2>2, <3>7 DEF Retain
      <4>2. acked' = acked \cap Funding /\ keys' = keys \cap call[c].keep /\ (vfile' = vfile \/ vfile' = keys')
        BY <3>7 DEF Retain, SaveKeys
      <4> QED
        BY <1>0, <2>2, <3>1, <4>1, <4>2
    <3>8. CASE Crash
      BY <1>0, <2>2, <3>1, <3>8 DEF Crash
    <3> QED
      BY <1>2, <2>1, <3>2, <3>3, <3>4, <3>5, <3>6, <3>7, <3>8, VaultSame
  <2> QED
    BY <2>3, <2>4
<1> QED
  BY <1>1, <1>2, NextSteps

\* A key reported imported stays in the vault and in its file through failed
\* saves, locks and crashes, unless a clear overlaps its import (importKeys,
\* saveLocked, ClearWallets).
THEOREM AckedKeysDurableCorrect == Spec => []AckedKeysDurable
<1>1. Init => Core /\ VaultInv /\ AckedInv
  BY InitCore, InitVaultKept
<1>2. (Core /\ VaultInv /\ AckedInv) /\ [Next]_vars => (Core /\ VaultInv /\ AckedInv)'
  BY StepCore, StepVault, StepAcked
<1>3. Spec => [](Core /\ VaultInv /\ AckedInv)
  BY <1>1, <1>2, PTL DEF Spec
<1>4. AckedInv => AckedKeysDurable
  BY DEF AckedInv
<1> QED
  BY <1>3, <1>4, PTL

-----------------------------------------------------------------------------
(* The stored strategies.                                                   *)

\* Only these steps change them.
LEMMA StoreSame ==
  ASSUME Typed, Steps
  PROVE  \/ UNCHANGED store
         \/ \E c \in Calls, ok \in BOOLEAN :
              \/ ClearConfig(c, ok) \/ SaveStrategy(c, ok) \/ DeleteStrategy(c, ok) \/ ResetSave(c, ok)
         \/ \E r \in Runs, ok \in BOOLEAN : RunSave(r, ok)
         \/ Crash
<1>1. Checks => UNCHANGED store
  BY ChecksSteps
<1>2. VaultCall => UNCHANGED store
  BY VaultSteps
<1>3. ASSUME NEW c \in Calls,
             LockVault(c) \/ RetainLocked(c) \/ ResetJob(c) \/ \E ok \in BOOLEAN : Retain(c, ok)
      PROVE  UNCHANGED store
  BY <1>3 DEF LockVault, RetainLocked, Retain, ResetJob
<1>4. ASSUME NEW c \in Calls, NEW r \in Runs, StartRun(c, r) PROVE UNCHANGED store
  BY <1>4 DEF StartRun
<1>5. OtherActs => UNCHANGED store
  BY OtherActSteps
<1>6. ASSUME NEW r \in Runs, RunFinish(r) PROVE UNCHANGED store
  BY <1>6 DEF RunFinish
<1> QED
  BY <1>1, <1>2, <1>3, <1>4, <1>5, <1>6 DEF Steps, EditActs

LEMMA WriteFile == ASSUME FileInv, NEW new, NEW ok \in BOOLEAN, Write(new, ok) PROVE FileInv'
BY DEF FileInv, Write

LEMMA StepFile == ASSUME Typed, FileInv, Steps PROVE FileInv'
<1>1. CASE UNCHANGED store
  BY <1>1, StepCalls DEF store, FileInv
<1>2. ASSUME NEW c \in Calls, NEW ok \in BOOLEAN,
             ClearConfig(c, ok) \/ SaveStrategy(c, ok) \/ ResetSave(c, ok)
      PROVE  FileInv'
  BY <1>2, WriteFile DEF ClearConfig, SaveStrategy, ResetSave
<1>3. ASSUME NEW c \in Calls, NEW ok \in BOOLEAN, DeleteStrategy(c, ok) PROVE FileInv'
  <2>1. \/ UNCHANGED <<store, lapses>>
        \/ Write([cfg EXCEPT ![call[c].s] = None], ok)
    BY <1>3 DEF DeleteStrategy
  <2> QED
    BY <2>1, WriteFile DEF store, FileInv
<1>4. ASSUME NEW r \in Runs, NEW ok \in BOOLEAN, RunSave(r, ok) PROVE FileInv'
  <2>1. \E new : Write(new, ok)
    BY <1>4, RunSaveEffect
  <2> QED
    BY <2>1, WriteFile
<1>5. CASE Crash
  BY <1>5 DEF Crash, FileInv
<1> QED
  BY <1>1, <1>2, <1>3, <1>4, <1>5, StoreSame

\* An edit writes its own strategy only, or at the end of a clear all of them.
LEMMA EditWrites ==
  ASSUME Typed, NEW c \in Calls, NEW ok \in BOOLEAN,
         SaveStrategy(c, ok) \/ DeleteStrategy(c, ok) \/ ResetSave(c, ok)
  PROVE  /\ call[c].op \in {"save", "delete", "reset"} /\ run' = run
         /\ \A s \in Strategies : s # call[c].s => cfg'[s] = cfg[s]
<1>1. call[c].op \in {"save", "delete", "reset"} /\ run' = run
  BY DEF SaveStrategy, DeleteStrategy, ResetSave
<1>2. \/ cfg' = cfg
      \/ cfg' = [cfg EXCEPT ![call[c].s] = call[c].rec]
      \/ cfg' = [cfg EXCEPT ![call[c].s] = None]
  BY DEF SaveStrategy, DeleteStrategy, ResetSave, Write, store
<1> QED
  BY <1>1, <1>2 DEF Typed, TypeOK

\* While a stored strategy is not written, a live run keeps its copy.
LEMMA SameRec ==
  ASSUME Core, "reset" \notin lapses, Steps,
         ~\E c \in Calls, r \in Runs : StartRun(c, r),
         ~\E r \in Runs, ok \in BOOLEAN : RunSave(r, ok)
  PROVE  \A r \in Runs : Live(r)' => run'[r].rec = run[r].rec
<1>1. Typed /\ Reserved
  BY DEF Core, ReservedInv
<1>2. Checks => run' = run
  BY <1>1, ChecksSteps
<1>3. VaultCall => run' = run
  BY DEF VaultCall, CheckInit, UnlockVault, CreateVault, Import
<1>4. ASSUME NEW c \in Calls, EditActs(c) \/ ResetJob(c) PROVE run' = run
  BY <1>4 DEF EditActs, LockVault, RetainLocked, Retain, ClearConfig, SaveStrategy, DeleteStrategy,
              ResetSave, ResetJob
<1>5. OtherActs => \A r \in Runs : run'[r].rec = run[r].rec
  BY <1>1, OtherActSteps
<1>6. ASSUME NEW r \in Runs, RunFinish(r) PROVE \A q \in Runs : Live(q)' => run'[q].rec = run[q].rec
  BY <1>1, <1>6, RunFinishEffect
<1>7. Crash => \A r \in Runs : ~Live(r)'
  BY <1>1, CrashTyped
<1> QED
  BY <1>2, <1>3, <1>4, <1>5, <1>6, <1>7 DEF Steps

LEMMA StepStored == ASSUME Core, StoredInv, Steps PROVE StoredInv'
<1>1. Typed /\ lapses \subseteq lapses' /\ FileInv /\ FileInv'
  BY StepCalls, StepFile DEF Core, StoredInv
<1> DEFINE Kinds == {"start", "save", "delete", "reset", "clear"}
<1> SUFFICES ASSUME lapses' \cap Kinds = {} PROVE Stored'
  BY <1>1 DEF StoredInv
<1>2. lapses \cap Kinds = {} /\ Stored /\ "reset" \notin lapses /\ "start" \notin lapses' /\ Reserved
  BY <1>1 DEF StoredInv, Core, ReservedInv
<1>3. Typed'
  BY <1>1, StepsTyped
<1>4. \A r \in Runs : Live(r) => run[r].s \in Strategies /\ IsActive(run[r].s) /\ job[run[r].s].run = r
  BY <1>1, <1>2 DEF Reserved, IsActive, Typed, Named
\* No other call is in progress with a start.
<1>5. ASSUME NEW c \in Calls, NEW d \in Calls, c # d, call[c].op = "start", Busy(d) PROVE FALSE
  BY <1>2, <1>5, StartAlone
<1>6. CASE Checks
  <2>1. UNCHANGED <<store, job, run>>
    BY <1>1, <1>6, ChecksSteps
  <2>2. cfg' = cfg /\ \A s : IsActive(s)' <=> IsActive(s)
    BY <2>1 DEF store, IsActive
  <2>3. ASSUME NEW c \in Calls, call'[c].op = "start"
        PROVE  cfg[call'[c].s] = call'[c].rec /\ ~IsActive(call'[c].s)
    BY <1>1, <1>2, <1>6, <2>3, ChecksFound DEF Stored
  <2>4. ASSUME NEW c \in Calls, call'[c].op \in {"save", "delete", "reset"}
        PROVE  ~IsActive(call'[c].s)
    BY <1>1, <1>2, <1>6, <2>4, ChecksFound DEF Stored
  <2>5. ASSUME NEW c \in Calls, call'[c].op \in {"clear", "clearConfig"}
        PROVE  ~AnyActive
    BY <1>1, <1>2, <1>6, <2>5, ChecksFound DEF Stored
  <2>6. \A r \in Runs : Live(r)' => cfg'[run'[r].s] = run'[r].rec
    BY <1>2, <2>1, <2>2 DEF Stored, Live
  <2>7. AnyActive' <=> AnyActive
    BY <2>1 DEF AnyActive, IsActive
  <2>8. \A c \in Calls : IsActive(call[c].s)' <=> IsActive(call'[c].s)
    BY <2>1 DEF IsActive
  <2> QED
    BY <2>2, <2>3, <2>4, <2>5, <2>6, <2>7, <2>8 DEF Stored
<1>7. ASSUME NEW c \in Calls, NEW r \in Runs, StartRun(c, r) PROVE Stored'
  <2>1. /\ call[c].op = "start" /\ run'[r].s = call[c].s /\ run'[r].rec = call[c].rec
        /\ \A q \in Runs \ {r} : run'[q] = run[q]
        /\ cfg' = cfg /\ call'[c] = Idle
        /\ \A d \in Calls \ {c} : call'[d] = call[d]
    BY <1>1, <1>7, StartRunEffect DEF store
  <2>2. \A d \in Calls : ~Busy(d)'
    BY <1>5, <2>1, Values DEF Busy
  <2>3. \A d \in Calls : call'[d].op \in {"idle", "exit"}
    BY <2>2 DEF Busy
  <2>4. \A q \in Runs : Live(q)' => cfg'[run'[q].s] = run'[q].rec
    BY <1>2, <2>1 DEF Stored, Live
  <2> QED
    BY <2>3, <2>4 DEF Stored
<1>8. CASE ~Checks /\ ~\E c \in Calls, r \in Runs : StartRun(c, r)
  <2>1. /\ \A r \in Runs : Live(r)' => Live(r) /\ run'[r].s = run[r].s
        /\ \A s \in Strategies : IsActive(s)' => IsActive(s)
    BY <1>2, <1>8, RunsShrink
  <2>2. \A c \in Calls : call'[c].op \in {"start", "save", "delete", "reset", "clear"} => call'[c] = call[c]
    BY <1>1, <1>8, StepCalls, GoesOnKind DEF Busy
  <2>3. \A c \in Calls : call'[c].op = "clearConfig" => call[c].op \in {"clear", "clearConfig"}
    BY <1>1, <1>8, StepCalls DEF GoesOn, Busy
  <2>4. \A c \in Calls : call[c].op \in {"start", "save", "delete", "reset"} => call[c].s \in Strategies
    BY <1>1 DEF Typed, Named
  <2>5. ASSUME NEW c \in Calls, call'[c].op \in {"start", "save", "delete", "reset"}
        PROVE  ~IsActive(call[c].s)'
    <3>1. call'[c] = call[c] /\ call[c].s \in Strategies /\ ~IsActive(call[c].s)
      BY <1>2, <2>2, <2>4, <2>5 DEF Stored
    <3> QED
      BY <2>1, <3>1 DEF IsActive
  <2>6. ASSUME NEW c \in Calls, call'[c].op \in {"clear", "clearConfig"} PROVE ~AnyActive'
    <3>1. ~AnyActive
      BY <1>2, <2>2, <2>3, <2>6 DEF Stored
    <3> QED
      BY <2>1, <3>1 DEF AnyActive
  <2> DEFINE Copies == /\ \A r \in Runs : Live(r) => cfg[run[r].s] = run[r].rec
                       /\ \A c \in Calls : call[c].op = "start" => cfg[call[c].s] = call[c].rec
  <2>7. Copies
    BY <1>2 DEF Stored
  <2>8. SUFFICES Copies'
    BY <2>5, <2>6 DEF Stored
  <2> DEFINE Saves == \E r \in Runs, ok \in BOOLEAN : RunSave(r, ok)
  <2>9. CASE UNCHANGED store /\ ~Saves
    <3>1. \A r \in Runs : Live(r)' => run'[r].rec = run[r].rec
      BY <1>2, <1>8, <2>9, SameRec
    <3> QED
      BY <2>1, <2>2, <2>7, <2>9, <3>1 DEF store
  <2>10. ASSUME NEW c \in Calls, NEW ok \in BOOLEAN, ClearConfig(c, ok) PROVE Copies'
    <3>1. call[c].op = "clearConfig" /\ run' = run
      BY <2>10 DEF ClearConfig
    <3>2. \A r \in Runs : ~Live(r)
      BY <1>2, <3>1, NoneLive DEF Stored
    <3>3. \A d \in Calls : call[d].op # "start"
      BY <1>5, <3>1 DEF Busy
    <3> QED
      BY <2>1, <2>2, <3>2, <3>3
  <2>11. ASSUME NEW c \in Calls, NEW ok \in BOOLEAN,
                SaveStrategy(c, ok) \/ DeleteStrategy(c, ok) \/ ResetSave(c, ok)
         PROVE  Copies'
    <3>1. /\ call[c].op \in {"save", "delete", "reset"} /\ run' = run
          /\ \A s \in Strategies : s # call[c].s => cfg'[s] = cfg[s]
      BY <1>1, <2>11, EditWrites
    <3>2. ~IsActive(call[c].s)
      BY <1>2, <3>1 DEF Stored
    <3>3. \A r \in Runs : Live(r)' => cfg'[run'[r].s] = run'[r].rec
      BY <1>4, <2>1, <2>7, <3>1, <3>2
    <3>4. \A d \in Calls : call[d].op # "start"
      BY <1>5, <3>1 DEF Busy
    <3> QED
      BY <2>2, <3>3, <3>4
  <2>12. ASSUME NEW r \in Runs, NEW ok \in BOOLEAN, RunSave(r, ok) PROVE Copies'
    <3>1. PICK bound \in Strategy :
             /\ bound.wallets = run[r].rec.wallets
             /\ Write([cfg EXCEPT ![run[r].s] = bound], ok)
             /\ run' \in [Runs -> Run]
             /\ \A q \in Runs : run'[q].s = run[q].s
             /\ \A q \in Runs : run'[q].rec = IF q = r THEN bound ELSE run[q].rec
             /\ \A q \in Runs : Live(q)' <=> Live(q)
             /\ run[r].s \in Strategies /\ Live(r)
      BY <1>1, <2>12, RunSaveEffect
    <3>2. /\ cfg'[run[r].s] = bound
          /\ \A s \in Strategies : s # run[r].s => cfg'[s] = cfg[s]
      BY <1>1, <3>1 DEF Write, Typed, TypeOK
    <3>3. ASSUME NEW q \in Runs, Live(q), q # r
          PROVE  run[q].s \in Strategies /\ run[q].s # run[r].s
      BY <1>4, <3>1, <3>3
    <3>4. \A q \in Runs : Live(q)' => cfg'[run'[q].s] = run'[q].rec
      BY <2>7, <3>1, <3>2, <3>3
    <3>5. \A c \in Calls : call[c].op = "start" => call[c].s \in Strategies /\ call[c].s # run[r].s
      BY <1>2, <1>4, <2>4, <3>1 DEF Stored
    <3> QED
      BY <2>2, <2>7, <3>2, <3>4, <3>5
  <2>13. CASE Crash
    BY <1>1, <2>13, CrashTyped, Values
  <2> QED
    BY <1>1, <2>9, <2>10, <2>11, <2>12, <2>13, StoreSame
<1> QED
  BY <1>6, <1>7, <1>8

\* Unless an edit of a strategy, or a run of it, overlaps its start: while an
\* engine trades a token, the stored strategy names that token (runStrategy,
\* saveStrategy, Start).
THEOREM BoundTokenStoredCorrect == Spec => []BoundTokenStored
<1>1. Init => Core /\ StoredInv
  BY InitCore, InitVaultKept
<1>2. (Core /\ StoredInv) /\ [Next]_vars => (Core /\ StoredInv)'
  <2>1. ASSUME Core, StoredInv, UNCHANGED vars PROVE StoredInv'
    BY <2>1 DEF vars, store, jobVars, StoredInv, FileInv, Stored, Live, IsActive, AnyActive
  <2> QED
    BY <2>1, StepCore, StepStored, NextSteps
<1>3. Spec => [](Core /\ StoredInv)
  BY <1>1, <1>2, PTL DEF Spec
<1>4. StoredInv => BoundTokenStored
  BY DEF StoredInv, FileInv, Stored, BoundTokenStored, Live
<1> QED
  BY <1>3, <1>4, PTL
=============================================================================
