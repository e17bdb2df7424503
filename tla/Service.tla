------------------------------ MODULE Service ------------------------------
(***************************************************************************)
(* The strategy service (internal/control/service.go, features.go,         *)
(* store.go) and the vault (internal/vault/vault.go).  UI calls run        *)
(* concurrently with each other and with one goroutine per started         *)
(* strategy.  Service.mu, configStore.mu and vault.Store.mu are separate   *)
(* and several calls check under one and act under another, later: such a  *)
(* call is two actions, and what it has read is in `call' in between.      *)
(*                                                                         *)
(* A strategy is its mode, wallets and token; run r launches token r.      *)
(***************************************************************************)
EXTENDS Integers, FiniteSets

CONSTANTS
  Strategies,
  Trading,    \* imported keys
  Funding,    \* generated routing keys, which share the vault
  EditCalls,  \* UI calls that may be in progress at once: those that change
  RunCalls,   \*   strategies or keys, and those that start a strategy or exit one
  Selections, \* bound: the wallet sets a user selects
  None,
  MaxRuns,    \* bound: starts
  MaxEdits,   \* bound: calls that change strategies or keys
  MaxFaults   \* bound: failed file writes and crashes

Wallets == Trading \cup Funding
Runs == 1..MaxRuns
Calls == EditCalls \cup RunCalls
Strategy == [mode : {"launch", "existing"}, wallets : SUBSET Trading, token : {0} \cup Runs]

\* runningJob: run is the goroutine it was created for, engine the run whose engine it holds
Job == [active : BOOLEAN, exit : BOOLEAN, wallets : SUBSET Trading,
        run : Runs, engine : {0} \cup Runs]
\* told: its context is cancelled or its engine has been asked to exit
Run == [pc : {"none", "setup", "save", "attach", "run", "finish", "done"},
        s : Strategies \cup {None}, rec : Strategy, told : BOOLEAN]
Call == [op : {"idle", "start", "save", "delete", "reset", "resetJob", "lock",
               "clear", "clearConfig", "exit"},
         s : Strategies \cup {None}, rec : Strategy, keep : SUBSET Wallets, run : {0} \cup Runs]

ASSUME ConstantsAssumption ==
  /\ MaxRuns \in Nat \ {0} /\ MaxEdits \in Nat /\ MaxFaults \in Nat
  /\ None \notin Strategies \cup Strategy \cup Job
  /\ Trading \cap Funding = {}
  /\ Selections \subseteq SUBSET Trading

\* Kinds of call that may act on what no longer holds, as another call (or, for
\* a start, a run of the same strategy) was in progress at the same time; and
\* failed writes.
Lapses == {"start", "save", "delete", "reset", "lock", "clear", "write"}

VARIABLES
  cfg, file,     \* configStore.data and config.json
  vault,         \* whether the vault exists and is unlocked
  keys, vfile,   \* vault.Store.wallets and the vault file
  acked,         \* keys whose import was reported successful and that were not cleared
  initOK,        \* Service.init.OK
  job, used,     \* Service.jobs, Service.usedWallets
  closed,        \* the engineReady channels that are closed, by the run of their job
  run, call,
  edits, faults, \* budgets
  lapses

store == <<cfg, file>>
vaultVars == <<vault, keys, vfile, acked>>
jobVars == <<job, used, closed>>
vars == <<store, vaultVars, initOK, jobVars, run, call, edits, faults, lapses>>

NoStrategy == [mode |-> "launch", wallets |-> {}, token |-> 0]
Idle == [op |-> "idle", s |-> None, rec |-> NoStrategy, keep |-> {}, run |-> 0]
NoRun == [pc |-> "none", s |-> None, rec |-> NoStrategy, told |-> FALSE]

IsActive(s) == job[s] # None /\ job[s].active
AnyActive == \E s \in Strategies : IsActive(s)
Live(r) == run[r].pc \notin {"none", "done"}
Startable(rec) == rec.wallets # {} /\ (rec.mode = "existing" => rec.token # 0)

Kind(op) == CASE op = "resetJob" -> "reset" [] op = "clearConfig" -> "clear" [] OTHER -> op
InProgress == {Kind(call[c].op) : c \in Calls} \ {"idle", "exit"}

\* fundingRoutingIDs: those tagged in the open vault and those in the funding
\* configuration, which names every routing key whose import was reported.
RoutingKeys == (keys \cup acked) \cap Funding

\* A call begins; if others are in progress, all of them are noted, and so is a
\* start that has copied a strategy whose run may still save it.
Begin(c, op, s, rec) ==
  /\ call[c].op = "idle"
  /\ call' = [call EXCEPT ![c] = [Idle EXCEPT !.op = op, !.s = s, !.rec = rec,
                                     !.keep = IF op = "clear" THEN RoutingKeys ELSE {}]]
  /\ lapses' = lapses \cup (IF InProgress = {} THEN {} ELSE InProgress \cup {op})
                     \cup (IF op = "start" /\ IsActive(s) THEN {op} ELSE {})
End(c) == call' = [call EXCEPT ![c] = Idle]
Gone == [NoRun EXCEPT !.pc = "done"]
Edit == edits > 0 /\ edits' = edits - 1

\* configStore.writeLocked: memory has changed already when the write fails.
Write(new, ok) ==
  /\ cfg' = new
  /\ IF ok THEN file' = new /\ UNCHANGED <<faults, lapses>>
           ELSE /\ faults > 0 /\ faults' = faults - 1
                /\ lapses' = lapses \cup {"write"} /\ UNCHANGED file

\* The vault's saveLocked, likewise.  during: calls this one may get in the way of.
SaveKeys(new, ok, during) ==
  /\ keys' = new
  /\ IF ok THEN vfile' = new /\ UNCHANGED faults
           ELSE faults > 0 /\ faults' = faults - 1 /\ UNCHANGED vfile
  /\ lapses' = lapses \cup during \cup (IF ok THEN {} ELSE {"write"})

-----------------------------------------------------------------------------
(* The vault and the startup gate.                                         *)

CheckInit ==
  /\ ~initOK
  /\ initOK' = TRUE
  /\ UNCHANGED <<store, vaultVars, jobVars, run, call, edits, faults, lapses>>

CreateVault(ok) ==
  /\ vault = "absent"
  /\ IF ok THEN vault' = "open" /\ UNCHANGED faults
           ELSE faults > 0 /\ faults' = faults - 1 /\ UNCHANGED vault
  /\ UNCHANGED <<store, keys, vfile, acked, initOK, jobVars, run, call, edits, lapses>>

\* Unlock reads the file, also when the vault is open.
UnlockVault ==
  /\ vault # "absent"
  /\ vault' = "open"
  /\ keys' = vfile
  /\ UNCHANGED <<store, vfile, acked, initOK, jobVars, run, call, edits, faults, lapses>>

\* Mutant: a failed save is not reported.
ImportReportedAnyway(new, ok) ==
  /\ vault = "open"
  /\ ~ new \subseteq keys
  /\ SaveKeys(keys \cup new, ok, InProgress \cap {"clear"})
  /\ acked' = acked \cup (new \ keys)
  /\ UNCHANGED <<store, vault, initOK, jobVars, run, call, edits>>

\* importKeys for ImportPrivateKeys, ImportMnemonic (Trading) and ImportFundingKeys;
\* an invalid key after valid ones leaves memory changed too.
Import(new, ok) ==
  /\ vault = "open"
  /\ ~ new \subseteq keys
  /\ SaveKeys(keys \cup new, ok, InProgress \cap {"clear"})
  /\ acked' = IF ok THEN acked \cup (new \ keys) ELSE acked
  /\ UNCHANGED <<store, vault, initOK, jobVars, run, call, edits>>

LockCheck(c) ==
  /\ Edit
  /\ ~AnyActive
  /\ vault = "open"
  /\ Begin(c, "lock", None, NoStrategy)
  /\ UNCHANGED <<store, vaultVars, initOK, jobVars, run, faults>>

LockVault(c) ==
  /\ call[c].op = "lock"
  /\ vault' = IF vault = "absent" THEN vault ELSE "locked"
  /\ keys' = {}
  /\ End(c)
  /\ UNCHANGED <<store, vfile, acked, initOK, jobVars, run, edits, faults, lapses>>

\* Mutant: running strategies are not looked for.
ClearCheckUnguarded(c) ==
  /\ Edit
  /\ Begin(c, "clear", None, NoStrategy)
  /\ UNCHANGED <<store, vaultVars, initOK, jobVars, run, faults>>

\* ClearWallets: refused while a strategy runs; then the routing keys to keep
\* are listed, the vault is rewritten and the strategies lose their wallets.  (Funding
\* tasks are not part of this module: their refusal changes nothing here, and the
\* routing keys are the constant Funding, so they are listed with the check.)
ClearCheck(c) ==
  /\ Edit
  /\ ~AnyActive
  /\ Begin(c, "clear", None, NoStrategy)
  /\ UNCHANGED <<store, vaultVars, initOK, jobVars, run, faults>>

Retain(c, ok) ==
  /\ call[c].op = "clear"
  /\ vault = "open"
  /\ SaveKeys(keys \cap call[c].keep, ok, {})
  /\ acked' = acked \cap Funding
  /\ call' = [call EXCEPT ![c] = IF ok THEN [Idle EXCEPT !.op = "clearConfig"] ELSE Idle]
  /\ UNCHANGED <<store, vault, initOK, jobVars, run, edits>>

RetainLocked(c) ==
  /\ call[c].op = "clear"
  /\ vault # "open"
  /\ End(c)
  /\ UNCHANGED <<store, vaultVars, initOK, jobVars, run, edits, faults, lapses>>

ClearConfig(c, ok) ==
  /\ call[c].op = "clearConfig"
  /\ Write([s \in Strategies |->
              IF cfg[s] = None THEN None ELSE [cfg[s] EXCEPT !.wallets = {}]], ok)
  /\ End(c)
  /\ UNCHANGED <<vaultVars, initOK, jobVars, run, edits>>

-----------------------------------------------------------------------------
(* Editing strategies.                                                     *)

\* Mutant: a running strategy can be edited.
SaveCheckUnguarded(c, s, mode, wallets) ==
  /\ Edit
  /\ Begin(c, "save", s, [mode |-> mode, wallets |-> wallets,
                          token |-> IF cfg[s] = None THEN 0 ELSE cfg[s].token])
  /\ UNCHANGED <<store, vaultVars, initOK, jobVars, run, faults>>
\* Mutant: routing wallets are accepted.
SaveCheckAnyWallet(c, s, mode, wallets) ==
  /\ Edit
  /\ ~IsActive(s)
  /\ Begin(c, "save", s, [mode |-> mode, wallets |-> wallets \cup Funding,
                          token |-> IF cfg[s] = None THEN 0 ELSE cfg[s].token])
  /\ UNCHANGED <<store, vaultVars, initOK, jobVars, run, faults>>

\* The UI sends a whole strategy, with the token it has loaded.
SaveCheck(c, s, mode, wallets) ==
  /\ Edit
  /\ ~IsActive(s)
  /\ Begin(c, "save", s, [mode |-> mode, wallets |-> wallets,
                          token |-> IF cfg[s] = None THEN 0 ELSE cfg[s].token])
  /\ UNCHANGED <<store, vaultVars, initOK, jobVars, run, faults>>

SaveStrategy(c, ok) ==
  /\ call[c].op = "save"
  /\ Write([cfg EXCEPT ![call[c].s] = call[c].rec], ok)
  /\ End(c)
  /\ UNCHANGED <<vaultVars, initOK, jobVars, run, edits>>

DeleteCheck(c, s) ==
  /\ Edit
  /\ ~IsActive(s)
  /\ cfg[s] # None
  /\ Begin(c, "delete", s, NoStrategy)
  /\ UNCHANGED <<store, vaultVars, initOK, jobVars, run, faults>>

DeleteStrategy(c, ok) ==
  /\ call[c].op = "delete"
  /\ End(c)
  /\ IF cfg[call[c].s] = None
       THEN ok /\ UNCHANGED <<store, faults, lapses>>
       ELSE Write([cfg EXCEPT ![call[c].s] = None], ok)
  /\ UNCHANGED <<vaultVars, initOK, jobVars, run, edits>>

\* ResetStrategy: the copy is taken, the wallets' holdings are read over the
\* network (here: found empty), the copy is saved, the job is forgotten.
ResetCheck(c, s) ==
  /\ Edit
  /\ ~IsActive(s)
  /\ cfg[s] # None
  /\ Begin(c, "reset", s, [cfg[s] EXCEPT !.mode = "launch", !.token = 0])
  /\ UNCHANGED <<store, vaultVars, initOK, jobVars, run, faults>>

ResetSave(c, ok) ==
  /\ call[c].op = "reset"
  /\ Write([cfg EXCEPT ![call[c].s] = call[c].rec], ok)
  /\ call' = [call EXCEPT ![c] = IF ok THEN [@ EXCEPT !.op = "resetJob"] ELSE Idle]
  /\ UNCHANGED <<vaultVars, initOK, jobVars, run, edits>>

ResetJob(c) ==
  /\ call[c].op = "resetJob"
  /\ job' = [job EXCEPT ![call[c].s] = None]
  /\ End(c)
  /\ UNCHANGED <<store, vaultVars, initOK, used, closed, run, edits, faults, lapses>>

-----------------------------------------------------------------------------
(* Starting, stopping and exiting.                                         *)

\* Start reads the strategy and its keys before it takes Service.mu.
StartRead(c, s) ==
  /\ initOK
  /\ cfg[s] # None
  /\ Startable(cfg[s])
  /\ vault = "open" /\ cfg[s].wallets \subseteq keys
  /\ Cardinality({d \in Calls : call[d].op = "start"}) < Cardinality({r \in Runs : run[r].pc = "none"})
  /\ Begin(c, "start", s, cfg[s])
  /\ UNCHANGED <<store, vaultVars, initOK, jobVars, run, edits, faults>>

\* Mutant: wallets used by another strategy are accepted.
RefusedIfActive(s, wallets) == IsActive(s)

Refused(s, wallets) == IsActive(s) \/ \E w \in wallets : used[w] # None

StartRefused(c) ==
  /\ call[c].op = "start"
  /\ Refused(call[c].s, call[c].rec.wallets)
  /\ End(c)
  /\ UNCHANGED <<store, vaultVars, initOK, jobVars, run, edits, faults, lapses>>

StartRun(c, r) ==
  /\ call[c].op = "start"
  /\ ~Refused(call[c].s, call[c].rec.wallets)
  /\ run[r].pc = "none" /\ \A q \in 1..(r - 1) : run[q].pc # "none"
  /\ run' = [run EXCEPT ![r] = [NoRun EXCEPT !.pc = "setup", !.s = call[c].s,
                                             !.rec = call[c].rec]]
  /\ job' = [job EXCEPT ![call[c].s] =
               [active |-> TRUE, exit |-> FALSE, wallets |-> call[c].rec.wallets,
                run |-> r, engine |-> 0]]
  /\ used' = [w \in Trading |-> IF w \in call[c].rec.wallets THEN call[c].s ELSE used[w]]
  /\ End(c)
  /\ UNCHANGED <<store, vaultVars, initOK, closed, edits, faults, lapses>>

Stop(s) ==
  /\ IsActive(s)
  /\ ~job[s].exit
  /\ run' = [run EXCEPT ![job[s].run].told = TRUE]
  /\ UNCHANGED <<store, vaultVars, initOK, jobVars, call, edits, faults, lapses>>

ExitRequest(c, s) ==
  /\ IsActive(s)
  /\ ~job[s].exit
  /\ job' = [job EXCEPT ![s].exit = TRUE]
  /\ call[c].op = "idle"
  /\ call' = [call EXCEPT ![c] = [Idle EXCEPT !.op = "exit", !.s = s, !.run = job[s].run]]
  /\ UNCHANGED <<store, vaultVars, initOK, used, closed, run, edits, faults, lapses>>

\* engineReady is closed: the job is looked up again and its engine asked to exit.
ExitReady(c) ==
  /\ call[c].op = "exit"
  /\ call[c].run \in closed
  /\ LET s == call[c].s
         engine == IF job[s] = None THEN 0 ELSE job[s].engine
     IN run' = [r \in Runs |-> IF r = engine THEN [run[r] EXCEPT !.told = TRUE] ELSE run[r]]
  /\ End(c)
  /\ UNCHANGED <<store, vaultVars, initOK, jobVars, edits, faults, lapses>>

\* 45 s have passed: the call fails and exitRequested stays.
ExitTimeout(c) ==
  /\ call[c].op = "exit"
  /\ call[c].run \notin closed
  /\ End(c)
  /\ UNCHANGED <<store, vaultVars, initOK, jobVars, run, edits, faults, lapses>>

Shutdown ==
  /\ run' = [r \in Runs |->
               IF \E s \in Strategies : IsActive(s) /\ job[s].run = r
                 THEN [run[r] EXCEPT !.told = TRUE] ELSE run[r]]
  /\ run' # run
  /\ UNCHANGED <<store, vaultVars, initOK, jobVars, call, edits, faults, lapses>>

-----------------------------------------------------------------------------
(* runStrategy, one goroutine per run.                                     *)

Goto(r, pc) == run' = [run EXCEPT ![r].pc = pc]

\* setupEngine and Launch, or Bind
RunSetup(r) ==
  /\ run[r].pc = "setup"
  /\ \/ Goto(r, IF run[r].rec.mode = "launch" THEN "save" ELSE "attach")
     \/ Goto(r, "finish")
  /\ UNCHANGED <<store, vaultVars, initOK, jobVars, call, edits, faults, lapses>>

\* The copy the run was started with is saved, bound to the launched token.
RunSave(r, ok) ==
  /\ run[r].pc = "save"
  /\ LET bound == [run[r].rec EXCEPT !.mode = "existing", !.token = r]
     IN /\ run' = [run EXCEPT ![r].pc = "attach", ![r].rec = bound]
        /\ Write([cfg EXCEPT ![run[r].s] = bound], ok)
  /\ UNCHANGED <<vaultVars, initOK, jobVars, call, edits>>

RunAttach(r) ==
  /\ run[r].pc = "attach"
  /\ Goto(r, "run")
  /\ LET s == run[r].s
     IN IF job[s] = None
          THEN UNCHANGED <<job, closed>>
          ELSE /\ job' = [job EXCEPT ![s].engine = r]
               /\ closed' = closed \cup {job[s].run}
  /\ UNCHANGED <<store, vaultVars, initOK, used, call, edits, faults, lapses>>

\* Engine.Run returns: cancelled, exited, done or failed.
RunEnds(r) ==
  /\ run[r].pc = "run"
  /\ Goto(r, "finish")
  /\ UNCHANGED <<store, vaultVars, initOK, jobVars, call, edits, faults, lapses>>

RunFinish(r) ==
  /\ run[r].pc = "finish"
  /\ run' = [run EXCEPT ![r] = Gone]
  /\ LET s == run[r].s
     IN IF job[s] = None
          THEN UNCHANGED jobVars
          ELSE /\ job' = [job EXCEPT ![s].active = FALSE]
               /\ closed' = closed \cup {job[s].run}
               /\ used' = [w \in Trading |->
                             IF w \in job[s].wallets /\ used[w] = s THEN None ELSE used[w]]
  /\ UNCHANGED <<store, vaultVars, initOK, call, edits, faults, lapses>>

\* The process dies and is started again.
Crash ==
  /\ faults > 0
  /\ faults' = faults - 1
  /\ cfg' = file
  /\ vault' = IF vault = "absent" THEN vault ELSE "locked"
  /\ keys' = {}
  /\ initOK' = FALSE
  /\ job' = [s \in Strategies |-> None]
  /\ used' = [w \in Trading |-> None]
  /\ run' = [r \in Runs |-> IF run[r].pc = "none" THEN NoRun ELSE Gone]
  /\ call' = [c \in Calls |-> Idle]
  /\ UNCHANGED <<file, vfile, acked, closed, edits, lapses>>

-----------------------------------------------------------------------------

Init ==
  /\ cfg \in [Strategies -> {None} \cup [mode : {"launch"}, wallets : SUBSET Trading, token : {0}]]
  /\ file = cfg
  /\ \/ vault = "absent" /\ vfile = {}
     \/ vault = "locked" /\ vfile \in SUBSET Wallets
  /\ keys = {}
  /\ acked = vfile
  /\ initOK = FALSE
  /\ job = [s \in Strategies |-> None]
  /\ used = [w \in Trading |-> None]
  /\ closed = {}
  /\ run = [r \in Runs |-> NoRun]
  /\ call = [c \in Calls |-> Idle]
  /\ edits = MaxEdits
  /\ faults = MaxFaults
  /\ lapses = {}

VaultCall ==
  \/ CheckInit
  \/ UnlockVault
  \/ \E ok \in BOOLEAN :
       \/ CreateVault(ok)
       \/ \E new \in (SUBSET Trading) \cup (SUBSET Funding) : Import(new, ok)

EditCall(c) ==
  \/ \E s \in Strategies :
       \/ \E mode \in {"launch", "existing"}, wallets \in Selections :
            SaveCheck(c, s, mode, wallets)
       \/ DeleteCheck(c, s)
       \/ ResetCheck(c, s)
  \/ ClearCheck(c)
  \/ LockCheck(c)

Act(c) ==
  \/ \E ok \in BOOLEAN : \/ Retain(c, ok) \/ ClearConfig(c, ok) \/ SaveStrategy(c, ok)
                         \/ DeleteStrategy(c, ok) \/ ResetSave(c, ok)
  \/ RetainLocked(c) \/ LockVault(c) \/ ResetJob(c)
  \/ StartRefused(c) \/ \E r \in Runs : StartRun(c, r)
  \/ ExitReady(c) \/ ExitTimeout(c)

Step(r) ==
  \/ RunSetup(r) \/ RunAttach(r) \/ RunFinish(r)
  \/ \E ok \in BOOLEAN : RunSave(r, ok)

Next ==
  \/ VaultCall
  \/ \E c \in EditCalls : EditCall(c)
  \/ \E c \in RunCalls, s \in Strategies : StartRead(c, s) \/ ExitRequest(c, s)
  \/ \E c \in Calls : Act(c)
  \/ \E s \in Strategies : Stop(s)
  \/ Shutdown
  \/ \E r \in Runs : Step(r) \/ RunEnds(r)
  \/ Crash

\* Calls and goroutines are scheduled; an engine that is cancelled or asked to
\* exit returns.
Fairness ==
  /\ \A c \in Calls : WF_vars(Act(c))
  /\ \A r \in Runs : /\ WF_vars(Step(r))
                     /\ WF_vars(run[r].told /\ RunEnds(r))

Spec == Init /\ [][Next]_vars
FairSpec == Spec /\ Fairness

-----------------------------------------------------------------------------
(* Properties.  Most hold as long as certain calls do not overlap in time   *)
(* (or no write fails): their premises say which, see the README.          *)

TypeOK ==
  /\ cfg \in [Strategies -> Strategy \cup {None}]
  /\ file \in [Strategies -> Strategy \cup {None}]
  /\ vault \in {"absent", "locked", "open"}
  /\ keys \subseteq Wallets /\ vfile \subseteq Wallets /\ acked \subseteq Wallets
  /\ initOK \in BOOLEAN
  /\ job \in [Strategies -> Job \cup {None}]
  /\ used \in [Trading -> Strategies \cup {None}]
  /\ closed \subseteq Runs
  /\ run \in [Runs -> Run]
  /\ call \in [Calls -> Call]
  /\ edits \in 0..MaxEdits /\ faults \in 0..MaxFaults
  /\ lapses \subseteq Lapses

\* "Each active strategy owns a client and a disjoint wallet set": no two live
\* goroutines trade with the same wallet (Start's reservation, finish's release).
Disjoint ==
  \A q, r \in Runs :
    q # r /\ Live(q) /\ Live(r) => run[q].rec.wallets \cap run[r].rec.wallets = {}

\* Unless a reset overlaps a start: live runs are disjoint, a strategy has one
\* of them, its job is that run's and says so, and a wallet is reserved exactly
\* while a live run has it (Start and finish leak no reservation).
Exclusive ==
  "reset" \notin lapses =>
    /\ Disjoint
    /\ \A r \in Runs : Live(r) => IsActive(run[r].s) /\ job[run[r].s].run = r
    /\ \A s \in Strategies : IsActive(s) => Live(job[s].run) /\ run[job[s].run].s = s
    /\ \A w \in Trading, s \in Strategies :
         used[w] = s <=> \E r \in Runs : Live(r) /\ run[r].s = s /\ w \in run[r].rec.wallets

\* Unless a clear or a reset overlaps a start, the keys of a live run are in
\* the vault file, so what it has bought can be sold after a restart
\* (ClearWallets is refused while a strategy runs).
KeysKept ==
  lapses \cap {"reset", "clear", "write"} = {} =>
    \A r \in Runs : Live(r) => run[r].rec.wallets \subseteq vfile

\* A key reported imported stays in the vault and its file through failed
\* saves, locks and crashes; clearing removes trading keys only, unless routing
\* keys are imported meanwhile (importKeys, saveLocked, ClearWallets).
AckedKeysDurable ==
  "clear" \notin lapses => acked \subseteq vfile /\ (vault = "open" => acked \subseteq keys)

\* Unless an edit of the strategy or a run of it overlaps its start: while an
\* engine trades a token, the stored strategy names that token, in memory and in
\* the file, so after a crash it can be bound and sold again (runStrategy,
\* saveStrategy; Start copies the strategy before it takes Service.mu).
BoundTokenStored ==
  lapses \cap {"start", "save", "delete", "reset", "clear"} = {} =>
    \A r \in Runs : run[r].pc \in {"attach", "run"} =>
      /\ cfg[run[r].s] = run[r].rec
      /\ "write" \notin lapses => file[run[r].s] = run[r].rec

\* "ExitAll asks a running engine to stop its normal strategy and concurrently
\* sell": a one-click exit that was accepted ends its strategy.
ExitEnds == \A s \in Strategies : (IsActive(s) /\ job[s].exit) ~> ~IsActive(s)
=============================================================================
