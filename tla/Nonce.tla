------------------------------- MODULE Nonce -------------------------------
(***************************************************************************)
(* One wallet of the pool (internal/ponsmm/wallets.go) and the goroutines  *)
(* that send from it: buys, sell approvals, sells and WETH unwraps, each   *)
(* under txMu, next to balance refreshes that move the cached nonce and to *)
(* a pre-signed launch buy that is resubmitted until it has a receipt.     *)
(*                                                                         *)
(* The node is `slot', the transaction it holds for each nonce, mined or   *)
(* not, and `mined', the account nonce.  It answers a pending-nonce read   *)
(* with the first nonce it holds nothing for.                              *)
(***************************************************************************)
EXTENDS Integers, FiniteSets

CONSTANTS
  Senders,   \* goroutines that send from the wallet
  Readers,   \* refreshes that may overlap
  None,      \* no goroutine, no nonce
  MaxNonce,  \* bound: nonces used
  Windows,   \* may the wallet carry a pre-signed launch buy: a set of BOOLEAN
  Faults     \* what the environment may do: see FaultKinds

FaultKinds == {"refuse",   \* a call to the node fails and changes nothing
               "lost",     \* a transaction reaches the node, its reply does not reach us
               "reprice",  \* fees have risen enough for a transaction to replace a pending one
               "lag",      \* a node answers a nonce read before it knows all pending transactions
               "outside",  \* another program sends from the wallet
               "timeout"}  \* the wait for an approval's receipt is given up after 60 s

ASSUME ConstantsAssumption ==
  /\ MaxNonce \in Nat \ {0}
  /\ None \notin Nat /\ None \notin Senders /\ None \notin {"ok", "error"}
  /\ Windows \subseteq BOOLEAN /\ Windows # {}
  /\ Faults \subseteq FaultKinds

Nonces == 0..(MaxNonce - 1)
Kinds == {"buy", "approve", "sell", "unwrap"}

\* Where a goroutine is.  The last five are about to send, or hold txMu and send.
Stages == {"idle", "preCheck", "sellCheck",
           "buy", "preApprove", "sellApprove", "sell", "unwrap"}
Approving == {"preApprove", "sellApprove"}
Sending == {"buy", "sell", "unwrap"} \cup Approving

VARIABLES
  nonce,      \* Wallet.Nonce
  txMu,       \* the goroutine that holds Wallet.txMu
  signed,     \* the nonce txMu's holder has signed with
  reply,      \* what Client.Send has returned to it
  at,         \* the stage of every goroutine
  submitted,  \* e.approvalSubmitted
  ready,      \* e.approvalReady
  watch,      \* the approvals whose receipts are being waited for, by nonce
  seen,       \* per refresh: the pending nonce it has read
  slot,       \* the node's transaction for each nonce, mined or pending
  mined,      \* transactions mined
  presigned,  \* the nonce of a launch buy that spamUntilReceipt resubmits
  misled      \* a failed send left a nonce that some transaction already has

walletVars == <<nonce, txMu, signed, reply>>
approvalVars == <<submitted, ready, watch>>
nodeVars == <<slot, mined>>
vars == <<nonce, txMu, signed, reply, at, submitted, ready, watch, seen, slot, mined,
          presigned, misled>>

-----------------------------------------------------------------------------
(* The node *)

\* The node holds a transaction for every nonce below n.
Contiguous(n) == \A m \in Nonces : m < n => slot[m] # "free"

\* eth_getTransactionCount(pending) may answer n.
PendingNonce(n) ==
  /\ Contiguous(n)
  /\ \/ "lag" \in Faults /\ n >= mined
     \/ \A m \in Nonces : m = n => slot[m] = "free"

\* What Allowance returns: some approval has been mined.
Allowed == \E m \in Nonces : m < mined /\ slot[m] = "approve"

\* The node takes a transaction for an unused nonce, and one that pays more in
\* place of a pending one.
Takes(n) == slot[n] = "free" \/ (n >= mined /\ "reprice" \in Faults)

\* Nothing broadcast or pre-signed has nonce n or a later one.
Sound(n) ==
  /\ \A m \in Nonces : slot[m] # "free" => m < n
  /\ presigned # None => presigned < n

Mine ==
  /\ mined < MaxNonce /\ slot[mined] # "free"
  /\ mined' = mined + 1
  /\ UNCHANGED <<walletVars, approvalVars, at, seen, slot, presigned, misled>>

\* Another program (a funding task, the user's own wallet) sends with the same key.
Outside ==
  /\ "outside" \in Faults
  /\ \E n \in Nonces : /\ slot[n] = "free" /\ Contiguous(n)
                       /\ slot' = [slot EXCEPT ![n] = "other"]
  /\ UNCHANGED <<walletVars, approvalVars, at, seen, mined, presigned, misled>>

\* spamUntilReceipt: the same signed buy is submitted again and again.
Resend ==
  /\ presigned # None
  /\ slot[presigned] # "buy" /\ Takes(presigned)
  /\ slot' = [slot EXCEPT ![presigned] = "buy"]
  /\ UNCHANGED <<walletVars, approvalVars, at, seen, mined, presigned, misled>>

-----------------------------------------------------------------------------
(* Refreshes: RefreshETH, RefreshSnapshot *)

\* PendingNonces, without a lock.
Read(r) ==
  /\ seen[r] = None
  /\ \E n \in 0..MaxNonce : PendingNonce(n) /\ seen' = [seen EXCEPT ![r] = n]
  /\ UNCHANGED <<walletVars, approvalVars, at, nodeVars, presigned, misled>>

\* Mutant: what was read is written back verbatim.
AdvancedVerbatim(n) == n

\* The larger of the cached nonce and a nonce that was read.
Advanced(n) == IF n > nonce THEN n ELSE nonce

\* Mutant: applyNonces without txMu.
StoreUnlocked(r) ==
  /\ seen[r] # None
  /\ nonce' = Advanced(seen[r])
  /\ seen' = [seen EXCEPT ![r] = None]
  /\ UNCHANGED <<txMu, signed, reply, approvalVars, at, nodeVars, presigned, misled>>

\* applyNonces: only ever advance the cached nonce.
Store(r) ==
  /\ seen[r] # None /\ txMu = None
  /\ nonce' = Advanced(seen[r])
  /\ seen' = [seen EXCEPT ![r] = None]
  /\ UNCHANGED <<txMu, signed, reply, approvalVars, at, nodeVars, presigned, misled>>

-----------------------------------------------------------------------------
(* Senders *)

\* Where ensureApprove and a broadcast lead.
Continue(stage) == CASE stage \in {"sellCheck", "sellApprove"} -> "sell"
                     [] stage = "buy" -> "preCheck"
                     [] OTHER -> "idle"

Kind(stage) == IF stage \in Approving THEN "approve" ELSE stage

\* buyOnce, the prewarm of existing positions and sellOnceWithQuote begin; an
\* unwrap follows a confirmed sell.
Start(t, stage) ==
  /\ at[t] = "idle"
  /\ stage \in {"buy", "preCheck", "sellCheck", "unwrap"}
  /\ stage = "unwrap" => \E m \in Nonces : m < mined /\ slot[m] = "sell"
  /\ at' = [at EXCEPT ![t] = stage]
  /\ UNCHANGED <<walletVars, approvalVars, seen, nodeVars, presigned, misled>>

\* The unlocked half of ensureApprove, up to the allowance read.
CheckApproval(t) ==
  /\ at[t] \in {"preCheck", "sellCheck"}
  /\ \/ /\ ready \/ submitted \/ Allowed
        /\ ready' = (ready \/ (~submitted /\ Allowed))
        /\ at' = [at EXCEPT ![t] = Continue(at[t])]
     \/ /\ ~ready /\ ~submitted /\ ~Allowed
        /\ at' = [at EXCEPT ![t] = IF @ = "preCheck" THEN "preApprove" ELSE "sellApprove"]
        /\ UNCHANGED ready
  /\ UNCHANGED <<walletVars, submitted, watch, seen, nodeVars, presigned, misled>>

\* Mutant: no second look under txMu.
NeedsApprovalUnchecked(t) == TRUE

\* An approval is prepared unless another goroutine has seen to it.
NeedsApproval(t) == at[t] \in Approving => ~ready /\ ~submitted

\* txParams and the signature, under txMu.
Sign(t) ==
  /\ at[t] \in Sending /\ txMu = None
  /\ NeedsApproval(t)
  /\ nonce < MaxNonce
  /\ txMu' = t
  /\ signed' = nonce
  /\ UNCHANGED <<nonce, reply, approvalVars, at, seen, nodeVars, presigned, misled>>

\* The second look of ensureApprove, under txMu: nothing left to approve.
SkipApproval(t) ==
  /\ at[t] \in Approving /\ txMu = None
  /\ ready \/ submitted
  /\ at' = [at EXCEPT ![t] = Continue(at[t])]
  /\ UNCHANGED <<walletVars, approvalVars, seen, nodeVars, presigned, misled>>

\* A cancelled round, a failed read, gas quote or build: an early return.
GiveUp(t) ==
  /\ at[t] # "idle" /\ txMu # t
  /\ at' = [at EXCEPT ![t] = "idle"]
  /\ UNCHANGED <<walletVars, approvalVars, seen, nodeVars, presigned, misled>>

\* Client.Send.
Deliver(t) ==
  /\ txMu = t /\ reply = None
  /\ \/ /\ Takes(signed)
        /\ slot' = [slot EXCEPT ![signed] = Kind(at[t])]
        /\ reply' \in {"ok"} \cup (IF "lost" \in Faults THEN {"error"} ELSE {})
     \/ /\ slot[signed] # "free" \/ "refuse" \in Faults
        /\ reply' = "error"
        /\ UNCHANGED slot
  /\ UNCHANGED <<nonce, txMu, signed, approvalVars, at, seen, mined, presigned, misled>>

Unlock ==
  /\ txMu' = None
  /\ signed' = 0
  /\ reply' = None

\* send returns nil: the nonce moves on, txMu is released, an approval is watched.
Sent(t) ==
  /\ txMu = t /\ reply = "ok"
  /\ nonce' = nonce + 1
  /\ Unlock
  /\ at' = [at EXCEPT ![t] = Continue(at[t])]
  /\ IF at[t] \in Approving
     THEN submitted' = TRUE /\ watch' = watch \cup {signed}
     ELSE UNCHANGED <<submitted, watch>>
  /\ UNCHANGED <<ready, seen, nodeVars, presigned, misled>>

\* Mutant: no resynchronisation.
ResyncedNever(n) == n = nonce

\* The nonces a failed send may leave: the node's pending nonce, or the cached one
\* when that cannot be read either.
Resynced(n) == PendingNonce(n) \/ ("refuse" \in Faults /\ n = nonce)

\* Mutant: a failed approval does not stop the sell.
FailIgnored(t, n) ==
  /\ txMu = t /\ reply = "error"
  /\ Resynced(n)
  /\ nonce' = n
  /\ misled' = (misled \/ ~Sound(n))
  /\ Unlock
  /\ at' = [at EXCEPT ![t] = Continue(at[t])]
  /\ UNCHANGED <<approvalVars, seen, nodeVars, presigned>>

\* send returns an error.
Fail(t, n) ==
  /\ txMu = t /\ reply = "error"
  /\ Resynced(n)
  /\ nonce' = n
  /\ misled' = (misled \/ ~Sound(n))
  /\ Unlock
  /\ at' = [at EXCEPT ![t] = "idle"]
  /\ UNCHANGED <<approvalVars, seen, nodeVars, presigned>>

\* watchApproval.
ApprovalMined(n) ==
  /\ n \in watch /\ n < mined /\ slot[n] = "approve"
  /\ ready' = TRUE
  /\ watch' = watch \ {n}
  /\ UNCHANGED <<walletVars, submitted, at, seen, nodeVars, presigned, misled>>

ApprovalTimeout(n) ==
  /\ "timeout" \in Faults
  /\ n \in watch
  /\ submitted' = FALSE
  /\ watch' = watch \ {n}
  /\ UNCHANGED <<walletVars, ready, at, seen, nodeVars, presigned, misled>>

-----------------------------------------------------------------------------
(* The pool after its first refresh.  The wallet may have a past (an earlier       *)
(* session's approval) and a launch buy that sendWindow has just signed: its nonce *)
(* is used up before the buy is broadcast.                                         *)
Init ==
  /\ \E past \in {"free", "other", "approve"} :
       /\ slot = [n \in Nonces |-> IF n = 0 THEN past ELSE "free"]
       /\ mined = IF past = "free" THEN 0 ELSE 1
  /\ \E window \in Windows :
       /\ window => mined < MaxNonce
       /\ presigned = IF window THEN mined ELSE None
       /\ nonce = IF window THEN mined + 1 ELSE mined
  /\ txMu = None /\ signed = 0 /\ reply = None
  /\ at = [t \in Senders |-> "idle"]
  /\ submitted = FALSE /\ ready = FALSE /\ watch = {}
  /\ seen = [r \in Readers |-> None]
  /\ misled = FALSE

Next ==
  \/ Mine \/ Outside \/ Resend
  \/ \E r \in Readers : Read(r) \/ Store(r)
  \/ \E t \in Senders :
       \/ \E stage \in Stages : Start(t, stage)
       \/ CheckApproval(t) \/ Sign(t) \/ SkipApproval(t) \/ GiveUp(t)
       \/ Deliver(t) \/ Sent(t)
       \/ \E n \in 0..MaxNonce : Fail(t, n)
  \/ \E n \in Nonces : ApprovalMined(n) \/ ApprovalTimeout(n)

Spec == Init /\ [][Next]_vars

\* What a goroutine does before it holds txMu.
Advance(t) == CheckApproval(t) \/ SkipApproval(t) \/ Sign(t) \/ GiveUp(t)

\* A liquidation under way: sells are started again and again (the distribution
\* ticker), are not given up or kept from txMu every time, and are told the node's
\* true pending nonce now and then; goroutines advance, calls return and the
\* pre-signed buy is resent.
FairSpec ==
  /\ Spec
  /\ WF_vars(Resend)
  /\ SF_vars(\E t \in Senders : Start(t, "sellCheck"))
  /\ \A t \in Senders :
       /\ WF_vars(Advance(t))
       /\ SF_vars(at[t] = "sellCheck" /\ CheckApproval(t))
       /\ SF_vars(at[t] = "sellApprove" /\ (Sign(t) \/ SkipApproval(t)))
       /\ SF_vars(at[t] = "sell" /\ Sign(t))
       /\ WF_vars(Deliver(t)) /\ WF_vars(Sent(t)) /\ WF_vars(\E n \in 0..MaxNonce : Fail(t, n))
       /\ SF_vars(\E n \in 0..MaxNonce : Sound(n) /\ Fail(t, n))

-----------------------------------------------------------------------------
(* Properties *)

\* Types.
TypeOK ==
  /\ nonce \in 0..MaxNonce
  /\ txMu \in Senders \cup {None}
  /\ signed \in Nonces
  /\ reply \in {None, "ok", "error"}
  /\ at \in [Senders -> Stages]
  /\ submitted \in BOOLEAN /\ ready \in BOOLEAN
  /\ watch \subseteq Nonces
  /\ seen \in [Readers -> 0..MaxNonce \cup {None}]
  /\ slot \in [Nonces -> Kinds \cup {"free", "other"}]
  /\ mined \in 0..MaxNonce
  /\ presigned \in Nonces \cup {None}
  /\ misled \in BOOLEAN

\* Every nonce the wallet has passed is held by the node or by the pre-signed buy
\* that is being resubmitted: no later transaction waits for one that never comes.
\* A refresh that stored while a send was counting its own nonce would break it.
NoGap == \A m \in Nonces : m < nonce => slot[m] # "free" \/ m = presigned

\* wallets.go: a transaction is queued strictly behind any that the wallet has
\* already broadcast (or pre-signed) and never reuses its nonce.
StrictlyBehind ==
  txMu # None /\ reply = None =>
    /\ \A m \in Nonces : slot[m] \in Kinds => m < signed
    /\ presigned # None => presigned < signed

\* wallets.go: the sell must be queued strictly behind any buy that was already
\* broadcast, never reuse its nonce.
SellBehindBuys ==
  txMu # None /\ reply = None =>
    (at[txMu] = "sell" => \A m \in Nonces : slot[m] = "buy" => m < signed)

\* Order is lost only by a failed send that leaves a nonce already taken.
OrderKept == misled \/ StrictlyBehind

\* While one approval is being waited for, no second one is signed.
OneApproval == txMu # None /\ watch # {} => at[txMu] \notin Approving

\* wallets.go: a wallet whose counter fell behind does not resubmit a stale nonce
\* forever.
Behind == \E m \in Nonces : m >= nonce /\ slot[m] # "free"
CatchesUp == Behind ~> ~Behind

\* The broadcast and pre-signed transactions by nonce are the log WalletLog
\* promises.
Sells == {m \in Nonces : slot[m] \in Kinds \/ m = presigned}
SentKinds == [m \in Sells |-> IF m = presigned THEN "buy" ELSE slot[m]]
Log == INSTANCE WalletLog WITH sent <- SentKinds
LogSpec == Log!Spec
=============================================================================
