---------------------------- MODULE NonceProofs ----------------------------
(***************************************************************************)
(* Proofs about Nonce for every value of its constants: its types, that    *)
(* the nonces of a wallet have no gap and its order survives every fault   *)
(* but a misleading resynchronisation, that one approval at a time is in   *)
(* flight, and that the wallet implements WalletLog.                       *)
(***************************************************************************)
EXTENDS Nonce, TLAPS

\* The holder of txMu has signed with the cached nonce.
LockInv ==
  /\ txMu = None => reply = None
  /\ txMu # None => signed = nonce /\ nonce < MaxNonce /\ at[txMu] \in Sending
  /\ reply = "ok" => slot[nonce] # "free"

\* What a refresh has read stays below the node's first unused nonce.
ReadInv == \A r \in Readers : \A m \in Nonces :
             seen[r] # None => (m < seen[r] => slot[m] # "free")

GapInv == LockInv /\ ReadInv /\ NoGap

\* Everything broadcast or pre-signed lies below n.
Beyond(n) ==
  /\ \A m \in Nonces : slot[m] \in Kinds => m < n
  /\ presigned # None => presigned < n

OrderInv ==
  ~misled =>
    /\ reply = None => Beyond(nonce)
    /\ reply = "ok" => Beyond(nonce + 1)

WatchInv ==
  /\ watch # {} => submitted
  /\ \A m, n \in watch : m = n
  /\ txMu # None => (at[txMu] \in Approving => watch = {})

LEMMA NonceType == Nonces \subseteq Nat /\ \A n \in Nonces : n < MaxNonce /\ n + 1 \in 0..MaxNonce
BY ConstantsAssumption DEF Nonces

LEMMA ContinueType == \A stage \in Stages : Continue(stage) \in Stages
BY DEF Continue, Stages

LEMMA KindType == \A stage \in Sending : Kind(stage) \in Kinds
BY DEF Kind, Sending, Approving, Kinds

-----------------------------------------------------------------------------
LEMMA InitType == Init => TypeOK
<1> SUFFICES ASSUME Init PROVE TypeOK
  OBVIOUS
<1> USE ConstantsAssumption
<1>1. mined \in {0, 1} /\ slot \in [Nonces -> Kinds \cup {"free", "other"}]
  BY DEF Init, Kinds
<1>2. nonce \in 0..MaxNonce /\ presigned \in Nonces \cup {None}
  BY <1>1 DEF Init, Nonces
<1>3. mined \in 0..MaxNonce /\ signed \in Nonces
  BY <1>1 DEF Init, Nonces
<1>4. at \in [Senders -> Stages] /\ seen \in [Readers -> 0..MaxNonce \cup {None}]
  BY DEF Init, Stages
<1> QED
  BY <1>1, <1>2, <1>3, <1>4 DEF Init, TypeOK

LEMMA NextType == TypeOK /\ GapInv /\ [Next]_vars => TypeOK'
<1> SUFFICES ASSUME TypeOK, GapInv, [Next]_vars PROVE TypeOK'
  OBVIOUS
<1> USE ConstantsAssumption DEF walletVars, approvalVars, nodeVars
<1>1. CASE Mine
  BY <1>1 DEF Mine, TypeOK
<1>2. CASE Outside
  BY <1>2 DEF Outside, TypeOK
<1>3. CASE Resend
  BY <1>3 DEF Resend, TypeOK, Kinds
<1>4. ASSUME NEW r \in Readers, Read(r) PROVE TypeOK'
  BY <1>4 DEF Read, TypeOK
<1>5. ASSUME NEW r \in Readers, Store(r) PROVE TypeOK'
  <2>1. seen[r] \in 0..MaxNonce
    BY <1>5 DEF Store, TypeOK
  <2>2. nonce' \in 0..MaxNonce
    BY <1>5, <2>1 DEF Store, TypeOK, Advanced
  <2>3. seen' \in [Readers -> 0..MaxNonce \cup {None}]
    BY <1>5 DEF Store, TypeOK
  <2> QED
    BY <1>5, <2>2, <2>3 DEF Store, TypeOK
<1>6. ASSUME NEW t \in Senders, NEW stage \in Stages, Start(t, stage) PROVE TypeOK'
  BY <1>6 DEF Start, TypeOK
<1>7. ASSUME NEW t \in Senders, CheckApproval(t) PROVE TypeOK'
  <2>1. at' \in [Senders -> Stages]
    BY <1>7, ContinueType DEF CheckApproval, TypeOK, Stages
  <2>2. ready' \in BOOLEAN
    BY <1>7 DEF CheckApproval, TypeOK
  <2> QED
    BY <1>7, <2>1, <2>2 DEF CheckApproval, TypeOK
<1>8. ASSUME NEW t \in Senders, Sign(t) PROVE TypeOK'
  BY <1>8 DEF Sign, TypeOK, Nonces
<1>9. ASSUME NEW t \in Senders, SkipApproval(t) PROVE TypeOK'
  BY <1>9, ContinueType DEF SkipApproval, TypeOK
<1>10. ASSUME NEW t \in Senders, GiveUp(t) PROVE TypeOK'
  BY <1>10 DEF GiveUp, TypeOK, Stages
<1>11. ASSUME NEW t \in Senders, Deliver(t) PROVE TypeOK'
  <2>1. Kind(at[t]) \in Kinds
    BY <1>11, KindType DEF Deliver, GapInv, LockInv, TypeOK
  <2>2. slot' \in [Nonces -> Kinds \cup {"free", "other"}]
    BY <1>11, <2>1 DEF Deliver, TypeOK
  <2>3. reply' \in {None, "ok", "error"}
    BY <1>11 DEF Deliver
  <2> QED
    BY <1>11, <2>2, <2>3 DEF Deliver, TypeOK
<1>12. ASSUME NEW t \in Senders, Sent(t) PROVE TypeOK'
  <2>1. nonce' \in 0..MaxNonce
    BY <1>12 DEF Sent, GapInv, LockInv, TypeOK
  <2>2. at' \in [Senders -> Stages]
    BY <1>12, ContinueType DEF Sent, TypeOK
  <2>3. submitted' \in BOOLEAN /\ watch' \subseteq Nonces
    BY <1>12 DEF Sent, TypeOK
  <2>4. txMu' = None /\ signed' \in Nonces /\ reply' = None
    BY <1>12 DEF Sent, Unlock, Nonces
  <2> QED
    BY <1>12, <2>1, <2>2, <2>3, <2>4 DEF Sent, TypeOK
<1>13. ASSUME NEW t \in Senders, NEW n \in 0..MaxNonce, Fail(t, n) PROVE TypeOK'
  <2>1. at' \in [Senders -> Stages]
    BY <1>13 DEF Fail, TypeOK, Stages
  <2>2. misled' \in BOOLEAN
    BY <1>13 DEF Fail
  <2>3. txMu' = None /\ signed' \in Nonces /\ reply' = None
    BY <1>13 DEF Fail, Unlock, Nonces
  <2> QED
    BY <1>13, <2>1, <2>2, <2>3 DEF Fail, TypeOK
<1>14. ASSUME NEW n \in Nonces, ApprovalMined(n) PROVE TypeOK'
  BY <1>14 DEF ApprovalMined, TypeOK
<1>15. ASSUME NEW n \in Nonces, ApprovalTimeout(n) PROVE TypeOK'
  BY <1>15 DEF ApprovalTimeout, TypeOK
<1>16. CASE UNCHANGED vars
  BY <1>16 DEF vars, TypeOK
<1> QED
  BY <1>1, <1>2, <1>3, <1>4, <1>5, <1>6, <1>7, <1>8, <1>9, <1>10, <1>11, <1>12, <1>13,
     <1>14, <1>15, <1>16 DEF Next

-----------------------------------------------------------------------------
(* No gap *)

LEMMA GapInit == Init => GapInv
<1> SUFFICES ASSUME Init PROVE GapInv
  OBVIOUS
<1> USE ConstantsAssumption
<1>1. LockInv
  BY DEF Init, LockInv
<1>2. ReadInv
  BY DEF Init, ReadInv
<1>3. NoGap
  BY DEF Init, NoGap, Nonces
<1> QED
  BY <1>1, <1>2, <1>3 DEF GapInv

\* No step empties a slot, so what was known to be taken stays taken.
LEMMA SlotsKept ==
  ASSUME TypeOK, GapInv, [Next]_vars
  PROVE  \A m \in Nonces : slot[m] # "free" => slot'[m] # "free"
<1> SUFFICES ASSUME NEW m \in Nonces, slot[m] # "free" PROVE slot'[m] # "free"
  OBVIOUS
<1>1. CASE Outside
  BY <1>1 DEF Outside, TypeOK
<1>2. CASE Resend
  BY <1>2 DEF Resend, TypeOK
<1>3. ASSUME NEW t \in Senders, Deliver(t) PROVE slot'[m] # "free"
  <2>1. Kind(at[t]) # "free"
    BY <1>3, KindType, ConstantsAssumption DEF Deliver, GapInv, LockInv, Kinds
  <2> QED
    BY <1>3, <2>1 DEF Deliver, TypeOK
<1>4. CASE UNCHANGED slot
  BY <1>4
<1> QED
  BY <1>1, <1>2, <1>3, <1>4 DEF Next, vars, nodeVars, Mine, Read, Store, Start, CheckApproval,
     Sign, SkipApproval, GiveUp, Sent, Fail, ApprovalMined, ApprovalTimeout

LEMMA GapNext == TypeOK /\ GapInv /\ [Next]_vars => GapInv'
<1> SUFFICES ASSUME TypeOK, GapInv, [Next]_vars PROVE GapInv'
  OBVIOUS
<1> USE ConstantsAssumption DEF walletVars, approvalVars, nodeVars
<1> DEFINE Kept == \A m \in Nonces : slot[m] # "free" => slot'[m] # "free"
<1>0. Kept
  BY SlotsKept
<1>a. TypeOK'
  BY NextType
<1>l. nonce < MaxNonce => nonce \in Nonces
  BY DEF TypeOK, Nonces
<1>r. ASSUME seen' = seen PROVE ReadInv'
  BY <1>r, <1>0 DEF GapInv, ReadInv
<1>n. ASSUME nonce' = nonce, presigned' = presigned PROVE NoGap'
  BY <1>n, <1>0 DEF GapInv, NoGap
<1>k. ASSUME UNCHANGED <<walletVars, slot>>, txMu # None => at'[txMu] = at[txMu] PROVE LockInv'
  BY <1>k, <1>l DEF GapInv, LockInv
<1> HIDE DEF Kept
<1>1. CASE Mine
  BY <1>1, <1>r, <1>n, <1>k DEF Mine, GapInv
<1>2. CASE Outside
  <2>1. LockInv'
    BY <1>2, <1>0, <1>l DEF Outside, GapInv, LockInv, Kept
  <2> QED
    BY <1>2, <2>1, <1>r, <1>n DEF Outside, GapInv
<1>3. CASE Resend
  <2>1. LockInv'
    BY <1>3, <1>0, <1>l DEF Resend, GapInv, LockInv, Kept
  <2> QED
    BY <1>3, <2>1, <1>r, <1>n DEF Resend, GapInv
<1>4. ASSUME NEW r \in Readers, Read(r) PROVE GapInv'
  <2>1. PICK n \in 0..MaxNonce : PendingNonce(n) /\ seen' = [seen EXCEPT ![r] = n]
    BY <1>4 DEF Read
  <2>2. ReadInv'
    BY <1>4, <2>1 DEF Read, GapInv, ReadInv, PendingNonce, Contiguous, TypeOK
  <2> QED
    BY <1>4, <2>2, <1>n, <1>k DEF Read, GapInv
<1>5. ASSUME NEW r \in Readers, Store(r) PROVE GapInv'
  <2>1. seen[r] \in 0..MaxNonce
    BY <1>5 DEF Store, TypeOK
  <2>2. \A m \in Nonces : m < seen[r] => slot[m] # "free"
    BY <1>5, <2>1 DEF Store, GapInv, ReadInv
  <2>3. NoGap'
    BY <1>5, <2>2 DEF Store, Advanced, GapInv, NoGap
  <2>4. ReadInv'
    BY <1>5 DEF Store, GapInv, ReadInv, TypeOK
  <2>5. LockInv'
    BY <1>5 DEF Store, GapInv, LockInv
  <2> QED
    BY <2>3, <2>4, <2>5 DEF GapInv
<1>6. ASSUME NEW t \in Senders, NEW stage \in Stages, Start(t, stage) PROVE GapInv'
  <2>1. txMu # t
    BY <1>6 DEF Start, GapInv, LockInv, Sending, Approving
  <2>2. txMu # None => at'[txMu] = at[txMu]
    BY <1>6, <2>1 DEF Start, TypeOK
  <2> QED
    BY <1>6, <2>2, <1>r, <1>n, <1>k DEF Start, GapInv
<1>7. ASSUME NEW t \in Senders, CheckApproval(t) PROVE GapInv'
  <2>1. txMu # t
    BY <1>7 DEF CheckApproval, GapInv, LockInv, Sending, Approving
  <2>2. txMu # None => at'[txMu] = at[txMu]
    BY <1>7, <2>1 DEF CheckApproval, TypeOK
  <2> QED
    BY <1>7, <2>2, <1>r, <1>n, <1>k DEF CheckApproval, GapInv
<1>8. ASSUME NEW t \in Senders, Sign(t) PROVE GapInv'
  <2>1. LockInv'
    BY <1>8 DEF Sign, GapInv, LockInv
  <2> QED
    BY <1>8, <2>1, <1>r, <1>n DEF Sign, GapInv
<1>9. ASSUME NEW t \in Senders, SkipApproval(t) PROVE GapInv'
  <2>2. txMu # None => at'[txMu] = at[txMu]
    BY <1>9 DEF SkipApproval
  <2> QED
    BY <1>9, <2>2, <1>r, <1>n, <1>k DEF SkipApproval, GapInv
<1>10. ASSUME NEW t \in Senders, GiveUp(t) PROVE GapInv'
  <2>2. txMu # None => at'[txMu] = at[txMu]
    BY <1>10 DEF GiveUp, TypeOK
  <2> QED
    BY <1>10, <2>2, <1>r, <1>n, <1>k DEF GiveUp, GapInv
<1>11. ASSUME NEW t \in Senders, Deliver(t) PROVE GapInv'
  <2>1. Kind(at[t]) # "free" /\ signed = nonce /\ nonce \in Nonces
    BY <1>11, <1>l, KindType DEF Deliver, GapInv, LockInv, Kinds
  <2>2. reply' = "ok" => slot'[nonce] # "free"
    BY <1>11, <2>1 DEF Deliver, TypeOK
  <2>3. LockInv'
    BY <1>11, <2>2 DEF Deliver, GapInv, LockInv
  <2> QED
    BY <1>11, <2>3, <1>r, <1>n DEF Deliver, GapInv
<1>12. ASSUME NEW t \in Senders, Sent(t) PROVE GapInv'
  <2>1. nonce \in Nonces /\ slot[nonce] # "free"
    BY <1>12, <1>l DEF Sent, GapInv, LockInv
  <2>2. NoGap'
    BY <1>12, <2>1 DEF Sent, GapInv, NoGap, TypeOK, Nonces
  <2>3. LockInv'
    BY <1>12 DEF Sent, Unlock, LockInv
  <2> QED
    BY <1>12, <2>2, <2>3, <1>r DEF Sent, GapInv
<1>13. ASSUME NEW t \in Senders, NEW n \in 0..MaxNonce, Fail(t, n) PROVE GapInv'
  <2>1. NoGap'
    BY <1>13 DEF Fail, Resynced, PendingNonce, Contiguous, GapInv, NoGap
  <2>2. LockInv'
    BY <1>13 DEF Fail, Unlock, LockInv
  <2> QED
    BY <1>13, <2>1, <2>2, <1>r DEF Fail, GapInv
<1>14. ASSUME NEW n \in Nonces, ApprovalMined(n) PROVE GapInv'
  BY <1>14, <1>r, <1>n, <1>k DEF ApprovalMined, GapInv
<1>15. ASSUME NEW n \in Nonces, ApprovalTimeout(n) PROVE GapInv'
  BY <1>15, <1>r, <1>n, <1>k DEF ApprovalTimeout, GapInv
<1>16. CASE UNCHANGED vars
  BY <1>16, <1>r, <1>n, <1>k DEF vars, GapInv
<1> QED
  BY <1>1, <1>2, <1>3, <1>4, <1>5, <1>6, <1>7, <1>8, <1>9, <1>10, <1>11, <1>12, <1>13,
     <1>14, <1>15, <1>16 DEF Next

\* Types.
THEOREM TypeCorrect == Spec => []TypeOK
<1>1. Init => TypeOK /\ GapInv
  BY InitType, GapInit
<1>2. TypeOK /\ GapInv /\ [Next]_vars => (TypeOK /\ GapInv)'
  BY NextType, GapNext
<1> QED
  BY <1>1, <1>2, PTL DEF Spec

\* No transaction of the wallet waits behind a nonce that nobody will use,
\* whatever fails.
THEOREM NonceHasNoGap == Spec => []NoGap
<1>1. Init => TypeOK /\ GapInv
  BY InitType, GapInit
<1>2. TypeOK /\ GapInv /\ [Next]_vars => (TypeOK /\ GapInv)'
  BY NextType, GapNext
<1>3. GapInv => NoGap
  BY DEF GapInv
<1> QED
  BY <1>1, <1>2, <1>3, PTL DEF Spec

-----------------------------------------------------------------------------
(* Order *)

LEMMA OrderInit == Init => OrderInv
<1> SUFFICES ASSUME Init PROVE OrderInv
  OBVIOUS
<1> USE ConstantsAssumption
<1>1. \A m \in Nonces : slot[m] \in Kinds => m < mined
  BY DEF Init, Nonces, Kinds
<1>2. Beyond(nonce)
  BY <1>1, SMTT(30) DEF Init, Beyond, Nonces
<1> QED
  BY <1>2 DEF Init, OrderInv

LEMMA OrderNext == TypeOK /\ GapInv /\ OrderInv /\ [Next]_vars => OrderInv'
<1> SUFFICES ASSUME TypeOK, GapInv, OrderInv, [Next]_vars, ~misled' PROVE OrderInv'
  BY DEF OrderInv
<1> USE ConstantsAssumption DEF walletVars, approvalVars, nodeVars
<1>q. misled' = FALSE
  BY NextType DEF TypeOK
<1>u. ASSUME UNCHANGED <<nonce, reply, slot, presigned, misled>> PROVE OrderInv'
  BY <1>u DEF OrderInv, Beyond
<1>s. ASSUME UNCHANGED <<nonce, reply, presigned, misled>>,
             \A m \in Nonces : slot'[m] \in Kinds => slot[m] \in Kinds \/ m = presigned
      PROVE  OrderInv'
  <2>1. ASSUME NEW n \in Nat, Beyond(n) PROVE Beyond(n)'
    BY <1>s, <2>1 DEF Beyond, Nonces
  <2>2. nonce \in Nat /\ nonce + 1 \in Nat
    BY DEF TypeOK
  <2> QED
    BY <1>s, <2>1, <2>2 DEF OrderInv, Beyond
<1>2. CASE Outside
  <2>1. \A m \in Nonces : slot'[m] \in Kinds => slot[m] \in Kinds
    BY <1>2 DEF Outside, TypeOK, Kinds
  <2> QED
    BY <1>2, <2>1, <1>s DEF Outside
<1>3. CASE Resend
  <2>1. \A m \in Nonces : slot'[m] \in Kinds => slot[m] \in Kinds \/ m = presigned
    BY <1>3 DEF Resend, TypeOK, Kinds
  <2> QED
    BY <1>3, <2>1, <1>s DEF Resend
<1>5. ASSUME NEW r \in Readers, Store(r) PROVE OrderInv'
  <2>1. nonce' \in Nat /\ nonce \in Nat /\ nonce <= nonce'
    BY <1>5 DEF Store, Advanced, TypeOK
  <2>2. reply = None /\ reply' = None /\ ~misled
    BY <1>5, <1>q DEF Store, GapInv, LockInv
  <2>3. Beyond(nonce)
    BY <2>2 DEF OrderInv
  <2>4. \A m \in Nonces : m < nonce => m < nonce'
    BY <2>1 DEF Nonces
  <2>5. presigned # None => presigned \in Nonces
    BY DEF TypeOK
  <2>6. Beyond(nonce)'
    BY <1>5, <2>3, <2>4, <2>5 DEF Store, Beyond
  <2> QED
    BY <2>2, <2>6 DEF OrderInv
<1>11. ASSUME NEW t \in Senders, Deliver(t) PROVE OrderInv'
  <2>1. signed = nonce /\ nonce \in Nonces /\ ~misled /\ Beyond(nonce)
    BY <1>11, <1>q DEF Deliver, GapInv, LockInv, OrderInv, TypeOK, Nonces
  <2>2. CASE slot' = slot
    BY <1>11, <2>1, <2>2 DEF Deliver, OrderInv, Beyond, TypeOK, Nonces
  <2>3. CASE slot' = [slot EXCEPT ![signed] = Kind(at[t])]
    <3>1. \A m \in Nonces : slot'[m] \in Kinds => m < nonce \/ m = nonce
      BY <2>1, <2>3 DEF TypeOK, Beyond
    <3>2. \A m \in Nonces : m < nonce \/ m = nonce => m < nonce + 1
      BY <2>1 DEF Nonces
    <3>3. presigned # None => presigned < nonce + 1
      BY <2>1, <3>2 DEF Beyond, TypeOK
    <3>4. Beyond(nonce + 1)'
      BY <1>11, <3>1, <3>2, <3>3 DEF Deliver, Beyond
    <3>5. reply' # None
      BY <1>11, <2>3 DEF Deliver
    <3> QED
      BY <3>4, <3>5 DEF OrderInv
  <2> QED
    BY <1>11, <2>2, <2>3 DEF Deliver
<1>12. ASSUME NEW t \in Senders, Sent(t) PROVE OrderInv'
  <2>1. ~misled /\ Beyond(nonce + 1)
    BY <1>12, <1>q DEF Sent, OrderInv
  <2>2. Beyond(nonce)'
    BY <1>12, <2>1 DEF Sent, Beyond
  <2> QED
    BY <1>12, <2>2 DEF Sent, Unlock, OrderInv
<1>13. ASSUME NEW t \in Senders, NEW n \in 0..MaxNonce, Fail(t, n) PROVE OrderInv'
  <2>1. Sound(n)
    BY <1>13 DEF Fail
  <2>2. Beyond(n)
    BY <2>1 DEF Sound, Beyond, Kinds
  <2>3. Beyond(nonce)'
    BY <1>13, <2>2 DEF Fail, Beyond
  <2> QED
    BY <1>13, <2>3 DEF Fail, Unlock, OrderInv
<1> QED
  BY <1>u, <1>2, <1>3, <1>5, <1>11, <1>12, <1>13 DEF Next, vars, Mine, Read, Start,
     CheckApproval, Sign, SkipApproval, GiveUp, ApprovalMined, ApprovalTimeout

\* The wallet's transactions are queued strictly behind one another unless a failed
\* send was resynchronised to a nonce already taken.
THEOREM OrderIsKept == Spec => []OrderKept
<1>1. Init => TypeOK /\ GapInv /\ OrderInv
  BY InitType, GapInit, OrderInit
<1>2. TypeOK /\ GapInv /\ OrderInv /\ [Next]_vars => (TypeOK /\ GapInv /\ OrderInv)'
  BY NextType, GapNext, OrderNext
<1>3. GapInv /\ OrderInv => OrderKept
  BY DEF GapInv, LockInv, OrderInv, OrderKept, StrictlyBehind, Beyond
<1> QED
  BY <1>1, <1>2, <1>3, PTL DEF Spec

-----------------------------------------------------------------------------
(* Approvals *)

LEMMA WatchNext == TypeOK /\ GapInv /\ WatchInv /\ [Next]_vars => WatchInv'
<1> SUFFICES ASSUME TypeOK, GapInv, WatchInv, [Next]_vars PROVE WatchInv'
  OBVIOUS
<1> USE ConstantsAssumption DEF walletVars, approvalVars, nodeVars
<1>u. ASSUME UNCHANGED <<txMu, submitted, watch>>, txMu # None => at'[txMu] = at[txMu]
      PROVE  WatchInv'
  BY <1>u DEF WatchInv
<1>6. ASSUME NEW t \in Senders, NEW stage \in Stages, Start(t, stage) PROVE WatchInv'
  BY <1>6, <1>u DEF Start, GapInv, LockInv, TypeOK, Sending, Approving
<1>7. ASSUME NEW t \in Senders, CheckApproval(t) PROVE WatchInv'
  BY <1>7, <1>u DEF CheckApproval, GapInv, LockInv, TypeOK, Sending, Approving
<1>8. ASSUME NEW t \in Senders, Sign(t) PROVE WatchInv'
  BY <1>8 DEF Sign, NeedsApproval, WatchInv
<1>10. ASSUME NEW t \in Senders, GiveUp(t) PROVE WatchInv'
  BY <1>10, <1>u DEF GiveUp, TypeOK
<1>12. ASSUME NEW t \in Senders, Sent(t) PROVE WatchInv'
  <2>1. CASE at[t] \in Approving
    <3>1. watch = {}
      BY <1>12, <2>1 DEF Sent, WatchInv
    <3>2. submitted' /\ watch' = {signed}
      BY <1>12, <2>1, <3>1 DEF Sent
    <3> QED
      BY <1>12, <3>2 DEF Sent, Unlock, WatchInv
  <2>2. CASE at[t] \notin Approving
    BY <1>12, <2>2 DEF Sent, Unlock, WatchInv
  <2> QED
    BY <2>1, <2>2
<1>13. ASSUME NEW t \in Senders, NEW n \in 0..MaxNonce, Fail(t, n) PROVE WatchInv'
  BY <1>13 DEF Fail, Unlock, WatchInv
<1>14. ASSUME NEW n \in Nonces, ApprovalMined(n) PROVE WatchInv'
  BY <1>14 DEF ApprovalMined, WatchInv
<1>15. ASSUME NEW n \in Nonces, ApprovalTimeout(n) PROVE WatchInv'
  <2>1. watch' = {}
    BY <1>15 DEF ApprovalTimeout, WatchInv
  <2> QED
    BY <1>15, <2>1 DEF ApprovalTimeout, WatchInv
<1> QED
  BY <1>u, <1>6, <1>7, <1>8, <1>10, <1>12, <1>13, <1>14, <1>15 DEF Next, vars, Mine, Outside,
     Resend, Read, Store, SkipApproval, Deliver

\* At most one approval is awaited, and none is signed meanwhile.
THEOREM OneApprovalAtATime == Spec => []OneApproval
<1>1. Init => TypeOK /\ GapInv /\ WatchInv
  <2>1. Init => WatchInv
    BY DEF Init, WatchInv
  <2> QED
    BY <2>1, InitType, GapInit
<1>2. TypeOK /\ GapInv /\ WatchInv /\ [Next]_vars => (TypeOK /\ GapInv /\ WatchInv)'
  BY NextType, GapNext, WatchNext
<1>3. WatchInv => OneApproval
  BY DEF WatchInv, OneApproval
<1> QED
  BY <1>1, <1>2, <1>3, PTL DEF Spec

-----------------------------------------------------------------------------
(* Refinement *)

ApproveSent == \E m \in Nonces : slot[m] = "approve"

\* While the order is kept: the pre-signed buy's nonce is its own, and whoever may
\* sell has an approval before it.
GrantInv ==
  ~misled =>
    /\ presigned # None => slot[presigned] \in {"free", "other", "buy"}
    /\ submitted \/ ready => ApproveSent
    /\ \A t \in Senders : at[t] = "sell" => ApproveSent
    /\ reply = "ok" => slot[nonce] = Kind(at[txMu])

LEMMA ContinueSell == \A stage \in Stages : Continue(stage) = "sell" => stage \in {"sellCheck", "sellApprove"}
BY DEF Continue, Stages

LEMMA KindApprove == \A stage \in Approving : Kind(stage) = "approve"
BY DEF Kind

LEMMA GrantInit == Init => GrantInv
<1> SUFFICES ASSUME Init PROVE GrantInv
  OBVIOUS
<1> USE ConstantsAssumption
<1>1. presigned # None => slot[presigned] = "free"
  <2>1. PICK past \in {"free", "other", "approve"} :
          /\ slot = [n \in Nonces |-> IF n = 0 THEN past ELSE "free"]
          /\ mined = IF past = "free" THEN 0 ELSE 1
    BY DEF Init
  <2>2. presigned # None => presigned = mined /\ mined < MaxNonce
    BY DEF Init
  <2>3. mined < MaxNonce => mined \in Nonces
    BY <2>1 DEF Nonces
  <2> QED
    BY <2>1, <2>2, <2>3
<1>2. \A t \in Senders : at[t] # "sell"
  BY DEF Init
<1> QED
  BY <1>1, <1>2 DEF Init, GrantInv

\* While the order is kept, a transaction the node takes is added to the wallet's:
\* its slot held none of them.
LEMMA DeliverAdds ==
  ASSUME TypeOK, GapInv, OrderInv, ~misled, NEW t \in Senders, Deliver(t)
  PROVE  /\ signed = nonce /\ nonce \in Nonces /\ Beyond(nonce)
         /\ slot[nonce] \notin Kinds /\ nonce # presigned
         /\ Kind(at[t]) \in Kinds
         /\ \/ slot' = slot /\ reply' = "error"
            \/ slot' = [slot EXCEPT ![nonce] = Kind(at[t])]
<1> USE ConstantsAssumption
<1>1. signed = nonce /\ nonce \in Nonces /\ Beyond(nonce) /\ at[t] \in Sending
  BY DEF Deliver, GapInv, LockInv, OrderInv, TypeOK, Nonces
<1>2. slot[nonce] \notin Kinds /\ nonce # presigned
  BY <1>1 DEF Beyond, Nonces, TypeOK
<1>3. Kind(at[t]) \in Kinds
  BY <1>1, KindType
<1> QED
  BY <1>1, <1>2, <1>3 DEF Deliver

LEMMA GrantNext == TypeOK /\ GapInv /\ OrderInv /\ GrantInv /\ [Next]_vars => GrantInv'
<1> SUFFICES ASSUME TypeOK, GapInv, OrderInv, GrantInv, [Next]_vars, ~misled' PROVE GrantInv'
  BY DEF GrantInv
<1> USE ConstantsAssumption DEF walletVars, approvalVars, nodeVars
<1>q. ~misled
  BY DEF Next, vars, Mine, Outside, Resend, Read, Store, Start, CheckApproval, Sign,
     SkipApproval, GiveUp, Deliver, Sent, Fail, ApprovalMined, ApprovalTimeout
<1>g. /\ presigned # None => slot[presigned] \in {"free", "other", "buy"}
      /\ submitted \/ ready => ApproveSent
      /\ \A t \in Senders : at[t] = "sell" => ApproveSent
      /\ reply = "ok" => slot[nonce] = Kind(at[txMu])
  BY <1>q DEF GrantInv
<1>u. ASSUME UNCHANGED <<nonce, txMu, reply, at, submitted, ready, slot, presigned>>
      PROVE  GrantInv'
  BY <1>g, <1>u DEF GrantInv, ApproveSent
<1>k. ASSUME UNCHANGED <<nonce, reply, txMu, slot, presigned>>, txMu # None => at'[txMu] = at[txMu],
             submitted' \/ ready' => ApproveSent,
             \A t \in Senders : at'[t] = "sell" => ApproveSent
      PROVE  GrantInv'
  BY <1>g, <1>k DEF GrantInv, ApproveSent, GapInv, LockInv
<1>2. CASE Outside
  <2>1. \A m \in Nonces : slot[m] # "free" => slot'[m] = slot[m]
    BY <1>2 DEF Outside, TypeOK
  <2>2. \A m \in Nonces : slot'[m] \in {slot[m], "other"}
    BY <1>2 DEF Outside, TypeOK
  <2>3. ApproveSent => ApproveSent'
    BY <2>1 DEF ApproveSent
  <2>4. presigned # None => slot'[presigned] \in {"free", "other", "buy"}
    BY <2>2, <1>g DEF TypeOK
  <2>5. reply = "ok" => slot'[nonce] = slot[nonce]
    BY <2>1 DEF GapInv, LockInv, TypeOK, Nonces
  <2> QED
    BY <1>2, <1>g, <2>3, <2>4, <2>5 DEF Outside, GrantInv
<1>3. CASE Resend
  <2>1. slot[presigned] # "approve" /\ slot' = [slot EXCEPT ![presigned] = "buy"]
        /\ presigned \in Nonces
    BY <1>3, <1>g DEF Resend, TypeOK
  <2>2. ApproveSent => ApproveSent'
    BY <2>1 DEF ApproveSent, TypeOK
  <2>3. slot'[presigned] = "buy"
    BY <2>1 DEF TypeOK
  <2>4. reply = "ok" => slot'[nonce] = slot[nonce]
    <3> SUFFICES ASSUME reply = "ok" PROVE slot'[nonce] = slot[nonce]
      OBVIOUS
    <3>1. nonce \in Nonces /\ slot[nonce] = Kind(at[txMu]) /\ at[txMu] \in Sending
      BY <1>g DEF GapInv, LockInv, TypeOK, Nonces
    <3>2. CASE nonce = presigned
      BY <3>1, <3>2, <2>1, <2>3, <1>g, KindType, <1>3 DEF Resend, Kinds
    <3>3. CASE nonce # presigned
      BY <3>1, <3>3, <2>1 DEF TypeOK
    <3> QED
      BY <3>2, <3>3
  <2> QED
    BY <1>3, <1>g, <2>2, <2>3, <2>4 DEF Resend, GrantInv
<1>5. ASSUME NEW r \in Readers, Store(r) PROVE GrantInv'
  BY <1>5, <1>g DEF Store, GrantInv, ApproveSent, GapInv, LockInv
<1>6. ASSUME NEW t \in Senders, NEW stage \in Stages, Start(t, stage) PROVE GrantInv'
  <2>1. txMu # None => at'[txMu] = at[txMu]
    BY <1>6 DEF Start, GapInv, LockInv, TypeOK, Sending, Approving
  <2>2. \A u \in Senders : at'[u] = "sell" => ApproveSent
    BY <1>6, <1>g DEF Start, TypeOK
  <2> QED
    BY <1>6, <1>g, <2>1, <2>2, <1>k DEF Start
<1>7. ASSUME NEW t \in Senders, CheckApproval(t) PROVE GrantInv'
  <2>1. txMu # None => at'[txMu] = at[txMu]
    BY <1>7 DEF CheckApproval, GapInv, LockInv, TypeOK, Sending, Approving
  <2>2. Allowed => ApproveSent
    BY DEF Allowed, ApproveSent
  <2>3. submitted' \/ ready' => ApproveSent
    BY <1>7, <1>g, <2>2 DEF CheckApproval
  <2>4. ASSUME NEW u \in Senders, at'[u] = "sell" PROVE ApproveSent
    BY <1>7, <1>g, <2>2, <2>4 DEF CheckApproval, TypeOK
  <2> QED
    BY <1>7, <2>1, <2>3, <2>4, <1>k DEF CheckApproval
<1>8. ASSUME NEW t \in Senders, Sign(t) PROVE GrantInv'
  BY <1>8, <1>g DEF Sign, GrantInv, ApproveSent, GapInv, LockInv
<1>9. ASSUME NEW t \in Senders, SkipApproval(t) PROVE GrantInv'
  <2>1. \A u \in Senders : at'[u] = "sell" => ApproveSent
    BY <1>9, <1>g DEF SkipApproval, TypeOK
  <2> QED
    BY <1>9, <1>g, <2>1, <1>k DEF SkipApproval
<1>10. ASSUME NEW t \in Senders, GiveUp(t) PROVE GrantInv'
  <2>1. txMu # None => at'[txMu] = at[txMu]
    BY <1>10 DEF GiveUp, TypeOK
  <2>2. \A u \in Senders : at'[u] = "sell" => ApproveSent
    BY <1>10, <1>g DEF GiveUp, TypeOK
  <2> QED
    BY <1>10, <1>g, <2>1, <2>2, <1>k DEF GiveUp
<1>11. ASSUME NEW t \in Senders, Deliver(t) PROVE GrantInv'
  <2>1. CASE slot' = slot /\ reply' = "error"
    BY <1>11, <2>1, <1>g DEF Deliver, GrantInv, ApproveSent
  <2>2. CASE slot' = [slot EXCEPT ![nonce] = Kind(at[t])]
    <3>1. nonce \in Nonces /\ slot[nonce] # "approve" /\ nonce # presigned
      BY <1>11, <1>q, DeliverAdds DEF Kinds
    <3>2. ApproveSent => ApproveSent'
      BY <2>2, <3>1 DEF ApproveSent, TypeOK
    <3>3. presigned # None => slot'[presigned] = slot[presigned]
      BY <2>2, <3>1 DEF TypeOK
    <3>4. slot'[nonce] = Kind(at[t])
      BY <2>2, <3>1 DEF TypeOK
    <3> QED
      BY <1>11, <1>g, <3>2, <3>3, <3>4 DEF Deliver, GrantInv
  <2> QED
    BY <1>11, <1>q, <2>1, <2>2, DeliverAdds
<1>12. ASSUME NEW t \in Senders, Sent(t) PROVE GrantInv'
  <2>1. at[t] \in Approving => ApproveSent
    BY <1>12, <1>g, KindApprove DEF Sent, ApproveSent, GapInv, LockInv, TypeOK, Nonces
  <2>2. Continue(at[t]) = "sell" => ApproveSent
    BY <1>12, <2>1, ContinueSell DEF Sent, Approving, GapInv, LockInv, Sending, TypeOK
  <2>3. \A u \in Senders : at'[u] = "sell" => ApproveSent
    BY <1>12, <1>g, <2>2 DEF Sent, TypeOK
  <2>4. submitted' \/ ready' => ApproveSent
    BY <1>12, <1>g, <2>1 DEF Sent
  <2>5. ApproveSent' = ApproveSent
    BY <1>12 DEF Sent, ApproveSent
  <2> QED
    BY <1>12, <1>g, <2>3, <2>4, <2>5 DEF Sent, Unlock, GrantInv
<1>13. ASSUME NEW t \in Senders, NEW n \in 0..MaxNonce, Fail(t, n) PROVE GrantInv'
  <2>1. \A u \in Senders : at'[u] = "sell" => ApproveSent
    BY <1>13, <1>g DEF Fail, TypeOK
  <2>2. ApproveSent' = ApproveSent
    BY <1>13 DEF Fail, ApproveSent
  <2> QED
    BY <1>13, <1>g, <2>1, <2>2 DEF Fail, Unlock, GrantInv
<1>14. ASSUME NEW n \in Nonces, ApprovalMined(n) PROVE GrantInv'
  <2>1. ApproveSent
    BY <1>14 DEF ApprovalMined, ApproveSent
  <2> QED
    BY <1>14, <1>g, <2>1, <1>k DEF ApprovalMined
<1>15. ASSUME NEW n \in Nonces, ApprovalTimeout(n) PROVE GrantInv'
  BY <1>15, <1>g, <1>k DEF ApprovalTimeout
<1> QED
  BY <1>u, <1>2, <1>3, <1>5, <1>6, <1>7, <1>8, <1>9, <1>10, <1>11, <1>12, <1>13, <1>14, <1>15
     DEF Next, vars, Mine, Read

LEMMA LogInit == Init => Log!Init
<1> SUFFICES ASSUME Init PROVE Log!Init
  OBVIOUS
<1>1. \A m \in Sells : SentKinds[m] \in Kinds
  BY DEF Sells, SentKinds, Kinds
<1>2. Sells \subseteq Nonces /\ DOMAIN SentKinds = Sells
  BY DEF Sells, SentKinds
<1>3. SentKinds \in [Sells -> Kinds]
  BY <1>1 DEF SentKinds
<1> QED
  BY <1>2, <1>3 DEF Init, Log!Init

\* A step that leaves every transaction of the wallet as it was stutters.
LEMMA LogStutter ==
  ASSUME \A m \in Nonces :
           m # presigned /\ (slot'[m] \in Kinds \/ slot[m] \in Kinds) => slot'[m] = slot[m],
         presigned' = presigned
  PROVE  SentKinds' = SentKinds
<1>1. Sells' = Sells
  BY DEF Sells
<1>2. \A m \in Sells : (IF m = presigned' THEN "buy" ELSE slot'[m]) = (IF m = presigned THEN "buy" ELSE slot[m])
  BY DEF Sells
<1> QED
  BY <1>1, <1>2 DEF SentKinds

LEMMA LogNext ==
  TypeOK /\ GapInv /\ OrderInv /\ GrantInv /\ [Next]_vars => [Log!Next]_(Log!vars)
<1> SUFFICES ASSUME TypeOK, GapInv, OrderInv, GrantInv, [Next]_vars, ~misled'
             PROVE  [Log!Next]_(Log!vars)
  BY DEF Log!Next
<1> USE ConstantsAssumption DEF walletVars, approvalVars, nodeVars
<1>q. ~misled
  BY DEF Next, vars, Mine, Outside, Resend, Read, Store, Start, CheckApproval, Sign,
     SkipApproval, GiveUp, Deliver, Sent, Fail, ApprovalMined, ApprovalTimeout
<1>m. misled' = misled
  BY <1>q, NextType DEF TypeOK
<1>p. presigned' = presigned
  BY DEF Next, vars, Mine, Outside, Resend, Read, Store, Start, CheckApproval, Sign,
     SkipApproval, GiveUp, Deliver, Sent, Fail, ApprovalMined, ApprovalTimeout
<1>s. ASSUME SentKinds' = SentKinds PROVE [Log!Next]_(Log!vars)
  BY <1>s, <1>m DEF Log!vars
<1>1. CASE Outside
  <2>1. \A m \in Nonces : (slot'[m] \in Kinds \/ slot[m] \in Kinds) => slot'[m] = slot[m]
    BY <1>1 DEF Outside, TypeOK, Kinds
  <2> QED
    BY <2>1, <1>p, <1>s, LogStutter
<1>2. CASE Resend
  <2>1. \A m \in Nonces : m # presigned => slot'[m] = slot[m]
    BY <1>2 DEF Resend, TypeOK
  <2> QED
    BY <2>1, <1>p, <1>s, LogStutter
<1>3. ASSUME NEW t \in Senders, Deliver(t) PROVE [Log!Next]_(Log!vars)
  <2>0. nonce \in Nonces /\ Beyond(nonce) /\ slot[nonce] \notin Kinds /\ nonce # presigned
        /\ Kind(at[t]) \in Kinds
    BY <1>3, <1>q, DeliverAdds
  <2>1. CASE slot' = slot
    BY <2>1, <1>p, <1>s, LogStutter
  <2>2. CASE slot' = [slot EXCEPT ![nonce] = Kind(at[t])]
    <3>1. Sells' = Sells \cup {nonce} /\ nonce \notin Sells
      BY <2>0, <2>2, <1>p DEF Sells, TypeOK
    <3>2. \A m \in Sells : m < nonce
      BY <2>0 DEF Sells, Beyond, TypeOK
    <3>3. ASSUME Kind(at[t]) = "sell" PROVE \E m \in Sells : SentKinds[m] = "approve"
      <4>1. at[t] = "sell"
        BY <3>3 DEF Kind
      <4>2. PICK m \in Nonces : slot[m] = "approve"
        BY <4>1, <1>q DEF GrantInv, ApproveSent
      <4>3. m # presigned
        BY <4>2, <1>q DEF GrantInv, Nonces
      <4>4. m \in Sells /\ SentKinds[m] = "approve"
        BY <4>2, <4>3 DEF Sells, SentKinds, Kinds
      <4> QED
        BY <4>4
    <3>4. DOMAIN SentKinds = Sells
      BY DEF SentKinds
    <3>5. SentKinds' = [m \in Sells \cup {nonce} |-> IF m = nonce THEN Kind(at[t]) ELSE SentKinds[m]]
      <4>1. SentKinds' = [m \in Sells \cup {nonce} |-> IF m = presigned THEN "buy" ELSE slot'[m]]
        BY <3>1, <1>p DEF SentKinds
      <4>2. ASSUME NEW m \in Sells \cup {nonce}
            PROVE  (IF m = presigned THEN "buy" ELSE slot'[m])
                     = IF m = nonce THEN Kind(at[t]) ELSE SentKinds[m]
        BY <2>0, <2>2, <3>1 DEF TypeOK, Sells, SentKinds
      <4> QED
        BY <4>1, <4>2
    <3>6. Log!Append(nonce, Kind(at[t]))
      BY <2>0, <3>1, <3>2, <3>3, <3>4, <3>5, <1>m DEF Log!Append
    <3> QED
      BY <2>0, <3>6, <1>q DEF Log!Next
  <2> QED
    BY <1>3, <1>q, <2>1, <2>2, DeliverAdds
<1>4. CASE UNCHANGED slot
  BY <1>4, <1>p, <1>s, LogStutter
<1> QED
  BY <1>1, <1>2, <1>3, <1>4 DEF Next, vars, Mine, Read, Store, Start, CheckApproval, Sign,
     SkipApproval, GiveUp, Sent, Fail, ApprovalMined, ApprovalTimeout

\* The wallet implements WalletLog: its transactions are an append-only log in nonce
\* order with every sell behind an approval.
THEOREM ImplementsLog == Spec => LogSpec
<1>1. Init => TypeOK /\ GapInv /\ OrderInv /\ GrantInv /\ Log!Init
  BY InitType, GapInit, OrderInit, GrantInit, LogInit
<1>2. TypeOK /\ GapInv /\ OrderInv /\ GrantInv /\ [Next]_vars
        => (TypeOK /\ GapInv /\ OrderInv /\ GrantInv)'
  BY NextType, GapNext, OrderNext, GrantNext
<1> QED
  BY <1>1, <1>2, LogNext, PTL DEF Spec, LogSpec, Log!Spec
=============================================================================
