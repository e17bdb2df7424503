----------------------------- MODULE WalletLog -----------------------------
(***************************************************************************)
(* What txMu and the cached nonce of a Wallet are for: the transactions a  *)
(* wallet broadcasts form a log.  Each takes a nonce of its own beyond all *)
(* earlier ones, a sell only ever behind an approval, and none is taken    *)
(* back.  A pool that was misled about its nonce promises nothing more.    *)
(***************************************************************************)
EXTENDS Naturals

CONSTANTS
  Nonces,  \* a set of natural numbers
  Kinds    \* "approve" and "sell" among them

VARIABLES
  sent,    \* the kind of every transaction broadcast so far, by nonce
  misled   \* the pool signed on with a nonce it could not rely on

vars == <<sent, misled>>

Init ==
  /\ DOMAIN sent \subseteq Nonces
  /\ sent \in [DOMAIN sent -> Kinds]
  /\ misled = FALSE

Append(n, k) ==
  /\ n \in Nonces \ DOMAIN sent
  /\ \A m \in DOMAIN sent : m < n
  /\ k = "sell" => \E m \in DOMAIN sent : sent[m] = "approve"
  /\ sent' = [m \in DOMAIN sent \cup {n} |-> IF m = n THEN k ELSE sent[m]]
  /\ misled' = misled

Next ==
  \/ ~misled /\ \E n \in Nonces, k \in Kinds : Append(n, k)
  \/ misled'

Spec == Init /\ [][Next]_vars
=============================================================================
