------------------------------ MODULE MCNonce ------------------------------
(* Instances of Nonce for TLC. *)
EXTENDS Nonce, TLC

CONSTANTS t1, t2, r1

OneSender == {t1}
TwoSenders == {t1, t2}
OneReader == {r1}

\* Senders are interchangeable (safety runs only).
SenderSymmetry == Permutations({t1, t2})
=============================================================================
