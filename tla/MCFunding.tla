----------------------------- MODULE MCFunding -----------------------------
(***************************************************************************)
(* One task of either kind with two targets (or sources) over one relay    *)
(* and one layer of batch wallets: the deposit wallet's and the relay's    *)
(* single balance is split between two transfers, as with full-sized       *)
(* routes, and every hop of a route is there.                              *)
(***************************************************************************)
EXTENDS Funding
=============================================================================
