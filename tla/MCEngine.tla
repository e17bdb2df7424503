------------------------------ MODULE MCEngine ------------------------------
(* Engine instantiated for TLC: the wallets of the .cfg files. *)
EXTENDS Engine, TLC

CONSTANTS w1, w2
TwoWallets == {w1, w2}
OneMaker == {w1}
=============================================================================
