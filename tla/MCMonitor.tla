----------------------------- MODULE MCMonitor -----------------------------
(***************************************************************************)
(* A few blocks with one transaction each, of up to two trades: channels   *)
(* of one place overflow, and the subscription opens, ends or never opens  *)
(* anywhere among them.                                                    *)
(***************************************************************************)
EXTENDS Monitor
=============================================================================
