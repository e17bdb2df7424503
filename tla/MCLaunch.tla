------------------------------ MODULE MCLaunch ------------------------------
(* Instances of Launch for TLC. *)
EXTENDS Launch

CONSTANTS m1, m2, treasury, other

TwoMakers == <<m1, m2>>
FourAccounts == {m1, m2, treasury, other}
ThreeCurves == 0..2

\* Makers of this many units each, and treasuries that can pay every launch.
Hold(n) == [a \in Accounts |-> IF a \in MakerSet THEN n ELSE 5]
NineEach == Hold(9)
=============================================================================
