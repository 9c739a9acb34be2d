---------------------------- MODULE MCBisection -----------------------------
(***************************************************************************)
(* Instances of Bisection for TLC: five transactions, three of them in two *)
(* neighbouring instants, one at each end of the range.                    *)
(***************************************************************************)
EXTENDS Bisection

SomeTxs == 1..5
SomeInstants == <<0, 3, 3, 4, 7>>
=============================================================================
