------------------------------- MODULE MCDrawdown -------------------------------
(***************************************************************************)
(* Equities around the 5% limit: 95 is exactly on it against 100, 96 above *)
(* it, 91 below it against both, all in thousands.                         *)
(***************************************************************************)
EXTENDS Drawdown

MCEquities == {91000, 95000, 96000, 100000}
================================================================================
