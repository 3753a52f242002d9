----------------------------- MODULE MCPostEvent -----------------------------
(* Instances of PostEvent for TLC. *)
EXTENDS PostEvent, TLC

CONSTANTS x1, x2, i1

OneExpense == {x1}
TwoExpenses == {x1, x2}
OneIncome == {i1}

==============================================================================
