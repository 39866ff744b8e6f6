------------------------------ MODULE MCBudget ------------------------------
(***************************************************************************)
(* Instances of Budget: the worker and one tool, two days, and calls that  *)
(* cost two fifths of the budget.                                          *)
(***************************************************************************)
EXTENDS Budget
=============================================================================
