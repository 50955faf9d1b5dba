------------------------------ MODULE MC_Stats ------------------------------
(* The scopes of split_dbm.cpp that nest: apply opens "SplitDBM.assign"   *)
(* through assign (ADD, SUB, MUL by a constant) or set (the other         *)
(* operators), and assign opens it again through set (a constant right-   *)
(* hand side, or no difference constraint).                               *)
EXTENDS Stats

MCOps == {"apply", "assign"}
MCCalls == {<<"apply", "assign">>, <<"assign", "assign">>}
=============================================================================
