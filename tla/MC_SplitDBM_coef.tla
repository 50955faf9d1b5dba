-------------------------- MODULE MC_SplitDBM_coef --------------------------
(* operator+= with x1 - 5 * x2 <= 0, where the signed coefficient -5 does *)
(* not convert to a Wt of -4..3 (a 64-bit Wt and a coefficient of 2^63 + 1 *)
(* take the same path), on top or after set(x, [0, 2]).                   *)
EXTENDS SplitDBMMachine

MCItvs == {<<0, 2>>}
MCWindow == 0..2
MCCsts == {[Cst(1, 2, 0, "leq") EXCEPT !.cn = 5]}
=============================================================================
