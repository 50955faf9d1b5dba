------------------------- MODULE MC_SplitDBM_rename -------------------------
(* Three variables, so that rename can swap two of them and rotate all    *)
(* three; values in -1..1; bounds of either sign, the relation x1 <= x2, *)
(* and x := y * z on intervals, whose product takes its least bound from *)
(* a product of unlike bounds.                                            *)
EXTENDS SplitDBMMachine

MCVars == {1, 2, 3}
MCItvs == {<<0, 1>>, <<-1, 0>>}
\* x1 - x2 <= 0
MCCsts == {Cst(1, 2, 0, "leq")}
\* the swap of x1 and x2, the rotation x1 -> x2 -> x3 -> x1, and x1 to x3
MCRenames == {<<<<1, 2>>, <<2, 1>>>>, <<<<1, 2, 3>>, <<2, 3, 1>>>>, <<<<1>>, <<3>>>>}
MCWindow == -1..1
=============================================================================
