------------------------- MODULE MC_SplitDBM_widen -------------------------
(* Four variables, starting from two values the transfer functions build:  *)
(* A0 has x2 - x4 <= -1, strictly tighter than the path x4 -> x3 -> x2;    *)
(* B0 has only that path (x3 - x4 <= 0, x2 - x3 <= 0). Both bind x1.       *)
EXTENDS SplitDBMMachine

MCVars == {1, 2, 3, 4}
MCItvs == {<<0, 0>>}
MCOffsets == {}
MCCsts == {}
MCWindow == 0..1

Rel(x, y, k) == Cst(x, y, k, "leq")
Base == SetItv(Top, 1, 0, 0)
B0 == AddCst(AddCst(Base, Rel(3, 4, 0)), Rel(2, 3, 0))
A0 == AddCst(B0, Rel(2, 4, -1))

MCInit ==
    /\ reg = [r \in Regs |-> IF r = "a" THEN A0 ELSE B0]
    /\ conc = [r \in Regs |-> Gamma(reg[r])]
    /\ steps = 0
=============================================================================
