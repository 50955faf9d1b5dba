---------------------------- MODULE MC_SplitDBM ----------------------------
(* Three variables, so that a relation can be implied through a third     *)
(* vertex; values in 0..2; constants that make bounds, relations and      *)
(* contradictions.                                                         *)
EXTENDS SplitDBMMachine

MCVars == {1, 2, 3}
\* x = 1, y = 2: the intervals [0,0], [0,1], [1,2] and [0,+oo)
MCItvs == {<<0, 0>>, <<0, 1>>, <<1, 2>>, <<0, Inf>>}
MCOffsets == {0, 1}
\* x - y <= 0 for every ordered pair, x <= 0 and x >= 1
MCCsts == {Cst(p[1], p[2], 0, "leq") : p \in {p \in MCVars \X MCVars : p[1] # p[2]}}
          \cup {Cst(1, NoVar, 0, "leq"),
                Cst(NoVar, 1, -1, "leq")}
MCWindow == 0..2
=============================================================================
