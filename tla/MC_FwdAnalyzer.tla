--------------------------- MODULE MC_FwdAnalyzer ---------------------------
(* The iterator over the one-variable domain of Interval, on the four     *)
(* loop shapes with every choice of one statement per loop block.          *)
EXTENDS MC_FwdShapes

CONSTANT MaxVal  \* values of the variable range over 0..MaxVal

\* The domain: the one-variable SplitDBM of Interval
I == INSTANCE Interval
MCBottom == I!Bot
MCTop == I!Top
MCStmts == I!Stmts
MCLeq(a, o) == I!Leq(a, o)
MCJoin(a, o) == I!Join(a, o)
MCMeet(a, o) == I!Meet(a, o)
MCWiden(a, o) == I!Widen(a, o)
MCNarrow(a, o) == I!Narrow(a, o)
MCApply(s, a) == I!Apply(s, a)
MCValue(a) == a \in I!Elem


EntryChoices == {<<>>, <<[op |-> "set", k |-> 0]>>}
\* one statement per block: a constant, a step up or down, and a guard on
\* each side, with constants below MaxVal so that widening overshoots
BodyChoices == {<<[op |-> "set", k |-> 0]>>, <<[op |-> "add", k |-> 1]>>,
                <<[op |-> "add", k |-> -1]>>, <<[op |-> "le", k |-> 2]>>,
                <<[op |-> "ge", k |-> 1]>>}

MCPrograms ==
    UNION {{[preds |-> AllPreds(s), wto |-> s.wto,
             stmts |-> [l \in MCLabels |-> IF l = 0 THEN e
                                           ELSE IF l \in s.body THEN t[l]
                                           ELSE <<>>]]
            : e \in EntryChoices, t \in [s.body -> BodyChoices]}
           : s \in Shapes}


=============================================================================
