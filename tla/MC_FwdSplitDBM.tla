--------------------------- MODULE MC_FwdSplitDBM ---------------------------
(* The iterator over SplitDBM with two variables, on the four loop shapes *)
(* with every choice of one statement per loop block: bounds, steps, a   *)
(* copy of one variable into the other, a relation between them, and a  *)
(* disequation.                                                         *)
EXTENDS MC_FwdShapes

S == INSTANCE SplitDBM WITH Vars <- {1, 2}, MaxVert <- 3, WtMax <- 127

\* A statement: set x to [k, k], x := y + k, x - y <= k (y may be NoVar)
SetSt(x, k) == [op |-> "set", x |-> x, y |-> S!NoVar, k |-> k]
AssignSt(x, y, k) == [op |-> "assign", x |-> x, y |-> y, k |-> k]
AssumeSt(x, y, k) == [op |-> "assume", x |-> x, y |-> y, k |-> k]
\* x # k
DiseqSt(x, k) == [op |-> "diseq", x |-> x, y |-> S!NoVar, k |-> k]

MCBottom == S!Bottom
MCTop == S!Top
MCLeq(a, o) == S!Leq(a, o)
MCJoin(a, o) == S!Join(a, o)
MCMeet(a, o) == S!Meet(a, o)
MCWiden(a, o) == S!Widen(a, o)
MCNarrow(a, o) == S!Narrow(a, o)
MCApply(s, a) ==
    CASE s.op = "set"    -> S!SetItv(a, s.x, s.k, s.k)
      [] s.op = "assign" -> S!AssignLin(a, s.x, S!Lin(s.y :> 1, s.k))
      [] s.op = "assume" -> S!AddCst(a, S!Cst(s.x, s.y, s.k, "leq"))
      [] s.op = "diseq"  -> S!AddCst(a, S!Cst(s.x, s.y, s.k, "neq"))
MCValue(a) == S!IsDbm(a)

EntryChoices == {<<>>, <<SetSt(1, 0), SetSt(2, 0)>>}
\* one statement per loop block: a reset, a step of either variable, a
\* copy of either into the other, a guard on either, a relation each way,
\* and the exit test x1 # 2 of a loop counting to 2
BodyChoices == {<<SetSt(1, 0)>>, <<SetSt(2, 0)>>, <<AssignSt(1, 1, 1)>>,
                <<AssignSt(2, 2, 1)>>, <<AssignSt(1, 2, 1)>>, <<AssignSt(2, 1, 1)>>,
                <<AssumeSt(1, S!NoVar, 2)>>, <<AssumeSt(2, S!NoVar, 2)>>,
                <<AssumeSt(1, 2, 0)>>, <<AssumeSt(2, 1, 0)>>, <<DiseqSt(1, 2)>>}
MCStmts == UNION {Range(b) : b \in EntryChoices \cup BodyChoices}

MCPrograms ==
    UNION {{[preds |-> AllPreds(s), wto |-> s.wto,
             stmts |-> [l \in MCLabels |-> IF l = 0 THEN e
                                           ELSE IF l \in s.body THEN t[l]
                                           ELSE <<>>]]
            : e \in EntryChoices, t \in [s.body -> BodyChoices]}
           : s \in Shapes}

-----------------------------------------------------------------------------
(* Termination as a bound on the steps of the analysis: ticks counts the   *)
(* steps taken while running. The analysis of one program is              *)
(* deterministic, so an iteration that never stops, such as a decreasing  *)
(* sequence that keeps narrowing with the no-op narrow, runs past any     *)
(* bound.                                                                 *)

VARIABLE ticks

MaxTicks == 100

MCInit == Init /\ ticks = 0
Tick == ticks' = ticks + 1
MCNext ==
    \/ VisitVertex /\ Tick
    \/ EnterCycle /\ Tick
    \/ HeadIncreasing /\ Tick
    \/ HeadDecreasing /\ Tick
    \/ CheckIncreasing /\ Tick
    \/ CheckDecreasing /\ Tick
    \/ Finish /\ Tick
    \/ Finished /\ UNCHANGED ticks
MCSpec == MCInit /\ [][MCNext]_<<vars, ticks>>

\* run_forward_analyzer returns on every program: the increasing and the
\* decreasing sequence of every cycle head stop (fwd_analyzer.cpp:168 and
\* :189), within MaxTicks steps of the walk.
AnalyzerStops == ticks <= MaxTicks

=============================================================================
