------------------------------ MODULE Interval ------------------------------
(***************************************************************************)
(* SplitDBM (src/unnamed/part_002) restricted to a single variable x: the *)
(* graph then has the zero vertex, the vertex of x, and at most the two   *)
(* edges 0 -> x (weight ub, "x <= ub") and x -> 0 (weight -lb,            *)
(* "x >= lb"); a missing edge is an infinite bound. An element is        *)
(* therefore the pair of bounds [lo, hi], or Bot for the bottom state.    *)
(* The lattice operations below are what operator<=, operator|,          *)
(* operator&, widen and narrow compute on such a graph; the statements    *)
(* are the transfer primitives set, assign x := x + k and += (x <= c),     *)
(* (x >= c).                                                              *)
(*                                                                         *)
(* Values are bounded to 0..MaxVal: a bound that leaves that range is     *)
(* replaced by the infinite bound on its side, which only weakens it.     *)
(***************************************************************************)
EXTENDS Integers

CONSTANT MaxVal

NegInf == -1            \* no edge x -> 0
PosInf == MaxVal + 1    \* no edge 0 -> x

Bot == [lo |-> PosInf, hi |-> NegInf]
Top == [lo |-> NegInf, hi |-> PosInf]

Elem == {Bot} \cup {i \in [lo : NegInf..MaxVal, hi : 0..PosInf] : i.lo <= i.hi}

IsBottom(a) == a = Bot
IsTop(a) == a = Top

\* A bound that leaves 0..MaxVal becomes the infinite bound on its side.
ClampLo(v) == IF v < 0 THEN NegInf ELSE IF v > MaxVal THEN MaxVal ELSE v
ClampHi(v) == IF v > MaxVal THEN PosInf ELSE IF v < 0 THEN 0 ELSE v

Mk(lo, hi) == IF lo > hi THEN Bot ELSE [lo |-> lo, hi |-> hi]

Minimum(a, b) == IF a <= b THEN a ELSE b
Maximum(a, b) == IF a >= b THEN a ELSE b

-----------------------------------------------------------------------------
(* Lattice operations.                                                     *)

\* SplitDBM::operator<= : the trivial cases, then every edge of o must be
\* matched by an edge of this state that is at least as tight.
Leq(a, o) ==
    CASE IsBottom(a) -> TRUE
      [] IsBottom(o) -> FALSE
      [] IsTop(o)    -> TRUE
      [] IsTop(a)    -> FALSE
      [] OTHER       -> o.lo <= a.lo /\ a.hi <= o.hi

\* SplitDBM::operator| : the trivial cases, then the pointwise maximum of
\* the edge weights; an edge missing on either side is dropped.
Join(a, o) ==
    IF IsBottom(a) \/ IsTop(o) THEN o
    ELSE IF IsTop(a) \/ IsBottom(o) THEN a
    ELSE [lo |-> Minimum(a.lo, o.lo), hi |-> Maximum(a.hi, o.hi)]

\* SplitDBM::operator& : pointwise minimum of the edges; an infeasible
\* result (no potential can be selected) is bottom.
Meet(a, o) ==
    IF IsBottom(a) \/ IsBottom(o) THEN Bot
    ELSE IF IsTop(a) THEN o
    ELSE IF IsTop(o) THEN a
    ELSE Mk(Maximum(a.lo, o.lo), Minimum(a.hi, o.hi))

\* SplitDBM::widen : an edge of this state survives only if o's edge is
\* no weaker; the others are dropped (the bound goes to infinity).
Widen(a, o) ==
    IF IsBottom(a) THEN o
    ELSE IF IsBottom(o) THEN a
    ELSE [lo |-> IF o.lo < a.lo THEN NegInf ELSE a.lo,
          hi |-> IF o.hi > a.hi THEN PosInf ELSE a.hi]

\* SplitDBM::narrow : bottom if either side is, o if this state is top,
\* and otherwise this state unchanged ("FIXME: Implement properly").
Narrow(a, o) ==
    IF IsBottom(a) \/ IsBottom(o) THEN Bot
    ELSE IF IsTop(a) THEN o
    ELSE a

-----------------------------------------------------------------------------
(* Statements, applied by the transformer to the state of a block.         *)

Stmts == [op : {"set"}, k : 0..MaxVal]
         \cup [op : {"add"}, k : {-1, 1}]
         \cup [op : {"le", "ge"}, k : 0..MaxVal]

\* SplitDBM::set(x, [k, k]): forget x, then install both unary edges.
SetConst(a, k) == IF IsBottom(a) THEN Bot ELSE [lo |-> k, hi |-> k]

\* SplitDBM::assign(x, x + k): both bounds move by k.
AddConst(a, k) ==
    IF IsBottom(a) THEN Bot
    ELSE [lo |-> IF a.lo = NegInf THEN NegInf ELSE ClampLo(a.lo + k),
          hi |-> IF a.hi = PosInf THEN PosInf ELSE ClampHi(a.hi + k)]

\* SplitDBM::operator+=(x <= k) and (x >= k) through add_linear_leq: a
\* tighter unary edge, and bottom when the potential cannot be repaired.
AssumeLe(a, k) == IF IsBottom(a) THEN Bot ELSE Mk(a.lo, Minimum(a.hi, k))
AssumeGe(a, k) == IF IsBottom(a) THEN Bot ELSE Mk(Maximum(a.lo, k), a.hi)

Apply(s, a) ==
    CASE s.op = "set" -> SetConst(a, s.k)
      [] s.op = "add" -> AddConst(a, s.k)
      [] s.op = "le"  -> AssumeLe(a, s.k)
      [] s.op = "ge"  -> AssumeGe(a, s.k)

=============================================================================
