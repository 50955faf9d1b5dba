------------------------------ MODULE SplitDBM ------------------------------
(***************************************************************************)
(* SplitDBM of crab/split_dbm.cpp (src/unnamed/part_002). A state is       *)
(* bottom or a weighted digraph g over vertex ids, where vertex 0 is the  *)
(* constant zero and vert_map binds variables to the other vertices. An  *)
(* edge s -> d of weight w means value(d) - value(s) <= w; 0 -> v is an   *)
(* upper bound of v and v -> 0 minus a lower bound. The graph is "split":  *)
(* it is kept closed over the vertices other than 0 and its unary bounds *)
(* are kept tight, but a relation implied by two bounds (a path through  *)
(* 0) is not stored. widen leaves the graph unclosed and records the      *)
(* vertices to re-close in `unstable', which normalize() consumes.        *)
(*                                                                         *)
(* Vertex ids are kept, because join, meet and widen renumber the         *)
(* vertices of their result. The potentials are abstracted to what they  *)
(* witness, feasibility: repair_potential and select_potentials fail      *)
(* exactly when the graph has a negative cycle. The graph algorithms of  *)
(* graph_ops (closure, Bellman-Ford, the allocator) are not part of the   *)
(* sources and are modelled from their contract.                          *)
(***************************************************************************)
EXTENDS Integers, FiniteSets, FiniteSetsExt, Functions, Sequences, TLC

CONSTANTS Vars,     \* variable_t values, ordered as std::map orders them
          MaxVert,  \* vertex ids besides 0 that the graph may allocate
          WtMax     \* the largest value of the weight type Wt

ASSUME Vars \subseteq Nat /\ MaxVert >= Cardinality(Vars) + 1 /\ WtMax \in Nat

Ids == 1..MaxVert
Verts == 0..MaxVert

\* An infinite bound of an interval
Inf == 1000
AddB(b, k) == IF b \in {Inf, -Inf} THEN b ELSE b + k

\* convert_NtoW(n, overflow) leaves overflow false: n is a value of Wt,
\* a two's complement type. Sums of weights are computed in Wt unchecked
\* and are modelled exactly.
Fits(n) == -WtMax - 1 <= n /\ n <= WtMax

Minimum(a, b) == IF a <= b THEN a ELSE b
Maximum(a, b) == IF a >= b THEN a ELSE b

-----------------------------------------------------------------------------
(* The weighted graph (graph_t): a function from edges to weights.          *)

EmptyGraph == [e \in {} |-> 0]
Has(g, s, d) == <<s, d>> \in DOMAIN g

\* graph_t::set_edge: install or overwrite the edge
SetEdge(g, s, d, w) ==
    [e \in DOMAIN g \cup {<<s, d>>} |-> IF e = <<s, d>> THEN w ELSE g[e]]

\* graph_t::update_edge: install the edge or keep the smaller weight
UpdateEdge(g, s, d, w) ==
    IF Has(g, s, d) /\ g[<<s, d>>] <= w THEN g ELSE SetEdge(g, s, d, w)

\* graph_t::forget: drop the vertex with every incident edge
ForgetVert(g, v) == Restrict(g, {e \in DOMAIN g : v # e[1] /\ v # e[2]})

\* Install every edge of h into g with update_edge (apply_delta)
ApplyDelta(g, h) ==
    [e \in DOMAIN g \cup DOMAIN h |->
        IF e \notin DOMAIN h THEN g[e]
        ELSE IF e \notin DOMAIN g THEN h[e]
        ELSE Minimum(g[e], h[e])]

\* GrOps::meet: the union of the edges, keeping the smaller weight
MeetGraphs(g1, g2) == ApplyDelta(g1, g2)

\* One round of Floyd-Warshall through k, over the vertices V
RelaxVia(g, k, V) ==
    LET Via == {p \in V \X V : p[1] # p[2] /\ k \notin {p[1], p[2]}
                               /\ Has(g, p[1], k) /\ Has(g, k, p[2])}
        W(p) == g[<<p[1], k>>] + g[<<k, p[2]>>]
    IN  [e \in DOMAIN g \cup Via |->
            IF e \notin Via THEN g[e]
            ELSE IF e \notin DOMAIN g THEN W(e)
            ELSE Minimum(g[e], W(e))]

\* Shortest paths in g without vertex 0 (SubGraph g_excl), and in all of g
ShortestExcl(g) == FoldSet(LAMBDA k, acc : RelaxVia(acc, k, Ids), g, Ids)
ShortestAll(g) == FoldSet(LAMBDA k, acc : RelaxVia(acc, k, Verts), g, Verts)

\* close_after_assign(g, potential, 0, ...): the unary bounds become the
\* shortest paths from and to vertex 0
BoundsOf(sp) == Restrict(sp, {e \in DOMAIN sp : 0 \in {e[1], e[2]}})
BoundsDelta(g) == BoundsOf(ShortestAll(g))

\* close_after_assign / close_after_widen on g_excl for the vertices U:
\* the edges out of (and, for an assignment, into) them become shortest
FromDelta(sp, U) == Restrict(sp, {e \in DOMAIN sp : e[1] \in U})
AtDelta(sp, v) == Restrict(sp, {e \in DOMAIN sp : v \in {e[1], e[2]}})
CloseFrom(g, U) == ApplyDelta(g, FromDelta(ShortestExcl(g), U))
CloseAt(g, v) == ApplyDelta(g, AtDelta(ShortestExcl(g), v))

\* repair_potential / select_potentials fail: a negative cycle
NegCycleIn(g, sp) ==
    \/ \E v \in Verts : Has(g, v, v) /\ g[<<v, v>>] < 0
    \/ \E i, k \in Verts : i # k /\ Has(sp, i, k) /\ Has(sp, k, i)
                             /\ sp[<<i, k>>] + sp[<<k, i>>] < 0
NegCycle(g) == NegCycleIn(g, ShortestAll(g))

-----------------------------------------------------------------------------
(* The domain state.                                                       *)

Bottom == [bot |-> TRUE, vmap |-> [v \in {} |-> 0], g |-> EmptyGraph, n |-> 1,
           unstable |-> {}]
Top == [Bottom EXCEPT !.bot = FALSE]

\* is_top: no constraint at all
IsTop(a) == ~a.bot /\ DOMAIN a.g = {}

\* rev_map: the variable bound to a vertex
VarOf(a, v) == CHOOSE x \in DOMAIN a.vmap : a.vmap[x] = v

\* Seeded fault: the new id at the end of the graph is off by one
NewVertexOffByOne(a, used) ==
    LET free == (1..(a.n - 1)) \ (Range(a.vmap) \cup used)
    IN  IF free # {} THEN Min(free) ELSE a.n - 1

\* graph_t::new_vertex: the smallest id of the graph that holds no
\* variable (and is not in used), else a new id at the end of the graph
NewVertex(a, used) ==
    LET free == (1..(a.n - 1)) \ (Range(a.vmap) \cup used)
    IN  IF free # {} THEN Min(free) ELSE a.n

\* Allocate the vertex v of NewVertex, growing the graph if it is new
Grow(a, v) == [a EXCEPT !.n = Maximum(@, v + 1)]

\* get_vert: the vertex of v, allocated if v has none
GetVert(a, v) ==
    IF v \in DOMAIN a.vmap THEN a
    ELSE LET id == NewVertex(a, {})
         IN  [Grow(a, id) EXCEPT !.vmap = a.vmap @@ (v :> id)]

\* operator[] : the bounds of v, read off the edges with vertex 0
LbOf(a, v) == IF v \in DOMAIN a.vmap /\ Has(a.g, a.vmap[v], 0)
              THEN -a.g[<<a.vmap[v], 0>>] ELSE -Inf
UbOf(a, v) == IF v \in DOMAIN a.vmap /\ Has(a.g, 0, a.vmap[v])
              THEN a.g[<<0, a.vmap[v]>>] ELSE Inf

\* normalize(): re-close from the unstable vertices in g_excl, re-derive
\* the bounds from 0; both deltas are computed on g, then applied.
Normalize(a) ==
    IF a.unstable = {} THEN a
    ELSE [a EXCEPT !.g = ApplyDelta(CloseFrom(a.g, a.unstable), BoundsDelta(a.g)),
                   !.unstable = {}]

\* operator-=(v): normalize, then forget v's vertex
ForgetNormalized(n, v) ==
    IF v \in DOMAIN n.vmap
      THEN [n EXCEPT !.g = ForgetVert(n.g, n.vmap[v]),
                     !.vmap = Restrict(n.vmap, DOMAIN n.vmap \ {v})]
      ELSE n
ForgetVar(a, v) == IF a.bot THEN a ELSE ForgetNormalized(Normalize(a), v)

\* forget(variables) for one variable
Forget(a, v) == IF a.bot \/ IsTop(a) THEN a ELSE ForgetVar(a, v)

\* set(x, [lo, hi]): forget x, then install the finite bounds on a vertex
\* (a bound that does not convert ends the operation there)
InstallBounds(c, x, lo, hi) ==
    LET v  == c.vmap[x]
        g1 == IF hi # Inf THEN SetEdge(c.g, 0, v, hi) ELSE c.g
    IN  IF hi # Inf /\ ~Fits(hi) THEN c
        ELSE [c EXCEPT !.g = IF lo # -Inf /\ Fits(lo) THEN SetEdge(g1, v, 0, -lo) ELSE g1]
SetBounds(b, x, lo, hi) ==
    IF lo = -Inf /\ hi = Inf THEN b ELSE InstallBounds(GetVert(b, x), x, lo, hi)
SetItv(a, x, lo, hi) ==
    IF a.bot THEN a
    ELSE IF lo > hi THEN Bottom
    ELSE SetBounds(ForgetVar(a, x), x, lo, hi)


-----------------------------------------------------------------------------
(* Linear constraints cp*pos - cn*neg <= k, where pos and neg are a       *)
(* variable or NoVar, and assignments x := y + k. A coefficient is 1 or    *)
(* one that converts to Wt with neither sign.                              *)

NoVar == -1

\* The constraint pos - neg (kind) k
Cst(pos, neg, k, kind) == [pos |-> pos, cp |-> 1, neg |-> neg, cn |-> 1, k |-> k, kind |-> kind]

\* The terms diffcsts_of_lin_leq keeps of cp*pos - cn*neg - k <= 0: none
\* when the constant -k or -k - 1 does not convert (its early returns),
\* else those whose signed coefficient (cp, and -cn) converts (the loop
\* `continue's past the others)
LinLeqTerms(c) ==
    IF ~(Fits(-c.k) /\ Fits(-c.k - 1)) THEN [c EXCEPT !.pos = NoVar, !.neg = NoVar]
    ELSE [c EXCEPT !.pos = IF Fits(c.cp) THEN @ ELSE NoVar,
                   !.neg = IF Fits(-c.cn) THEN @ ELSE NoVar]

\* close_over_edge(i, j): after the edge i -> j (weight c) was tightened,
\* give each predecessor se of i an edge to j, each successor de of j an
\* edge from i, and each pair (se, de) of those that improved an edge se ->
\* de; all in g without vertex 0. The pairs are not required to differ.
CloseOverEdge(g, i, j) ==
    LET c    == g[<<i, j>>]
        Srcs == {se \in Ids : se # j /\ Has(g, se, i)
                   /\ ~(Has(g, se, j) /\ g[<<se, j>>] <= g[<<se, i>>] + c)}
        g1   == FoldSet(LAMBDA se, acc : SetEdge(acc, se, j, g[<<se, i>>] + c), g, Srcs)
        Dsts == {de \in Ids : de # i /\ Has(g, j, de)
                   /\ ~(Has(g1, i, de) /\ g1[<<i, de>>] <= c + g[<<j, de>>])}
        g2   == FoldSet(LAMBDA de, acc : SetEdge(acc, i, de, c + g[<<j, de>>]), g1, Dsts)
    IN  FoldSet(LAMBDA p, acc : UpdateEdge(acc, p[1], p[2],
                                           g[<<p[1], i>>] + c + g[<<j, p[2]>>]),
                g2, Srcs \X Dsts)

\* diffcsts_of_lin_leq for pos - neg <= k: the relation, and the bounds a
\* bounded side gives the other one (exp_ub = k - lb(pos) + ub(neg)).
LinLeqLbs(a, c) ==
    IF c.neg = NoVar \/ (c.pos # NoVar /\ LbOf(a, c.pos) = -Inf) THEN {}
    ELSE IF c.pos = NoVar THEN {<<c.neg, -c.k>>}
    ELSE {<<c.neg, LbOf(a, c.pos) - c.k>>}
\* Seeded fault: the upper bound taken from neg's lower bound
LinLeqUbsLb(a, c) ==
    IF c.pos = NoVar \/ (c.neg # NoVar /\ UbOf(a, c.neg) = Inf) THEN {}
    ELSE IF c.neg = NoVar THEN {<<c.pos, c.k>>}
    ELSE {<<c.pos, c.k + LbOf(a, c.neg)>>}
LinLeqUbs(a, c) ==
    IF c.pos = NoVar \/ (c.neg # NoVar /\ UbOf(a, c.neg) = Inf) THEN {}
    ELSE IF c.neg = NoVar THEN {<<c.pos, c.k>>}
    ELSE {<<c.pos, c.k + UbOf(a, c.neg)>>}
LinLeqCsts(a, c) ==
    IF c.pos = NoVar \/ c.neg = NoVar THEN {} ELSE {<<c.pos, c.neg, c.k>>}

\* add_linear_leq, one lower bound var >= n
LbEdge(b, v, n) ==
    IF Has(b.g, v, 0) /\ b.g[<<v, 0>>] <= -n THEN b
    ELSE [b EXCEPT !.g = SetEdge(@, v, 0, -n)]
LbStep(a, var, n) == LET b == GetVert(a, var) IN LbEdge(b, b.vmap[var], n)

\* add_linear_leq, one upper bound var <= n
UbEdge(b, v, n) ==
    IF Has(b.g, 0, v) /\ b.g[<<0, v>>] <= n THEN b
    ELSE [b EXCEPT !.g = SetEdge(@, 0, v, n)]
UbStep(a, var, n) == LET b == GetVert(a, var) IN UbEdge(b, b.vmap[var], n)

\* add_linear_leq, one relation x - y <= k: src is y's vertex, dest x's
CstEdge(b, src, dest, k) ==
    [b EXCEPT !.g = CloseOverEdge(UpdateEdge(@, src, dest, k), src, dest)]
CstStep(a, x, y, k) ==
    LET b == GetVert(GetVert(a, y), x) IN CstEdge(b, b.vmap[y], b.vmap[x], k)

\* The bounds, then the relation, of diffcsts_of_lin_leq (computed on a)
LinLeqSteps(a, c) ==
    LET t == LinLeqTerms(c)
    IN  FoldSet(LAMBDA r, acc : CstStep(acc, r[1], r[2], r[3]),
                FoldSet(LAMBDA p, acc : UbStep(acc, p[1], p[2]),
                        FoldSet(LAMBDA p, acc : LbStep(acc, p[1], p[2]), a, LinLeqLbs(a, t)),
                        LinLeqUbs(a, t)),
                LinLeqCsts(a, t))

\* Each repair_potential fails exactly when its edge closes a negative
\* cycle; edges are only ever tightened, so the cycle persists and one
\* check at the end gives the same bottom.
BottomIfInfeasible(b) == IF NegCycle(b.g) THEN Bottom ELSE b

\* Seeded fault: the closing close_after_assign from 0 left out
AddLinearLeqNoBounds(a, c) == BottomIfInfeasible(LinLeqSteps(a, c))

\* add_linear_leq: the bounds, then the relation with close_over_edge, then
\* the bounds re-derived from 0 (close_after_assign)
CloseBounds(b) == [b EXCEPT !.g = ApplyDelta(@, BoundsDelta(@))]
AddLinearLeq(a, c) == LET b == BottomIfInfeasible(LinLeqSteps(a, c)) IN
                      IF b.bot THEN b ELSE CloseBounds(b)

\* trim_interval(i, [n, n]) of the interval header: a bound equal to n is
\* moved past it; lo > hi is bottom, and top is left as it is
TrimItv(lo, hi, n) ==
    IF lo = n THEN <<n + 1, hi>> ELSE IF hi = n THEN <<lo, n - 1>> ELSE <<lo, hi>>

\* Seeded fault: the predecessors' bounds not updated
DiseqLbNoPreds(b, v, lo) ==
    IF lo = -Inf \/ ~Has(b.g, v, 0) \/ -lo >= b.g[<<v, 0>>] THEN b
    ELSE [b EXCEPT !.g = SetEdge(b.g, v, 0, -lo)]
\* add_univar_disequation, lower bound: v -> 0 tightened to -lo, then each
\* predecessor u of v gets u -> 0 through it
DiseqLb(b, v, lo) ==
    IF lo = -Inf \/ ~Has(b.g, v, 0) \/ -lo >= b.g[<<v, 0>>] THEN b
    ELSE LET g1 == SetEdge(b.g, v, 0, -lo)
         IN  [b EXCEPT !.g = FoldSet(LAMBDA u, acc : UpdateEdge(acc, u, 0, g1[<<u, v>>] - lo),
                                     g1, {u \in Ids : Has(g1, u, v)})]
\* add_univar_disequation, upper bound: 0 -> v tightened to hi, then each
\* successor d of v gets 0 -> d through it
DiseqUb(b, v, hi) ==
    IF hi = Inf \/ ~Has(b.g, 0, v) \/ hi >= b.g[<<0, v>>] THEN b
    ELSE LET g1 == SetEdge(b.g, 0, v, hi)
         IN  [b EXCEPT !.g = FoldSet(LAMBDA d, acc : UpdateEdge(acc, 0, d, g1[<<v, d>>] + hi),
                                     g1, {d \in Ids : Has(g1, v, d)})]

\* Seeded fault: a trimmed lower bound that does not convert taken as empty
AddUnivarDiseqOvfBottom(a, x, n) ==
    LET t == TrimItv(LbOf(a, x), UbOf(a, x), n)
        b == DiseqLb(a, a.vmap[x], t[1])
    IN  IF t[1] > t[2] THEN Bottom
        ELSE IF t = <<-Inf, Inf>> THEN a
        ELSE IF t[1] # -Inf /\ ~Fits(-t[1]) THEN Bottom
        ELSE IF t[2] # Inf /\ ~Fits(t[2]) THEN BottomIfInfeasible(b)
        ELSE BottomIfInfeasible(DiseqUb(b, a.vmap[x], t[2]))
\* add_univar_disequation(x, n): x's interval with n cut off its ends;
\* empty is bottom, top is left alone, otherwise the bounds are tightened
\* (a failing repair_potential is bottom, see BottomIfInfeasible); a
\* trimmed bound that does not convert ends the operation there
AddUnivarDiseq(a, x, n) ==
    LET t == TrimItv(LbOf(a, x), UbOf(a, x), n)
        b == DiseqLb(a, a.vmap[x], t[1])
    IN  IF t[1] > t[2] THEN Bottom
        ELSE IF t = <<-Inf, Inf>> THEN a
        ELSE IF t[1] # -Inf /\ ~Fits(-t[1]) THEN a
        ELSE IF t[2] # Inf /\ ~Fits(t[2]) THEN BottomIfInfeasible(b)
        ELSE BottomIfInfeasible(DiseqUb(b, a.vmap[x], t[2]))

\* add_disequation(e) of the header: only e = x - k refines (x # k)
AddDisequation(a, c) ==
    IF c.pos # NoVar /\ c.cp = 1 /\ c.neg = NoVar THEN AddUnivarDiseq(a, c.pos, c.k) ELSE a

\* The constraint -(pos - neg - k) <= 0 of an equality's second half
Negated(c) == [c EXCEPT !.pos = c.neg, !.neg = c.pos, !.cp = c.cn, !.cn = c.cp, !.k = -c.k]

\* Whether the constant constraint 0 - 0 (kind) k holds
ConstHolds(c) ==
    CASE c.kind = "leq" -> 0 <= c.k [] c.kind = "lt" -> 0 < c.k
      [] c.kind = "eq" -> 0 = c.k   [] c.kind = "neq" -> 0 # c.k

\* operator+=: pos - neg (kind) k with kind leq, lt, eq or neq. Bottom is
\* kept; then normalize; a constant one is a tautology or a
\* contradiction; e < 0 becomes e + 1 <= 0; an equality is two
\* add_linear_leq, the second skipped when the first gave bottom
\* Seeded fault: e <= 0 rewritten as e + 1 <= 0 like a strict inequality
AddCstNormalizedLeqStrict(n, c) ==
    CASE c.pos = NoVar /\ c.neg = NoVar -> IF ConstHolds(c) THEN n ELSE Bottom
      [] c.kind \in {"leq", "lt"} -> AddLinearLeq(n, [c EXCEPT !.k = c.k - 1])
      [] c.kind = "eq"  -> LET b == AddLinearLeq(n, c)
                           IN  IF b.bot THEN b ELSE AddLinearLeq(b, Negated(c))
      [] c.kind = "neq" -> AddDisequation(n, c)
AddCstNormalized(n, c) ==
    CASE c.pos = NoVar /\ c.neg = NoVar -> IF ConstHolds(c) THEN n ELSE Bottom
      [] c.kind = "leq" -> AddLinearLeq(n, c)
      [] c.kind = "lt"  -> AddLinearLeq(n, [c EXCEPT !.k = c.k - 1])
      [] c.kind = "eq"  -> LET b == AddLinearLeq(n, c)
                           IN  IF b.bot THEN b ELSE AddLinearLeq(b, Negated(c))
      [] c.kind = "neq" -> AddDisequation(n, c)
AddCst(a, c) == IF a.bot THEN a ELSE AddCstNormalized(Normalize(a), c)

\* rename(from, to): vert_map rebuilt in key order; a key found in from
\* (at its first position) is inserted under the parallel entry of to, the
\* others as they are, and std::map::insert keeps the first entry of a
\* key. rev_map is VarOf; top and bottom are left as they are.
RenamedKey(k, from, to) ==
    IF \E i \in DOMAIN from : from[i] = k
    THEN to[Min({i \in DOMAIN from : from[i] = k})]
    ELSE k
\* Seeded fault: the old keys kept beside the new ones
RenameKeepOld(a, from, to) ==
    IF IsTop(a) \/ a.bot THEN a
    ELSE [a EXCEPT !.vmap = [n \in {RenamedKey(k, from, to) : k \in DOMAIN @} |->
                               @[Min({k \in DOMAIN @ : RenamedKey(k, from, to) = n})]] @@ @]
\* Seeded fault: vert_map renamed in place, one pair after the other
RECURSIVE RenameInPlace(_, _, _)
RenameInPlace(a, from, to) ==
    IF IsTop(a) \/ a.bot \/ from = <<>> THEN a
    ELSE LET x == Head(from)
             b == IF x \in DOMAIN a.vmap
                  THEN [a EXCEPT !.vmap = (Head(to) :> @[x]) @@ Restrict(@, DOMAIN @ \ {x})]
                  ELSE a
         IN  RenameInPlace(b, Tail(from), Tail(to))
Rename(a, from, to) ==
    IF IsTop(a) \/ a.bot THEN a
    ELSE [a EXCEPT !.vmap = [n \in {RenamedKey(k, from, to) : k \in DOMAIN @} |->
                               @[Min({k \in DOMAIN @ : RenamedKey(k, from, to) = n})]]]

\* A linear expression sum(coef[v] * v) + k, with the zero terms dropped
Lin(cf, k) == [coef |-> [v \in {v \in DOMAIN cf : cf[v] # 0} |-> cf[v]], k |-> k]
\* y + z and y - z merge their terms when y = z
Terms2(y, cy, z, cz) ==
    [v \in {y, z} |-> (IF v = y THEN cy ELSE 0) + (IF v = z THEN cz ELSE 0)]

Infinite(b) == b \in {Inf, -Inf}
\* The bound of y that bounds c * y from above (upper) or from below
AssignBnd(n, y, c, upper) == IF (c > 0) = upper THEN UbOf(n, y) ELSE LbOf(n, y)
\* k plus c * bound(y) over the variables in S
Residual(n, e, S, upper) ==
    FoldSet(LAMBDA y, s : s + e.coef[y] * AssignBnd(n, y, e.coef[y], upper), e.k, S)

\* eval_interval(e) of the interval header: one bound of e
EvalBound(n, e, upper) ==
    IF \E y \in DOMAIN e.coef : Infinite(AssignBnd(n, y, e.coef[y], upper))
    THEN IF upper THEN Inf ELSE -Inf
    ELSE Residual(n, e, DOMAIN e.coef, upper)

\* Seeded fault: an unbounded side taken as the one unbounded variable
\* whatever its coefficient
DiffsOfAssignAnyCoef(n, e, upper) ==
    LET T    == {y \in DOMAIN e.coef : Fits(e.coef[y])}
        B(y) == AssignBnd(n, y, e.coef[y], upper)
        Unb  == {y \in T : Infinite(B(y))}
        res  == Residual(n, e, T \ Unb, upper)
    IN  IF ~Fits(e.k) \/ Cardinality(Unb) > 1 THEN {}
        ELSE IF Unb # {} THEN {<<y, res>> : y \in Unb}
        ELSE {<<y, res - B(y)>> : y \in {v \in T : e.coef[v] > 0}}
\* diffcsts_of_assign(x, e, upper): pairs (v, w) with x - v <= w (upper)
\* or x - v >= w. None if the constant does not convert; a term whose
\* coefficient does not convert is skipped. An unbounded side with a coefficient other than 1, or a
\* second one, gives none; one unbounded v gives (v, residual); otherwise
\* each v of positive coefficient gives residual minus its own bound.
DiffsOfAssign(n, e, upper) ==
    LET T    == {y \in DOMAIN e.coef : Fits(e.coef[y])}
        B(y) == AssignBnd(n, y, e.coef[y], upper)
        Unb  == {y \in T : Infinite(B(y))}
        res  == Residual(n, e, T \ Unb, upper)
    IN  IF ~Fits(e.k) \/ (\E y \in Unb : e.coef[y] # 1) \/ Cardinality(Unb) > 1 THEN {}
        ELSE IF Unb # {} THEN {<<y, res>> : y \in Unb}
        ELSE {<<y, res - B(y)>> : y \in {v \in T : e.coef[v] > 0}}

\* assign(x, e): a constant result, or one without difference constraints,
\* is set; otherwise x gets a fresh vertex with the edges of the diffs,
\* closed from that vertex in g without 0, bounded by eval_interval(e), and
\* then the old vertex of x is forgotten and x bound to the fresh one. A
\* bound of eval_interval(e) that does not convert, or an overflowing
\* eval_expression(e), forgets x instead.
BindVar(a, v, id) == [Grow(a, id) EXCEPT !.vmap = @ @@ (v :> id)]
\* Seeded fault: the lower bound of eval_interval not installed
AssignBoundsUbOnly(g, vert, lo, hi) == IF hi # Inf THEN UpdateEdge(g, 0, vert, hi) ELSE g
AssignBounds(g, vert, lo, hi) ==
    LET g1 == IF lo # -Inf THEN UpdateEdge(g, vert, 0, -lo) ELSE g
    IN  IF hi # Inf THEN UpdateEdge(g1, 0, vert, hi) ELSE g1
AssignEdges(n2, vert, lbs, ubs) ==
    {<<vert, n2.vmap[p[1]], -p[2]>> : p \in lbs} \cup {<<n2.vmap[p[1]], vert, p[2]>> : p \in ubs}
AssignTie(n2, vert, x, lbs, ubs, lo, hi) ==
    LET g == CloseAt(FoldSet(LAMBDA t, acc : SetEdge(acc, t[1], t[2], t[3]),
                             n2.g, AssignEdges(n2, vert, lbs, ubs)), vert)
    IN  BindVar(ForgetVar([n2 EXCEPT !.g = AssignBounds(g, vert, lo, hi)], x), x, vert)
\* get_vert of each variable of the diffs (only an unbounded one can be new)
AssignFresh(n1, vert, x, lbs, ubs, lo, hi) ==
    LET n2 == FoldSet(LAMBDA v, acc : IF v \in DOMAIN acc.vmap THEN acc
                                      ELSE BindVar(acc, v, NewVertex(acc, {vert})),
                      n1, {p[1] : p \in lbs \cup ubs})
    IN  AssignTie(n2, vert, x, lbs, ubs, lo, hi)
\* eval_expression(e, overflow) of the header: e's value under the
\* potentials overflows when its constant or a coefficient does not convert
EvalOverflows(e) == ~Fits(e.k) \/ \E y \in DOMAIN e.coef : ~Fits(e.coef[y])
AssignNormalized(n, x, e) ==
    LET lo  == EvalBound(n, e, FALSE)
        hi  == EvalBound(n, e, TRUE)
        lbs == DiffsOfAssign(n, e, FALSE)
        ubs == DiffsOfAssign(n, e, TRUE)
    IN  IF (lo # -Inf /\ ~Fits(-lo)) \/ (hi # Inf /\ ~Fits(hi)) THEN ForgetVar(n, x)
        ELSE IF lo = hi \/ lbs \cup ubs = {} THEN SetItv(n, x, lo, hi)
        ELSE IF EvalOverflows(e) THEN ForgetVar(n, x)
        ELSE AssignFresh(Grow(n, NewVertex(n, {})), NewVertex(n, {}), x, lbs, ubs, lo, hi)
AssignLin(a, x, e) == IF a.bot THEN a ELSE AssignNormalized(Normalize(a), x, e)

\* apply(op, x, y, k): add, sub and mul by a constant through assign
ApplyConst(a, op, x, y, k) ==
    IF a.bot THEN a
    ELSE LET n == Normalize(a)
         IN  CASE op = "add" -> AssignLin(n, x, Lin(y :> 1, k))
               [] op = "sub" -> AssignLin(n, x, Lin(y :> 1, -k))
               [] op = "mul" -> AssignLin(n, x, Lin(y :> k, 0))
\* interval_t::operator* of the interval header: the least and greatest
\* product of two bounds, where 0 times an infinite bound is 0
MulB(u, w) ==
    IF u = 0 \/ w = 0 THEN 0
    ELSE IF Infinite(u) \/ Infinite(w) THEN (IF (u > 0) = (w > 0) THEN Inf ELSE -Inf)
    ELSE u * w
\* Seeded fault: only the products of like bounds
ItvMulLikeBounds(lo1, hi1, lo2, hi2) ==
    LET P == {MulB(lo1, lo2), MulB(hi1, hi2)} IN <<Min(P), Max(P)>>
ItvMul(lo1, hi1, lo2, hi2) ==
    LET P == {MulB(lo1, lo2), MulB(lo1, hi2), MulB(hi1, lo2), MulB(hi1, hi2)}
    IN  <<Min(P), Max(P)>>
\* apply(op, x, y, z): add and sub through assign; mul on the intervals of
\* y and z, read before set forgets x
ApplyVar(a, op, x, y, z) ==
    IF a.bot THEN a
    ELSE LET n == Normalize(a)
             i == ItvMul(LbOf(n, y), UbOf(n, y), LbOf(n, z), UbOf(n, z))
         IN  CASE op = "add" -> AssignLin(n, x, Lin(Terms2(y, 1, z, 1), 0))
               [] op = "sub" -> AssignLin(n, x, Lin(Terms2(y, 1, z, -1), 0))
               [] op = "mul" -> SetItv(n, x, i[1], i[2])



-----------------------------------------------------------------------------
(* Lattice operations. A result is built over a renumbered vertex range:   *)
(* perm maps a result vertex to the operand's vertex (-1 for none).        *)

\* The rank of v among the variables S, in std::map order
Pos(S, v) == Cardinality({u \in S : u < v}) + 1

\* GrPerm(perm, g): g seen through the renaming perm
PermGraph(g, perm) ==
    LET E == {e \in (DOMAIN perm) \X (DOMAIN perm) : <<perm[e[1]], perm[e[2]]>> \in DOMAIN g}
    IN  [e \in E |-> g[<<perm[e[1]], perm[e[2]]>>]]

\* perm_x of join and widen: 0, then a's vertex of each common variable
CommonPerm(a, S) ==
    [i \in 0..Cardinality(S) |->
        IF i = 0 THEN 0 ELSE a.vmap[CHOOSE v \in S : Pos(S, v) = i]]

\* out_vmap of join and widen
CommonVmap(S) == [v \in S |-> Pos(S, v)]

\* A vertex with an edge
Live(g, v) == \E e \in DOMAIN g : v \in {e[1], e[2]}

\* Seeded fault: only the edges of o between variables are compared
LeqNormalizedBoundsSkipped(x, o) ==
    LET Ren(ov) == IF ov = 0 THEN 0 ELSE x.vmap[VarOf(o, ov)]
    IN  /\ Cardinality(DOMAIN x.vmap) >= Cardinality(DOMAIN o.vmap)
        /\ \A v \in DOMAIN o.vmap : Live(o.g, o.vmap[v]) => v \in DOMAIN x.vmap
        /\ \A e \in DOMAIN o.g :
              LET s == Ren(e[1])
                  d == Ren(e[2])
              IN  \/ 0 \in {s, d}
                  \/ Has(x.g, s, d) /\ x.g[<<s, d>>] <= o.g[e]
                  \/ /\ Has(x.g, s, 0) /\ Has(x.g, 0, d)
                     /\ x.g[<<s, 0>>] + x.g[<<0, d>>] <= o.g[e]

\* operator<= once this is normalized: the vert_map size test, the
\* renaming of o's live vertices into this, and every edge of o (relations
\* and bounds) implied by a stronger edge of this or, failing that, by the
\* two bounds of this through 0
LeqNormalized(x, o) ==
    LET Ren(ov) == IF ov = 0 THEN 0 ELSE x.vmap[VarOf(o, ov)]
    IN  /\ Cardinality(DOMAIN x.vmap) >= Cardinality(DOMAIN o.vmap)
        /\ \A v \in DOMAIN o.vmap : Live(o.g, o.vmap[v]) => v \in DOMAIN x.vmap
        /\ \A e \in DOMAIN o.g :
              LET s == Ren(e[1])
                  d == Ren(e[2])
              IN  \/ Has(x.g, s, d) /\ x.g[<<s, d>>] <= o.g[e]
                  \/ /\ Has(x.g, s, 0) /\ Has(x.g, 0, d)
                     /\ x.g[<<s, 0>>] + x.g[<<0, d>>] <= o.g[e]

\* operator<=: the trivial cases, then normalize this
Leq(a, o) ==
    IF a.bot THEN TRUE
    ELSE IF o.bot THEN FALSE
    ELSE IF IsTop(o) THEN TRUE
    ELSE IF IsTop(a) THEN FALSE
    ELSE LeqNormalized(Normalize(a), o)

\* The deferred relations of gy's relations in gx: s -> 0 -> d of gx for
\* every relation s -> d of gy
Deferred(gx, gy) ==
    LET E == {e \in DOMAIN gy : 0 \notin {e[1], e[2]} /\ Has(gx, e[1], 0) /\ Has(gx, 0, e[2])}
    IN  [e \in E |-> gx[<<e[1], 0>>] + gx[<<0, e[2]>>]]

\* GrOps::meet of gx with the deferred relations, re-closed without 0
\* (close_after_meet) when that changed gx
WithDeferred(gx, gy) ==
    LET m == MeetGraphs(gx, Deferred(gx, gy))
    IN  IF m = gx THEN gx ELSE ShortestExcl(m)

\* GrOps::join: the edges of both, with the larger weight
JoinGraphs(g1, g2) ==
    [e \in DOMAIN g1 \cap DOMAIN g2 |-> Maximum(g1[e], g2[e])]

\* Seeded fault: std::min for std::max in the bridges
BridgesMin(gx, gy, sz) ==
    LET V      == 1..(sz - 1)
        Both(s, d) == Has(gx, s, d) /\ Has(gy, s, d)
        UbUp   == {v \in V : Both(0, v) /\ gx[<<0, v>>] < gy[<<0, v>>]}
        UbDown == {v \in V : Both(0, v) /\ gy[<<0, v>>] < gx[<<0, v>>]}
        LbDown == {v \in V : Both(v, 0) /\ gx[<<v, 0>>] < gy[<<v, 0>>]}
        LbUp   == {v \in V : Both(v, 0) /\ gy[<<v, 0>>] < gx[<<v, 0>>]}
        E      == {p \in (LbUp \X UbUp) \cup (LbDown \X UbDown) : p[1] # p[2]}
    IN  [p \in E |-> Minimum(gx[<<p[1], 0>>] + gx[<<0, p[2]>>],
                             gy[<<p[1], 0>>] + gy[<<0, p[2]>>])]

\* The relations d - s <= max of the two operands' ub(d) - lb(s), for
\* lower bounds that move one way and upper bounds that move the same way
Bridges(gx, gy, sz) ==
    LET V      == 1..(sz - 1)
        Both(s, d) == Has(gx, s, d) /\ Has(gy, s, d)
        UbUp   == {v \in V : Both(0, v) /\ gx[<<0, v>>] < gy[<<0, v>>]}
        UbDown == {v \in V : Both(0, v) /\ gy[<<0, v>>] < gx[<<0, v>>]}
        LbDown == {v \in V : Both(v, 0) /\ gx[<<v, 0>>] < gy[<<v, 0>>]}
        LbUp   == {v \in V : Both(v, 0) /\ gy[<<v, 0>>] < gx[<<v, 0>>]}
        E      == {p \in (LbUp \X UbUp) \cup (LbDown \X UbDown) : p[1] # p[2]}
    IN  [p \in E |-> Maximum(gx[<<p[1], 0>>] + gx[<<0, p[2]>>],
                             gy[<<p[1], 0>>] + gy[<<0, p[2]>>])]

\* operator|: the pointwise join of the two sides with their deferred
\* relations, the bridges, and isolated vertices collected from vert_map
JoinResult(jg, S) ==
    LET vm == CommonVmap(S)
    IN  [bot |-> FALSE, g |-> jg, n |-> Cardinality(S) + 1, unstable |-> {},
         vmap |-> Restrict(vm, {v \in S : Live(jg, vm[v])})]
JoinPermuted(gx, gy, S) ==
    JoinResult(ApplyDelta(JoinGraphs(WithDeferred(gx, gy), WithDeferred(gy, gx)),
                          Bridges(gx, gy, Cardinality(S) + 1)), S)
JoinNormalized(x, y) ==
    LET S == DOMAIN x.vmap \cap DOMAIN y.vmap
    IN  JoinPermuted(PermGraph(x.g, CommonPerm(x, S)), PermGraph(y.g, CommonPerm(y, S)), S)
Join(a, o) ==
    IF a.bot \/ IsTop(o) THEN o
    ELSE IF IsTop(a) \/ o.bot THEN a
    ELSE JoinNormalized(Normalize(a), Normalize(o))

\* operator&: the syntactic meet is bottom if it has a negative cycle
\* (select_potentials); it is re-closed without 0 and its bounds re-derived
\* if it differs from this's graph
CloseMeet(c) == ApplyDelta(c, BoundsDelta(c))
MeetResult(gx, mg, vm, sz) ==
    IF NegCycle(mg) THEN Bottom
    ELSE [bot |-> FALSE, vmap |-> vm, n |-> sz, unstable |-> {},
          g |-> IF mg = gx THEN mg ELSE CloseMeet(ShortestExcl(mg))]
\* The vertices: this's variables first, then o's others
MeetNormalized(x, y) ==
    LET Xv  == DOMAIN x.vmap
        Ov  == (DOMAIN y.vmap) \ Xv
        U   == Xv \cup Ov
        Idx(v) == IF v \in Xv THEN Pos(Xv, v) ELSE Cardinality(Xv) + Pos(Ov, v)
        VarAt(i) == CHOOSE v \in U : Idx(v) = i
        sz  == Cardinality(U) + 1
        px  == [i \in 0..(sz - 1) |-> IF i = 0 THEN 0
                                      ELSE IF VarAt(i) \in Xv THEN x.vmap[VarAt(i)] ELSE -1]
        py  == [i \in 0..(sz - 1) |-> IF i = 0 THEN 0
                                      ELSE IF VarAt(i) \in DOMAIN y.vmap THEN y.vmap[VarAt(i)] ELSE -1]
    IN  MeetResult(PermGraph(x.g, px), MeetGraphs(PermGraph(x.g, px), PermGraph(y.g, py)),
                   [v \in U |-> Idx(v)], sz)
Meet(a, o) ==
    IF a.bot \/ o.bot THEN Bottom
    ELSE IF IsTop(a) THEN o
    ELSE IF IsTop(o) THEN a
    ELSE MeetNormalized(Normalize(a), Normalize(o))

\* widen: o normalized, this taken as it is; an edge of this is kept, with
\* its weight, when o's is no weaker; a vertex that lost an edge is
\* unstable, and so is every vertex in this's unstable set
WidenPermuted(a, gx, gy, S) ==
    LET wg == [e \in {e \in DOMAIN gx : Has(gy, e[1], e[2]) /\ gy[e] <= gx[e]} |-> gx[e]]
    IN  [bot |-> FALSE, vmap |-> CommonVmap(S), n |-> Cardinality(S) + 1, g |-> wg,
         unstable |-> a.unstable \cup {e[1] : e \in (DOMAIN gx) \ (DOMAIN wg)}]
WidenNormalized(a, y) ==
    LET S == DOMAIN a.vmap \cap DOMAIN y.vmap
    IN  WidenPermuted(a, PermGraph(a.g, CommonPerm(a, S)), PermGraph(y.g, CommonPerm(y, S)), S)
Widen(a, o) ==
    IF a.bot THEN o
    ELSE IF o.bot THEN a
    ELSE WidenNormalized(a, Normalize(o))

\* narrow: a no-op, a normalized copy of a
Narrow(a, o) ==
    IF a.bot \/ o.bot THEN Bottom
    ELSE IF IsTop(a) THEN o
    ELSE Normalize(a)

-----------------------------------------------------------------------------
\* What a value of the domain is: a vert_map into the ids, a weighted graph
\* over the vertices, its size, and the unstable set
IsDbm(a) ==
    /\ a.bot \in BOOLEAN
    /\ DOMAIN a.vmap \subseteq Vars /\ Range(a.vmap) \subseteq Ids
    /\ DOMAIN a.g \subseteq Verts \X Verts /\ Range(a.g) \subseteq Int
    /\ a.n \in 1..(MaxVert + 1)
    /\ a.unstable \subseteq Verts

=============================================================================
