-------------------------- MODULE SplitDBMMachine --------------------------
(***************************************************************************)
(* Two SplitDBM values, a and b, each operated on by the transfer          *)
(* functions of split_dbm.cpp and combined with the other by its lattice   *)
(* operations, and the concrete points (within Window) each one must      *)
(* contain: the client's view of the domain, as the iterator and the      *)
(* transformer use it.                                                     *)
(***************************************************************************)
EXTENDS SplitDBM

CONSTANTS Itvs,     \* intervals <<lo, hi>> given to set
          Offsets,  \* constants k of apply(op, x, y, k)
          ConstOps, \* the ops of apply(op, x, y, k): add, sub, mul
          VarOps,   \* the ops of apply(op, x, y, z): add, sub, mul
          Renames,  \* pairs <<from, to>> of rename(from, to)
          Csts,     \* constraints [pos, cp, neg, cn, k, kind] given to +=
          Window,   \* the values of the concrete points followed
          MaxSteps  \* operations per behaviour

\* The model's add_linear_leq handles unit coefficients and those that
\* convert with neither sign
ASSUME \A c \in Csts : \A w \in {c.cp, c.cn} : w = 1 \/ ~(Fits(w) \/ Fits(-w))

VARIABLES reg, conc, steps
vars == <<reg, conc, steps>>

Regs == {"a", "b"}
Other(r) == CHOOSE o \in Regs : o # r
Points == [Vars -> Window]

\* p satisfies every edge of a; vertex 0 is the value 0
Sat(a, p) ==
    LET Val(v) == IF v = 0 THEN 0 ELSE p[VarOf(a, v)]
    IN  ~a.bot /\ \A e \in DOMAIN a.g : Val(e[2]) - Val(e[1]) <= a.g[e]

Gamma(a) == {p \in Points : Sat(a, p)}

Init == /\ reg = [r \in Regs |-> Top]
        /\ conc = [r \in Regs |-> Points]
        /\ steps = 0

\* One operation on r: the domain's result, and the concrete points after it
Step(r, res, pts) ==
    /\ steps < MaxSteps
    /\ reg' = [reg EXCEPT ![r] = res]
    /\ conc' = [conc EXCEPT ![r] = pts]
    /\ steps' = steps + 1

DoSet(r, x, itv) ==
    Step(r, SetItv(reg[r], x, itv[1], itv[2]),
         {[p EXCEPT ![x] = w] : p \in conc[r], w \in {w \in Window : itv[1] <= w /\ w <= itv[2]}})

Eval(op, u, w) == CASE op = "add" -> u + w [] op = "sub" -> u - w [] op = "mul" -> u * w

\* apply(op, x, y, k) and apply(op, x, y, z): the points whose result
\* stays within Window, with x replaced by it
DoApplyConst(r, op, x, y, k) ==
    Step(r, ApplyConst(reg[r], op, x, y, k),
         {[p EXCEPT ![x] = Eval(op, p[y], k)] : p \in {q \in conc[r] : Eval(op, q[y], k) \in Window}})
DoApplyVar(r, op, x, y, z) ==
    Step(r, ApplyVar(reg[r], op, x, y, z),
         {[p EXCEPT ![x] = Eval(op, p[y], p[z])] : p \in {q \in conc[r] : Eval(op, q[y], q[z]) \in Window}})

DoAssume(r, c) ==
    LET Lhs(p) == (IF c.pos = NoVar THEN 0 ELSE c.cp * p[c.pos])
                  - (IF c.neg = NoVar THEN 0 ELSE c.cn * p[c.neg])
        Holds(p) == CASE c.kind = "leq" -> Lhs(p) <= c.k [] c.kind = "lt" -> Lhs(p) < c.k
                      [] c.kind = "eq" -> Lhs(p) = c.k   [] c.kind = "neq" -> Lhs(p) # c.k
    IN  Step(r, AddCst(reg[r], c), {p \in conc[r] : Holds(p)})

\* The precondition of rename (spec 4.2.4, caller-enforced): parallel
\* vectors without repeats, and no name of to bound in a unless it is
\* renamed away
RenameOk(a, from, to) ==
    /\ Len(from) = Len(to) /\ IsInjective(from) /\ IsInjective(to)
    /\ \A i \in DOMAIN to : to[i] \in DOMAIN a.vmap => to[i] \in Range(from)
\* The points of S with every from[i] moved to to[i]; a name renamed away
\* and not renamed to takes any value
RenamedPts(S, from, to) ==
    LET Src(v) == from[CHOOSE i \in DOMAIN to : to[i] = v]
        Gone == Range(from) \ Range(to)
    IN  {[v \in Vars |-> IF v \in Range(to) THEN p[Src(v)] ELSE IF v \in Gone THEN f[v] ELSE p[v]] :
            p \in S, f \in [Gone -> Window]}

DoRename(r, from, to) ==
    /\ RenameOk(reg[r], from, to)
    /\ Step(r, Rename(reg[r], from, to), RenamedPts(conc[r], from, to))

DoForget(r, x) ==
    Step(r, Forget(reg[r], x), {[p EXCEPT ![x] = w] : p \in conc[r], w \in Window})

DoJoin(r) == Step(r, Join(reg[r], reg[Other(r)]), conc[r] \cup conc[Other(r)])
DoMeet(r) == Step(r, Meet(reg[r], reg[Other(r)]), conc[r] \cap conc[Other(r)])
DoWiden(r) == Step(r, Widen(reg[r], reg[Other(r)]), conc[r] \cup conc[Other(r)])
DoNarrow(r) == Step(r, Narrow(reg[r], reg[Other(r)]), conc[r] \cap conc[Other(r)])

Done == steps = MaxSteps /\ UNCHANGED vars

Next ==
    \/ \E r \in Regs :
         \/ \E x \in Vars, itv \in Itvs : DoSet(r, x, itv)
         \/ \E op \in ConstOps, x, y \in Vars, k \in Offsets : DoApplyConst(r, op, x, y, k)
         \/ \E op \in VarOps, x, y, z \in Vars : DoApplyVar(r, op, x, y, z)
         \/ \E c \in Csts : DoAssume(r, c)
         \/ \E x \in Vars : DoForget(r, x)
         \/ \E ft \in Renames : DoRename(r, ft[1], ft[2])
         \/ DoJoin(r) \/ DoMeet(r) \/ DoWiden(r) \/ DoNarrow(r)
    \/ Done

Spec == Init /\ [][Next]_vars

-----------------------------------------------------------------------------
(* Properties                                                              *)

TypeOK ==
    /\ DOMAIN reg = Regs /\ \A r \in Regs : IsDbm(reg[r])
    /\ conc \in [Regs -> SUBSET Points]
    /\ steps \in 0..MaxSteps

\* Transfer soundness (set, assign, +=, forget, and the lattice operations
\* of split_dbm.cpp): every concrete point an operation can produce from
\* points of its operands satisfies every edge of the result.
Sound == \A r \in Regs : \A p \in conc[r] : Sat(reg[r], p)

\* The split normal form: the graph without vertex 0 is closed, and the
\* bounds are tight through any vertex. Only a relation implied by two
\* bounds (a path through 0) may be absent.
Tight(g, i, k, j) ==
    Has(g, i, k) /\ Has(g, k, j) =>
        Has(g, i, j) /\ g[<<i, j>>] <= g[<<i, k>>] + g[<<k, j>>]
Closed(a) ==
    \A i, k, j \in Verts :
        (i # j /\ k \notin {i, j} /\ (k # 0 \/ 0 \in {i, j})) => Tight(a.g, i, k, j)

\* Every operation but widen leaves a normalized graph (the comment at
\* normalize(): "Always maintained in normal form, except for widening").
NormalForm == \A r \in Regs : ~reg[r].bot /\ reg[r].unstable = {} => Closed(reg[r])

\* The closure the spec (section 8) states after every lattice operation
\* that returns non-bottom: for all vertex triples, vertex 0 included as
\* the middle one. Checked on the join (operator|) of the two values.
SpecClosure ==
    \A r \in Regs :
        LET j == Join(reg[r], reg[Other(r)])
        IN  ~j.bot => \A i, k, l \in Verts : (i # l /\ k \notin {i, l}) => Tight(j.g, i, k, l)

\* normalize() restores the normal form after widen: re-closing from the
\* vertices in unstable is enough.
NormalizeCloses == \A r \in Regs : ~reg[r].bot => Closed(Normalize(reg[r]))

\* operator<= is sound: when it answers true, every point of a within
\* the window is a point of o.
LeqSound ==
    \A r, o \in Regs : Leq(reg[r], reg[o]) => Gamma(reg[r]) \subseteq Gamma(reg[o])


\* The lattice law a [= a | b of the spec, as operator<= decides it: the
\* join of the two values (operator|) is found to be above each of them.
JoinUpperBound ==
    \A r \in Regs : LET j == Join(reg[r], reg[Other(r)]) IN Leq(reg[r], j) /\ Leq(reg[Other(r)], j)

\* rename is exact: for every rename whose precondition the value meets,
\* the renamed vert_map denotes exactly the points of the value with the
\* names moved, a swap (from = <<x, y>>, to = <<y, x>>) included, which
\* only building a new vert_map (part_002:994) gets right.
RenameExact ==
    \A r \in Regs, ft \in Renames :
        RenameOk(reg[r], ft[1], ft[2]) =>
            Gamma(Rename(reg[r], ft[1], ft[2])) = RenamedPts(Gamma(reg[r]), ft[1], ft[2])
=============================================================================
