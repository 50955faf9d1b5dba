--------------------------- MODULE AnalyzerContract ---------------------------
(***************************************************************************)
(* What run_forward_analyzer promises (fwd_analyzer.cpp, the Result of the *)
(* iterator in the spec): called on a CFG, it returns, in one call, the    *)
(* tables pre and post with post[l] the transform of pre[l] for every     *)
(* label, pre[entry] above setup_entry(), and pre[l] above the post of     *)
(* each predecessor of l; it never changes the CFG. How the tables are    *)
(* found (the WTO walk, widening, narrowing) is left open.                 *)
(***************************************************************************)
EXTENDS Sequences, SequencesExt

CONSTANTS Labels, Entry, DomBottom, DomTop, DomLeq(_, _), DomApply(_, _)

VARIABLES prog, pre, post, returned

vars == <<prog, pre, post, returned>>

\* The transformer applied to every statement of block l, in order
Apply(l, v) == FoldLeft(LAMBDA a, s : DomApply(s, a), v, prog.stmts[l])

\* The tables of the constructor: bottom everywhere, setup_entry() at entry
InitPre == [l \in Labels |-> IF l = Entry THEN DomTop ELSE DomBottom]
InitPost == [l \in Labels |-> DomBottom]

IsPostFixpoint(p, q) ==
    \A l \in Labels :
        /\ q[l] = Apply(l, p[l])
        /\ l = Entry => DomLeq(DomTop, p[l])
        /\ \A r \in prog.preds[l] : DomLeq(q[r], p[l])

\* Called on any CFG: prog is whatever it is, and stays so
Init == /\ pre = InitPre
        /\ post = InitPost
        /\ returned = FALSE

\* The call returns some post-fixpoint and leaves the CFG as it was
Return == /\ ~returned
          /\ returned' = TRUE
          /\ IsPostFixpoint(pre', post')
          /\ UNCHANGED prog

Spec == Init /\ [][Return]_vars

=============================================================================
