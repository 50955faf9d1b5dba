---------------------------- MODULE FwdAnalyzer ----------------------------
(***************************************************************************)
(* interleaved_fwd_fixpoint_iterator_t of crab/fwd_analyzer.cpp           *)
(* (src/unnamed/part_001): run_forward_analyzer walks the weak            *)
(* topological order (WTO) of the CFG once. A vertex gets the join of its *)
(* predecessors' post-states and is transformed; a cycle is iterated at   *)
(* its head with join, then widening (increasing sequence), then with     *)
(* meet, then narrowing (decreasing sequence), and its body is visited,   *)
(* recursively, on every iteration.                                       *)
(*                                                                         *)
(* The recursion of operator()(wto_cycle_t&) is an explicit stack of      *)
(* frames; one action is one statement group of the source: a vertex     *)
(* visit, entering a cycle, the transform of the head, or the check at    *)
(* the end of an iteration. The domain is a parameter; the program (CFG, *)
(* WTO, statements) is fixed by Init.                                     *)
(***************************************************************************)
EXTENDS Integers, Sequences, FiniteSets, SequencesExt

CONSTANTS Labels,        \* label_t values of the CFG
          Entry,         \* cfg.entry()
          Programs,      \* the CFGs analysed: [preds, wto, stmts] records
          WideningDelay  \* _widening_delay

\* The abstract domain (ebpf_domain_t) as the iterator uses it: its bottom
\* and top, operator<=, |, &, widen and narrow, the transformer of one
\* statement, its statements, and what a value of it is.
CONSTANTS DomBottom, DomTop, DomLeq(_, _), DomJoin(_, _), DomMeet(_, _),
          DomWiden(_, _), DomNarrow(_, _), DomApply(_, _), DomStmts, DomValue(_)

\* setup_entry(): nothing is known on entry
EntryValue == DomTop

VARIABLES
    prog,   \* the program under analysis: preds, wto, and stmts per label
    pre,    \* _pre
    post,   \* _post
    skip,   \* _skip
    stack,  \* the frames of the recursive WTO walk, innermost last
    pc      \* "run" or "done"

vars == <<prog, pre, post, skip, stack, pc>>

-----------------------------------------------------------------------------
(* The weak topological order. A component is a vertex [kind |-> "v",      *)
(* node |-> l] or a cycle [kind |-> "c", head |-> h, body |-> <<...>>].    *)

\* member_component_visitor: l is the vertex, the head, or in the body
RECURSIVE IsMember(_, _)
IsMember(c, l) ==
    IF c.kind = "v" THEN c.node = l
    ELSE c.head = l \/ \E i \in DOMAIN c.body : IsMember(c.body[i], l)

\* wto_t::nesting: the heads of the cycles enclosing each label, outermost
\* first; a head is not part of its own nesting.
RECURSIVE NestPairs(_, _)
NestPairs(comps, outer) ==
    UNION {IF comps[i].kind = "v" THEN {<<comps[i].node, outer>>}
           ELSE {<<comps[i].head, outer>>}
                \cup NestPairs(comps[i].body, Append(outer, comps[i].head))
           : i \in DOMAIN comps}

Nesting(l) == (CHOOSE p \in NestPairs(prog.wto, <<>>) : p[1] = l)[2]

\* wto_nesting_t operator> : a is nested strictly deeper than b
NestedDeeper(a, b) == Len(a) > Len(b) /\ SubSeq(a, 1, Len(b)) = b

WtoLabels(wto) == {p[1] : p \in NestPairs(wto, <<>>)}

-----------------------------------------------------------------------------
(* The analyzer's helpers.                                                 *)

\* transform_to_post: every statement of the block, in order
Transform(l, v) == FoldLeft(LAMBDA a, s : DomApply(s, a), v, prog.stmts[l])

\* join_all_prevs: res |= post of each predecessor, from bottom, in the
\* ascending order of the std::set prev_nodes
JoinOver(S) == FoldLeft(LAMBDA a, p : DomJoin(a, post[p]), DomBottom, SetToSortSeq(S, <))
JoinAllPrevs(l) == JoinOver(prog.preds[l])

\* extrapolate: join while iteration <= _widening_delay, then widen
Extrapolate(iteration, before, after) ==
    IF iteration <= WideningDelay THEN DomJoin(before, after)
    ELSE DomWiden(before, after)

\* Seeded fault: the meet keyed to an iteration that never comes, so the
\* decreasing sequence only ever narrows
RefineNoMeet(iteration, before, after) ==
    IF iteration = 0 THEN DomMeet(before, after) ELSE DomNarrow(before, after)

\* refine: meet on the first decreasing iteration, then narrow
Refine(iteration, before, after) ==
    IF iteration = 1 THEN DomMeet(before, after) ELSE DomNarrow(before, after)

\* The iteration counter only matters up to WideningDelay + 1.
NextIteration(i) == IF i > WideningDelay THEN i ELSE i + 1

Top1 == stack[Len(stack)]
SetTop(f) == [stack EXCEPT ![Len(stack)] = f]

-----------------------------------------------------------------------------
(* The constructor: every label maps to bottom, entry to setup_entry().    *)

InitialPre == [l \in Labels |-> IF l = Entry THEN EntryValue ELSE DomBottom]
InitialPost == [l \in Labels |-> DomBottom]

Init ==
    /\ prog \in Programs
    /\ pre = InitialPre
    /\ post = InitialPost
    /\ skip = TRUE
    /\ stack = << [head |-> Entry, body |-> prog.wto, idx |-> 1,
                   phase |-> "top", atHead |-> FALSE, iter |-> 1,
                   pre |-> DomBottom] >>
    /\ pc = "run"

\* The component the innermost frame visits next
Pending == /\ pc = "run"
           /\ ~Top1.atHead
           /\ Top1.idx <= Len(Top1.body)
Current == Top1.body[Top1.idx]

\* operator()(wto_vertex_t&): skip until entry is seen; the pre-state is
\* _pre[entry] for entry and the join of the predecessors otherwise.
VisitVertex ==
    /\ Pending
    /\ Current.kind = "v"
    /\ LET node == Current.node
           skip2 == skip /\ node # Entry
           v == IF node = Entry THEN pre[node] ELSE JoinAllPrevs(node)
       IN  /\ skip' = skip2
           /\ IF skip2 THEN UNCHANGED <<pre, post>>
              ELSE /\ pre' = [pre EXCEPT ![node] = v]
                   /\ post' = [post EXCEPT ![node] = Transform(node, v)]
    /\ stack' = SetTop([Top1 EXCEPT !.idx = @ + 1])
    /\ UNCHANGED <<prog, pc>>

\* operator()(wto_cycle_t&), up to the loops: a cycle not containing entry
\* is skipped while skipping; the initial pre-state is _pre[entry] if
\* entry is in the cycle, and otherwise the join of the predecessors of the
\* head that are not nested deeper than the head (no back edges).
EnterCycle ==
    /\ Pending
    /\ Current.kind = "c"
    /\ LET c == Current
           h == c.head
           entryIn == skip /\ IsMember(c, Entry)
           fwd == {p \in prog.preds[h] : ~NestedDeeper(Nesting(p), Nesting(h))}
           v == IF entryIn THEN pre[Entry] ELSE JoinOver(fwd)
           parent == [Top1 EXCEPT !.idx = @ + 1]
       IN  IF skip /\ ~entryIn
             THEN /\ stack' = SetTop(parent)
                  /\ UNCHANGED skip
             ELSE /\ skip' = FALSE
                  /\ stack' = Append(SetTop(parent),
                                     [head |-> h, body |-> c.body, idx |-> 1,
                                      phase |-> "inc", atHead |-> TRUE,
                                      iter |-> 1, pre |-> v])
    /\ UNCHANGED <<prog, pre, post, pc>>

\* Start of an increasing iteration: set_pre(head, pre); transform_to_post.
HeadIncreasing ==
    /\ pc = "run"
    /\ Top1.atHead /\ Top1.phase = "inc"
    /\ pre' = [pre EXCEPT ![Top1.head] = Top1.pre]
    /\ post' = [post EXCEPT ![Top1.head] = Transform(Top1.head, Top1.pre)]
    /\ stack' = SetTop([Top1 EXCEPT !.atHead = FALSE, !.idx = 1])
    /\ UNCHANGED <<prog, skip, pc>>

\* Start of a decreasing iteration: transform_to_post only.
HeadDecreasing ==
    /\ pc = "run"
    /\ Top1.atHead /\ Top1.phase = "dec"
    /\ post' = [post EXCEPT ![Top1.head] = Transform(Top1.head, Top1.pre)]
    /\ stack' = SetTop([Top1 EXCEPT !.atHead = FALSE, !.idx = 1])
    /\ UNCHANGED <<prog, pre, skip, pc>>

\* Seeded faults of the end of an increasing iteration: the post-fixpoint
\* test for equality instead of inclusion, and the stop without set_pre.
CheckIncreasingExactTest ==
    /\ pc = "run"
    /\ ~Top1.atHead /\ Top1.phase = "inc" /\ Top1.idx > Len(Top1.body)
    /\ LET f == Top1
           newPre == JoinAllPrevs(f.head)
       IN  IF newPre = f.pre
             THEN /\ pre' = [pre EXCEPT ![f.head] = newPre]
                  /\ stack' = SetTop([f EXCEPT !.pre = newPre, !.phase = "dec",
                                               !.iter = 1, !.atHead = TRUE])
             ELSE /\ stack' = SetTop([f EXCEPT
                                 !.pre = Extrapolate(f.iter, f.pre, newPre),
                                 !.iter = NextIteration(f.iter),
                                 !.atHead = TRUE])
                  /\ UNCHANGED pre
    /\ UNCHANGED <<prog, post, skip, pc>>

CheckIncreasingNoSetPre ==
    /\ pc = "run"
    /\ ~Top1.atHead /\ Top1.phase = "inc" /\ Top1.idx > Len(Top1.body)
    /\ LET f == Top1
           newPre == JoinAllPrevs(f.head)
       IN  IF DomLeq(newPre, f.pre)
             THEN stack' = SetTop([f EXCEPT !.pre = newPre, !.phase = "dec",
                                           !.iter = 1, !.atHead = TRUE])
             ELSE stack' = SetTop([f EXCEPT
                                 !.pre = Extrapolate(f.iter, f.pre, newPre),
                                 !.iter = NextIteration(f.iter),
                                 !.atHead = TRUE])
    /\ UNCHANGED <<prog, pre, post, skip, pc>>

\* End of an increasing iteration: stop at a post-fixpoint, keeping the
\* new pre-state at the head, else extrapolate and go round again.
CheckIncreasing ==
    /\ pc = "run"
    /\ ~Top1.atHead /\ Top1.phase = "inc" /\ Top1.idx > Len(Top1.body)
    /\ LET f == Top1
           newPre == JoinAllPrevs(f.head)
       IN  IF DomLeq(newPre, f.pre)
             THEN /\ pre' = [pre EXCEPT ![f.head] = newPre]
                  /\ stack' = SetTop([f EXCEPT !.pre = newPre, !.phase = "dec",
                                               !.iter = 1, !.atHead = TRUE])
             ELSE /\ stack' = SetTop([f EXCEPT
                                 !.pre = Extrapolate(f.iter, f.pre, newPre),
                                 !.iter = NextIteration(f.iter),
                                 !.atHead = TRUE])
                  /\ UNCHANGED pre
    /\ UNCHANGED <<prog, post, skip, pc>>

\* End of a decreasing iteration: return from the cycle once pre <= the
\* new pre-state, else refine, record it at the head and go round again.
CheckDecreasing ==
    /\ pc = "run"
    /\ ~Top1.atHead /\ Top1.phase = "dec" /\ Top1.idx > Len(Top1.body)
    /\ LET f == Top1
           newPre == JoinAllPrevs(f.head)
           refined == Refine(f.iter, f.pre, newPre)
       IN  IF DomLeq(f.pre, newPre)
             THEN /\ stack' = SubSeq(stack, 1, Len(stack) - 1)
                  /\ UNCHANGED pre
             ELSE /\ pre' = [pre EXCEPT ![f.head] = refined]
                  /\ stack' = SetTop([f EXCEPT !.pre = refined,
                                               !.iter = NextIteration(f.iter),
                                               !.atHead = TRUE])
    /\ UNCHANGED <<prog, post, skip, pc>>

\* The walk over the top-level components is over.
Finish ==
    /\ pc = "run"
    /\ Top1.phase = "top" /\ Top1.idx > Len(Top1.body)
    /\ pc' = "done"
    /\ UNCHANGED <<prog, pre, post, skip, stack>>

\* run_forward_analyzer has returned its two tables.
Finished ==
    /\ pc = "done"
    /\ UNCHANGED vars

Step ==
    \/ VisitVertex \/ EnterCycle \/ HeadIncreasing \/ HeadDecreasing
    \/ CheckIncreasing \/ CheckDecreasing \/ Finish

Next == Step \/ Finished

\* The analyzer is a single sequential call: it keeps stepping.
Spec == Init /\ [][Next]_vars /\ WF_vars(Step)


-----------------------------------------------------------------------------
(* The contract of the WTO (wto.hpp is not part of the sources): every     *)
(* label once; an edge goes forward in the order, or back to the head of  *)
(* a cycle that contains its source.                                      *)

RECURSIVE WtoSeq(_)
WtoSeq(comps) ==
    FlattenSeq([i \in DOMAIN comps |->
                  IF comps[i].kind = "v" THEN <<comps[i].node>>
                  ELSE <<comps[i].head>> \o WtoSeq(comps[i].body)])

IsWto(preds, wto) ==
    LET order == WtoSeq(wto)
        pos(l) == CHOOSE i \in DOMAIN order : order[i] = l
        nest(l) == (CHOOSE p \in NestPairs(wto, <<>>) : p[1] = l)[2]
    IN  /\ IsInjective(order)
        /\ \A l \in Range(order) : \A p \in preds[l] :
              \/ pos(p) < pos(l)
              \/ p = l \/ l \in Range(nest(p))

-----------------------------------------------------------------------------
(* Properties.                                                             *)

\* The iterator implements the contract of run_forward_analyzer: the
\* tables are the constructor's until the walk is over, and then a
\* post-fixpoint that no later step changes, over the CFG it was given.
\* The post-fixpoint is what makes the tables sound: every block's post is
\* the transform of its pre, and every pre covers the post of each
\* predecessor (entry's covers setup_entry()).
\* Every step of the WTO walk, with its widening, meet, narrowing and the
\* re-analysis of nested cycles, is a stuttering step of the contract.
Contract == INSTANCE AnalyzerContract WITH
    pre <- IF pc = "done" THEN pre ELSE InitialPre,
    post <- IF pc = "done" THEN post ELSE InitialPost,
    returned <- pc = "done"
ImplementsContract == Contract!Spec

\* run_forward_analyzer returns: every increasing and every decreasing
\* sequence at a cycle head stops.
AnalyzerTerminates == <>(pc = "done")

=============================================================================
