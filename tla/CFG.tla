-------------------------------- MODULE CFG --------------------------------
(***************************************************************************)
(* The control-flow graph of crab/cfg.hpp (src/unnamed/part_000): cfg_t   *)
(* keeps a map from label to basic_block_t, and every block keeps a set   *)
(* of predecessor labels (m_prev) and of successor labels (m_next).       *)
(* The model covers building the graph (insert, >>, remove), the         *)
(* structural pass cfg_t::simplify(), which merges straight-line chains   *)
(* one step of its inner loop at a time, and the two pruning passes       *)
(* remove_unreachable_blocks / remove_useless_blocks.                     *)
(*                                                                         *)
(* Instructions are abstracted to the label of the block they were        *)
(* inserted into; the synthetic entry and exit blocks hold none.          *)
(***************************************************************************)
EXTENDS Integers, Sequences, FiniteSets, SequencesExt

CONSTANTS Labels,       \* the label_t values, ordered as integers
          Entry, Exit,  \* the labels given to cfg_t(entry, exit)
          EdgeUniverse, \* the edges the CFG builder may add with >>
          MaxOutDegree  \* successors of one block (fallthrough and jump)

ASSUME /\ Labels \subseteq Int /\ {Entry, Exit} \subseteq Labels
       /\ Entry # Exit
       /\ EdgeUniverse \subseteq Labels \X Labels
       /\ MaxOutDegree \in Nat \ {0}

VARIABLES
    cfg,       \* [blocks: DOMAIN m_blocks, next: m_next, prev: m_prev,
               \*  ts: m_ts, exit: m_exit]
    worklist,  \* the std::set<label_t> worklist of simplify()
    cur,       \* `label' of the outer loop, the block bb absorbing chains
    pc,        \* "build", "pruned", "outer", "inner", "done" or "abort"
    orig,      \* ghost: the value of cfg when simplify() started
    chain      \* ghost: the original blocks merged into each block, in order

vars == <<cfg, worklist, cur, pc, orig, chain>>

Phases == {"build", "unreachable", "useless", "pruned",
           "outer", "inner", "done", "abort"}

-----------------------------------------------------------------------------
(* Edge primitives of basic_block_t and the removal of cfg_t::remove.      *)

\* basic_block_t::operator>> : add the edge a -> b to both sets
Link(g, a, b) == [g EXCEPT !.next[a] = @ \cup {b}, !.prev[b] = @ \cup {a}]

\* basic_block_t::operator-= : drop the edge a -> b from both sets
Unlink(g, a, b) == [g EXCEPT !.next[a] = @ \ {b}, !.prev[b] = @ \ {a}]

\* a >> c for every c in S (the rewiring loop of simplify)
LinkAll(g, a, S) ==
    [g EXCEPT !.next[a] = @ \cup S,
              !.prev = [b \in Labels |-> IF b \in S THEN @[b] \cup {a}
                                                      ELSE @[b]]]

\* The edges cfg_t::remove collects in dead_edges: every edge into or out
\* of l except a self-loop.
DeadEdges(g, l) == {<<p, l>> : p \in g.prev[l] \ {l}}
                   \cup {<<l, s>> : s \in g.next[l] \ {l}}

UnlinkAll(g, E) ==
    [g EXCEPT !.next = [a \in Labels |-> @[a] \ {e[2] : e \in {f \in E : f[1] = a}}],
              !.prev = [b \in Labels |-> @[b] \ {e[1] : e \in {f \in E : f[2] = b}}]]

\* Seeded faults of cfg_t::remove: the erased block's entries are dropped
\* from the maps instead of emptied, or its neighbours keep their edges.
EraseBlocksDropKeys(g, S) ==
    LET h == UnlinkAll(g, UNION {DeadEdges(g, l) : l \in S})
    IN  [h EXCEPT !.blocks = @ \ S,
                  !.next = [l \in Labels \ S |-> @[l]],
                  !.prev = [l \in Labels \ S |-> @[l]]]

EraseBlocksNoDeadEdges(g, S) ==
    [g EXCEPT !.blocks = @ \ S,
              !.next = [l \in Labels |-> IF l \in S THEN {} ELSE @[l]],
              !.prev = [l \in Labels |-> IF l \in S THEN {} ELSE @[l]],
              !.ts = [l \in Labels |-> IF l \in S THEN <<>> ELSE @[l]]]

\* The body of cfg_t::remove after its two checks: drop the dead edges,
\* then erase the block (its own sets, self-loop included, go with it).
EraseBlocks(g, S) ==
    LET h == UnlinkAll(g, UNION {DeadEdges(g, l) : l \in S})
    IN  [h EXCEPT !.blocks = @ \ S,
                  !.next = [l \in Labels |-> IF l \in S THEN {} ELSE @[l]],
                  !.prev = [l \in Labels |-> IF l \in S THEN {} ELSE @[l]],
                  !.ts = [l \in Labels |-> IF l \in S THEN <<>> ELSE @[l]]]

InDegree(g, l) == Cardinality(g.prev[l])
OutDegree(g, l) == Cardinality(g.next[l])

\* *(rng.begin()) of get_child / get_parent, used when the set has one element
TheOnly(S) == CHOOSE x \in S : TRUE

\* mark_alive_blocks(l, view, visited): the labels reachable from the start
\* set along `succ' (m_next for cfg_t, m_prev for the reversed view cfg_rev_t).
RECURSIVE MarkAlive(_, _)
MarkAlive(succ, S) ==
    LET S2 == S \cup UNION {succ[l] : l \in S}
    IN  IF S2 = S THEN S ELSE MarkAlive(succ, S2)


-----------------------------------------------------------------------------
(* The constructor cfg_t(entry, exit) creates the two empty blocks.        *)

Init ==
    /\ cfg = [blocks |-> {Entry, Exit},
              next   |-> [l \in Labels |-> {}],
              prev   |-> [l \in Labels |-> {}],
              ts     |-> [l \in Labels |-> <<>>],
              exit   |-> Exit]
    /\ worklist = {}
    /\ cur = Entry
    /\ pc = "build"
    /\ orig = cfg
    /\ chain = [l \in Labels |-> <<>>]

(* Building. cfg_t::insert(l) adds an empty block, and the builder appends *)
(* the block's instruction (basic_block_t::insert).                        *)
Insert(l) ==
    /\ pc = "build"
    /\ l \notin cfg.blocks
    /\ cfg' = [cfg EXCEPT !.blocks = @ \cup {l}, !.ts[l] = <<l>>]
    /\ UNCHANGED <<worklist, cur, pc, orig, chain>>

\* basic_block_t::operator>> between two existing blocks
Connect(a, b) ==
    /\ pc = "build"
    /\ {a, b} \subseteq cfg.blocks
    /\ <<a, b>> \in EdgeUniverse
    /\ b \notin cfg.next[a]
    /\ OutDegree(cfg, a) < MaxOutDegree
    /\ cfg' = Link(cfg, a, b)
    /\ UNCHANGED <<worklist, cur, pc, orig, chain>>

\* cfg_t::remove of a block other than entry and exit
RemoveBlock(l) ==
    /\ pc = "build"
    /\ l \in cfg.blocks \ {Entry, cfg.exit}
    /\ cfg' = EraseBlocks(cfg, {l})
    /\ UNCHANGED <<worklist, cur, pc, orig, chain>>

-----------------------------------------------------------------------------
(* cfg_t::simplify(). The worklist starts with every label; the outer loop *)
(* takes the smallest one. A block that is the only child of a single-    *)
(* child parent is skipped (the parent's chain will absorb it); any other *)
(* block absorbs its chain of single-parent single-child successors, one  *)
(* iteration of the inner while loop per step.                            *)

\* A call of simplify(): fill the worklist (its first line) and snapshot
\* the ghosts.
SimplifyCall ==
    /\ worklist' = cfg.blocks
    /\ pc' = "outer"
    /\ orig' = cfg
    /\ chain' = [l \in Labels |-> IF l \in cfg.blocks THEN <<l>> ELSE <<>>]
    /\ UNCHANGED <<cfg, cur>>
SimplifyStart == pc \in {"build", "pruned"} /\ SimplifyCall

OuterPopKeepLabel ==
    /\ pc = "outer"
    /\ worklist # {}
    /\ LET label == Min(worklist) IN
         /\ UNCHANGED worklist
         /\ IF label \notin cfg.blocks
              THEN pc' = "abort"
              ELSE IF /\ InDegree(cfg, label) = 1
                      /\ OutDegree(cfg, TheOnly(cfg.prev[label])) = 1
                     THEN pc' = "outer"
                     ELSE pc' = "inner"
         /\ cur' = label
    /\ UNCHANGED <<cfg, orig, chain>>

OuterPop ==
    /\ pc = "outer"
    /\ worklist # {}
    /\ LET label == Min(worklist) IN
         /\ worklist' = worklist \ {label}
         /\ IF label \notin cfg.blocks
              THEN pc' = "abort"                     \* get_node: CRAB_ERROR
              ELSE IF /\ InDegree(cfg, label) = 1
                      /\ OutDegree(cfg, TheOnly(cfg.prev[label])) = 1
                     THEN pc' = "outer"              \* continue
                     ELSE pc' = "inner"
         /\ cur' = label
    /\ UNCHANGED <<cfg, orig, chain>>

OuterDone ==
    /\ pc = "outer"
    /\ worklist = {}
    /\ pc' = "done"
    /\ UNCHANGED <<cfg, worklist, cur, orig, chain>>

\* The inner loop ends: more than one child, the child is bb itself, or
\* the child has more than one parent.
InnerStop ==
    /\ pc = "inner"
    /\ \/ OutDegree(cfg, cur) # 1
       \/ /\ OutDegree(cfg, cur) = 1
          /\ LET n == TheOnly(cfg.next[cur])
             IN  n = cur \/ InDegree(cfg, n) # 1
    /\ pc' = "outer"
    /\ UNCHANGED <<cfg, worklist, cur, orig, chain>>

\* Seeded faults of the inner loop: move_back prepends next_bb's
\* statements, or m_exit is not moved to bb when next_bb is the exit.
MergeSwapped ==
    /\ pc = "inner"
    /\ OutDegree(cfg, cur) = 1
    /\ LET n     == TheOnly(cfg.next[cur])
           exit2 == IF n = cfg.exit THEN cur ELSE cfg.exit
           g1    == Unlink([cfg EXCEPT !.ts[cur] = cfg.ts[n] \o @,
                                       !.exit = exit2], cur, n)
           g2    == LinkAll(g1, cur, g1.next[n])
       IN  /\ n # cur
           /\ InDegree(cfg, n) = 1
           /\ worklist' = worklist \ {n}
           /\ chain' = [chain EXCEPT ![cur] = @ \o chain[n], ![n] = <<>>]
           /\ IF n \in {Entry, exit2}
                THEN cfg' = g2 /\ pc' = "abort"
                ELSE cfg' = EraseBlocks(g2, {n}) /\ pc' = "inner"
    /\ UNCHANGED <<cur, orig>>

MergeNoExitUpdate ==
    /\ pc = "inner"
    /\ OutDegree(cfg, cur) = 1
    /\ LET n     == TheOnly(cfg.next[cur])
           g1    == Unlink([cfg EXCEPT !.ts[cur] = @ \o cfg.ts[n]], cur, n)
           g2    == LinkAll(g1, cur, g1.next[n])
       IN  /\ n # cur
           /\ InDegree(cfg, n) = 1
           /\ worklist' = worklist \ {n}
           /\ chain' = [chain EXCEPT ![cur] = @ \o chain[n], ![n] = <<>>]
           /\ IF n \in {Entry, cfg.exit}
                THEN cfg' = g2 /\ pc' = "abort"
                ELSE cfg' = EraseBlocks(g2, {n}) /\ pc' = "inner"
    /\ UNCHANGED <<cur, orig>>

\* Seeded fault: the inner while loop taken as an if (one child merged)
MergeOnce ==
    /\ pc = "inner"
    /\ OutDegree(cfg, cur) = 1
    /\ LET n     == TheOnly(cfg.next[cur])
           exit2 == IF n = cfg.exit THEN cur ELSE cfg.exit
           g1    == Unlink([cfg EXCEPT !.ts[cur] = @ \o cfg.ts[n],
                                       !.exit = exit2], cur, n)
           g2    == LinkAll(g1, cur, g1.next[n])
       IN  /\ n # cur
           /\ InDegree(cfg, n) = 1
           /\ worklist' = worklist \ {n}
           /\ chain' = [chain EXCEPT ![cur] = @ \o chain[n], ![n] = <<>>]
           /\ IF n \in {Entry, exit2}
                THEN cfg' = g2 /\ pc' = "abort"
                ELSE cfg' = EraseBlocks(g2, {n}) /\ pc' = "outer"
    /\ UNCHANGED <<cur, orig>>

\* One iteration of the inner loop: bb absorbs its only child next_bb.
\* The statements move, bb's edge to next_bb goes, bb is linked to
\* next_bb's children, and remove(next_bb) runs its entry/exit checks
\* before erasing it.
Merge ==
    /\ pc = "inner"
    /\ OutDegree(cfg, cur) = 1
    /\ LET n     == TheOnly(cfg.next[cur])
           exit2 == IF n = cfg.exit THEN cur ELSE cfg.exit
           g1    == Unlink([cfg EXCEPT !.ts[cur] = @ \o cfg.ts[n],
                                       !.exit = exit2], cur, n)
           g2    == LinkAll(g1, cur, g1.next[n])
       IN  /\ n # cur
           /\ InDegree(cfg, n) = 1
           /\ worklist' = worklist \ {n}
           /\ chain' = [chain EXCEPT ![cur] = @ \o chain[n], ![n] = <<>>]
           /\ IF n \in {Entry, exit2}
                THEN /\ cfg' = g2                      \* remove: CRAB_ERROR
                     /\ pc' = "abort"
                ELSE /\ cfg' = EraseBlocks(g2, {n})
                     /\ pc' = "inner"
    /\ UNCHANGED <<cur, orig>>

-----------------------------------------------------------------------------
(* The pruning passes. Both are private members of cfg_t that simplify()  *)
(* does not call; the spec's simplify() runs them before the merging.     *)

\* remove_unreachable_blocks: every block not reachable from entry goes;
\* an unreachable exit is a CRAB_ERROR.
RemoveUnreachableBlocks ==
    /\ pc = "build"
    /\ LET dead == cfg.blocks \ MarkAlive(cfg.next, {Entry})
       IN  IF cfg.exit \in dead
             THEN /\ pc' = "abort" /\ UNCHANGED cfg
             ELSE /\ cfg' = EraseBlocks(cfg, dead)
                  /\ pc' = "unreachable"
    /\ UNCHANGED <<worklist, cur, orig, chain>>

\* Seeded fault: the useless blocks are collected but never removed.
RemoveUselessBlocksNoErase ==
    /\ pc = "unreachable"
    /\ LET useless == cfg.blocks \ MarkAlive(cfg.prev, {cfg.exit})
       IN  IF Entry \in useless
             THEN /\ pc' = "abort" /\ UNCHANGED cfg
             ELSE /\ UNCHANGED cfg
                  /\ pc' = "pruned"
    /\ UNCHANGED <<worklist, cur, orig, chain>>

\* remove_useless_blocks: walk the reversed view from exit; a block that
\* cannot reach exit goes, and remove() refuses to erase entry.
RemoveUselessBlocks ==
    /\ pc = "unreachable"
    /\ LET useless == cfg.blocks \ MarkAlive(cfg.prev, {cfg.exit})
       IN  IF Entry \in useless
             THEN /\ pc' = "abort" /\ UNCHANGED cfg
             ELSE /\ cfg' = EraseBlocks(cfg, useless)
                  /\ pc' = "pruned"
    /\ UNCHANGED <<worklist, cur, orig, chain>>

\* simplify() has returned (or a CRAB_ERROR ended it): nothing moves.
Finished ==
    /\ pc \in {"done", "abort"}
    /\ UNCHANGED vars

Build ==
    \/ \E l \in Labels : Insert(l) \/ RemoveBlock(l)
    \/ \E a, b \in Labels : Connect(a, b)

SimplifyStep ==
    \/ OuterPop \/ OuterDone \/ InnerStop \/ Merge

\* simplify() as the code has it: building, then merging only
Next ==
    \/ Build \/ SimplifyStart \/ SimplifyStep \/ Finished

\* The pipeline the spec describes: prune both ways, then merge
NextPruned ==
    \/ Build \/ RemoveUnreachableBlocks \/ RemoveUselessBlocks
    \/ (pc = "pruned" /\ SimplifyStart) \/ SimplifyStep \/ Finished

\* simplify() is a sequential loop: once started it keeps stepping.
Spec == Init /\ [][Next]_vars /\ WF_vars(SimplifyStep)


-----------------------------------------------------------------------------
(* Properties.                                                             *)

TypeOK ==
    /\ cfg.blocks \subseteq Labels
    /\ cfg.next \in [Labels -> SUBSET Labels]
    /\ cfg.prev \in [Labels -> SUBSET Labels]
    /\ cfg.ts \in [Labels -> Seq(Labels)]
    /\ cfg.exit \in Labels
    /\ worklist \subseteq Labels
    /\ cur \in Labels
    /\ pc \in Phases
    /\ chain \in [Labels -> Seq(Labels)]

Simplifying == pc \in {"outer", "inner", "done"}

\* CFG symmetry, kept by every operation and every step of simplify():
\* b is a successor of a exactly when a is a predecessor of b, and every
\* label an edge names is a block of the map.
CfgWellFormed ==
    pc # "abort" =>
      \A a, b \in Labels :
         /\ (b \in cfg.next[a]) <=> (a \in cfg.prev[b])
         /\ b \in cfg.next[a] => {a, b} \subseteq cfg.blocks

\* simplify() only contracts straight-line chains. Each block holds the
\* original blocks of its chain, starting with itself, where every link
\* was the only edge out of one block and the only edge into the next;
\* the chains partition the original blocks; a block's instructions are
\* the concatenation of its chain's instructions in order; its successors
\* are the original successors of the last block of its chain; and the
\* exit block is the one whose chain ends with the original exit.
SimplifyIsContraction ==
    Simplifying =>
      /\ \A l \in cfg.blocks :
           LET c == chain[l] IN
           /\ c # <<>> /\ c[1] = l
           /\ \A i \in 1..(Len(c) - 1) :
                /\ orig.next[c[i]] = {c[i + 1]}
                /\ orig.prev[c[i + 1]] = {c[i]}
           /\ cfg.ts[l] = FlattenSeq([i \in DOMAIN c |-> orig.ts[c[i]]])
           /\ cfg.next[l] = orig.next[Last(c)]
      /\ \A l1, l2 \in cfg.blocks :
           l1 # l2 => Range(chain[l1]) \cap Range(chain[l2]) = {}
      /\ UNION {Range(chain[l]) : l \in cfg.blocks} = orig.blocks
      /\ cfg.exit \in cfg.blocks /\ Last(chain[cfg.exit]) = orig.exit

\* simplify() never reaches a CRAB_ERROR: it never looks up a label it has
\* already erased, and never asks remove() to erase entry or exit.
NoAbort == pc # "abort"

ReachableAfterSimplify ==
    pc = "done" =>
      /\ cfg.blocks \subseteq MarkAlive(cfg.next, {Entry})
      /\ cfg.blocks \subseteq MarkAlive(cfg.prev, {cfg.exit})

\* simplify() implements ChainContraction: from its call on, every step of
\* its loops leaves the CFG alone or contracts one straight-line edge, with
\* the instructions, the children and the exit moved as the spec says.
\* Before the call the abstract CFG is the one of the constructor.
Contraction == INSTANCE ChainContraction WITH
    g <- IF Simplifying \/ pc = "abort" THEN cfg ELSE orig,
    started <- Simplifying \/ pc = "abort"
ImplementsContraction == Contraction!Spec

\* Once started, the worklist loop of simplify() returns.
SimplifyTerminates == (pc = "outer") ~> (pc \in {"done", "abort"})

=============================================================================
