--------------------------- MODULE ChainContraction ---------------------------
(***************************************************************************)
(* What cfg_t::simplify() promises (spec: maximal straight-line merging), *)
(* as steps: once called, the CFG changes only by contracting an edge     *)
(* a -> b where b is the only child of a, a the only parent of b, and b  *)
(* is not the entry. b's instructions are appended to a's, a takes b's   *)
(* children, b leaves the map, and a becomes the exit if b was it. Which *)
(* edges are contracted, and in what order, is left open.                 *)
(***************************************************************************)
EXTENDS Sequences

CONSTANTS Labels, Entry

VARIABLES g,       \* [blocks, next, prev, ts, exit], as in CFG
          started  \* simplify() has been called

\* The builder's CFG is any CFG: nothing is said before the call
Init == started = FALSE

Begin == ~started /\ started' = TRUE

\* a's children once b is folded into it, and b's children's parents
Contracted(a, b) ==
    [blocks |-> g.blocks \ {b},
     next   |-> [l \in Labels |-> IF l = a THEN g.next[b]
                                  ELSE IF l = b THEN {} ELSE g.next[l]],
     prev   |-> [l \in Labels |-> IF l = b THEN {}
                                  ELSE IF l \in g.next[b] THEN (g.prev[l] \ {b}) \cup {a}
                                  ELSE g.prev[l]],
     ts     |-> [g.ts EXCEPT ![a] = @ \o g.ts[b], ![b] = <<>>],
     exit   |-> IF g.exit = b THEN a ELSE g.exit]

Contract(a, b) ==
    /\ started /\ started' = TRUE
    /\ a # b /\ b # Entry /\ {a, b} \subseteq g.blocks
    /\ g.next[a] = {b} /\ g.prev[b] = {a}
    /\ g' = Contracted(a, b)

Spec == Init /\ [][Begin \/ \E a, b \in Labels : Contract(a, b)]_<<g, started>>
=============================================================================
