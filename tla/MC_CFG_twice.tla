---------------------------- MODULE MC_CFG_twice ----------------------------
(* simplify() on the builder CFGs of MC_CFG, in two pipelines chosen once: *)
(*   "code": simplify() as cfg_t has it, merging only, then called a      *)
(*           second time on the CFG the first call returned;              *)
(*   "spec": the pipeline the spec describes, the two pruning passes      *)
(*           before the merging.                                          *)
EXTENDS MC_CFG

VARIABLES pipeline, \* "code" or "spec"
          rerun,    \* whether the second call has been made
          first     \* the CFG the first call returned

TwiceInit == Init /\ pipeline \in {"code", "spec"} /\ rerun = FALSE /\ first = cfg

\* The second call, once the first has returned
Resimplify ==
    /\ pipeline = "code" /\ pc = "done" /\ ~rerun
    /\ rerun' = TRUE /\ first' = cfg
    /\ SimplifyCall

TwiceNext ==
    \/ /\ IF pipeline = "code" THEN Next ELSE NextPruned
       /\ UNCHANGED <<pipeline, rerun, first>>
    \/ Resimplify /\ UNCHANGED pipeline

TwiceSpec ==
    TwiceInit /\ [][TwiceNext]_<<vars, pipeline, rerun, first>>
    /\ WF_<<vars, pipeline, rerun, first>>(SimplifyStep /\ UNCHANGED <<pipeline, rerun, first>>)
    /\ WF_<<vars, pipeline, rerun, first>>(/\ pipeline = "spec"
                                          /\ (RemoveUselessBlocks \/ (pc = "pruned" /\ SimplifyStart))
                                          /\ UNCHANGED <<pipeline, rerun, first>>)

\* simplify is idempotent (the spec's simplify . simplify = simplify): the
\* second call of cfg_t::simplify() returns the CFG the first one did.
SimplifyIdempotent == rerun /\ pc = "done" => cfg = first

\* simplify() as cfg_t has it never reaches a CRAB_ERROR (CFG's NoAbort).
\* The spec's pipeline may: remove_unreachable_blocks aborts when exit is
\* unreachable.
CodeNoAbort == pipeline = "code" => NoAbort

\* With the two pruning passes run first, every block left when simplify()
\* returns is reachable from entry and reaches exit (CFG's
\* ReachableAfterSimplify, the spec's postcondition).
PrunedReachable == pipeline = "spec" => ReachableAfterSimplify
=============================================================================
