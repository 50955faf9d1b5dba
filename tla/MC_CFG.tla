------------------------------- MODULE MC_CFG -------------------------------
(* Five labels, entry 0 and exit 4, built the way the eBPF CFG builder     *)
(* builds them: at most two successors (fallthrough and jump), nothing    *)
(* jumps back to the synthetic entry block, and exit has no successors.   *)
EXTENDS CFG

MCLabels == 0..4
MCEntry == 0
MCExit == 4

\* Edges of a CFG produced by the builder
BuilderEdges == {e \in MCLabels \X MCLabels : e[2] # MCEntry /\ e[1] # MCExit}

\* Edges of any CFG handed to simplify(), back edges to entry included
AnyEdges == {e \in MCLabels \X MCLabels : e[1] # MCExit}

=============================================================================
