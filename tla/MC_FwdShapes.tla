---------------------------- MODULE MC_FwdShapes ----------------------------
(* Four loop shapes over labels 0..4 (entry 0, exit 4), each with its WTO, *)
(* shared by the instances of the iterator.                                *)
EXTENDS FwdAnalyzer

MCLabels == 0..4

V(l) == [kind |-> "v", node |-> l]
C(h, b) == [kind |-> "c", head |-> h, body |-> b]

\* 0 -> 1 -> 2 -> 1, 1 -> 4
Loop == [preds |-> (1 :> {0, 2} @@ 2 :> {1} @@ 4 :> {1}),
         wto |-> <<V(0), C(1, <<V(2)>>), V(4)>>, body |-> {1, 2}]

\* an inner loop 2 -> 3 -> 2 inside the outer loop 1 -> 2 -> 1
Nested == [preds |-> (1 :> {0, 2} @@ 2 :> {1, 3} @@ 3 :> {2} @@ 4 :> {1}),
           wto |-> <<V(0), C(1, <<C(2, <<V(3)>>)>>), V(4)>>, body |-> {1, 2, 3}]

\* two back paths 1 -> 2 -> 1 and 1 -> 3 -> 1
TwoPaths == [preds |-> (1 :> {0, 2, 3} @@ 2 :> {1} @@ 3 :> {1} @@ 4 :> {1}),
             wto |-> <<V(0), C(1, <<V(2), V(3)>>), V(4)>>, body |-> {1, 2, 3}]

\* a self-loop at 1: a cycle with an empty body
SelfLoop == [preds |-> (1 :> {0, 1} @@ 4 :> {1}),
             wto |-> <<V(0), C(1, <<>>), V(4)>>, body |-> {1}]

Shapes == {Loop, Nested, TwoPaths, SelfLoop}

AllPreds(s) == [l \in MCLabels |-> IF l \in DOMAIN s.preds THEN s.preds[l] ELSE {}]

ASSUME \A s \in Shapes : IsWto(AllPreds(s), s.wto)

=============================================================================
