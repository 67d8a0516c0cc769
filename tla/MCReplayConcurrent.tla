------------------------- MODULE MCReplayConcurrent -------------------------
(* ReplayEngine with unrelated calls that run concurrently, one attempt    *)
(* each, and room for one replay flow per call; 204 is what the            *)
(* passthrough adapter makes up.                                           *)
EXTENDS ReplayEngine

CONSTANTS o1, r1, r2, c1, c2

MCFlowIds == {o1, r1, r2}
MCCaptured == {o1}
MCCalls == {c1, c2}
MCStatuses == {204, 404}
Unrelated == [c \in MCCalls |-> NoCall]

=============================================================================
