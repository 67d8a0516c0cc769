--------------------------- MODULE MCReplayVariations ---------------------------
(* ReplayEngine on one captured flow, with room for a replay flow for every *)
(* attempt of every call.                                                   *)
EXTENDS ReplayEngine, TLC

CONSTANTS o1, r1, r2, r3, r4, c1, c2

MCFlowIds == {o1, r1, r2, r3, r4}
MCCaptured == {o1}
MCCalls == {c1, c2}

(* replay.variations with two variations. *)
Batch == c1 :> NoCall @@ c2 :> c1

(* Fresh flow ids are interchangeable. *)
FreshIds == Permutations(MCFlowIds \ MCCaptured)

(* A 2xx, a client error and a server error: the three classes that Run     *)
(* tells apart.                                                             *)
MCStatuses == {200, 404, 500}

=============================================================================
