----------------------------- MODULE MCHarImport -----------------------------
(* HarImport with two calls that share bodies.                             *)
EXTENDS HarImport

CONSTANTS b1, b2, i1, i2

MCBodies == {b1, b2}
MCCallers == {i1, i2}

(* An empty document, one with an empty body, and one that puts b1 twice.  *)
MCDocuments ==
  { <<>>,
    <<[request |-> NoBody, response |-> b1]>>,
    <<[request |-> b1, response |-> b2], [request |-> b2, response |-> b1]>> }

=============================================================================
