-------------------------- MODULE MCBrowserCapture --------------------------
(* BrowserCapture with two captures and one request that may be redirected *)
(* once.                                                                   *)
EXTENDS BrowserCapture

CONSTANTS c1, r1, r2, q1

MCControllers == {c1}
MCRuns == {r1, r2}
MCRequests == {q1}

=============================================================================
