-------------------------- MODULE MCCaptureProxy --------------------------
(* CaptureProxy with a connection that may be opened again and again, two  *)
(* roots and two starts: a rotation, a restart and what is left of the     *)
(* files meet every step of an exchange.                                   *)
EXTENDS CaptureProxy, TLC

CONSTANTS r1, r2, h1, c1, f1, t1

MCRoots == {r1, r2}
MCHosts == {h1}
MCClients == {c1}
MCFlowIds == {f1}
MCTags == {t1}

=============================================================================
