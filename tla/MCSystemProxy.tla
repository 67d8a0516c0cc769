---------------------------- MODULE MCSystemProxy ----------------------------
(* SystemProxy on one service, whose state file no other service shares.   *)
EXTENDS SystemProxy

CONSTANTS wifi, wifiFile, c1, c2, corp, home

MCPathOf == [s \in {wifi} |-> wifiFile]

=============================================================================
