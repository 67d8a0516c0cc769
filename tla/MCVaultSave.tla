---------------------------- MODULE MCVaultSave ----------------------------
(* AuthVault with two connections, one profile and two bundles and seeds.  *)
EXTENDS AuthVault

CONSTANTS c1, c2, p1, b1, b2, s1, s2

MCCallers == {c1, c2}
MCProfiles == {p1}
MCBundles == {b1, b2}
MCSeeds == {s1, s2}

=============================================================================
