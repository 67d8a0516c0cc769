---------------------------- MODULE MCAuthVault ----------------------------
(* AuthVault and CookieWarming with one connection beside the start of the *)
(* daemon, and two profiles, bundles and seeds.                            *)
EXTENDS CookieWarming, TLC

CONSTANTS c1, p1, p2, b1, b2, s1, s2

MCCallers == {c1}
MCProfiles == {p1, p2}
MCBundles == {b1, b2}
MCSeeds == {s1, s2}

Interchangeable ==
  Permutations(MCBundles) \cup Permutations(MCProfiles) \cup Permutations(MCSeeds)

(* The daemon restarts, or clients name one bundle that is not their       *)
(* profile's; and there is one tick after a restart.                       *)
InBounds == Cardinality(foreign) + restarts <= 1 /\ (restarts > 0 => tick <= 1)

MCSpec == WarmingInit /\ [][WarmingNext /\ InBounds']_wvars

=============================================================================
