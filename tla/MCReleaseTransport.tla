------------------------- MODULE MCReleaseTransport -------------------------
(* Small instances of ReleaseTransport. *)
EXTENDS ReleaseTransport, TLC

CONSTANTS p1, p2, g1, g2, big, small, k1, k2, m1, m2

\* Two publishers of one layout, or of two.
OneLayout == [p \in Publisher |-> big]
TwoLayouts == [p \in Publisher |-> IF p = p1 THEN big ELSE small]

Chunks == [l \in Layout |-> IF l = big THEN {k1} ELSE {k2}]
Manifests == [l \in Layout |-> IF l = big THEN m1 ELSE m2]
=============================================================================
