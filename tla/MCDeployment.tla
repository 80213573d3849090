---------------------------- MODULE MCDeployment ----------------------------
EXTENDS Deployment, TLC
CONSTANTS k1, k2, k3, s1, s2, p1, p2
Keys  == {k1, k2, k3}
Ssids == {s1, s2}
Psks  == {p1, p2}
Symmetry == Permutations(Keys) \cup Permutations(Ssids)
=============================================================================
