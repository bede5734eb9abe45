----------------------------- MODULE MCIdentity -----------------------------
EXTENDS Identity, TLC

CONSTANTS p1, p2, ip1, ip2

OnlyGap  == {"gap"}
Symmetry == Permutations({p1, p2}) \cup Permutations({ip1, ip2})
=============================================================================
