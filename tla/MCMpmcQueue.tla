----------------------------- MODULE MCMpmcQueue -----------------------------
EXTENDS MpmcQueue, TLC
CONSTANTS p1, p2, c1, c2, a, b
Symmetry == Permutations({p1, p2}) \cup Permutations({c1, c2}) \cup Permutations({a, b})
=============================================================================
