----------------------------- MODULE MCDirectIo -----------------------------
EXTENDS DirectIo, TLC
CONSTANTS c1, c2, k1, k2, t1, t2, t3, v1, v2
OneLength == [v \in Values |-> 1]
TwoLengths == (v1 :> 1) @@ (v2 :> 2)
Symmetry == Permutations({c1, c2}) \cup Permutations({t1, t2, t3})
SymmetryKv == Symmetry \cup Permutations({k1, k2}) \cup Permutations({v1, v2})
=============================================================================
