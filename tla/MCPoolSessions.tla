--------------------------- MODULE MCPoolSessions ---------------------------
(* Instances of PoolSessions for TLC: sessions, pools and handles are interchangeable. *)
EXTENDS PoolSessions, TLC
CONSTANTS s1, s2, p, q, h1, h2, h3
Symmetry == Permutations({s1, s2}) \cup Permutations({p, q}) \cup Permutations({h1, h2, h3})
=============================================================================
