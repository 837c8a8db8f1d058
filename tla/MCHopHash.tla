----------------------------- MODULE MCHopHash -----------------------------
(* Five keys for a first segment of four buckets with a reach of two:      *)
(* three of one home (two fit), one whose home is the last bucket (it      *)
(* wraps, and has another home in the doubled table) and one in the first. *)
EXTENDS HopHash, TLC

CONSTANTS ka, kb, kc, kd, ke

Hashes == [k \in Keys |-> CASE k = kd -> 7 [] k = ke -> 0 [] OTHER -> 2]

Symmetry == Permutations({ka, kb, kc})
=============================================================================
