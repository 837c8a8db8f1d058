---------------------------- MODULE MCAdoInvoke -----------------------------
(* Instances of AdoInvoke for TLC. *)
EXTENDS AdoInvoke, TLC

CONSTANTS c1, c2, k1, k2, v1, v2, w1, w2, w3

AllLifetimes == {"invoke", "life", "manual"}
AllSignals == {"post-put", "post-get", "post-erase"}
NoSignals == {{}}
OnlyPutSignals == {{"post-put"}}
OnOrOff == {{}, AllSignals}

\* Clients, slots and values are interchangeable; the keys are too where all or none of
\* them hold large values.
Symmetry == Permutations(Clients) \cup Permutations(Works) \cup Permutations(Values)
            \cup Permutations(Keys)
=============================================================================
