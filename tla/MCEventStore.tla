---------------------------- MODULE MCEventStore ----------------------------
EXTENDS EventStore, TLC

CONSTANTS k1, k2, v1, v2, v3, t1, t2

\* Two keys; the first has two payloads, so that a conflict can happen.
MCEvents == {[key |-> k1, val |-> v] : v \in {v1, v2}}
            \cup {[key |-> k2, val |-> v3]}

\* Neither the callers nor the two payloads of the first key are told apart.
MCSymmetry == {f @@ g : f \in Permutations({t1, t2}), g \in Permutations({v1, v2})}
=============================================================================
