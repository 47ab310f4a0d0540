----------------------------- MODULE MCJobQueue -----------------------------
(* JobQueue on small instances. *)
EXTENDS JobQueue, TLC

CONSTANTS j1, j2, k1, k2, t1, t2, t3, w1, w2, d1, d2

SameKey == [j \in Jobs |-> k1]
TwoKeys == (j1 :> k1) @@ (j2 :> k2)
OneDelay == [n \in 1 .. MaxAttempts |-> 1]
TwoDelays == [n \in 1 .. MaxAttempts |-> IF n = 1 THEN 1 ELSE 2]

Symmetry == Permutations(Workers) \cup Permutations(Dispatchers)
            \cup Permutations(Tokens)
=============================================================================
