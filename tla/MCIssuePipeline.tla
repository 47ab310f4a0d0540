-------------------------- MODULE MCIssuePipeline --------------------------
(* IssuePipeline on a small instance: all jobs are about one issue. *)
EXTENDS IssuePipeline, TLC

CONSTANTS j1, j2, b1, b2, p1, p2, n1, n2, issue1

OneIssue == [j \in Jobs |-> issue1]

Symmetry == Permutations(Jobs) \cup Permutations(Shas) \cup Permutations(Patches)
            \cup Permutations(Numbers)
=============================================================================
