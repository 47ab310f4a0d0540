---------------------------- MODULE MCMergeFlow ----------------------------
(* MergeFlow on a small instance: all jobs are about one pull request. *)
EXTENDS MergeFlow, TLC

CONSTANTS j1, j2, h1, h2, ann, bob, pull1

OnePull == [j \in Jobs |-> pull1]

Symmetry == Permutations(Jobs) \cup Permutations(Heads)
=============================================================================
