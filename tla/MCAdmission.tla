---------------------------- MODULE MCAdmission ----------------------------
(* Admission on a small instance: two deliveries about one resource and one *)
(* about another, so that only the first two are interchangeable.           *)
EXTENDS Admission, TLC

CONSTANTS r1, r2, e1, e2, e3, k1, k2, j1, j2, j3

EventKey == [d \in Deliveries |-> IF d = e3 THEN k2 ELSE k1]

Symmetry == Permutations(Requests) \cup Permutations({e1, e2})
            \cup Permutations(JobIds)
=============================================================================
