--------------------------- MODULE MCSecretStore ---------------------------
(* SecretStore on a small instance. *)
EXTENDS SecretStore, TLC

CONSTANTS p1, p2, p3, s1, s2

Symmetry == Permutations(Procs) \cup Permutations(Salts)
=============================================================================
