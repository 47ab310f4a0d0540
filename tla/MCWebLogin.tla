----------------------------- MODULE MCWebLogin -----------------------------
(* WebLogin on a small instance. *)
EXTENDS WebLogin

CONSTANTS p1, p2, s1, s2
=============================================================================
