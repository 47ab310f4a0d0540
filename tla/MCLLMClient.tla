---------------------------- MODULE MCLLMClient ----------------------------
(* LLMClient on a small instance: a model, a fallback, two files. *)
EXTENDS LLMClient

CONSTANTS f1, f2
=============================================================================
