---------------------------- MODULE MCDocumentServer ----------------------------
(* The callers are alike.                                                  *)
EXTENDS DocumentServer, TLC
Callers == Permutations(Caller)
================================================================================
