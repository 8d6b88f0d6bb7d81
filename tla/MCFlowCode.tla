------------------------------ MODULE MCFlowCode ------------------------------
(* Two conversations on two runtimes; a text that does not validate, and   *)
(* one that formatting changes.                                            *)
EXTENDS FlowCode, TLC

CONSTANTS a, b, broken, k1, k2, r1, r2

MCTalks == {k1, k2}
MCRuntimes == {r1, r2}
MCCodes == {a, b, broken}
MCValid == {a, b}
MCFormat == [c \in MCCodes |-> IF c = b THEN a ELSE c]
Symmetry == Permutations(MCTalks) \cup Permutations(MCRuntimes)
===============================================================================
