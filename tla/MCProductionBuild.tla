--------------------------- MODULE MCProductionBuild ---------------------------
(* The scopes of ProductionBuild are interchangeable.                      *)
EXTENDS ProductionBuild, TLC
CONSTANTS s1, s2
MCScope == {s1, s2}
Symmetry == Permutations(MCScope)
================================================================================
