------------------------------ MODULE MCDevServer ------------------------------
(* The development server served by two Rhino scopes, which are alike.     *)
EXTENDS DevServer, TLC

Renamings == Permutations(Scopes)
================================================================================
