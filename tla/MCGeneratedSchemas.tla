------------------------- MODULE MCGeneratedSchemas -------------------------
(* Requests for the output schema of a Flow while runs learn it and while  *)
(* a developer adopts, removes or resets it.                               *)
EXTENDS GeneratedSchemas, TLC

CONSTANTS r1, r2, u1, u2

MCReaders == {r1, r2}
MCUpdaters == {u1, u2}

Learner(k) == u1 :> "learn" @@ u2 :> k

(* Two writers are a learner and an adopt: another learner does less.      *)
MCMixes == {Learner(k) : k \in Kinds \ {"learn"}}
=============================================================================
