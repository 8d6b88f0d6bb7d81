----------------------------- MODULE ChunkLoop ------------------------------
(***************************************************************************)
(* forEachChunk with parallel = 1: one thread reads a chunk, runs Each on  *)
(* it, reduces its value, and reads the next one.  The executor of the     *)
(* node checks the cancellation once more when the block returned.         *)
(***************************************************************************)
EXTENDS ChunkJob

VARIABLES
  job, asked, emitted, errors, verdict,   \* see ChunkPromise
  pc,      \* where run is
  index    \* chunks done: what the block returns as its number of chunks

vars == <<job, asked, emitted, errors, verdict, pc, index>>

(* A chunk is settled once its Each slot ended, however it ended.          *)
P == INSTANCE ChunkPromise WITH settled <- Len(emitted)

Init ==
  /\ job \in Jobs /\ asked = FALSE
  /\ emitted = <<>> /\ errors = <<>>
  /\ verdict = "running"
  /\ pc = "read" /\ index = 0

Throw(v) == pc' = "done" /\ verdict' = v

Ask ==
  /\ ~asked
  /\ asked' = TRUE
  /\ UNCHANGED <<job, emitted, errors, verdict, pc, index>>

(* chunks.next(); with lookahead only the first one really reads here, the *)
(* others were read by Admit before their Each slot.                       *)
Read ==
  /\ pc = "read"
  /\ CASE NextChunk(job, index) = "chunk" -> pc' = "admit" /\ UNCHANGED verdict
       [] NextChunk(job, index) = "end" -> pc' = "return" /\ UNCHANGED verdict
       [] OTHER -> Throw("source")
  /\ UNCHANGED <<job, asked, emitted, errors, index>>

(* Mutant: a cancelled loop skips the chunk instead of throwing.           *)
AdmitSkips ==
  /\ pc = "admit"
  /\ CASE asked -> pc' = "read" /\ UNCHANGED verdict
       [] ~asked /\ index >= job.limit -> Throw("limit")
       [] OTHER -> IF job.lookahead /\ NextChunk(job, index + 1) = "throws"
                   THEN Throw("source") ELSE pc' = "each" /\ UNCHANGED verdict
  /\ UNCHANGED <<job, asked, emitted, errors, index>>

(* The cancellation, then maxChunks, then the chunk read ahead.            *)
Admit ==
  /\ pc = "admit"
  /\ CASE asked -> Throw("cancelled")
       [] ~asked /\ index >= job.limit -> Throw("limit")
       [] OTHER -> IF job.lookahead /\ NextChunk(job, index + 1) = "throws"
                   THEN Throw("source") ELSE pc' = "each" /\ UNCHANGED verdict
  /\ UNCHANGED <<job, asked, emitted, errors, index>>

(* The Each slot fails, by itself or because the cancellation stopped it.  *)
EachFails ==
  /\ pc = "each"
  /\ \E stopped \in {FALSE, asked} :
       /\ stopped \/ index \in job.bad
       /\ IF job.failFast
          THEN /\ Throw(IF stopped THEN "cancelled" ELSE "chunk")
               /\ UNCHANGED <<errors, index>>
          ELSE /\ errors' = Count(errors, index)
               /\ index' = index + 1
               /\ pc' = "read" /\ UNCHANGED verdict
  /\ emitted' = Append(emitted, index)
  /\ UNCHANGED <<job, asked>>

(* The Each slot ends and its value is reduced.                            *)
EachEnds ==
  /\ pc = "each"
  /\ index \notin job.bad
  /\ emitted' = Append(emitted, index)
  /\ index' = index + 1
  /\ \/ index \notin job.unfoldable /\ pc' = "read" /\ UNCHANGED verdict
     \/ index \in job.unfoldable /\ Throw("chunk")
     \/ asked /\ Throw("cancelled")
  /\ UNCHANGED <<job, asked, errors>>

(* Mutant: the executor of the node does not check the cancellation.       *)
ReturnUnchecked ==
  /\ pc = "return"
  /\ Throw("completed")
  /\ UNCHANGED <<job, asked, emitted, errors, index>>

(* ensureCanContinue of the executor, before the result is written.        *)
Return ==
  /\ pc = "return"
  /\ Throw(IF asked THEN "cancelled" ELSE "completed")
  /\ UNCHANGED <<job, asked, emitted, errors, index>>

Run == Read \/ Admit \/ EachFails \/ EachEnds \/ Return

Next == Ask \/ Run

Spec == Init /\ [][Next]_vars

(* One thread runs the request; nobody has to ask for a cancellation.      *)
FairSpec == Spec /\ WF_vars(Run)

-----------------------------------------------------------------------------
TypeOK ==
  /\ job \in Jobs /\ asked \in BOOLEAN
  /\ emitted \in Seq(Chunk) /\ errors \in Seq(Chunk)
  /\ verdict \in P!Verdicts
  /\ pc \in {"read", "admit", "each", "return", "done"}
  /\ index \in 0 .. MaxLen

(* What the loop implements: the same promise as the parallel lanes.       *)
Promise == P!PSpec

(* The rows of the chunks reach the sink in source order, none skipped and *)
(* none twice, the rows of a chunk that failed half way included.          *)
SettlementOrder == P!SettlementOrder

(* Until a chunk ends the loop by its error, every chunk done is counted   *)
(* in errors, or errors was full before it, or it was folded.              *)
NoFailureLost == P!NoFailureLost

(* A loop that ends normally read the whole source, and errors counts the  *)
(* first MaxErrors chunks whose Each slot failed, in order, and no chunk   *)
(* that only a cancellation interrupted.                                   *)
ErrorsExact == P!ErrorsExact

(* The number of chunks the block reports counts every chunk whose rows    *)
(* went to the sink, a failed one included.                                *)
CountsEmitted == verdict = "completed" => index = Len(emitted)

(* The whole account the caller is given: the rows in order, no failure    *)
(* lost, and errors and chunks counted exactly.                            *)
Delivery == SettlementOrder /\ NoFailureLost /\ ErrorsExact /\ CountsEmitted

(* A thread that runs the loop always ends it.                             *)
Termination == <>(pc = "done")
=============================================================================
