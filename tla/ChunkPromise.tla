---------------------------- MODULE ChunkPromise ----------------------------
(***************************************************************************)
(* What the block forEachChunk promises, whatever thread runs its chunks:  *)
(* the chunks of the source are settled one by one in source order, the    *)
(* first one whose settlement throws ends the loop, and a loop that ends   *)
(* normally has settled every chunk and reported the chunks that failed,   *)
(* the first MaxErrors of them.  The sequential loop (ChunkLoop) and the   *)
(* parallel lanes (ParallelLanes) both implement this module.              *)
(***************************************************************************)
EXTENDS ChunkJob

VARIABLES
  job,      \* the call, chosen once
  asked,    \* cancellation of the request was asked (never taken back)
  settled,  \* number of chunks settled
  emitted,  \* the chunks whose emitted rows reached the sink, in its order
  errors,   \* the chunks counted in errors (onError = continue), in its order
  verdict   \* how the loop ended

Verdicts == {"running", "completed", "chunk", "limit", "source", "cancelled"}

pvars == <<job, asked, settled, emitted, errors, verdict>>

PInit ==
  /\ job \in Jobs
  /\ asked = FALSE
  /\ settled = 0
  /\ emitted = <<>>
  /\ errors = <<>>
  /\ verdict = "running"

PAsk ==
  /\ asked' = TRUE
  /\ UNCHANGED <<job, settled, emitted, errors, verdict>>

PSettle ==
  /\ verdict = "running"
  /\ settled < Delivered(job)
  /\ settled' = settled + 1
  /\ emitted' = Append(emitted, settled)
  /\ errors' = IF settled \in job.bad /\ ~job.failFast
               THEN Count(errors, settled) ELSE errors
  /\ verdict' = IF Throws(job, settled, EachOutcome(job, settled)) THEN "chunk" ELSE verdict
  /\ UNCHANGED <<job, asked>>

(* A chunk interrupted by the cancellation fails whatever it does: its     *)
(* error ends the loop, or is counted; an interrupted Reduce always ends   *)
(* the loop.                                                               *)
PInterrupted ==
  /\ verdict = "running"
  /\ asked
  /\ settled < Delivered(job)
  /\ settled' = settled + 1
  /\ emitted' = Append(emitted, settled)
  /\ \/ verdict' = "cancelled" /\ UNCHANGED errors
     \/ ~job.failFast /\ errors' = Count(errors, settled) /\ UNCHANGED verdict
  /\ UNCHANGED <<job, asked>>

PCancel ==
  /\ verdict = "running"
  /\ asked
  /\ verdict' = "cancelled"
  /\ UNCHANGED <<job, asked, settled, emitted, errors>>

(* The loop ends: every deliverable chunk is settled.  A normal end counts *)
(* no chunk that was only interrupted.                                     *)
PEnd ==
  /\ verdict = "running"
  /\ settled = Delivered(job)
  /\ verdict' = Ending(job)
  /\ verdict' = "completed" => \A n \in 1 .. Len(errors) : errors[n] \in job.bad
  /\ UNCHANGED <<job, asked, settled, emitted, errors>>

PNext == PAsk \/ PSettle \/ PInterrupted \/ PCancel \/ PEnd

PSpec == PInit /\ [][PNext]_pvars

-----------------------------------------------------------------------------
PTypeOK ==
  /\ job \in Jobs /\ asked \in BOOLEAN
  /\ settled \in 0 .. MaxLen
  /\ emitted \in Seq(Chunk) /\ errors \in Seq(Chunk)
  /\ verdict \in Verdicts

(* The rows of the chunks reach the sink in source order, none skipped and *)
(* none twice, whatever the order threads complete the chunks in.          *)
SettlementOrder ==
  /\ Len(emitted) = settled
  /\ \A n \in 1 .. Len(emitted) : emitted[n] = n - 1

(* While the loop goes on, and once it has ended without the error of a    *)
(* chunk, no failure passed unnoticed: every settled chunk is counted in   *)
(* errors, or errors was full before it, or it ran to its end and was      *)
(* reduced.                                                                *)
NoFailureLost ==
  verdict \in {"running", "completed", "limit", "source"} =>
    \A i \in Chunk : i < settled =>
      \/ Counted(errors, i)
      \/ Len(errors) = MaxErrors /\ \A n \in 1 .. Len(errors) : errors[n] < i
      \/ i \notin job.bad /\ i \notin job.unfoldable

(* A loop that ends normally settled the whole source, and counts in       *)
(* errors the first MaxErrors chunks whose Each slot failed, in order, and *)
(* no other one.                                                           *)
ErrorsExact ==
  verdict = "completed" =>
    /\ settled = job.length
    /\ \A n \in 1 .. Len(errors) : errors[n] \in job.bad /\ errors[n] < settled
    /\ \A m, n \in 1 .. Len(errors) : m < n => errors[m] < errors[n]
    /\ \A i \in job.bad : i < settled =>
         \/ Counted(errors, i)
         \/ Len(errors) = MaxErrors /\ \A n \in 1 .. Len(errors) : errors[n] < i
=============================================================================
