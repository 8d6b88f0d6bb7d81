------------------------------ MODULE ChunkJob ------------------------------
(***************************************************************************)
(* The calls of the block forEachChunk: what its source gives, what its    *)
(* slots do of each chunk, and how the loop must end.  Shared by the       *)
(* promise of the block and by the two loops that implement it.            *)
(***************************************************************************)
EXTENDS Integers, Sequences

CONSTANTS
  MaxLen,     \* longest source considered
  MaxErrors,  \* errors a loop keeps (100)
  Jobs        \* the calls of the block considered

Chunk == 0 .. MaxLen - 1

(***************************************************************************)
(* The source gives `length` chunks, then ends, or throws when it is       *)
(* `broken`.  `bad` are the chunks whose Each slot throws, `unfoldable`    *)
(* those whose value the Reduce slot refuses.  `limit` is maxChunks,       *)
(* `failFast` is onError = stop, `lookahead` an Each slot that reads       *)
(* chunk.last.  `threads` says whether lanes may be opened at all: not     *)
(* inside a lane, and not without the shared runtime.                      *)
(***************************************************************************)
JobType ==
  [length : 0 .. MaxLen, broken : BOOLEAN, bad : SUBSET Chunk,
   unfoldable : SUBSET Chunk, limit : Nat \ {0}, failFast : BOOLEAN,
   lookahead : BOOLEAN, threads : BOOLEAN]

ASSUME MaxLenAssumption == MaxLen \in Nat
ASSUME MaxErrorsAssumption == MaxErrors \in Nat
ASSUME JobsAssumption == Jobs \subseteq JobType

(* What the call of chunks.next() after n chunks gives.                    *)
NextChunk(j, n) ==
  IF n < j.length THEN "chunk" ELSE IF j.broken THEN "throws" ELSE "end"

(* With lookahead a chunk is given once the next one is read, so a source  *)
(* that breaks right after the last chunk also loses that chunk.           *)
Available(j) ==
  IF j.lookahead /\ j.broken /\ j.length > 0 THEN j.length - 1 ELSE j.length

Delivered(j) == IF j.limit < Available(j) THEN j.limit ELSE Available(j)

Ending(j) ==
  IF j.limit < j.length THEN "limit"
  ELSE IF j.broken THEN "source" ELSE "completed"

(* The outcome of an Each slot nothing interrupts.                         *)
EachOutcome(j, i) == IF i \in j.bad THEN "fail" ELSE "ok"

(* Settling an outcome throws: a failed chunk when the loop stops on       *)
(* errors, or a good chunk whose value cannot be combined.                 *)
Throws(j, i, outcome) ==
  IF outcome = "ok" THEN i \in j.unfoldable ELSE j.failFast

(* Mutant: one error less is kept.                                         *)
CountShort(errors, i) == IF Len(errors) < MaxErrors - 1 THEN Append(errors, i) ELSE errors

(* A failed chunk is counted in errors while there is room for it.         *)
Count(errors, i) == IF Len(errors) < MaxErrors THEN Append(errors, i) ELSE errors

Counted(errors, i) == \E n \in 1 .. Len(errors) : errors[n] = i
=============================================================================
