-------------------------- MODULE ChunkLoop_proofs --------------------------
(***************************************************************************)
(* The sequential forEachChunk keeps the promise of the block, for sources *)
(* of any length: its invariant, and the refinement of ChunkPromise.       *)
(***************************************************************************)
EXTENDS ChunkLoop, ChunkJob_proofs

(* The promise speaks of the calls as the loop does.                       *)
LEMMA SameJob ==
  ASSUME NEW j, NEW i, NEW o, NEW e
  PROVE  /\ P!Count(e, i) = Count(e, i)
         /\ P!Delivered(j) = Delivered(j)
         /\ P!Ending(j) = Ending(j)
         /\ P!EachOutcome(j, i) = EachOutcome(j, i)
         /\ P!Throws(j, i, o) = Throws(j, i, o)
  BY DEF P!Delivered, P!Available, Delivered, Available, P!Ending, Ending,
         P!EachOutcome, EachOutcome, P!Throws, Throws,
         P!Count, Count

-----------------------------------------------------------------------------
(* While the loop runs its index counts the chunks settled, and where it   *)
(* is tells what is left to deliver.                                       *)
Progress ==
  pc # "done" =>
    /\ verdict = "running"
    /\ index = Len(emitted)
    /\ index <= Delivered(job)
    /\ pc = "admit" => index < job.length
    /\ pc = "each" => index < Delivered(job)
    /\ pc = "return" => NextChunk(job, index) = "end"

(* Only a cancellation makes a good chunk count as an error.               *)
ErrorsAreBad == ~asked => \A n \in 1 .. Len(errors) : errors[n] \in job.bad

Stopped == pc = "done" => verdict # "running"

IInv == TypeOK /\ Progress /\ ErrorsAreBad /\ Stopped /\ CountsEmitted

LEMMA InitIInv == Init => IInv
  <1> SUFFICES ASSUME Init PROVE IInv
    OBVIOUS
  <1> USE DEF Init
  <1>1. /\ emitted \in Seq(Chunk) /\ Len(emitted) = 0
        /\ errors \in Seq(Chunk) /\ Len(errors) = 0
    BY EmptySeq
  <1>2. index \in 0 .. MaxLen /\ 0 <= Delivered(job)
    BY MaxLenAssumption, DeliveredFacts
  <1>3. TypeOK
    BY <1>1, <1>2 DEF TypeOK, P!Verdicts
  <1>4. Progress /\ ErrorsAreBad /\ Stopped /\ CountsEmitted
    BY <1>1, <1>2 DEF Progress, ErrorsAreBad, Stopped, CountsEmitted
  <1> QED
    BY <1>3, <1>4 DEF IInv

(* The facts of a state where the Each slot of a chunk ends.               *)
LEMMA InEach ==
  ASSUME IInv, pc = "each"
  PROVE  /\ job \in Jobs /\ index \in Chunk /\ index = Len(emitted)
         /\ index + 1 \in 0 .. MaxLen /\ index + 1 <= Delivered(job)
         /\ index < Delivered(job) /\ verdict = "running"
         /\ Append(emitted, index) \in Seq(Chunk)
         /\ Len(Append(emitted, index)) = index + 1
  <1>1. /\ job \in Jobs /\ index \in 0 .. MaxLen /\ index = Len(emitted)
        /\ index < Delivered(job) /\ verdict = "running" /\ emitted \in Seq(Chunk)
    BY DEF IInv, TypeOK, Progress
  <1>2. /\ index \in Chunk /\ index + 1 \in 0 .. MaxLen
        /\ index + 1 <= Delivered(job)
    BY <1>1, DeliveredFacts, MaxLenAssumption DEF Chunk
  <1> QED
    BY <1>1, <1>2, AppendProperties

LEMMA NextIInv == IInv /\ [Next]_vars => IInv'
  <1> SUFFICES ASSUME IInv, [Next]_vars PROVE IInv'
    OBVIOUS
  <1>0. /\ TypeOK /\ Progress /\ ErrorsAreBad /\ Stopped /\ CountsEmitted
        /\ job \in Jobs /\ index \in Nat
    BY MaxLenAssumption DEF IInv, TypeOK
  <1> USE DEF Throw, P!Verdicts
  <1>1. CASE Ask
    BY <1>0, <1>1
    DEF Ask, IInv, TypeOK, Progress, ErrorsAreBad, Stopped, CountsEmitted
  <1>2. CASE Read
    <2>1. /\ UNCHANGED <<job, asked, emitted, errors, index>>
          /\ \/ pc' = "admit" /\ verdict' = verdict /\ NextChunk(job, index) = "chunk"
             \/ pc' = "return" /\ verdict' = verdict /\ NextChunk(job, index) = "end"
             \/ pc' = "done" /\ verdict' = "source"
          /\ pc = "read"
      BY <1>2 DEF Read
    <2>2. NextChunk(job, index) = "chunk" => index < job.length
      BY <1>0, JobFacts DEF NextChunk
    <2> QED
      BY <1>0, <2>1, <2>2
      DEF IInv, TypeOK, Progress, ErrorsAreBad, Stopped, CountsEmitted
  <1>3. CASE Admit
    <2>1. /\ UNCHANGED <<job, asked, emitted, errors, index>>
          /\ pc = "admit"
          /\ \/ /\ pc' = "done" /\ verdict' \in {"cancelled", "limit", "source"}
             \/ /\ pc' = "each" /\ verdict' = verdict /\ ~(index >= job.limit)
                /\ ~(job.lookahead /\ NextChunk(job, index + 1) = "throws")
      BY <1>3 DEF Admit
    <2>2. CASE pc' = "done"
      BY <1>0, <2>1, <2>2
      DEF IInv, TypeOK, Progress, ErrorsAreBad, Stopped, CountsEmitted
    <2>3. CASE pc' = "each"
      <3>1. index < Delivered(job)
        BY <1>0, <2>1, <2>3, AtEach, JobFacts DEF Progress
      <3> QED
        BY <1>0, <2>1, <2>3, <3>1
        DEF IInv, TypeOK, Progress, ErrorsAreBad, Stopped, CountsEmitted
    <2> QED
      BY <2>1, <2>2, <2>3
  <1>4. CASE EachFails
    <2>1. PICK stopped \in {FALSE, asked} :
            /\ stopped \/ index \in job.bad
            /\ IF job.failFast
               THEN /\ Throw(IF stopped THEN "cancelled" ELSE "chunk")
                    /\ UNCHANGED <<errors, index>>
               ELSE /\ errors' = Count(errors, index)
                    /\ index' = index + 1
                    /\ pc' = "read" /\ UNCHANGED verdict
      BY <1>4 DEF EachFails
    <2>2. /\ pc = "each" /\ emitted' = Append(emitted, index)
          /\ UNCHANGED <<job, asked>>
      BY <1>4 DEF EachFails
    <2>3. /\ index \in Chunk /\ index = Len(emitted)
          /\ index + 1 \in 0 .. MaxLen /\ index + 1 <= Delivered(job)
          /\ verdict = "running"
          /\ emitted' \in Seq(Chunk) /\ Len(emitted') = index + 1
      BY <2>2, InEach
    <2>4. TypeOK'
      <3>0. errors \in Seq(Chunk) /\ Count(errors, index) \in Seq(Chunk)
        BY <1>0, <2>3, CountType DEF TypeOK
      <3>1. errors' \in Seq(Chunk)
        BY <2>1, <3>0
      <3> QED
        BY <1>0, <2>1, <2>2, <2>3, <3>1 DEF TypeOK
    <2>5. Progress' /\ Stopped' /\ CountsEmitted'
      BY <1>0, <2>1, <2>2, <2>3 DEF Progress, Stopped, CountsEmitted
    <2>6. ErrorsAreBad'
      <3> SUFFICES ASSUME ~asked, NEW n \in 1 .. Len(errors')
                   PROVE  errors'[n] \in job.bad
        BY <2>2 DEF ErrorsAreBad
      <3>1. index \in job.bad /\ \A m \in 1 .. Len(errors) : errors[m] \in job.bad
        BY <1>0, <2>1 DEF ErrorsAreBad
      <3>2. CASE job.failFast
        BY <2>1, <3>1, <3>2
      <3>3. CASE ~job.failFast
        <4>1. errors \in Seq(Chunk) /\ errors' = Count(errors, index)
          BY <1>0, <2>1, <3>3 DEF TypeOK
        <4>2. \/ n \in 1 .. Len(errors) /\ errors'[n] = errors[n]
              \/ errors'[n] = index
          BY <2>3, <4>1, CountType
        <4> QED
          BY <3>1, <4>2
      <3> QED
        BY <3>2, <3>3
    <2> QED
      BY <2>4, <2>5, <2>6 DEF IInv
  <1>5. CASE EachEnds
    <2>1. /\ pc = "each" /\ emitted' = Append(emitted, index) /\ index' = index + 1
          /\ UNCHANGED <<job, asked, errors>>
          /\ \/ pc' = "read" /\ verdict' = verdict
             \/ pc' = "done" /\ verdict' \in {"chunk", "cancelled"}
      BY <1>5 DEF EachEnds
    <2>2. /\ index + 1 \in 0 .. MaxLen /\ index + 1 <= Delivered(job)
          /\ verdict = "running"
          /\ emitted' \in Seq(Chunk) /\ Len(emitted') = index + 1
      BY <2>1, InEach
    <2>3. TypeOK'
      BY <1>0, <2>1, <2>2 DEF TypeOK
    <2>4. Progress' /\ Stopped' /\ CountsEmitted' /\ ErrorsAreBad'
      BY <1>0, <2>1, <2>2 DEF Progress, Stopped, CountsEmitted, ErrorsAreBad
    <2> QED
      BY <2>3, <2>4 DEF IInv
  <1>6. CASE Return
    <2>1. /\ pc = "return" /\ pc' = "done" /\ verdict' \in {"cancelled", "completed"}
          /\ UNCHANGED <<job, asked, emitted, errors, index>>
      BY <1>6 DEF Return
    <2> QED
      BY <1>0, <2>1
      DEF IInv, TypeOK, Progress, ErrorsAreBad, Stopped, CountsEmitted
  <1>7. CASE UNCHANGED vars
    BY <1>0, <1>7
    DEF vars, IInv, TypeOK, Progress, ErrorsAreBad, Stopped, CountsEmitted
  <1> QED
    BY <1>1, <1>2, <1>3, <1>4, <1>5, <1>6, <1>7 DEF Next, Run

(* The loop, its index and its list of errors agree in every reachable state. *)
THEOREM IInvHolds == Spec => []IInv
  <1> QED
    BY InitIInv, NextIInv, PTL DEF Spec

(* The number of chunks the block reports is the number of chunks whose    *)
(* rows went to the sink.                                                  *)
THEOREM LoopCounts == Spec => []CountsEmitted
  <1>1. IInv => CountsEmitted
    BY DEF IInv
  <1> QED
    BY <1>1, IInvHolds, PTL

-----------------------------------------------------------------------------
(* The refinement of ChunkPromise.                                         *)

LEMMA InitRefines == Init => P!PInit
  BY EmptySeq DEF Init, P!PInit

LEMMA StepRefines == IInv /\ [Next]_vars => [P!PNext]_(P!pvars)
  <1> SUFFICES ASSUME IInv, [Next]_vars PROVE [P!PNext]_(P!pvars)
    OBVIOUS
  <1>0. /\ TypeOK /\ Progress /\ ErrorsAreBad /\ Stopped
        /\ job \in Jobs /\ index \in Nat
    BY MaxLenAssumption DEF IInv, TypeOK
  <1> USE DEF Throw
  <1>1. CASE Ask
    <2>1. P!PAsk
      BY <1>1 DEF Ask, P!PAsk
    <2> QED
      BY <2>1 DEF P!PNext
  <1>2. CASE Read
    <2>1. CASE NextChunk(job, index) = "throws"
      <3>1. /\ verdict' = "source" /\ UNCHANGED <<job, asked, emitted, errors>>
            /\ pc = "read"
        BY <1>2, <2>1 DEF Read
      <3>2. verdict = "running" /\ Len(emitted) = index /\ index <= Delivered(job)
        BY <1>0, <3>1 DEF Progress
      <3>3. Len(emitted) = P!Delivered(job) /\ P!Ending(job) = "source"
        BY <1>0, <2>1, <3>2, AtBreak, SameJob
      <3>4. P!PEnd
        BY <3>1, <3>2, <3>3 DEF P!PEnd
      <3> QED
        BY <3>4 DEF P!PNext
    <2>2. CASE NextChunk(job, index) # "throws"
      BY <1>2, <2>2 DEF Read, NextChunk, P!pvars
    <2> QED
      BY <2>1, <2>2
  <1>3. CASE Admit
    <2>1. /\ pc = "admit" /\ UNCHANGED <<job, asked, emitted, errors>>
          /\ verdict = "running" /\ Len(emitted) = index
          /\ index <= Delivered(job) /\ index < job.length
      BY <1>0, <1>3 DEF Admit, Progress
    <2>2. CASE asked
      <3>1. P!PCancel
        BY <1>3, <2>1, <2>2 DEF Admit, P!PCancel
      <3> QED
        BY <3>1 DEF P!PNext
    <2>3. CASE ~asked /\ index >= job.limit
      <3>1. verdict' = "limit"
        BY <1>3, <2>3 DEF Admit
      <3>2. Len(emitted) = P!Delivered(job) /\ P!Ending(job) = "limit"
        BY <1>0, <2>1, <2>3, AtLimit, SameJob
      <3>3. P!PEnd
        BY <2>1, <3>1, <3>2 DEF P!PEnd
      <3> QED
        BY <3>3 DEF P!PNext
    <2>4. CASE /\ ~asked /\ ~(index >= job.limit)
               /\ job.lookahead /\ NextChunk(job, index + 1) = "throws"
      <3>1. verdict' = "source"
        BY <1>3, <2>4 DEF Admit
      <3>2. Len(emitted) = P!Delivered(job) /\ P!Ending(job) = "source"
        <4>1. index < job.limit
          BY <1>0, <2>4, JobFacts
        <4>2. index = Delivered(job) /\ Ending(job) = "source"
          BY <1>0, <2>1, <2>4, <4>1, AtBreak
        <4> QED
          BY <2>1, <4>2, SameJob
      <3>3. P!PEnd
        BY <2>1, <3>1, <3>2 DEF P!PEnd
      <3> QED
        BY <3>3 DEF P!PNext
    <2>5. CASE /\ ~asked /\ ~(index >= job.limit)
               /\ ~(job.lookahead /\ NextChunk(job, index + 1) = "throws")
      BY <1>3, <2>1, <2>5 DEF Admit, P!pvars
    <2> QED
      BY <2>2, <2>3, <2>4, <2>5
  <1>4. CASE EachFails
    <2>1. PICK stopped \in {FALSE, asked} :
            /\ stopped \/ index \in job.bad
            /\ IF job.failFast
               THEN /\ Throw(IF stopped THEN "cancelled" ELSE "chunk")
                    /\ UNCHANGED <<errors, index>>
               ELSE /\ errors' = Count(errors, index)
                    /\ index' = index + 1
                    /\ pc' = "read" /\ UNCHANGED verdict
      BY <1>4 DEF EachFails
    <2>2. /\ pc = "each" /\ emitted' = Append(emitted, index)
          /\ UNCHANGED <<job, asked>>
      BY <1>4 DEF EachFails
    <2>3. /\ index = Len(emitted) /\ Len(emitted') = index + 1
          /\ index < P!Delivered(job) /\ verdict = "running"
      BY <2>2, InEach, SameJob
    <2>. P!Count(errors, index) = Count(errors, index)
      BY SameJob
    <2>4. CASE stopped = TRUE
      <3>1. asked
        BY <2>1, <2>4
      <3>2. P!PInterrupted
        BY <2>1, <2>2, <2>3, <2>4, <3>1 DEF P!PInterrupted
      <3> QED
        BY <3>2 DEF P!PNext
    <2>5. CASE stopped = FALSE
      <3>1. index \in job.bad
        BY <2>1, <2>5
      <3>2. P!Throws(job, index, P!EachOutcome(job, index)) = job.failFast
        BY <3>1, SameJob DEF EachOutcome, Throws
      <3>3. P!PSettle
        BY <2>1, <2>2, <2>3, <2>5, <3>1, <3>2 DEF P!PSettle
      <3> QED
        BY <3>3 DEF P!PNext
    <2> QED
      BY <1>0, <2>1, <2>4, <2>5 DEF TypeOK
  <1>5. CASE EachEnds
    <2>1. /\ pc = "each" /\ emitted' = Append(emitted, index) /\ index \notin job.bad
          /\ UNCHANGED <<job, asked, errors>>
          /\ \/ index \notin job.unfoldable /\ verdict' = verdict
             \/ index \in job.unfoldable /\ verdict' = "chunk"
             \/ asked /\ verdict' = "cancelled"
      BY <1>5 DEF EachEnds
    <2>2. /\ index = Len(emitted) /\ Len(emitted') = index + 1
          /\ index < P!Delivered(job) /\ verdict = "running"
      BY <2>1, InEach, SameJob
    <2>3. P!Throws(job, index, P!EachOutcome(job, index)) <=> index \in job.unfoldable
      BY <2>1, SameJob DEF EachOutcome, Throws
    <2>4. CASE asked /\ verdict' = "cancelled"
      <3>1. P!PInterrupted
        BY <2>1, <2>2, <2>4 DEF P!PInterrupted
      <3> QED
        BY <3>1 DEF P!PNext
    <2>5. CASE ~(asked /\ verdict' = "cancelled")
      <3>1. P!PSettle
        BY <2>1, <2>2, <2>3, <2>5 DEF P!PSettle
      <3> QED
        BY <3>1 DEF P!PNext
    <2> QED
      BY <2>4, <2>5
  <1>6. CASE Return
    <2>1. /\ pc = "return" /\ verdict' = (IF asked THEN "cancelled" ELSE "completed")
          /\ UNCHANGED <<job, asked, emitted, errors>>
      BY <1>6 DEF Return
    <2>2. /\ verdict = "running" /\ Len(emitted) = index
          /\ index <= Delivered(job) /\ NextChunk(job, index) = "end"
      BY <1>0, <2>1 DEF Progress
    <2>3. CASE asked
      <3>1. P!PCancel
        BY <2>1, <2>2, <2>3 DEF P!PCancel
      <3> QED
        BY <3>1 DEF P!PNext
    <2>4. CASE ~asked
      <3>1. Len(emitted) = P!Delivered(job) /\ P!Ending(job) = "completed"
        BY <1>0, <2>2, AtEnd, SameJob
      <3>2. \A n \in 1 .. Len(errors) : errors[n] \in job.bad
        BY <1>0, <2>4 DEF ErrorsAreBad
      <3>3. P!PEnd
        BY <2>1, <2>2, <2>4, <3>1, <3>2 DEF P!PEnd
      <3> QED
        BY <3>3 DEF P!PNext
    <2> QED
      BY <2>3, <2>4
  <1>7. CASE UNCHANGED vars
    BY <1>7 DEF vars, P!pvars
  <1> QED
    BY <1>1, <1>2, <1>3, <1>4, <1>5, <1>6, <1>7 DEF Next, Run

(* The sequential loop keeps the promise of the block: for sources of any  *)
(* length its chunks are settled in order, each one once, and it ends as   *)
(* the promise says.                                                       *)
THEOREM LoopKeepsPromise == Spec => Promise
  <1> QED
    BY InitRefines, StepRefines, IInvHolds, PTL DEF Spec, Promise, P!PSpec

-----------------------------------------------------------------------------
(* What the loop leaves behind: the rows, in order, and the errors.        *)

(* errors lists chunks done, in their order, MaxErrors of them at most.    *)
Listed ==
  /\ Len(errors) <= MaxErrors
  /\ \A n \in 1 .. Len(errors) : errors[n] < Len(emitted)
  /\ \A m, n \in 1 .. Len(errors) : m < n => errors[m] < errors[n]

Ordered == \A n \in 1 .. Len(emitted) : emitted[n] = n - 1

(* A chunk done did not pass unnoticed.                                    *)
Accounted(i) ==
  \/ Counted(errors, i)
  \/ Len(errors) = MaxErrors /\ \A n \in 1 .. Len(errors) : errors[n] < i
  \/ i \notin job.bad /\ i \notin job.unfoldable

AllAccounted ==
  verdict \in {"running", "completed", "limit", "source"} =>
    \A i \in Chunk : i < Len(emitted) => Accounted(i)

(* A normal end: the source was read to its end and only chunks that       *)
(* failed by themselves are counted.                                       *)
EndsWell ==
  verdict = "completed" =>
    /\ Len(emitted) = job.length
    /\ \A n \in 1 .. Len(errors) : errors[n] \in job.bad

JInv == Listed /\ Ordered /\ AllAccounted /\ EndsWell

LEMMA JInvImplies ==
  IInv /\ JInv => SettlementOrder /\ NoFailureLost /\ ErrorsExact
  <1> SUFFICES ASSUME IInv, JInv
               PROVE  SettlementOrder /\ NoFailureLost /\ ErrorsExact
    OBVIOUS
  <1>1. SettlementOrder
    BY DEF JInv, Ordered, SettlementOrder, P!SettlementOrder
  <1>2. NoFailureLost
    BY DEF JInv, AllAccounted, Accounted, Counted, Chunk,
           NoFailureLost, P!NoFailureLost, P!Counted, P!Chunk
  <1>3. ErrorsExact
    <2> SUFFICES ASSUME verdict = "completed"
                 PROVE  /\ Len(emitted) = job.length
                        /\ \A n \in 1 .. Len(errors) :
                             errors[n] \in job.bad /\ errors[n] < Len(emitted)
                        /\ \A m, n \in 1 .. Len(errors) :
                             m < n => errors[m] < errors[n]
                        /\ \A i \in job.bad : i < Len(emitted) =>
                             \/ Counted(errors, i)
                             \/ /\ Len(errors) = MaxErrors
                                /\ \A n \in 1 .. Len(errors) : errors[n] < i
      BY DEF ErrorsExact, P!ErrorsExact, P!Counted, Counted
    <2>1. job.bad \subseteq Chunk
      BY JobFacts DEF IInv, TypeOK
    <2> QED
      BY <2>1 DEF JInv, Listed, AllAccounted, Accounted, EndsWell
  <1> QED
    BY <1>1, <1>2, <1>3

LEMMA InitJInv == Init => JInv
  <1> SUFFICES ASSUME Init PROVE JInv
    OBVIOUS
  <1>1. /\ Len(emitted) = 0 /\ Len(errors) = 0 /\ verdict = "running"
        /\ 0 <= MaxErrors
    BY EmptySeq, MaxErrorsAssumption DEF Init
  <1> QED
    BY <1>1, MaxLenAssumption
    DEF JInv, Listed, Ordered, AllAccounted, EndsWell, Chunk

(* The Each slot of a chunk ended, and errors counts the chunk or not.     *)
LEMMA ChunkDone ==
  ASSUME IInv, JInv, pc = "each", emitted' = Append(emitted, index),
         job' = job, errors' \in {errors, Count(errors, index)}
  PROVE  /\ Listed' /\ Ordered'
         /\ \A i \in Chunk : i < Len(emitted) => Accounted(i)'
         /\ errors' = Count(errors, index) =>
               \A i \in Chunk : i = index => Accounted(i)'
         /\ Len(emitted') = Len(emitted) + 1 /\ Len(emitted) = index
  <1>1. /\ emitted \in Seq(Chunk) /\ errors \in Seq(Chunk) /\ index \in Chunk
        /\ index = Len(emitted) /\ verdict = "running"
        /\ Len(Append(emitted, index)) = index + 1
    BY InEach DEF IInv, TypeOK
  <1>2. /\ Len(errors') <= MaxErrors
        /\ \A n \in 1 .. Len(errors') : errors'[n] < index + 1
        /\ \A m, n \in 1 .. Len(errors') : m < n => errors'[m] < errors'[n]
        /\ \A k \in Nat : Counted(errors, k) => Counted(errors', k)
        /\ Len(errors) = MaxErrors => errors' = errors
        /\ errors' = Count(errors, index) =>
             \/ Counted(errors', index)
             \/ /\ Len(errors') = MaxErrors
                /\ \A n \in 1 .. Len(errors') : errors'[n] < index
    BY <1>1, ListStep DEF JInv, Listed
  <1>3. Listed'
    BY <1>1, <1>2 DEF Listed
  <1>4. Ordered'
    <2>1. /\ \A n \in 1 .. Len(emitted) : Append(emitted, index)[n] = emitted[n]
          /\ Append(emitted, index)[Len(emitted) + 1] = index
      BY <1>1, AppendProperties
    <2>2. \A n \in 1 .. Len(emitted) : emitted[n] = n - 1
      BY DEF JInv, Ordered
    <2> QED
      BY <1>1, <2>1, <2>2, MaxLenAssumption DEF Ordered, Chunk
  <1>5. ASSUME NEW i \in Chunk, i < Len(emitted) PROVE Accounted(i)'
    <2>1. Accounted(i) /\ i \in Nat
      BY <1>1, <1>5, MaxLenAssumption DEF JInv, AllAccounted, Chunk
    <2>2. CASE Counted(errors, i)
      BY <1>2, <2>1, <2>2 DEF Accounted, Counted
    <2>3. CASE ~Counted(errors, i)
      BY <1>2, <2>1, <2>3 DEF Accounted, Counted
    <2> QED
      BY <2>2, <2>3
  <1>6. ASSUME NEW i \in Chunk, i = index, errors' = Count(errors, index)
        PROVE  Accounted(i)'
    BY <1>2, <1>6 DEF Accounted, Counted
  <1> QED
    BY <1>1, <1>3, <1>4, <1>5, <1>6

LEMMA NextJInv == IInv /\ JInv /\ [Next]_vars => JInv'
  <1> SUFFICES ASSUME IInv, JInv, [Next]_vars PROVE JInv'
    OBVIOUS
  <1>0. /\ TypeOK /\ Progress /\ ErrorsAreBad /\ Stopped
        /\ job \in Jobs /\ index \in Nat
        /\ Listed /\ Ordered /\ AllAccounted /\ EndsWell
    BY MaxLenAssumption DEF IInv, JInv, TypeOK
  <1> USE DEF Throw
  <1>1. ASSUME UNCHANGED <<job, emitted, errors>>, verdict' # "completed",
               verdict = "running" \/ verdict' = verdict
        PROVE  JInv'
    BY <1>0, <1>1
    DEF JInv, Listed, Ordered, AllAccounted, Accounted, Counted, EndsWell
  <1>2. ASSUME UNCHANGED <<job, emitted, errors, verdict>>
        PROVE  JInv'
    BY <1>0, <1>2
    DEF JInv, Listed, Ordered, AllAccounted, Accounted, Counted, EndsWell
  <1>3. CASE Ask \/ UNCHANGED vars
    BY <1>2, <1>3 DEF Ask, vars
  <1>4. CASE Read \/ Admit
    <2>1. /\ UNCHANGED <<job, emitted, errors>> /\ pc \in {"read", "admit"}
          /\ verdict' = verdict \/ verdict' \in {"source", "cancelled", "limit"}
      BY <1>4 DEF Read, Admit
    <2>2. verdict = "running"
      BY <1>0, <2>1 DEF Progress
    <2> QED
      BY <1>1, <2>1, <2>2
  <1>5. CASE EachFails
    <2>1. /\ pc = "each" /\ emitted' = Append(emitted, index) /\ job' = job
          /\ \/ errors' = errors /\ verdict' \in {"cancelled", "chunk"}
             \/ errors' = Count(errors, index) /\ verdict' = verdict
      BY <1>5 DEF EachFails
    <2>2. /\ Listed' /\ Ordered' /\ verdict = "running"
          /\ \A i \in Chunk : i < Len(emitted) => Accounted(i)'
          /\ errors' = Count(errors, index) =>
               \A i \in Chunk : i = index => Accounted(i)'
          /\ Len(emitted') = Len(emitted) + 1 /\ Len(emitted) = index
      BY <2>1, ChunkDone, InEach
    <2>3. AllAccounted'
      <3> SUFFICES ASSUME verdict' = "running", NEW i \in Chunk, i < Len(emitted')
                   PROVE  Accounted(i)'
        BY <2>1, <2>2 DEF AllAccounted
      <3>1. i < index \/ i = index
        BY <1>0, <2>2, MaxLenAssumption DEF Chunk
      <3> QED
        BY <2>1, <2>2, <3>1
    <2> QED
      BY <2>1, <2>2, <2>3 DEF JInv, EndsWell
  <1>6. CASE EachEnds
    <2>1. /\ pc = "each" /\ emitted' = Append(emitted, index) /\ job' = job
          /\ errors' = errors /\ index \notin job.bad
          /\ \/ verdict' = verdict /\ index \notin job.unfoldable
             \/ verdict' \in {"cancelled", "chunk"}
      BY <1>6 DEF EachEnds
    <2>2. /\ Listed' /\ Ordered' /\ verdict = "running"
          /\ \A i \in Chunk : i < Len(emitted) => Accounted(i)'
          /\ Len(emitted') = Len(emitted) + 1 /\ Len(emitted) = index
      BY <2>1, ChunkDone, InEach
    <2>3. AllAccounted'
      <3> SUFFICES ASSUME verdict' = "running", NEW i \in Chunk, i < Len(emitted')
                   PROVE  Accounted(i)'
        BY <2>1, <2>2 DEF AllAccounted
      <3>1. i < index \/ i = index
        BY <1>0, <2>2, MaxLenAssumption DEF Chunk
      <3>2. CASE i = index
        BY <2>1, <2>2, <3>2 DEF Accounted
      <3> QED
        BY <2>2, <3>1, <3>2
    <2> QED
      BY <2>1, <2>2, <2>3 DEF JInv, EndsWell
  <1>7. CASE Return
    <2>1. /\ pc = "return" /\ UNCHANGED <<job, emitted, errors>>
          /\ verdict' = (IF asked THEN "cancelled" ELSE "completed")
      BY <1>7 DEF Return
    <2>2. /\ verdict = "running" /\ index = Len(emitted)
          /\ index <= Delivered(job) /\ NextChunk(job, index) = "end"
      BY <1>0, <2>1 DEF Progress
    <2>3. CASE asked
      BY <1>1, <2>1, <2>2, <2>3
    <2>4. CASE ~asked
      <3>1. Len(emitted) = job.length
        BY <1>0, <2>2, AtEnd, DeliveredFacts
      <3>2. \A n \in 1 .. Len(errors) : errors[n] \in job.bad
        BY <1>0, <2>4 DEF ErrorsAreBad
      <3>3. EndsWell'
        BY <2>1, <3>1, <3>2 DEF EndsWell
      <3>4. Listed' /\ Ordered' /\ AllAccounted'
        BY <1>0, <2>1, <2>2 DEF Listed, Ordered, AllAccounted, Accounted, Counted
      <3> QED
        BY <3>3, <3>4 DEF JInv
    <2> QED
      BY <2>3, <2>4
  <1> QED
    BY <1>3, <1>4, <1>5, <1>6, <1>7 DEF Next, Run

LEMMA LoopLeaves == Spec => [](SettlementOrder /\ NoFailureLost /\ ErrorsExact)
  <1> QED
    BY InitJInv, NextJInv, JInvImplies, IInvHolds, PTL DEF Spec

(* The rows of the chunks reach the sink in source order, none skipped and *)
(* none twice, for a source of any length.                                 *)
THEOREM LoopOrder == Spec => []SettlementOrder
  <1> QED
    BY LoopLeaves, PTL

(* No failed chunk, and no value that could not be folded, passes          *)
(* unnoticed while the loop goes on or ends without an error of a chunk.   *)
THEOREM LoopNoFailureLost == Spec => []NoFailureLost
  <1> QED
    BY LoopLeaves, PTL

(* A normal end means a source read to its end, and errors counts exactly  *)
(* the chunks whose Each slot failed.                                      *)
THEOREM LoopErrorsExact == Spec => []ErrorsExact
  <1> QED
    BY LoopLeaves, PTL

(* For a source of any length and any failures, the loop accounts for      *)
(* every chunk it was to deliver (forEachChunk.block.js:200-290).          *)
THEOREM LoopDelivers == Spec => []Delivery
  <1>1. SettlementOrder /\ NoFailureLost /\ ErrorsExact /\ CountsEmitted => Delivery
    BY DEF Delivery
  <1> QED
    BY <1>1, LoopOrder, LoopNoFailureLost, LoopErrorsExact, LoopCounts, PTL
=============================================================================
