------------------------ MODULE ParallelLanes_proofs ------------------------
(***************************************************************************)
(* What follows from the promise of forEachChunk, for sources of any       *)
(* length, and that the parallel lanes keep it, for any number of lanes    *)
(* and any window: so they inherit what follows.                           *)
(***************************************************************************)
EXTENDS ParallelLanes, ChunkJob_proofs

-----------------------------------------------------------------------------
(* The promise.                                                            *)

(* The loop settles no more than there is to deliver, and errors lists     *)
(* settled chunks in their order, MaxErrors of them at most.               *)
Bounds ==
  /\ settled <= Delivered(job)
  /\ Len(errors) <= MaxErrors
  /\ \A n \in 1 .. Len(errors) : errors[n] < settled
  /\ \A m, n \in 1 .. Len(errors) : m < n => errors[m] < errors[n]

PInv == PTypeOK /\ Bounds /\ SettlementOrder /\ NoFailureLost /\ ErrorsExact

LEMMA PInitPInv == PInit => PInv
  <1> SUFFICES ASSUME PInit PROVE PInv
    OBVIOUS
  <1>0. /\ job \in Jobs /\ asked = FALSE /\ settled = 0 /\ verdict = "running"
        /\ emitted = <<>> /\ errors = <<>>
    BY DEF PInit
  <1>1. /\ emitted \in Seq(Chunk) /\ errors \in Seq(Chunk)
        /\ Len(emitted) = 0 /\ Len(errors) = 0
    BY <1>0, EmptySeq
  <1>2. PTypeOK
    <2>1. settled \in 0 .. MaxLen
      BY <1>0, MaxLenAssumption
    <2>2. verdict \in Verdicts
      BY <1>0 DEF Verdicts
    <2> QED
      BY <1>0, <1>1, <2>1, <2>2 DEF PTypeOK
  <1>3. Bounds
    <2>1. 0 <= Delivered(job) /\ 0 <= MaxErrors
      BY <1>0, DeliveredFacts, MaxLenAssumption, MaxErrorsAssumption
    <2> QED
      BY <1>0, <1>1, <2>1 DEF Bounds
  <1>4. SettlementOrder
    BY <1>0, <1>1 DEF SettlementOrder
  <1>5. NoFailureLost /\ ErrorsExact
    BY <1>0, MaxLenAssumption DEF NoFailureLost, ErrorsExact, Chunk
  <1> QED
    BY <1>2, <1>3, <1>4, <1>5 DEF PInv

(* The part of a step that settles the next chunk, whatever its outcome.   *)
LEMMA OneMore ==
  ASSUME PTypeOK, Bounds, SettlementOrder, settled < Delivered(job),
         settled' = settled + 1, emitted' = Append(emitted, settled), job' = job
  PROVE  /\ settled \in Chunk
         /\ settled' \in 0 .. MaxLen
         /\ settled' <= Delivered(job')
         /\ emitted' \in Seq(Chunk)
         /\ SettlementOrder'
  <1>1. Delivered(job) \in 0 .. MaxLen /\ settled \in 0 .. MaxLen
    BY DeliveredFacts DEF PTypeOK
  <1>2. settled \in Chunk /\ settled' \in 0 .. MaxLen /\ settled' <= Delivered(job')
    BY <1>1, MaxLenAssumption DEF Chunk
  <1>3. emitted \in Seq(Chunk) /\ emitted' \in Seq(Chunk)
    BY <1>2 DEF PTypeOK
  <1>4. SettlementOrder'
    <2>1. Len(emitted') = settled'
      BY <1>1, <1>2, <1>3 DEF SettlementOrder
    <2>2. ASSUME NEW n \in 1 .. Len(emitted')
          PROVE  emitted'[n] = n - 1
      BY <1>1, <1>2, <1>3, <2>1 DEF SettlementOrder
    <2> QED
      BY <2>1, <2>2 DEF SettlementOrder
  <1> QED
    BY <1>2, <1>3, <1>4

(* Counting the settled chunk, or not, keeps the list of errors as it must *)
(* be, and loses no chunk counted before.                                  *)
LEMMA ErrorsStep ==
  ASSUME PTypeOK, Bounds, settled \in Chunk, settled' = settled + 1,
         errors' \in {errors, Count(errors, settled)}
  PROVE  /\ errors' \in Seq(Chunk)
         /\ Len(errors') <= MaxErrors
         /\ \A n \in 1 .. Len(errors') : errors'[n] < settled'
         /\ \A m, n \in 1 .. Len(errors') : m < n => errors'[m] < errors'[n]
         /\ \A k \in Nat : Counted(errors, k) => Counted(errors', k)
         /\ Len(errors) = MaxErrors => errors' = errors
         /\ errors' = Count(errors, settled) =>
              \/ Counted(errors', settled)
              \/ Len(errors') = MaxErrors /\ \A n \in 1 .. Len(errors') : errors'[n] < settled
  BY ListStep DEF PTypeOK, Bounds

(* A chunk settled before stays accounted for.                             *)
LEMMA StillAccounted ==
  ASSUME PTypeOK, Bounds, NoFailureLost, verdict = "running",
         settled \in Chunk, settled' = settled + 1, job' = job,
         errors' \in {errors, Count(errors, settled)},
         NEW i \in Chunk, i < settled
  PROVE  \/ Counted(errors', i)
         \/ Len(errors') = MaxErrors /\ \A n \in 1 .. Len(errors') : errors'[n] < i
         \/ i \notin job.bad /\ i \notin job.unfoldable
  <1>1. \/ Counted(errors, i)
        \/ Len(errors) = MaxErrors /\ \A n \in 1 .. Len(errors) : errors[n] < i
        \/ i \notin job.bad /\ i \notin job.unfoldable
    BY DEF NoFailureLost
  <1>2. /\ i \in Nat
        /\ \A k \in Nat : Counted(errors, k) => Counted(errors', k)
        /\ Len(errors) = MaxErrors => errors' = errors
    BY ErrorsStep, MaxLenAssumption DEF Chunk
  <1> QED
    BY <1>1, <1>2

LEMMA PNextPInv == PInv /\ [PNext]_pvars => PInv'
  <1> SUFFICES ASSUME PInv, [PNext]_pvars PROVE PInv'
    OBVIOUS
  <1>0. /\ PTypeOK /\ Bounds /\ SettlementOrder /\ NoFailureLost /\ ErrorsExact
        /\ job \in Jobs
    BY DEF PInv, PTypeOK
  <1>1. CASE PAsk
    <2>1. UNCHANGED <<job, settled, emitted, errors, verdict>> /\ asked' \in BOOLEAN
      BY <1>1 DEF PAsk
    <2>2. PTypeOK' /\ Bounds' /\ SettlementOrder'
      BY <1>0, <2>1 DEF PTypeOK, Bounds, SettlementOrder
    <2>3. NoFailureLost' /\ ErrorsExact'
      BY <1>0, <2>1 DEF NoFailureLost, ErrorsExact, Counted
    <2> QED
      BY <2>2, <2>3 DEF PInv
  <1>2. CASE PSettle
    <2>0. /\ verdict = "running" /\ verdict' \in {"running", "chunk"} /\ job' = job
          /\ settled' = settled + 1 /\ asked' = asked
          /\ errors' = IF settled \in job.bad /\ ~job.failFast
                       THEN Count(errors, settled) ELSE errors
      BY <1>2 DEF PSettle
    <2>1. /\ settled \in Chunk /\ settled' \in 0 .. MaxLen
          /\ settled' <= Delivered(job') /\ emitted' \in Seq(Chunk) /\ SettlementOrder'
      BY <1>0, <1>2, OneMore DEF PSettle
    <2>2. errors' \in {errors, Count(errors, settled)}
      BY <2>0
    <2>3. PTypeOK' /\ Bounds'
      <3>1. /\ errors' \in Seq(Chunk) /\ Len(errors') <= MaxErrors
            /\ \A n \in 1 .. Len(errors') : errors'[n] < settled'
            /\ \A m, n \in 1 .. Len(errors') : m < n => errors'[m] < errors'[n]
        BY <1>0, <2>0, <2>1, <2>2, ErrorsStep
      <3> QED
        BY <1>0, <2>0, <2>1, <3>1 DEF PTypeOK, Bounds, Verdicts
    <2>4. NoFailureLost'
      <3> SUFFICES ASSUME verdict' = "running", NEW i \in Chunk, i < settled'
                   PROVE  \/ Counted(errors', i)
                          \/ /\ Len(errors') = MaxErrors
                             /\ \A n \in 1 .. Len(errors') : errors'[n] < i
                          \/ i \notin job.bad /\ i \notin job.unfoldable
        BY <2>0 DEF NoFailureLost
      <3>1. CASE i = settled
        <4>1. ~Throws(job, settled, EachOutcome(job, settled))
          BY <1>2 DEF PSettle
        <4>2. CASE settled \in job.bad
          <5>1. errors' = Count(errors, settled)
            BY <2>0, <4>1, <4>2 DEF Throws, EachOutcome
          <5> QED
            BY <1>0, <2>0, <2>1, <2>2, <3>1, <5>1, ErrorsStep
        <4>3. CASE settled \notin job.bad
          BY <3>1, <4>1, <4>3 DEF Throws, EachOutcome
        <4> QED
          BY <4>2, <4>3
      <3>2. CASE i < settled
        BY <1>0, <2>0, <2>1, <2>2, <3>2, StillAccounted
      <3> QED
        BY <2>0, <2>1, <3>1, <3>2, MaxLenAssumption DEF Chunk
    <2>5. ErrorsExact'
      BY <2>0 DEF ErrorsExact
    <2> QED
      BY <2>1, <2>3, <2>4, <2>5 DEF PInv
  <1>3. CASE PInterrupted
    <2>0. /\ verdict = "running" /\ verdict' \in {"running", "cancelled"} /\ job' = job
          /\ settled' = settled + 1 /\ asked' = asked
          /\ errors' \in {errors, Count(errors, settled)}
          /\ verdict' = "running" => errors' = Count(errors, settled)
      BY <1>3 DEF PInterrupted
    <2>1. /\ settled \in Chunk /\ settled' \in 0 .. MaxLen
          /\ settled' <= Delivered(job') /\ emitted' \in Seq(Chunk) /\ SettlementOrder'
      BY <1>0, <1>3, OneMore DEF PInterrupted
    <2>2. PTypeOK' /\ Bounds'
      <3>1. /\ errors' \in Seq(Chunk) /\ Len(errors') <= MaxErrors
            /\ \A n \in 1 .. Len(errors') : errors'[n] < settled'
            /\ \A m, n \in 1 .. Len(errors') : m < n => errors'[m] < errors'[n]
        BY <1>0, <2>0, <2>1, ErrorsStep
      <3> QED
        BY <1>0, <2>0, <2>1, <3>1 DEF PTypeOK, Bounds, Verdicts
    <2>3. NoFailureLost'
      <3> SUFFICES ASSUME verdict' = "running", NEW i \in Chunk, i < settled'
                   PROVE  \/ Counted(errors', i)
                          \/ /\ Len(errors') = MaxErrors
                             /\ \A n \in 1 .. Len(errors') : errors'[n] < i
                          \/ i \notin job.bad /\ i \notin job.unfoldable
        BY <2>0 DEF NoFailureLost
      <3>1. CASE i = settled
        BY <1>0, <2>0, <2>1, <3>1, ErrorsStep
      <3>2. CASE i < settled
        BY <1>0, <2>0, <2>1, <3>2, StillAccounted
      <3> QED
        BY <2>0, <2>1, <3>1, <3>2, MaxLenAssumption DEF Chunk
    <2>4. ErrorsExact'
      BY <2>0 DEF ErrorsExact
    <2> QED
      BY <2>1, <2>2, <2>3, <2>4 DEF PInv
  <1>4. CASE PCancel
    <2>1. verdict' = "cancelled" /\ UNCHANGED <<job, asked, settled, emitted, errors>>
      BY <1>4 DEF PCancel
    <2> QED
      BY <1>0, <2>1
      DEF PInv, PTypeOK, Bounds, SettlementOrder, NoFailureLost, ErrorsExact, Verdicts
  <1>5. CASE PEnd
    <2>1. /\ verdict = "running" /\ settled = Delivered(job) /\ verdict' = Ending(job)
          /\ verdict' = "completed" => \A n \in 1 .. Len(errors) : errors[n] \in job.bad
          /\ UNCHANGED <<job, asked, settled, emitted, errors>>
      BY <1>5 DEF PEnd
    <2>2. /\ Ending(job) \in {"limit", "source", "completed"}
          /\ Ending(job) = "completed" => Delivered(job) = job.length
      BY <1>0, DeliveredFacts
    <2>3. PTypeOK' /\ Bounds' /\ SettlementOrder'
      BY <1>0, <2>1, <2>2 DEF PTypeOK, Bounds, SettlementOrder, Verdicts
    <2>4. NoFailureLost'
      BY <1>0, <2>1 DEF NoFailureLost, Counted
    <2>5. ErrorsExact'
      <3> SUFFICES ASSUME Ending(job) = "completed"
                   PROVE  /\ settled = job.length
                          /\ \A n \in 1 .. Len(errors) :
                               errors[n] \in job.bad /\ errors[n] < settled
                          /\ \A m, n \in 1 .. Len(errors) : m < n => errors[m] < errors[n]
                          /\ \A i \in job.bad : i < settled =>
                               \/ Counted(errors, i)
                               \/ /\ Len(errors) = MaxErrors
                                  /\ \A n \in 1 .. Len(errors) : errors[n] < i
        BY <2>1 DEF ErrorsExact, Counted
      <3>1. job.bad \subseteq Chunk
        BY <1>0, JobFacts
      <3> QED
        BY <1>0, <2>1, <2>2, <3>1 DEF NoFailureLost, Bounds
    <2> QED
      BY <2>3, <2>4, <2>5 DEF PInv
  <1>6. CASE UNCHANGED pvars
    <2>1. PTypeOK' /\ Bounds' /\ SettlementOrder'
      BY <1>0, <1>6 DEF PTypeOK, Bounds, SettlementOrder, pvars
    <2>2. NoFailureLost' /\ ErrorsExact'
      BY <1>0, <1>6 DEF NoFailureLost, ErrorsExact, Counted, pvars
    <2> QED
      BY <2>1, <2>2 DEF PInv
  <1> QED
    BY <1>1, <1>2, <1>3, <1>4, <1>5, <1>6 DEF PNext

(* What the promise has emitted, counted and settled agree.                *)
THEOREM PInvHolds == PSpec => []PInv
  <1> QED
    BY PInitPInv, PNextPInv, PTL DEF PSpec

(* The rows of the chunks reach the sink in source order, none skipped and *)
(* none twice, for a source of any length.                                 *)
THEOREM PromiseOrder == PSpec => []SettlementOrder
  <1>1. PInv => SettlementOrder
    BY DEF PInv
  <1> QED
    BY <1>1, PInvHolds, PTL

(* No failed chunk, and no value that could not be reduced, passes         *)
(* unnoticed while the loop goes on or ends without an error of a chunk.   *)
THEOREM PromiseNoFailureLost == PSpec => []NoFailureLost
  <1>1. PInv => NoFailureLost
    BY DEF PInv
  <1> QED
    BY <1>1, PInvHolds, PTL

(* A normal end means a source read to its end, and errors counts exactly  *)
(* the chunks whose Each slot failed.                                      *)
THEOREM PromiseErrorsExact == PSpec => []ErrorsExact
  <1>1. PInv => ErrorsExact
    BY DEF PInv
  <1> QED
    BY <1>1, PInvHolds, PTL

-----------------------------------------------------------------------------
(* The invariant of the lanes.                                             *)

(* Before the lanes are opened, or without them; once the loop is over.    *)
Before == {"start", "first", "second", "open", "inline", "inlineTask"}
Over == {"unwind", "closing", "done"}

(* How many chunks were settled, taken by lanes and pulled.                *)
Progress ==
  /\ settled <= pulled /\ taken <= pulled /\ pulled <= Delivered(job)
  /\ (verdict = "running" <=> pc \notin Over)
  /\ pc \in {"start", "first"} => pulled = 0
  /\ pc = "second" => pulled = 1
  /\ pc = "open" => pulled = 2
  /\ pc \in {"start", "first", "second", "open"} => settled = 0
  /\ pc = "inlineTask" => settled < pulled
  /\ pc \notin Before \cup {"done"} => settled <= taken

(* The pulls ended because nothing is left to deliver, and say why.        *)
Pulls ==
  /\ pc \in {"start", "first", "second", "open"} => pulling
  /\ pulling => pullError = ""
  /\ ~pulling /\ stopIndex < 0 /\ verdict = "running" =>
       /\ pulled = Delivered(job)
       /\ Ending(job) = IF pullError = "" THEN "completed" ELSE pullError

NoLanes ==
  pc \in Before =>
    /\ taken = 0 /\ lane = [l \in Lane |-> None] /\ sticky = {}
    /\ outbox = {} /\ ready = {}
    /\ stopIndex = None

(* Each task taken is run by one lane, or its outcome is on its way to the *)
(* settlement, or settled.                                                 *)
Held ==
  /\ \A i \in outbox \cup ready : settled <= i /\ i < taken /\ result[i] # "none"
  /\ outbox \cap ready = {}
  /\ \A l \in Lane : lane[l] # None =>
       lane[l] < taken /\ settled <= lane[l] /\ result[lane[l]] = "none"
  /\ \A l, m \in Lane : l # m /\ lane[l] # None => lane[l] # lane[m]
  /\ \A i \in Chunk : result[i] # "none" => i < taken

Outcomes ==
  \A i \in Chunk : /\ result[i] = "fail" => i \in job.bad
                   /\ result[i] = "ok" => i \notin job.bad

(* The stop the lanes know is the first failed chunk polled, and it is     *)
(* still to be settled: its settlement ends the loop.                      *)
Stop ==
  verdict = "running" =>
    /\ laneStop = stopIndex /\ settleFailed = None
    /\ stopIndex >= 0 => /\ ~pulling /\ job.failFast
                         /\ stopIndex \in ready /\ result[stopIndex] # "ok"

(* A lane that keeps a cancelled reason runs tasks after the stop only.    *)
Spared ==
  verdict = "running" /\ ~asked =>
    \A l \in sticky : stopIndex >= 0 /\ (lane[l] # None => lane[l] > stopIndex)

(* No error of an interrupted chunk is counted by a loop that may still    *)
(* end normally.                                                           *)
ErrorsTrue ==
  verdict = "running" /\ (~asked \/ pc = "fill") =>
    \A n \in 1 .. Len(errors) : errors[n] \in job.bad

Failed ==
  settleFailed >= 0 =>
    /\ verdict # "running" /\ settled = settleFailed + 1
    /\ pc = "done" => discarded = settled .. taken - 1

LInv ==
  /\ TypeOK /\ Progress /\ Pulls /\ NoLanes /\ Held /\ Outcomes
  /\ Stop /\ NoSpuriousStop /\ Spared /\ ErrorsTrue /\ Failed /\ WindowBound

-----------------------------------------------------------------------------
(* What a pull gives, and what it says of the number of chunks.            *)
LEMMA PullFacts ==
  ASSUME TypeOK, pulled <= Delivered(job), Pull
  PROVE  \/ /\ PullOutcome = "task" /\ pulled < Delivered(job)
            /\ pulled' = pulled + 1 /\ pulling' /\ pullError' = ""
         \/ /\ PullOutcome \in {"end", "limit", "throws"} /\ pulled = Delivered(job)
            /\ pulled' = pulled /\ ~pulling'
            /\ pullError' = ErrorOfPull /\ pullError' \in {"", "limit", "source"}
            /\ (pullError' = "" <=> PullOutcome = "end")
            /\ Ending(job) = IF pullError' = "" THEN "completed" ELSE pullError'
  <1>0. job \in Jobs /\ pulled \in Nat /\ pulled \in 0 .. MaxLen
    <2>1. job \in Jobs /\ pulled \in 0 .. MaxLen
      BY DEF TypeOK
    <2> QED
      BY <2>1, MaxLenAssumption
  <1>1. NextChunk(job, pulled) \in {"chunk", "throws", "end"}
    BY DEF NextChunk
  <1>2. CASE PullOutcome = "throws"
    <2>1. \/ NextChunk(job, pulled) = "throws"
          \/ /\ NextChunk(job, pulled) = "chunk" /\ pulled < job.length /\ pulled < job.limit
             /\ job.lookahead /\ NextChunk(job, pulled + 1) = "throws"
      <3>1. job.limit \in Nat /\ job.length \in Nat
        BY <1>0, JobFacts
      <3>2. NextChunk(job, pulled) = "chunk" => pulled < job.length
        BY DEF NextChunk
      <3>3. NextChunk(job, pulled) = "chunk" =>
              ~(pulled >= job.limit) /\ job.lookahead /\ NextChunk(job, pulled + 1) = "throws"
        BY <1>2 DEF PullOutcome
      <3> QED
        BY <1>0, <1>1, <1>2, <3>1, <3>2, <3>3 DEF PullOutcome
    <2>2. pulled = Delivered(job) /\ Ending(job) = "source"
      BY <1>0, <2>1, AtBreak
    <2> QED
      BY <1>2, <2>2 DEF Pull, ErrorOfPull
  <1>3. CASE PullOutcome = "end"
    <2>1. NextChunk(job, pulled) = "end"
      BY <1>1, <1>3 DEF PullOutcome
    <2>2. pulled = Delivered(job) /\ Ending(job) = "completed"
      BY <1>0, <2>1, AtEnd
    <2> QED
      BY <1>3, <2>2 DEF Pull, ErrorOfPull
  <1>4. CASE PullOutcome = "limit"
    <2>1. NextChunk(job, pulled) = "chunk" /\ pulled >= job.limit
      BY <1>1, <1>4 DEF PullOutcome
    <2>2. pulled = Delivered(job) /\ Ending(job) = "limit"
      BY <1>0, <2>1, AtLimit, JobFacts DEF NextChunk
    <2> QED
      BY <1>4, <2>2 DEF Pull, ErrorOfPull
  <1>5. CASE PullOutcome = "task"
    <2>1. /\ NextChunk(job, pulled) = "chunk" /\ ~(pulled >= job.limit)
          /\ ~(job.lookahead /\ NextChunk(job, pulled + 1) = "throws")
      BY <1>1, <1>5 DEF PullOutcome
    <2>2. pulled < Delivered(job)
      BY <1>0, <2>1, AtEach, JobFacts DEF NextChunk
    <2> QED
      BY <1>5, <2>2 DEF Pull, ErrorOfPull
  <1> QED
    BY <1>1, <1>2, <1>3, <1>4, <1>5 DEF PullOutcome

-----------------------------------------------------------------------------
(* The steps that only move the calling thread, and what they keep.        *)
Move ==
  \/ ReadAhead \/ OpenLanes \/ Checks \/ InlinePending \/ InlineEnd
  \/ LoopTop \/ LoopEnd \/ ToPoll \/ PollTimeout \/ SettleEnd
  \/ UNCHANGED vars

Stays == UNCHANGED <<job, asked, settled, emitted, errors, sourceVars, laneVars,
                     outbox, ready, stopVars>>

LEMMA Kinds ==
  ASSUME [Next]_vars
  PROVE  \/ Ask \/ Move \/ FirstPull \/ SecondPull \/ InlinePull \/ Fill
         \/ InlineTask \/ Poll \/ Settle \/ Unwind \/ Close
         \/ \E l \in Lane : Take(l) \/ Finish(l)
  BY DEF Next, Caller, Inline, Threaded, LaneStep, Move

LEMMA Types ==
  ASSUME TypeOK
  PROVE  /\ job \in Jobs /\ asked \in BOOLEAN /\ pulling \in BOOLEAN
         /\ settled \in Nat /\ pulled \in Nat /\ taken \in Nat
         /\ settled <= MaxLen /\ pulled <= MaxLen /\ taken <= MaxLen
         /\ Chunk \subseteq Nat /\ None = -1 /\ None \notin Chunk
         /\ stopIndex \in Chunk \cup {None} /\ settleFailed \in Chunk \cup {None}
         /\ laneStop \in Chunk \cup {None}
         /\ outbox \subseteq Chunk /\ ready \subseteq Chunk /\ sticky \subseteq Lane
         /\ \A l \in Lane : lane[l] \in Chunk \cup {None}
         /\ \A i \in Chunk : result[i] \in {"none", "ok", "fail", "stopped"}
         /\ lane \in [Lane -> Chunk \cup {None}]
         /\ result \in [Chunk -> {"none", "ok", "fail", "stopped"}]
         /\ errors \in Seq(Chunk)
  <1>1. /\ job \in Jobs /\ asked \in BOOLEAN /\ pulling \in BOOLEAN
        /\ settled \in 0 .. MaxLen /\ pulled \in 0 .. MaxLen /\ taken \in 0 .. MaxLen
        /\ stopIndex \in Chunk \cup {None} /\ settleFailed \in Chunk \cup {None}
        /\ laneStop \in Chunk \cup {None}
        /\ outbox \subseteq Chunk /\ ready \subseteq Chunk /\ sticky \subseteq Lane
        /\ lane \in [Lane -> Chunk \cup {None}]
        /\ result \in [Chunk -> {"none", "ok", "fail", "stopped"}]
        /\ errors \in Seq(Chunk)
    BY DEF TypeOK
  <1>2. Chunk \subseteq Nat /\ None = -1 /\ None \notin Chunk
    BY MaxLenAssumption DEF Chunk, None
  <1>3. /\ settled \in Nat /\ pulled \in Nat /\ taken \in Nat
        /\ settled <= MaxLen /\ pulled <= MaxLen /\ taken <= MaxLen
    BY <1>1, MaxLenAssumption
  <1> QED
    BY <1>1, <1>2, <1>3

LEMMA MoveFacts ==
  ASSUME TypeOK, Progress, Move
  PROVE  /\ Stays
         /\ pc' \in {"start", "first", "second", "open", "inline", "inlineTask", "loop",
                     "fill", "poll", "settle", "unwind", "closing", "done"}
         /\ verdict' \in Verdicts
         /\ (verdict' = "running" <=> pc' \notin Over)
         /\ verdict' = "running" => verdict = "running"
         /\ pc' \in Before => pc \in Before
         /\ pc' \in {"start", "second", "open"} => pc' = pc
         /\ pc' = "first" => pc \in {"start", "first"}
         /\ pc' = "inlineTask" => settled < pulled
         /\ pc' \notin Before \cup {"done"} => pc \notin Before \cup {"done"} \/ pc = "open"
         /\ pc' = "fill" => pc = "fill" \/ ~asked
         /\ pc = "done" => pc' = "done"
         /\ pc' = "done" => pc = "done" \/ pc \in Before
  <1>0. /\ verdict \in Verdicts /\ pullError \in {"", "limit", "source"}
        /\ pc \in {"start", "first", "second", "open", "inline", "inlineTask", "loop",
                   "fill", "poll", "settle", "unwind", "closing", "done"}
    BY DEF TypeOK
  <1>1. Stays
    BY DEF Move, Stays, ReadAhead, OpenLanes, Checks, Check, InlinePending, InlineEnd,
           LoopTop, LoopEnd, ToPoll, PollTimeout, SettleEnd, vars, sourceVars, laneVars,
           stopVars
  <1>2. CASE UNCHANGED vars
    BY <1>0, <1>1, <1>2 DEF vars, Progress
  <1>3. CASE ~UNCHANGED vars
    BY <1>0, <1>1, <1>3
    DEF Move, ReadAhead, OpenLanes, Checks, Check, InlinePending, InlineEnd, LoopTop,
        LoopEnd, ToPoll, PollTimeout, SettleEnd, Progress, Before, Over, Verdicts
  <1> QED
    BY <1>2, <1>3

(* The settlement of a task, on either way.                                *)
LEMMA SettleTypes ==
  ASSUME TypeOK, settled < pulled, NEW outcome, NEW thrown \in SettleThrows(settled, outcome),
         SettleTask(outcome, thrown)
  PROVE  /\ settled \in Chunk /\ settled' = settled + 1 /\ settled' \in 0 .. MaxLen
         /\ emitted' \in Seq(Chunk) /\ errors' \in Seq(Chunk)
         /\ verdict' \in Verdicts
         /\ thrown \in {"", "chunk", "cancelled"}
  <1>1. settled \in Chunk /\ settled' = settled + 1 /\ settled' \in 0 .. MaxLen
    <2>1. settled' = settled + 1
      BY DEF SettleTask
    <2>2. settled \in Nat /\ pulled \in Nat /\ pulled <= MaxLen
      BY Types
    <2> QED
      BY <2>1, <2>2, MaxLenAssumption DEF Chunk
  <1>2. emitted \in Seq(Chunk) /\ errors \in Seq(Chunk) /\ verdict \in Verdicts
    BY DEF TypeOK
  <1>3. emitted' \in Seq(Chunk)
    <2>1. emitted' = Append(emitted, settled)
      BY DEF SettleTask
    <2> QED
      BY <1>1, <1>2, <2>1
  <1>4. errors' \in Seq(Chunk)
    BY <1>1, <1>2, CountType DEF SettleTask
  <1>5. thrown \in {"", "chunk", "cancelled"}
    BY DEF SettleThrows
  <1> QED
    BY <1>1, <1>2, <1>3, <1>4, <1>5 DEF SettleTask, Verdicts

LEMMA PullTypes ==
  ASSUME TypeOK, pulled <= Delivered(job), Pull
  PROVE  /\ pulled' \in 0 .. MaxLen /\ pulling' \in BOOLEAN
         /\ pullError' \in {"", "limit", "source"}
  <1>1. pulled \in 0 .. MaxLen /\ Delivered(job) \in 0 .. MaxLen
    <2>1. pulled \in 0 .. MaxLen /\ job \in Jobs
      BY DEF TypeOK
    <2> QED
      BY <2>1, DeliveredFacts
  <1>2. \/ pulled < Delivered(job) /\ pulled' = pulled + 1
        \/ pulled' = pulled
    BY PullFacts
  <1>3. pulling' \in BOOLEAN /\ pullError' \in {"", "limit", "source"}
    BY DEF Pull, ErrorOfPull
  <1>4. pulled' \in 0 .. MaxLen
    BY <1>1, <1>2, MaxLenAssumption
  <1> QED
    BY <1>3, <1>4

LEMMA NextTypes ==
  ASSUME LInv, [Next]_vars
  PROVE  TypeOK'
  <1>0. TypeOK /\ Progress /\ Held
    BY DEF LInv
  <1>1. pulled <= Delivered(job) /\ taken <= pulled
    BY <1>0 DEF Progress
  <1>2. CASE Ask
    BY <1>0, <1>2 DEF Ask, TypeOK, sourceVars, laneVars, stopVars
  <1>3. CASE Move
    <2>1. Stays /\ verdict' \in Verdicts
          /\ pc' \in {"start", "first", "second", "open", "inline", "inlineTask", "loop",
                     "fill", "poll", "settle", "unwind", "closing", "done"}
      BY <1>0, <1>3, MoveFacts
    <2> QED
      BY <1>0, <2>1 DEF Stays, TypeOK, sourceVars, laneVars, stopVars
  <1>4. CASE FirstPull \/ SecondPull \/ InlinePull \/ Fill
    <2>1. /\ pulled' \in 0 .. MaxLen /\ pulling' \in BOOLEAN
          /\ pullError' \in {"", "limit", "source"}
      BY <1>0, <1>1, <1>4, PullTypes DEF FirstPull, SecondPull, InlinePull, Fill
    <2>2. /\ UNCHANGED <<job, asked, settled, emitted, errors, laneVars, outbox, ready, stopVars>>
          /\ pc' \in {pc, "second", "open", "inline", "inlineTask", "done"}
          /\ verdict' \in {verdict, "completed", "limit", "source"}
      <3>1. ErrorOfPull \in {"", "limit", "source"}
        BY DEF ErrorOfPull
      <3>2. PullOutcome \in {"task", "end", "limit", "throws"}
        BY <1>0, <1>1, <1>4, PullFacts DEF FirstPull, SecondPull, InlinePull, Fill
      <3>3. PullOutcome \in {"limit", "throws"} => ErrorOfPull \in {"limit", "source"}
        BY DEF ErrorOfPull
      <3> QED
        BY <1>4, <3>1, <3>2, <3>3 DEF FirstPull, SecondPull, InlinePull, Fill
    <2>3. verdict' \in Verdicts
      BY <1>0, <2>2 DEF TypeOK, Verdicts
    <2> QED
      BY <1>0, <2>1, <2>2, <2>3 DEF TypeOK, laneVars, stopVars
  <1>5. CASE InlineTask
    <2>1. PICK outcome \in RunOutcomes(settled, asked) :
            \E thrown \in SettleThrows(settled, outcome) :
              SettleTask(outcome, thrown) /\ pc' = IF thrown = "" THEN "inline" ELSE "done"
      BY <1>5 DEF InlineTask
    <2>2. settled < pulled
      BY <1>0, <1>5 DEF Progress, InlineTask
    <2>3. /\ settled' \in 0 .. MaxLen /\ emitted' \in Seq(Chunk) /\ errors' \in Seq(Chunk)
          /\ verdict' \in Verdicts /\ pc' \in {"inline", "done"}
      BY <1>0, <2>1, <2>2, SettleTypes
    <2>4. UNCHANGED <<job, asked, sourceVars, laneVars, outbox, ready, stopVars>>
      BY <1>5 DEF InlineTask
    <2> QED
      BY <1>0, <2>3, <2>4 DEF TypeOK, sourceVars, laneVars, stopVars
  <1>6. CASE Settle
    <2>1. PICK thrown \in SettleThrows(settled, result[settled]) :
            /\ SettleTask(result[settled], thrown)
            /\ IF thrown = "" THEN UNCHANGED <<pc, settleFailed>>
               ELSE pc' = "unwind" /\ settleFailed' = settled
      BY <1>6 DEF Settle
    <2>2. settled \in ready /\ settled < pulled
      <3>1. settled \in ready
        BY <1>6 DEF Settle, Settleable
      <3>2. settled < taken
        BY <1>0, <3>1 DEF Held
      <3> QED
        BY <1>0, <1>1, <3>1, <3>2, Types
    <2>3. /\ settled' \in 0 .. MaxLen /\ emitted' \in Seq(Chunk) /\ errors' \in Seq(Chunk)
          /\ verdict' \in Verdicts /\ settled \in Chunk
      BY <1>0, <2>1, <2>2, SettleTypes
    <2>4. /\ UNCHANGED <<job, asked, sourceVars, laneVars, outbox, stopIndex, laneStop, discarded>>
          /\ ready' = ready \ {settled}
      BY <1>6 DEF Settle
    <2>5. ready' \subseteq Chunk /\ settleFailed' \in Chunk \cup {None} /\ pc' \in {pc, "unwind"}
      BY <1>0, <2>1, <2>3, <2>4, Types
    <2> QED
      BY <1>0, <2>3, <2>4, <2>5 DEF TypeOK, sourceVars, laneVars
  <1>7. CASE Poll
    <2>1. /\ outbox' \subseteq Chunk /\ ready' \subseteq Chunk /\ pc' = "settle"
          /\ stopIndex' \in Chunk \cup {None} /\ laneStop' \in Chunk \cup {None}
          /\ pulling' \in BOOLEAN
      BY <1>0, <1>7, Types DEF Poll
    <2>2. UNCHANGED <<job, asked, settled, emitted, errors, verdict, pulled, pullError,
                      laneVars, settleFailed, discarded>>
      BY <1>7 DEF Poll
    <2> QED
      BY <1>0, <2>1, <2>2 DEF TypeOK, laneVars
  <1>8. CASE Unwind \/ Close
    <2>1. laneStop' \in Chunk \cup {None} /\ pc' \in {"closing", "done"}
      BY <1>0, <1>8, Types DEF Unwind, Close
    <2>2. discarded' \subseteq Chunk
      <3>1. discarded \subseteq Chunk
        BY <1>0 DEF TypeOK
      <3>2. \A n \in Nat : n + 1 .. taken - 1 \subseteq Chunk
        BY <1>0, Types, MaxLenAssumption DEF Chunk
      <3>3. settleFailed >= 0 => settleFailed \in Nat
        BY <1>0, Types
      <3> QED
        BY <1>8, <3>1, <3>2, <3>3 DEF Unwind, Close
    <2>3. UNCHANGED <<job, asked, settled, emitted, errors, verdict, sourceVars, laneVars,
                      outbox, ready, stopIndex, settleFailed>>
      BY <1>8 DEF Unwind, Close
    <2> QED
      BY <1>0, <2>1, <2>2, <2>3 DEF TypeOK, sourceVars, laneVars
  <1>9. CASE \E l \in Lane : Take(l) \/ Finish(l)
    <2>1. PICK l \in Lane : Take(l) \/ Finish(l)
      BY <1>9
    <2>2. /\ taken' \in 0 .. MaxLen /\ lane' \in [Lane -> Chunk \cup {None}]
          /\ sticky' \subseteq Lane /\ outbox' \subseteq Chunk
          /\ result' \in [Chunk -> {"none", "ok", "fail", "stopped"}]
      <3>1. CASE Take(l)
        <4>1. taken \in Chunk /\ taken + 1 \in 0 .. MaxLen
          BY <1>0, <1>1, <3>1, Types, MaxLenAssumption DEF Take, Chunk
        <4> QED
          BY <1>0, <3>1, <4>1, Types DEF Take
      <3>2. CASE Finish(l)
        <4>1. lane[l] \in Chunk
          BY <1>0, <3>2, Types DEF Finish
        <4>2. \A o \in RunOutcomes(lane[l], Interrupted(l)) : o \in {"ok", "fail", "stopped"}
          BY DEF RunOutcomes, EachOutcome
        <4>3. taken \in 0 .. MaxLen
          BY <1>0 DEF TypeOK
        <4> QED
          BY <1>0, <3>2, <4>1, <4>2, <4>3, Types DEF Finish
      <3> QED
        BY <2>1, <3>1, <3>2
    <2>3. UNCHANGED <<job, asked, settled, emitted, errors, verdict, pc, sourceVars, ready,
                      stopVars>>
      BY <2>1 DEF Take, Finish
    <2> QED
      BY <1>0, <2>2, <2>3 DEF TypeOK, sourceVars, stopVars
  <1> QED
    BY <1>2, <1>3, <1>4, <1>5, <1>6, <1>7, <1>8, <1>9, Kinds

(* What a settlement asks of the lanes: an outcome of theirs.              *)
LEMMA SettleFacts ==
  ASSUME LInv, Settle
  PROVE  /\ settled \in ready /\ settled \in Chunk /\ settled < taken
         /\ result[settled] # "none" /\ pc = "settle" /\ verdict = "running"
         /\ stopIndex < 0 \/ settled <= stopIndex
  <1>1. TypeOK /\ Progress /\ Held
    BY DEF LInv
  <1>2. settled \in ready /\ pc = "settle" /\ (stopIndex < 0 \/ settled <= stopIndex)
    BY DEF Settle, Settleable
  <1>3. settled < taken /\ result[settled] # "none"
    BY <1>1, <1>2 DEF Held
  <1>4. verdict = "running"
    BY <1>1, <1>2 DEF Progress, Over
  <1> QED
    BY <1>1, <1>2, <1>3, <1>4, Types

LEMMA NextProgress ==
  ASSUME LInv, [Next]_vars
  PROVE  Progress' /\ WindowBound'
  <1>0. TypeOK /\ Progress /\ Held /\ NoLanes /\ WindowBound
    BY DEF LInv
  <1>1. /\ settled \in Nat /\ pulled \in Nat /\ taken \in Nat
        /\ settled <= pulled /\ taken <= pulled /\ pulled <= Delivered(job)
        /\ Delivered(job) \in Nat
    <2>1. settled \in Nat /\ pulled \in Nat /\ taken \in Nat /\ job \in Jobs
      BY <1>0, Types
    <2> QED
      BY <1>0, <2>1, DeliveredFacts, MaxLenAssumption DEF Progress
  <1>2. CASE Ask
    BY <1>0, <1>2 DEF Ask, Progress, WindowBound, sourceVars, laneVars, stopVars
  <1>3. CASE Move
    <2>1. UNCHANGED <<job, settled, pulled, taken>>
      BY <1>0, <1>3, MoveFacts DEF Stays, sourceVars, laneVars
    <2>2. WindowBound'
      BY <1>0, <2>1 DEF WindowBound
    <2>3. pc = "open" => settled <= taken
      BY <1>0, <1>1 DEF Progress
    <2>4. /\ (verdict' = "running" <=> pc' \notin Over)
          /\ pc' \in {"start", "second", "open"} => pc' = pc
          /\ pc' = "first" => pc \in {"start", "first"}
          /\ pc' = "inlineTask" => settled < pulled
          /\ pc' \notin Before \cup {"done"} => pc \notin Before \cup {"done"} \/ pc = "open"
      BY <1>0, <1>3, MoveFacts
    <2> QED
      BY <1>0, <1>1, <2>1, <2>2, <2>3, <2>4 DEF Progress
  <1>4. CASE FirstPull \/ SecondPull \/ InlinePull \/ Fill
    <2>1. Pull /\ UNCHANGED <<job, settled, taken>>
      BY <1>4 DEF FirstPull, SecondPull, InlinePull, Fill, laneVars
    <2>2. \/ PullOutcome = "task" /\ pulled < Delivered(job) /\ pulled' = pulled + 1
          \/ PullOutcome # "task" /\ pulled' = pulled
      BY <1>0, <1>1, <2>1, PullFacts
    <2>3. /\ settled' <= pulled' /\ taken' <= pulled' /\ pulled' <= Delivered(job')
          /\ pulled' \in Nat
      BY <1>1, <2>1, <2>2
    <2>4. WindowBound'
      <3>1. \/ pulled - settled < Window
            \/ settled = pulled
            \/ pulled <= 1 /\ settled = 0
        <4>1. pc \in {"first", "second"} => pulled <= 1 /\ settled = 0
          BY <1>0 DEF Progress
        <4>2. pc \in {"first", "second"} \/ settled = pulled \/ pulled - settled < Window
          BY <1>4 DEF FirstPull, SecondPull, InlinePull, Fill, Room
        <4> QED
          BY <4>1, <4>2
      <3>2. pulled' = pulled \/ pulled' = pulled + 1
        BY <2>2
      <3> QED
        BY <1>0, <1>1, <2>1, <3>1, <3>2, WindowAssumption DEF WindowBound
    <2>5. ErrorOfPull \in {"", "limit", "source"}
      BY DEF ErrorOfPull
    <2>6. CASE FirstPull
      <3>1. pc = "first" /\ pulled = 0 /\ settled = 0 /\ taken = 0 /\ verdict = "running"
        BY <1>0, <2>6 DEF FirstPull, Progress, NoLanes, Before, Over
      <3>2. \/ PullOutcome = "task" /\ pc' = "second" /\ verdict' = verdict
            \/ PullOutcome # "task" /\ pc' = "done" /\ verdict' # "running"
        BY <2>5, <2>6 DEF FirstPull
      <3> QED
        BY <1>1, <2>1, <2>2, <2>3, <2>4, <3>1, <3>2 DEF Progress, Before, Over
    <2>7. CASE SecondPull
      <3>1. pc = "second" /\ pulled = 1 /\ settled = 0 /\ verdict = "running"
        BY <1>0, <2>7 DEF SecondPull, Progress, Over
      <3>2. /\ pc' = IF PullOutcome = "task" THEN "open" ELSE "inline"
            /\ verdict' = verdict
        BY <2>7 DEF SecondPull
      <3> QED
        BY <1>1, <2>1, <2>2, <2>3, <2>4, <3>1, <3>2 DEF Progress, Before, Over
    <2>8. CASE InlinePull
      <3>1. pc = "inline" /\ pulled = settled /\ verdict = "running"
        BY <1>0, <2>8 DEF InlinePull, Progress, Over
      <3>2. \/ PullOutcome = "task" /\ pc' = "inlineTask" /\ verdict' = verdict
            \/ PullOutcome # "task" /\ pc' = "done" /\ verdict' # "running"
        BY <2>2, <2>5, <2>8 DEF InlinePull
      <3> QED
        BY <1>1, <2>1, <2>2, <2>3, <2>4, <3>1, <3>2 DEF Progress, Before, Over
    <2>9. CASE Fill
      <3>1. pc = "fill" /\ pc' = pc /\ verdict' = verdict
        BY <2>9 DEF Fill
      <3> QED
        BY <1>0, <1>1, <2>1, <2>3, <2>4, <3>1 DEF Progress, Before
    <2> QED
      BY <1>4, <2>6, <2>7, <2>8, <2>9
  <1>5. CASE InlineTask
    <2>1. PICK outcome \in RunOutcomes(settled, asked) :
            \E thrown \in SettleThrows(settled, outcome) :
              SettleTask(outcome, thrown) /\ pc' = IF thrown = "" THEN "inline" ELSE "done"
      BY <1>5 DEF InlineTask
    <2>2. settled < pulled /\ pc = "inlineTask" /\ verdict = "running"
      BY <1>0, <1>5 DEF Progress, InlineTask, Over
    <2>3. /\ settled' = settled + 1
          /\ \/ pc' = "inline" /\ verdict' = verdict
             \/ pc' = "done" /\ verdict' # "running"
      <3>1. PICK thrown \in SettleThrows(settled, outcome) :
              SettleTask(outcome, thrown) /\ pc' = IF thrown = "" THEN "inline" ELSE "done"
        BY <2>1
      <3>2. thrown \in {"", "chunk", "cancelled"}
        BY <1>0, <2>2, <3>1, SettleTypes
      <3> QED
        BY <3>1, <3>2 DEF SettleTask
    <2>4. UNCHANGED <<job, pulled, taken>>
      BY <1>5 DEF InlineTask, sourceVars, laneVars
    <2>5. WindowBound'
      BY <1>0, <1>1, <2>3, <2>4, WindowAssumption DEF WindowBound
    <2> QED
      BY <1>1, <2>2, <2>3, <2>4, <2>5 DEF Progress, Before, Over
  <1>6. CASE Settle
    <2>1. settled < taken /\ pc = "settle" /\ verdict = "running"
      BY <1>6, SettleFacts
    <2>2. /\ settled' = settled + 1
          /\ \/ pc' = pc /\ verdict' = verdict
             \/ pc' = "unwind" /\ verdict' # "running"
      <3>1. PICK thrown \in SettleThrows(settled, result[settled]) :
              /\ SettleTask(result[settled], thrown)
              /\ IF thrown = "" THEN UNCHANGED <<pc, settleFailed>>
                 ELSE pc' = "unwind" /\ settleFailed' = settled
        BY <1>6 DEF Settle
      <3>2. thrown \in {"", "chunk", "cancelled"}
        BY DEF SettleThrows
      <3> QED
        BY <3>1, <3>2 DEF SettleTask
    <2>3. UNCHANGED <<job, pulled, taken>>
      BY <1>6 DEF Settle, sourceVars, laneVars
    <2>4. WindowBound'
      BY <1>0, <1>1, <2>2, <2>3, WindowAssumption DEF WindowBound
    <2> QED
      BY <1>1, <2>1, <2>2, <2>3, <2>4 DEF Progress, Before, Over
  <1>7. CASE Poll \/ Unwind \/ Close
    <2>1. /\ UNCHANGED <<job, settled, pulled, taken, verdict>>
          /\ \/ pc = "poll" /\ pc' = "settle"
             \/ pc = "unwind" /\ pc' = "closing"
             \/ pc = "closing" /\ pc' = "done"
      BY <1>7 DEF Poll, Unwind, Close, sourceVars, laneVars
    <2>2. WindowBound'
      BY <1>0, <2>1 DEF WindowBound
    <2> QED
      BY <1>0, <1>1, <2>1, <2>2 DEF Progress, Before, Over
  <1>8. CASE \E l \in Lane : Take(l) \/ Finish(l)
    <2>1. /\ UNCHANGED <<job, settled, pulled, verdict, pc>>
          /\ taken' = taken \/ (taken < pulled /\ taken' = taken + 1)
      BY <1>8 DEF Take, Finish, sourceVars
    <2>2. WindowBound'
      BY <1>0, <2>1 DEF WindowBound
    <2> QED
      BY <1>0, <1>1, <2>1, <2>2 DEF Progress, Before
  <1> QED
    BY <1>2, <1>3, <1>4, <1>5, <1>6, <1>7, <1>8, Kinds

(* A settlement keeps the loop running, or ends it.                        *)
LEMMA VerdictStep ==
  ASSUME TypeOK, NEW outcome, NEW thrown \in SettleThrows(settled, outcome),
         SettleTask(outcome, thrown)
  PROVE  /\ thrown = "" => verdict' = verdict
         /\ thrown # "" => verdict' = thrown /\ verdict' \in {"chunk", "cancelled"}
  BY DEF SettleThrows, SettleTask

LEMMA NextPulls ==
  ASSUME LInv, [Next]_vars
  PROVE  Pulls'
  <1>0. TypeOK /\ Progress /\ Pulls /\ Held
    BY DEF LInv
  <1>1. CASE Ask
    BY <1>0, <1>1 DEF Ask, Pulls, sourceVars, stopVars
  <1>2. CASE Move
    <2>1. /\ UNCHANGED <<job, pulled, pulling, pullError, stopIndex>>
          /\ verdict' = "running" => verdict = "running"
          /\ pc' \in {"start", "second", "open"} => pc' = pc
          /\ pc' = "first" => pc \in {"start", "first"}
      BY <1>0, <1>2, MoveFacts DEF Stays, sourceVars, stopVars
    <2> QED
      BY <1>0, <2>1 DEF Pulls
  <1>3. CASE FirstPull \/ SecondPull \/ InlinePull \/ Fill
    <2>1. /\ Pull /\ UNCHANGED <<job, stopIndex>> /\ pulled <= Delivered(job)
          /\ pc' \in {"second", "open"} => PullOutcome = "task"
          /\ pc' \notin {"start", "first"}
      BY <1>0, <1>3 DEF FirstPull, SecondPull, InlinePull, Fill, stopVars, Progress
    <2>2. \/ PullOutcome = "task" /\ pulling' /\ pullError' = ""
          \/ /\ PullOutcome # "task" /\ ~pulling' /\ pulled = Delivered(job) /\ pulled' = pulled
             /\ Ending(job) = IF pullError' = "" THEN "completed" ELSE pullError'
      BY <1>0, <2>1, PullFacts
    <2> QED
      BY <2>1, <2>2 DEF Pulls
  <1>4. CASE InlineTask \/ Settle
    <2>1. /\ UNCHANGED <<job, pulled, pulling, pullError, stopIndex>>
          /\ pc' \in {pc, "inline", "done", "unwind"}
      BY <1>4 DEF InlineTask, Settle, sourceVars, stopVars
    <2>2. verdict' = "running" => verdict = "running"
      <3>1. CASE InlineTask
        <4>1. PICK outcome \in RunOutcomes(settled, asked) :
                \E thrown \in SettleThrows(settled, outcome) : SettleTask(outcome, thrown)
          BY <3>1 DEF InlineTask
        <4> QED
          BY <1>0, <4>1, VerdictStep
      <3>2. CASE Settle
        <4>1. PICK thrown \in SettleThrows(settled, result[settled]) :
                SettleTask(result[settled], thrown)
          BY <3>2 DEF Settle
        <4> QED
          BY <1>0, <4>1, VerdictStep
      <3> QED
        BY <1>4, <3>1, <3>2
    <2> QED
      BY <1>0, <2>1, <2>2 DEF Pulls
  <1>5. CASE Poll
    <2>1. /\ UNCHANGED <<job, pulled, pullError, verdict>> /\ pc' = "settle"
          /\ \/ UNCHANGED <<pulling, stopIndex>>
             \/ stopIndex' \in outbox /\ ~pulling'
      BY <1>5 DEF Poll
    <2>2. stopIndex' \in outbox => ~(stopIndex' < 0)
      <3>1. \A i \in outbox : i \in Nat
        BY <1>0, Types
      <3> QED
        BY <3>1
    <2>3. CASE UNCHANGED <<pulling, stopIndex>>
      BY <1>0, <2>1, <2>3 DEF Pulls
    <2>4. CASE stopIndex' \in outbox /\ ~pulling'
      BY <2>1, <2>2, <2>4 DEF Pulls
    <2> QED
      BY <2>1, <2>3, <2>4
  <1>6. CASE Unwind \/ Close \/ \E l \in Lane : Take(l) \/ Finish(l)
    <2>1. /\ UNCHANGED <<job, pulled, pulling, pullError, stopIndex, verdict>>
          /\ pc' \in {pc, "closing", "done"}
      BY <1>6 DEF Unwind, Close, Take, Finish, sourceVars, stopVars
    <2> QED
      BY <1>0, <2>1 DEF Pulls
  <1> QED
    BY <1>1, <1>2, <1>3, <1>4, <1>5, <1>6, Kinds

LEMMA NextNoLanes ==
  ASSUME LInv, [Next]_vars
  PROVE  NoLanes'
  <1>0. TypeOK /\ Progress /\ NoLanes
    BY DEF LInv
  <1>1. CASE Move
    <2>1. /\ UNCHANGED <<taken, lane, sticky, outbox, ready, stopIndex>>
          /\ pc' \in Before => pc \in Before
      BY <1>0, <1>1, MoveFacts DEF Stays, laneVars, stopVars
    <2> QED
      BY <1>0, <2>1 DEF NoLanes
  <1>2. CASE Ask \/ FirstPull \/ SecondPull \/ InlinePull \/ Fill \/ InlineTask
    <2>1. UNCHANGED <<taken, lane, sticky, outbox, ready, stopIndex>>
      BY <1>2 DEF Ask, FirstPull, SecondPull, InlinePull, Fill, InlineTask, laneVars, stopVars
    <2>2. pc' \in Before => pc \in Before
      BY <1>2 DEF Ask, FirstPull, SecondPull, InlinePull, Fill, InlineTask, Before
    <2> QED
      BY <1>0, <2>1, <2>2 DEF NoLanes
  <1>3. CASE Poll \/ Settle \/ Unwind \/ Close
    <2>1. pc' \in {"settle", "unwind", "closing", "done"}
      BY <1>3 DEF Poll, Settle, Unwind, Close
    <2> QED
      BY <2>1 DEF NoLanes, Before
  <1>4. CASE \E l \in Lane : Take(l) \/ Finish(l)
    <2>1. PICK l \in Lane : Take(l) \/ Finish(l)
      BY <1>4
    <2>2. pc \notin Before /\ pc' = pc
      BY <1>0, <2>1 DEF Take, Finish, LanesOpen, Before, NoLanes
    <2> QED
      BY <2>2 DEF NoLanes
  <1> QED
    BY <1>1, <1>2, <1>3, <1>4, Kinds

LEMMA NextHeld ==
  ASSUME LInv, [Next]_vars
  PROVE  Held'
  <1>0. TypeOK /\ Progress /\ Held /\ NoLanes
    BY DEF LInv
  <1>1. CASE Move
    <2>1. UNCHANGED <<settled, outbox, ready, taken, lane, result>>
      BY <1>0, <1>1, MoveFacts DEF Stays, laneVars
    <2> QED
      BY <1>0, <2>1 DEF Held
  <1>2. CASE Ask \/ FirstPull \/ SecondPull \/ InlinePull \/ Fill \/ Unwind \/ Close
    <2>1. UNCHANGED <<settled, outbox, ready, taken, lane, result>>
      BY <1>2 DEF Ask, FirstPull, SecondPull, InlinePull, Fill, Unwind, Close, laneVars
    <2> QED
      BY <1>0, <2>1 DEF Held
  <1>3. CASE InlineTask
    <2>1. UNCHANGED <<outbox, ready, taken, lane, result>> /\ pc = "inlineTask"
      BY <1>3 DEF InlineTask, laneVars
    <2>2. outbox = {} /\ ready = {} /\ \A l \in Lane : lane[l] = None
      BY <1>0, <2>1 DEF NoLanes, Before
    <2> QED
      BY <1>0, <2>1, <2>2 DEF Held
  <1>4. CASE Poll
    <2>1. UNCHANGED <<settled, taken, lane, result>>
      BY <1>4 DEF Poll, laneVars
    <2>2. PICK i \in outbox : outbox' = outbox \ {i} /\ ready' = ready \cup {i}
      BY <1>4 DEF Poll
    <2> QED
      BY <1>0, <2>1, <2>2 DEF Held
  <1>5. CASE Settle
    <2>1. /\ settled \in ready /\ result[settled] # "none"
          /\ settled \in Nat /\ Chunk \subseteq Nat
      BY <1>0, <1>5, SettleFacts, Types
    <2>2. /\ UNCHANGED <<outbox, taken, lane, result>> /\ ready' = ready \ {settled}
          /\ settled' = settled + 1
      BY <1>5 DEF Settle, SettleTask, laneVars
    <2>3. \A i \in outbox' \cup ready' : settled' <= i
      <3>1. \A i \in outbox \cup (ready \ {settled}) : i \in Nat /\ settled <= i /\ i # settled
        BY <1>0, <2>1, Types DEF Held
      <3> QED
        BY <2>1, <2>2, <3>1
    <2>4. \A l \in Lane : lane[l] # None => settled' <= lane[l]
      <3>1. \A l \in Lane : lane[l] # None =>
               lane[l] \in Nat /\ settled <= lane[l] /\ lane[l] # settled
        BY <1>0, <2>1, Types DEF Held
      <3> QED
        BY <2>1, <2>2, <3>1
    <2> QED
      BY <1>0, <2>2, <2>3, <2>4 DEF Held
  <1>6. ASSUME NEW l \in Lane, Take(l)
        PROVE  Held'
    <2>1. /\ UNCHANGED <<settled, outbox, ready, result>> /\ taken' = taken + 1
          /\ lane' = [lane EXCEPT ![l] = taken] /\ taken < pulled
          /\ pc \in {"loop", "fill", "poll", "settle", "unwind"}
      BY <1>6 DEF Take, LanesOpen
    <2>2. settled <= taken
      BY <1>0, <2>1 DEF Progress, Before
    <2>3. taken \in Chunk /\ taken \in Nat
      BY <1>0, <2>1, Types, MaxLenAssumption DEF Chunk
    <2>4. result[taken] = "none"
      BY <1>0, <2>3, Types DEF Held
    <2>5. \A m \in Lane : lane'[m] = IF m = l THEN taken ELSE lane[m]
      BY <1>0, <2>1, Types
    <2>6. \A i \in Chunk : i < taken => i < taken' /\ i # taken
      BY <1>0, <2>1, <2>3, Types
    <2>7. \A m \in Lane : lane'[m] # None =>
            lane'[m] < taken' /\ settled <= lane'[m] /\ result[lane'[m]] = "none"
      <3>1. taken < taken' /\ taken # None
        BY <2>1, <2>3, Types, <1>0
      <3>2. \A m \in Lane : lane[m] # None =>
              lane[m] < taken' /\ settled <= lane[m] /\ result[lane[m]] = "none"
        BY <1>0, <2>6, Types DEF Held
      <3> QED
        BY <2>2, <2>4, <2>5, <3>1, <3>2
    <2>8. \A m, n \in Lane : m # n /\ lane'[m] # None => lane'[m] # lane'[n]
      <3>1. \A m \in Lane : lane[m] # None => lane[m] # taken
        BY <1>0, <2>6, Types DEF Held
      <3> QED
        BY <1>0, <2>3, <2>5, <3>1, Types DEF Held
    <2>9. \A i \in outbox \cup ready : settled <= i /\ i < taken' /\ result[i] # "none"
      BY <1>0, <2>6, Types DEF Held
    <2> QED
      BY <1>0, <2>1, <2>6, <2>7, <2>8, <2>9 DEF Held
  <1>7. ASSUME NEW l \in Lane, Finish(l)
        PROVE  Held'
    <2>1. lane[l] \in Chunk /\ lane[l] # None /\ lane[l] < taken /\ settled <= lane[l]
          /\ result[lane[l]] = "none"
      BY <1>0, <1>7, Types DEF Finish, Held
    <2>2. PICK outcome \in RunOutcomes(lane[l], Interrupted(l)) :
            result' = [result EXCEPT ![lane[l]] = outcome]
      BY <1>7 DEF Finish
    <2>3. outcome # "none"
      BY DEF RunOutcomes, EachOutcome
    <2>4. /\ outbox' = outbox \cup {lane[l]} /\ lane' = [lane EXCEPT ![l] = None]
          /\ UNCHANGED <<settled, taken, ready>>
      BY <1>7 DEF Finish
    <2>5. \A m \in Lane : lane'[m] = IF m = l THEN None ELSE lane[m]
      BY <1>0, <2>4, Types
    <2>6. \A i \in Chunk : result'[i] = IF i = lane[l] THEN outcome ELSE result[i]
      BY <1>0, <2>1, <2>2, Types
    <2>7. lane[l] \notin ready
      BY <1>0, <2>1 DEF Held
    <2>8. \A m \in Lane : m # l /\ lane[m] # None => lane[m] \in Chunk /\ lane[m] # lane[l]
      BY <1>0, <2>1, Types DEF Held
    <2>9. \A i \in outbox' \cup ready' : settled' <= i /\ i < taken' /\ result'[i] # "none"
      BY <1>0, <2>1, <2>3, <2>4, <2>6, Types DEF Held
    <2>10. \A m \in Lane : lane'[m] # None =>
             lane'[m] < taken' /\ settled' <= lane'[m] /\ result'[lane'[m]] = "none"
      BY <1>0, <2>4, <2>5, <2>6, <2>8 DEF Held
    <2>11. \A i \in Chunk : result'[i] # "none" => i < taken'
      BY <1>0, <2>1, <2>4, <2>6 DEF Held
    <2>12. \A m, n \in Lane : m # n /\ lane'[m] # None => lane'[m] # lane'[n]
      BY <1>0, <2>5 DEF Held
    <2> QED
      BY <1>0, <2>4, <2>7, <2>9, <2>10, <2>11, <2>12 DEF Held
  <1> QED
    BY <1>1, <1>2, <1>3, <1>4, <1>5, <1>6, <1>7, Kinds

LEMMA NextOutcomes ==
  ASSUME LInv, [Next]_vars
  PROVE  Outcomes'
  <1>0. TypeOK /\ Progress /\ Outcomes
    BY DEF LInv
  <1>1. CASE Move
    <2>1. UNCHANGED <<job, result>>
      BY <1>0, <1>1, MoveFacts DEF Stays, laneVars
    <2> QED
      BY <1>0, <2>1 DEF Outcomes
  <1>2. ASSUME NEW l \in Lane, Finish(l)
        PROVE  Outcomes'
    <2>1. PICK outcome \in RunOutcomes(lane[l], Interrupted(l)) :
            result' = [result EXCEPT ![lane[l]] = outcome]
      BY <1>2 DEF Finish
    <2>2. lane[l] \in Chunk /\ job' = job
      BY <1>0, <1>2, Types DEF Finish
    <2>3. \A i \in Chunk : result'[i] = IF i = lane[l] THEN outcome ELSE result[i]
      BY <1>0, <2>1, <2>2, Types
    <2>4. /\ outcome = "fail" => lane[l] \in job.bad
          /\ outcome = "ok" => lane[l] \notin job.bad
      BY DEF RunOutcomes, EachOutcome
    <2> QED
      BY <1>0, <2>2, <2>3, <2>4 DEF Outcomes
  <1>3. CASE \/ Ask \/ FirstPull \/ SecondPull \/ InlinePull \/ Fill \/ InlineTask
             \/ Poll \/ Settle \/ Unwind \/ Close \/ \E l \in Lane : Take(l)
    <2>1. UNCHANGED <<job, result>>
      BY <1>3 DEF Ask, FirstPull, SecondPull, InlinePull, Fill, InlineTask, Poll, Settle,
                  Unwind, Close, Take, laneVars
    <2> QED
      BY <1>0, <2>1 DEF Outcomes
  <1> QED
    BY <1>1, <1>2, <1>3, Kinds

(* The settlement of the first failed chunk polled throws.                 *)
LEMMA StopThrows ==
  ASSUME LInv, verdict = "running", stopIndex >= 0,
         NEW thrown \in SettleThrows(stopIndex, result[stopIndex])
  PROVE  thrown # ""
  <1>1. job.failFast /\ result[stopIndex] # "ok"
    BY DEF LInv, Stop
  <1> QED
    BY <1>1 DEF SettleThrows, Throws

LEMMA NextStop ==
  ASSUME LInv, [Next]_vars
  PROVE  Stop'
  <1>0. TypeOK /\ Progress /\ Held /\ NoLanes /\ Stop
    BY DEF LInv
  <1>1. /\ None = -1 /\ Chunk \subseteq Nat /\ outbox \subseteq Chunk /\ ready \subseteq Chunk
        /\ stopIndex \in Chunk \cup {None}
    BY <1>0, Types
  <1>2. CASE Move
    <2>1. /\ UNCHANGED <<job, pulling, ready, result, stopIndex, laneStop, settleFailed>>
          /\ verdict' = "running" => verdict = "running"
      BY <1>0, <1>2, MoveFacts DEF Stays, sourceVars, laneVars, stopVars
    <2> QED
      BY <1>0, <2>1 DEF Stop
  <1>3. CASE FirstPull \/ SecondPull \/ InlinePull \/ Fill
    <2>1. UNCHANGED <<laneStop, stopIndex, settleFailed>>
      BY <1>3 DEF FirstPull, SecondPull, InlinePull, Fill, stopVars
    <2>2. pc \in Before \/ (pc = "fill" /\ pulling)
      BY <1>3 DEF FirstPull, SecondPull, InlinePull, Fill, Room, Before
    <2>3. verdict = "running"
      BY <1>0, <2>2 DEF Progress, Before, Over
    <2>4. ~(stopIndex >= 0)
      <3>1. CASE pc \in Before
        BY <1>0, <1>1, <3>1 DEF NoLanes
      <3>2. CASE pulling
        BY <1>0, <2>3, <3>2 DEF Stop
      <3> QED
        BY <2>2, <3>1, <3>2
    <2> QED
      BY <1>0, <2>1, <2>3, <2>4 DEF Stop
  <1>4. CASE Ask \/ InlineTask \/ \E l \in Lane : Take(l)
    <2>1. UNCHANGED <<job, pulling, ready, result, stopIndex, laneStop, settleFailed>>
      BY <1>4 DEF Ask, InlineTask, Take, sourceVars, laneVars, stopVars
    <2>2. verdict = "running" \/ verdict' = verdict
      BY <1>0, <1>4 DEF Ask, InlineTask, Take, Progress, Over
    <2> QED
      BY <1>0, <2>1, <2>2 DEF Stop
  <1>5. CASE Poll
    <2>1. PICK i \in outbox :
            /\ ready' = ready \cup {i}
            /\ \/ /\ result[i] # "ok" /\ job.failFast
                  /\ stopIndex' = i /\ laneStop' = i /\ ~pulling'
               \/ UNCHANGED <<stopIndex, laneStop, pulling>>
      BY <1>5 DEF Poll
    <2>2. UNCHANGED <<job, verdict, result, settleFailed>>
      BY <1>5 DEF Poll, laneVars
    <2>3. CASE UNCHANGED <<stopIndex, laneStop, pulling>>
      BY <1>0, <2>1, <2>2, <2>3 DEF Stop
    <2>4. CASE /\ result[i] # "ok" /\ job.failFast
               /\ stopIndex' = i /\ laneStop' = i /\ ~pulling'
      BY <1>0, <2>1, <2>2, <2>4 DEF Stop
    <2> QED
      BY <2>1, <2>3, <2>4
  <1>6. CASE Settle
    <2>1. PICK thrown \in SettleThrows(settled, result[settled]) :
            /\ SettleTask(result[settled], thrown)
            /\ IF thrown = "" THEN UNCHANGED <<pc, settleFailed>>
               ELSE pc' = "unwind" /\ settleFailed' = settled
      BY <1>6 DEF Settle
    <2>2. /\ UNCHANGED <<job, pulling, result, stopIndex, laneStop>>
          /\ ready' = ready \ {settled}
      BY <1>6 DEF Settle, sourceVars, laneVars
    <2>3. verdict = "running"
      BY <1>6, SettleFacts
    <2>4. CASE thrown = ""
      <3>1. stopIndex >= 0 => stopIndex # settled
        BY <2>1, <2>3, <2>4, StopThrows
      <3> QED
        BY <1>0, <2>1, <2>2, <2>3, <2>4, <3>1 DEF Stop
    <2>5. CASE thrown # ""
      <3>1. verdict' # "running"
        BY <1>0, <2>1, <2>5, VerdictStep
      <3> QED
        BY <3>1 DEF Stop
    <2> QED
      BY <2>4, <2>5
  <1>7. CASE Unwind \/ Close
    <2>1. verdict' # "running"
      BY <1>0, <1>7 DEF Unwind, Close, Progress, Over
    <2> QED
      BY <2>1 DEF Stop
  <1>8. ASSUME NEW l \in Lane, Finish(l)
        PROVE  Stop'
    <2>1. UNCHANGED <<job, pulling, ready, verdict, stopIndex, laneStop, settleFailed>>
      BY <1>8 DEF Finish, sourceVars, stopVars
    <2>2. \A i \in ready : result'[i] = result[i]
      <3>1. lane[l] \in Chunk /\ lane[l] \notin ready
        BY <1>0, <1>8, Types DEF Held, Finish
      <3>2. PICK outcome : result' = [result EXCEPT ![lane[l]] = outcome]
        BY <1>8 DEF Finish
      <3> QED
        BY <1>0, <1>1, <3>1, <3>2, Types
    <2> QED
      BY <1>0, <2>1, <2>2 DEF Stop
  <1> QED
    BY <1>2, <1>3, <1>4, <1>5, <1>6, <1>7, <1>8, Kinds

(* Nothing but an earlier failure, or the cancellation, interrupts a chunk *)
(* of a loop that runs.                                                    *)
LEMMA InterruptedLate ==
  ASSUME LInv, verdict = "running", ~asked, NEW l \in Lane, lane[l] # None, Interrupted(l)
  PROVE  stopIndex >= 0 /\ lane[l] > stopIndex
  <1>0. Progress /\ Stop /\ Spared
    BY DEF LInv
  <1>1. ~LanesCancelled
    BY <1>0 DEF LanesCancelled, Progress, Over
  <1>2. CASE l \in sticky
    BY <1>0, <1>2 DEF Spared
  <1>3. CASE laneStop >= 0 /\ lane[l] > laneStop
    BY <1>0, <1>3 DEF Stop
  <1> QED
    BY <1>1, <1>2, <1>3 DEF Interrupted

LEMMA NextSpared ==
  ASSUME LInv, [Next]_vars
  PROVE  NoSpuriousStop' /\ Spared'
  <1>0. TypeOK /\ Progress /\ Held /\ NoLanes /\ Stop /\ NoSpuriousStop /\ Spared
    BY DEF LInv
  <1>1. CASE Move
    <2>1. /\ UNCHANGED <<asked, result, stopIndex, sticky, lane>>
          /\ verdict' = "running" => verdict = "running"
      BY <1>0, <1>1, MoveFacts DEF Stays, laneVars, stopVars
    <2> QED
      BY <1>0, <2>1 DEF NoSpuriousStop, Spared
  <1>2. CASE FirstPull \/ SecondPull \/ InlinePull \/ Fill \/ InlineTask \/ Settle \/ Unwind
             \/ Close
    <2>1. UNCHANGED <<asked, result, stopIndex, sticky, lane>>
      BY <1>2 DEF FirstPull, SecondPull, InlinePull, Fill, InlineTask, Settle, Unwind, Close,
                  laneVars, stopVars
    <2>2. verdict = "running" \/ verdict' = verdict
      BY <1>0, <1>2
      DEF FirstPull, SecondPull, InlinePull, Fill, InlineTask, Settle, Unwind, Close,
          Progress, Over
    <2> QED
      BY <1>0, <2>1, <2>2 DEF NoSpuriousStop, Spared
  <1>3. CASE Ask
    BY <1>3 DEF Ask, NoSpuriousStop, Spared
  <1>4. CASE Poll
    <2>1. UNCHANGED <<asked, verdict, result, sticky, lane>>
      BY <1>4 DEF Poll, laneVars
    <2>2. \/ stopIndex' = stopIndex
          \/ stopIndex' \in Nat /\ (stopIndex < 0 \/ stopIndex' < stopIndex)
      BY <1>0, <1>4, Types DEF Poll
    <2>3. stopIndex \in Int /\ \A i \in Chunk : i \in Int
      BY <1>0, Types
    <2>4. NoSpuriousStop'
      BY <1>0, <2>1, <2>2, <2>3 DEF NoSpuriousStop
    <2>5. \A l \in Lane : lane[l] # None => lane[l] \in Int
      BY <1>0, Types
    <2>6. Spared'
      BY <1>0, <2>1, <2>2, <2>3, <2>5, Types DEF Spared
    <2> QED
      BY <2>4, <2>6
  <1>5. ASSUME NEW l \in Lane, Take(l)
        PROVE  NoSpuriousStop' /\ Spared'
    <2>1. /\ UNCHANGED <<asked, verdict, result, stopIndex, sticky>>
          /\ lane' = [lane EXCEPT ![l] = taken]
      BY <1>5 DEF Take, stopVars
    <2>2. \A m \in Lane : lane'[m] = IF m = l THEN taken ELSE lane[m]
      BY <1>0, <2>1, Types
    <2>3. verdict = "running" /\ stopIndex >= 0 => taken > stopIndex
      <3>1. verdict = "running" /\ stopIndex >= 0 => stopIndex < taken
        BY <1>0 DEF Stop, Held
      <3> QED
        BY <1>0, <3>1, Types
    <2>4. sticky \subseteq Lane
      BY <1>0, Types
    <2> QED
      BY <1>0, <2>1, <2>2, <2>3, <2>4 DEF NoSpuriousStop, Spared
  <1>6. ASSUME NEW l \in Lane, Finish(l)
        PROVE  NoSpuriousStop' /\ Spared'
    <2>1. PICK outcome \in RunOutcomes(lane[l], Interrupted(l)) :
            /\ result' = [result EXCEPT ![lane[l]] = outcome]
            /\ sticky' = IF outcome = "stopped" THEN sticky \cup {l} ELSE sticky
      BY <1>6 DEF Finish
    <2>2. /\ UNCHANGED <<asked, verdict, stopIndex>> /\ lane' = [lane EXCEPT ![l] = None]
          /\ lane[l] # None /\ lane[l] \in Chunk
      BY <1>0, <1>6, Types DEF Finish, stopVars
    <2>3. outcome = "stopped" => Interrupted(l)
      BY DEF RunOutcomes, EachOutcome
    <2>4. outcome = "stopped" /\ verdict = "running" /\ ~asked =>
            stopIndex >= 0 /\ lane[l] > stopIndex
      BY <2>2, <2>3, InterruptedLate
    <2>5. \A i \in Chunk : result'[i] = IF i = lane[l] THEN outcome ELSE result[i]
      BY <1>0, <2>1, <2>2, Types
    <2>6. \A m \in Lane : lane'[m] = IF m = l THEN None ELSE lane[m]
      BY <1>0, <2>2, Types
    <2>7. NoSpuriousStop'
      BY <1>0, <2>2, <2>4, <2>5 DEF NoSpuriousStop
    <2>8. Spared'
      BY <1>0, <2>1, <2>2, <2>4, <2>6, Types DEF Spared
    <2> QED
      BY <2>7, <2>8
  <1> QED
    BY <1>1, <1>2, <1>3, <1>4, <1>5, <1>6, Kinds

(* What a settlement does to the errors: a chunk that was not interrupted  *)
(* is counted when its Each slot failed, and only then.                    *)
LEMMA CountedIsBad ==
  ASSUME TypeOK, settled \in Chunk, NEW outcome, NEW thrown, SettleTask(outcome, thrown),
         outcome = "ok" \/ settled \in job.bad,
         \A n \in 1 .. Len(errors) : errors[n] \in job.bad
  PROVE  \A n \in 1 .. Len(errors') : errors'[n] \in job.bad
  <1>1. errors' = errors \/ (errors' = Count(errors, settled) /\ settled \in job.bad)
    BY DEF SettleTask
  <1>2. errors \in Seq(Chunk)
    BY DEF TypeOK
  <1>3. CASE errors' = errors
    BY <1>3
  <1>4. CASE errors' = Count(errors, settled) /\ settled \in job.bad
    <2>1. \A n \in 1 .. Len(Count(errors, settled)) :
            \/ n \in 1 .. Len(errors) /\ Count(errors, settled)[n] = errors[n]
            \/ n = Len(errors) + 1 /\ Count(errors, settled)[n] = settled
      BY <1>2, CountType
    <2> QED
      BY <1>4, <2>1
  <1> QED
    BY <1>1, <1>3, <1>4

LEMMA NextErrors ==
  ASSUME LInv, [Next]_vars
  PROVE  ErrorsTrue'
  <1>0. TypeOK /\ Progress /\ Outcomes /\ NoSpuriousStop /\ ErrorsTrue
    BY DEF LInv
  <1>1. CASE Move
    <2>1. /\ UNCHANGED <<job, asked, errors>>
          /\ verdict' = "running" => verdict = "running"
          /\ pc' = "fill" => pc = "fill" \/ ~asked
      BY <1>0, <1>1, MoveFacts DEF Stays
    <2> QED
      BY <1>0, <2>1 DEF ErrorsTrue
  <1>2. CASE InlineTask
    <2>1. PICK outcome \in RunOutcomes(settled, asked) :
            \E thrown \in SettleThrows(settled, outcome) : SettleTask(outcome, thrown)
      BY <1>2 DEF InlineTask
    <2>2. PICK thrown \in SettleThrows(settled, outcome) : SettleTask(outcome, thrown)
      BY <2>1
    <2>3. settled < pulled /\ verdict = "running" /\ pc' # "fill" /\ UNCHANGED <<job, asked>>
      BY <1>0, <1>2 DEF InlineTask, Progress, Over
    <2>4. settled \in Chunk
      BY <1>0, <2>2, <2>3, SettleTypes
    <2>5. ~asked => outcome = "ok" \/ settled \in job.bad
      BY <2>1 DEF RunOutcomes, EachOutcome
    <2>6. ~asked => \A n \in 1 .. Len(errors') : errors'[n] \in job.bad
      BY <1>0, <2>2, <2>3, <2>4, <2>5, CountedIsBad DEF ErrorsTrue
    <2> QED
      BY <2>3, <2>6 DEF ErrorsTrue
  <1>3. CASE Settle
    <2>1. PICK thrown \in SettleThrows(settled, result[settled]) :
            SettleTask(result[settled], thrown)
      BY <1>3 DEF Settle
    <2>2. /\ settled \in Chunk /\ result[settled] # "none" /\ verdict = "running"
          /\ stopIndex < 0 \/ settled <= stopIndex
      BY <1>3, SettleFacts
    <2>3. pc' # "fill" /\ UNCHANGED <<job, asked>>
      BY <1>3 DEF Settle
    <2>4. ~asked => result[settled] # "stopped"
      <3>1. stopIndex \in Int /\ settled \in Int
        BY <1>0, <2>2, Types
      <3> QED
        BY <1>0, <2>2, <3>1 DEF NoSpuriousStop
    <2>5. ~asked => result[settled] = "ok" \/ settled \in job.bad
      <3>1. result[settled] \in {"none", "ok", "fail", "stopped"}
        BY <1>0, <2>2, Types
      <3> QED
        BY <1>0, <2>2, <2>4, <3>1 DEF Outcomes
    <2>6. ~asked => \A n \in 1 .. Len(errors') : errors'[n] \in job.bad
      BY <1>0, <2>1, <2>2, <2>5, CountedIsBad DEF ErrorsTrue
    <2> QED
      BY <2>3, <2>6 DEF ErrorsTrue
  <1>4. CASE \/ Ask \/ FirstPull \/ SecondPull \/ InlinePull \/ Fill \/ Poll \/ Unwind \/ Close
             \/ \E l \in Lane : Take(l) \/ Finish(l)
    <2>1. UNCHANGED <<job, errors>> /\ (asked' = asked \/ asked')
      BY <1>4 DEF Ask, FirstPull, SecondPull, InlinePull, Fill, Poll, Unwind, Close, Take, Finish
    <2>2. pc' = "fill" => pc = "fill"
      BY <1>4 DEF Ask, FirstPull, SecondPull, InlinePull, Fill, Poll, Unwind, Close, Take, Finish
    <2>3. verdict' = "running" => verdict = "running"
      BY <1>0, <1>4
      DEF Ask, FirstPull, SecondPull, InlinePull, Fill, Poll, Unwind, Close, Take, Finish,
          Progress, Over
    <2>4. ~asked' => ~asked
      BY <1>4 DEF Ask, FirstPull, SecondPull, InlinePull, Fill, Poll, Unwind, Close, Take, Finish
    <2> QED
      BY <1>0, <2>1, <2>2, <2>3, <2>4 DEF ErrorsTrue
  <1> QED
    BY <1>1, <1>2, <1>3, <1>4, Kinds

LEMMA NextFailed ==
  ASSUME LInv, [Next]_vars
  PROVE  Failed'
  <1>0. TypeOK /\ Progress /\ Stop /\ Failed
    BY DEF LInv
  <1>1. verdict = "running" => ~(settleFailed >= 0)
    BY <1>0 DEF Stop, None
  <1>2. CASE Move
    <2>1. /\ UNCHANGED <<settled, settleFailed, discarded, taken>>
          /\ verdict' = "running" => verdict = "running"
          /\ pc' = "done" => pc = "done" \/ pc \in Before
          /\ pc \in Before => verdict = "running"
      BY <1>0, <1>2, MoveFacts DEF Stays, laneVars, stopVars, Progress, Before, Over
    <2>2. CASE verdict = "running"
      BY <1>1, <2>1, <2>2 DEF Failed
    <2>3. CASE verdict # "running"
      BY <1>0, <2>1, <2>3 DEF Failed
    <2> QED
      BY <2>2, <2>3
  <1>3. CASE FirstPull \/ SecondPull \/ InlinePull \/ Fill \/ InlineTask
    <2>1. verdict = "running" /\ settleFailed' = settleFailed
      BY <1>0, <1>3
      DEF FirstPull, SecondPull, InlinePull, Fill, InlineTask, Progress, Over, stopVars
    <2> QED
      BY <1>1, <2>1 DEF Failed
  <1>4. CASE Poll
    <2>1. verdict = "running" /\ settleFailed' = settleFailed
      BY <1>0, <1>4 DEF Poll, Progress, Over
    <2> QED
      BY <1>1, <2>1 DEF Failed
  <1>5. CASE Settle
    <2>1. PICK thrown \in SettleThrows(settled, result[settled]) :
            /\ SettleTask(result[settled], thrown)
            /\ IF thrown = "" THEN UNCHANGED <<pc, settleFailed>>
               ELSE pc' = "unwind" /\ settleFailed' = settled
      BY <1>5 DEF Settle
    <2>2. verdict = "running"
      BY <1>5, SettleFacts
    <2>3. CASE thrown = ""
      BY <1>1, <2>1, <2>2, <2>3 DEF Failed
    <2>4. CASE thrown # ""
      <3>1. verdict' # "running"
        BY <1>0, <2>1, <2>4, VerdictStep
      <3>2. settled' = settled + 1 /\ settleFailed' = settled /\ pc' = "unwind"
        BY <2>1, <2>4 DEF SettleTask
      <3> QED
        BY <3>1, <3>2 DEF Failed
    <2> QED
      BY <2>3, <2>4
  <1>6. CASE Unwind
    <2>1. UNCHANGED <<verdict, settled, settleFailed>> /\ pc' = "closing"
      BY <1>6 DEF Unwind
    <2> QED
      BY <1>0, <2>1 DEF Failed
  <1>7. CASE Close
    <2>1. /\ UNCHANGED <<verdict, settled, settleFailed, taken>>
          /\ discarded' = IF settleFailed >= 0 THEN settleFailed + 1 .. taken - 1 ELSE {}
      BY <1>7 DEF Close, laneVars
    <2> QED
      BY <1>0, <2>1 DEF Failed
  <1>8. CASE Ask
    <2>1. UNCHANGED <<verdict, settled, settleFailed, discarded, taken, pc>>
      BY <1>8 DEF Ask, stopVars, laneVars
    <2> QED
      BY <1>0, <2>1 DEF Failed
  <1>9. ASSUME NEW l \in Lane, Take(l) \/ Finish(l)
        PROVE  Failed'
    <2>1. /\ UNCHANGED <<verdict, settled, settleFailed, discarded, pc>>
          /\ pc = "done" => taken' = taken
      BY <1>9 DEF Take, Finish, LanesOpen, stopVars
    <2> QED
      BY <1>0, <2>1 DEF Failed
  <1> QED
    BY <1>2, <1>3, <1>4, <1>5, <1>6, <1>7, <1>8, <1>9, Kinds

-----------------------------------------------------------------------------
LEMMA InitLInv == Init => LInv
  <1> SUFFICES ASSUME Init PROVE LInv
    OBVIOUS
  <1>0. /\ job \in Jobs /\ asked = FALSE /\ settled = 0 /\ emitted = <<>> /\ errors = <<>>
        /\ verdict = "running" /\ pc = "start" /\ pulled = 0 /\ pulling = TRUE
        /\ pullError = "" /\ taken = 0 /\ lane = [l \in Lane |-> None] /\ sticky = {}
        /\ outbox = {} /\ ready = {} /\ result = [i \in Chunk |-> "none"]
        /\ stopIndex = None /\ laneStop = None /\ settleFailed = None /\ discarded = {}
    BY DEF Init, PInit
  <1>1. TypeOK
    <2>1. /\ settled \in 0 .. MaxLen /\ pulled \in 0 .. MaxLen /\ taken \in 0 .. MaxLen
          /\ emitted \in Seq(Chunk) /\ errors \in Seq(Chunk)
      <3>1. settled = 0 /\ pulled = 0 /\ taken = 0 /\ emitted = <<>> /\ errors = <<>>
        BY <1>0
      <3>2. 0 \in 0 .. MaxLen
        BY MaxLenAssumption
      <3> QED
        BY <3>1, <3>2, EmptySeq
    <2>2. /\ asked \in BOOLEAN /\ pulling \in BOOLEAN /\ verdict \in Verdicts
          /\ pullError \in {"", "limit", "source"}
          /\ pc \in {"start", "first", "second", "open", "inline", "inlineTask", "loop",
                     "fill", "poll", "settle", "unwind", "closing", "done"}
      BY <1>0 DEF Verdicts
    <2>3. /\ lane \in [Lane -> Chunk \cup {None}]
          /\ result \in [Chunk -> {"none", "ok", "fail", "stopped"}]
      BY <1>0
    <2>4. /\ stopIndex \in Chunk \cup {None} /\ laneStop \in Chunk \cup {None}
          /\ settleFailed \in Chunk \cup {None}
          /\ sticky \subseteq Lane /\ outbox \subseteq Chunk /\ ready \subseteq Chunk
          /\ discarded \subseteq Chunk
      BY <1>0
    <2>5. job \in Jobs
      BY <1>0
    <2> QED
      BY <2>1, <2>2, <2>3, <2>4, <2>5 DEF TypeOK
  <1>2. Progress /\ WindowBound
    <2>1. job \in Jobs /\ settled = 0 /\ pulled = 0 /\ taken = 0 /\ verdict = "running"
          /\ pc = "start"
      BY <1>0
    <2>2. settled <= pulled /\ taken <= pulled /\ pulled <= Delivered(job)
      BY <2>1, DeliveredFacts, MaxLenAssumption
    <2>3. Progress
      BY <2>1, <2>2 DEF Progress, Before, Over
    <2>4. WindowBound
      BY <2>1, WindowAssumption DEF WindowBound
    <2> QED
      BY <2>3, <2>4
  <1>3. ~(stopIndex >= 0) /\ ~(settleFailed >= 0)
    <2>1. stopIndex = None /\ settleFailed = None
      BY <1>0
    <2> QED
      BY <2>1 DEF None
  <1>4. Pulls /\ NoLanes /\ Failed /\ Stop
    <2>1. pulling /\ pullError = ""
      BY <1>0
    <2>2. Pulls
      BY <2>1 DEF Pulls
    <2>3. NoLanes
      BY <1>0 DEF NoLanes
    <2>4. Failed
      BY <1>3 DEF Failed
    <2>5. Stop
      <3>1. laneStop = stopIndex /\ settleFailed = None
        BY <1>0
      <3> QED
        BY <1>3, <3>1 DEF Stop
    <2> QED
      BY <2>2, <2>3, <2>4, <2>5
  <1>5. Held /\ Outcomes /\ NoSpuriousStop /\ Spared
    <2>1. outbox = {} /\ ready = {} /\ sticky = {}
      BY <1>0
    <2>2. \A l \in Lane : lane[l] = None
      BY <1>0
    <2>3. \A i \in Chunk : result[i] = "none"
      BY <1>0
    <2>4. Held
      BY <2>1, <2>2, <2>3 DEF Held
    <2>5. Outcomes /\ NoSpuriousStop
      BY <2>3 DEF Outcomes, NoSpuriousStop
    <2>6. Spared
      BY <2>1 DEF Spared
    <2> QED
      BY <2>4, <2>5, <2>6
  <1>6. ErrorsTrue
    <2>1. Len(errors) = 0
      BY <1>0
    <2> QED
      BY <2>1 DEF ErrorsTrue
  <1> QED
    BY <1>1, <1>2, <1>4, <1>5, <1>6 DEF LInv

(* The invariant of the lanes, whatever their number.                      *)
THEOREM LInvHolds == Spec => []LInv
  <1>1. LInv /\ [Next]_vars => LInv'
    BY NextTypes, NextProgress, NextPulls, NextNoLanes, NextHeld, NextOutcomes, NextStop,
       NextSpared, NextErrors, NextFailed DEF LInv
  <1> QED
    BY <1>1, InitLInv, PTL DEF Spec

(* For any number of lanes, the chunks held never pass the window.         *)
THEOREM WindowHolds == Spec => []WindowBound
  <1>1. LInv => WindowBound
    BY DEF LInv
  <1> QED
    BY <1>1, LInvHolds, PTL

(* What became of every chunk taken is known, for any number of lanes: it  *)
(* is interrupted only by a failure before it, and settled or named in     *)
(* discardedChunks once it may have had effects.                           *)
THEOREM LanesAccount == Spec => []ChunksAccounted
  <1>1. LInv => ChunksAccounted
    <2> SUFFICES ASSUME LInv PROVE ChunksAccounted
      OBVIOUS
    <2>1. TypeOK /\ NoSpuriousStop /\ Held /\ Failed
      BY DEF LInv
    <2>2. EffectsAccounted
      <3> SUFFICES ASSUME pc = "done", settleFailed >= 0, NEW i \in Chunk,
                          result[i] # "none", ~(i < settled)
                   PROVE  i \in discarded
        BY DEF EffectsAccounted
      <3>1. i < taken /\ discarded = settled .. taken - 1
        BY <2>1 DEF Held, Failed
      <3>2. i \in Nat /\ settled \in Nat /\ taken \in Nat
        BY <2>1, Types
      <3> QED
        BY <3>1, <3>2
    <2> QED
      BY <2>1, <2>2 DEF ChunksAccounted
  <1> QED
    BY <1>1, LInvHolds, PTL

-----------------------------------------------------------------------------
(* The lanes keep the promise of the block: each step is one step of the   *)
(* promise, or changes nothing the promise speaks of.                      *)

(* A settlement, whatever the way: an outcome of the Each slot itself, or  *)
(* of a cancellation.                                                      *)
LEMMA SettleRefines ==
  ASSUME job \in Jobs, verdict = "running", settled < Delivered(job),
         NEW outcome \in {"ok", "fail", "stopped"},
         outcome = "ok" => settled \notin job.bad,
         outcome = "fail" => settled \in job.bad,
         outcome = "stopped" => asked,
         NEW thrown \in SettleThrows(settled, outcome), SettleTask(outcome, thrown),
         UNCHANGED <<job, asked>>
  PROVE  PSettle \/ PInterrupted
  <1>0. /\ settled' = settled + 1 /\ emitted' = Append(emitted, settled)
        /\ errors' = IF outcome # "ok" /\ ~job.failFast
                     THEN Count(errors, settled) ELSE errors
        /\ verdict' = IF thrown = "" THEN verdict ELSE thrown
        /\ job' = job /\ asked' = asked
    BY DEF SettleTask
  <1>1. CASE outcome = "ok" /\ thrown = "cancelled"
    <2>1. asked
      BY <1>1 DEF SettleThrows
    <2> QED
      BY <1>0, <1>1, <2>1 DEF PInterrupted
  <1>2. CASE outcome = "ok" /\ thrown # "cancelled"
    <2>1. EachOutcome(job, settled) = "ok"
      BY <1>2 DEF EachOutcome
    <2>2. thrown = IF Throws(job, settled, "ok") THEN "chunk" ELSE ""
      BY <1>2 DEF SettleThrows
    <2> QED
      BY <1>0, <1>2, <2>1, <2>2 DEF PSettle
  <1>3. CASE outcome = "fail"
    <2>1. EachOutcome(job, settled) = "fail"
      BY <1>3 DEF EachOutcome
    <2>2. thrown = IF Throws(job, settled, "fail") THEN "chunk" ELSE ""
      BY <1>3 DEF SettleThrows
    <2> QED
      BY <1>0, <1>3, <2>1, <2>2 DEF PSettle
  <1>4. CASE outcome = "stopped"
    <2>1. thrown = IF job.failFast THEN "cancelled" ELSE ""
      BY <1>4 DEF SettleThrows, Throws
    <2>2. CASE job.failFast
      BY <1>0, <1>4, <2>1, <2>2 DEF PInterrupted
    <2>3. CASE ~job.failFast
      BY <1>0, <1>4, <2>1, <2>3 DEF PInterrupted
    <2> QED
      BY <2>2, <2>3
  <1> QED
    BY <1>1, <1>2, <1>3, <1>4

(* A pull that ends the loop says how it must end.                         *)
LEMMA PullRefines ==
  ASSUME LInv, Pull, PullOutcome # "task", verdict = "running", ~asked, settled = pulled,
         verdict' = IF PullOutcome = "end" THEN "completed" ELSE ErrorOfPull,
         UNCHANGED <<job, asked, settled, emitted, errors>>
  PROVE  PEnd
  <1>0. TypeOK /\ Progress /\ ErrorsTrue
    BY DEF LInv
  <1>1. /\ PullOutcome \in {"end", "limit", "throws"} /\ pulled = Delivered(job)
        /\ Ending(job) = IF PullOutcome = "end" THEN "completed" ELSE ErrorOfPull
    BY <1>0, PullFacts DEF Progress
  <1>2. \A n \in 1 .. Len(errors) : errors[n] \in job.bad
    BY <1>0 DEF ErrorsTrue
  <1> QED
    BY <1>1, <1>2 DEF PEnd

(* Once nothing is left to pull or to settle, the loop ends as it must.    *)
LEMMA EndRefines ==
  ASSUME LInv, ~pulling, stopIndex < 0, verdict = "running", settled = pulled,
         ~asked \/ pc = "fill",
         verdict' = IF pullError = "" THEN "completed" ELSE pullError,
         UNCHANGED <<job, asked, settled, emitted, errors>>
  PROVE  PEnd
  <1>0. Pulls /\ ErrorsTrue
    BY DEF LInv
  <1>1. /\ pulled = Delivered(job)
        /\ Ending(job) = IF pullError = "" THEN "completed" ELSE pullError
    BY <1>0 DEF Pulls
  <1>2. \A n \in 1 .. Len(errors) : errors[n] \in job.bad
    BY <1>0 DEF ErrorsTrue
  <1> QED
    BY <1>1, <1>2 DEF PEnd

LEMMA StepRefines ==
  ASSUME LInv, [Next]_vars
  PROVE  [PNext]_pvars
  <1>0. TypeOK /\ Progress /\ Pulls /\ NoLanes /\ Held /\ Outcomes /\ Stop /\ NoSpuriousStop
    BY DEF LInv
  <1>1. CASE Ask
    BY <1>1 DEF Ask, PAsk, PNext
  <1>2. CASE Move
    <2>0. UNCHANGED <<job, asked, settled, emitted, errors>>
      BY <1>0, <1>2, MoveFacts DEF Stays
    <2>1. CASE ReadAhead
      <3>1. CASE job.lookahead /\ NextChunk(job, 0) = "throws"
        <4>1. /\ verdict' = "source" /\ pc = "start"
          BY <2>1, <3>1 DEF ReadAhead
        <4>2. settled = 0 /\ pulled = 0 /\ verdict = "running" /\ pulled <= Delivered(job)
          BY <1>0, <4>1 DEF Progress, Over
        <4>3. job \in Jobs
          BY <1>0, Types
        <4>4. 0 = Delivered(job) /\ Ending(job) = "source"
          BY <3>1, <4>2, <4>3, AtBreak
        <4>5. PEnd
          BY <2>0, <4>1, <4>2, <4>4 DEF PEnd
        <4> QED
          BY <4>5 DEF PNext
      <3>2. CASE ~(job.lookahead /\ NextChunk(job, 0) = "throws")
        BY <2>0, <2>1, <3>2 DEF ReadAhead, pvars
      <3> QED
        BY <3>1, <3>2
    <2>2. CASE Checks
      <3>1. asked /\ verdict' = "cancelled" /\ pc \in {"first", "inline", "loop"}
        BY <2>2 DEF Checks, Check
      <3>2. verdict = "running"
        BY <1>0, <3>1 DEF Progress, Over
      <3> QED
        BY <2>0, <3>1, <3>2 DEF PCancel, PNext
    <2>3. CASE InlineEnd
      <3>1. /\ pc = "inline" /\ ~asked /\ settled = pulled /\ ~pulling
            /\ verdict' = IF pullError = "" THEN "completed" ELSE pullError
        BY <2>3 DEF InlineEnd
      <3>2. verdict = "running" /\ stopIndex = None
        BY <1>0, <3>1 DEF Progress, Over, NoLanes, Before
      <3>3. stopIndex < 0
        BY <3>2 DEF None
      <3> QED
        BY <2>0, <3>1, <3>2, <3>3, EndRefines DEF PNext
    <2>4. CASE LoopEnd
      <3>1. /\ pc = "fill" /\ Exhausted
            /\ verdict' = IF pullError = "" THEN "completed" ELSE pullError
        BY <2>4 DEF LoopEnd
      <3>2. verdict = "running" /\ ~pulling
        BY <1>0, <3>1 DEF Progress, Over, Exhausted
      <3>3. stopIndex < 0 /\ settled = pulled
        <4>1. stopIndex >= 0 => settled <= stopIndex /\ stopIndex < taken
          BY <1>0, <3>2 DEF Stop, Held
        <4>2. /\ stopIndex \in Int /\ settled \in Nat /\ pulled \in Nat /\ taken \in Nat
              /\ taken <= pulled
          BY <1>0, Types DEF Progress
        <4>3. settled = pulled \/ (stopIndex >= 0 /\ settled > stopIndex)
          BY <3>1 DEF Exhausted
        <4> QED
          BY <4>1, <4>2, <4>3
      <3> QED
        BY <2>0, <3>1, <3>2, <3>3, EndRefines DEF PNext
    <2>5. CASE ~ReadAhead /\ ~Checks /\ ~InlineEnd /\ ~LoopEnd
      <3>1. verdict' = verdict
        BY <1>2, <2>5
        DEF Move, OpenLanes, InlinePending, LoopTop, ToPoll, PollTimeout, SettleEnd, vars
      <3> QED
        BY <2>0, <3>1 DEF pvars
    <2> QED
      BY <2>1, <2>2, <2>3, <2>4, <2>5
  <1>3. CASE FirstPull
    <2>1. /\ pc = "first" /\ ~asked /\ Pull
          /\ UNCHANGED <<job, asked, settled, emitted, errors>>
          /\ IF PullOutcome = "task" THEN UNCHANGED verdict
             ELSE verdict' = IF ErrorOfPull = "" THEN "completed" ELSE ErrorOfPull
      BY <1>3 DEF FirstPull
    <2>2. verdict = "running" /\ settled = pulled
      BY <1>0, <2>1 DEF Progress, Over
    <2>3. CASE PullOutcome = "task"
      BY <2>1, <2>3 DEF pvars
    <2>4. CASE PullOutcome # "task"
      <3>1. PullOutcome \in {"end", "limit", "throws"}
        BY <1>0, <2>1, <2>4, PullFacts DEF Progress
      <3>2. verdict' = IF PullOutcome = "end" THEN "completed" ELSE ErrorOfPull
        BY <2>1, <2>4, <3>1 DEF ErrorOfPull
      <3> QED
        BY <2>1, <2>2, <2>4, <3>2, PullRefines DEF PNext
    <2> QED
      BY <2>3, <2>4
  <1>4. CASE InlinePull
    <2>1. /\ pc = "inline" /\ ~asked /\ Pull /\ settled = pulled
          /\ UNCHANGED <<job, asked, settled, emitted, errors>>
          /\ CASE PullOutcome = "task" -> UNCHANGED verdict
               [] PullOutcome = "end" -> verdict' = "completed"
               [] OTHER -> verdict' = ErrorOfPull
      BY <1>4 DEF InlinePull
    <2>2. verdict = "running"
      BY <1>0, <2>1 DEF Progress, Over
    <2>3. CASE PullOutcome = "task"
      BY <2>1, <2>3 DEF pvars
    <2>4. CASE PullOutcome # "task"
      <3>1. verdict' = IF PullOutcome = "end" THEN "completed" ELSE ErrorOfPull
        BY <2>1, <2>4
      <3> QED
        BY <2>1, <2>2, <2>4, <3>1, PullRefines DEF PNext
    <2> QED
      BY <2>3, <2>4
  <1>5. CASE InlineTask
    <2>1. PICK outcome \in RunOutcomes(settled, asked) :
            \E thrown \in SettleThrows(settled, outcome) : SettleTask(outcome, thrown)
      BY <1>5 DEF InlineTask
    <2>2. PICK thrown \in SettleThrows(settled, outcome) : SettleTask(outcome, thrown)
      BY <2>1
    <2>3. pc = "inlineTask" /\ UNCHANGED <<job, asked>>
      BY <1>5 DEF InlineTask
    <2>4. /\ verdict = "running" /\ settled < pulled /\ pulled <= Delivered(job)
      BY <1>0, <2>3 DEF Progress, Over
    <2>5. job \in Jobs /\ settled < Delivered(job)
      <3>1. job \in Jobs /\ settled \in Nat /\ pulled \in Nat
        BY <1>0, Types
      <3>2. Delivered(job) \in Nat
        BY <3>1, DeliveredFacts, MaxLenAssumption
      <3> QED
        BY <2>4, <3>1, <3>2
    <2>6. /\ outcome \in {"ok", "fail", "stopped"} /\ (outcome = "stopped" => asked)
          /\ (outcome = "ok" => settled \notin job.bad)
          /\ (outcome = "fail" => settled \in job.bad)
      BY <2>1 DEF RunOutcomes, EachOutcome
    <2>7. PSettle \/ PInterrupted
      BY <2>2, <2>3, <2>4, <2>5, <2>6, SettleRefines
    <2> QED
      BY <2>7 DEF PNext
  <1>6. CASE Settle
    <2>1. PICK thrown \in SettleThrows(settled, result[settled]) :
            SettleTask(result[settled], thrown)
      BY <1>6 DEF Settle
    <2>2. /\ settled \in Chunk /\ result[settled] # "none" /\ verdict = "running"
          /\ stopIndex < 0 \/ settled <= stopIndex
          /\ settled < taken
      BY <1>6, SettleFacts
    <2>3. UNCHANGED <<job, asked>>
      BY <1>6 DEF Settle
    <2>4. job \in Jobs /\ settled < Delivered(job)
      <3>1. /\ job \in Jobs /\ settled \in Nat /\ pulled \in Nat /\ taken \in Nat
            /\ taken <= pulled /\ pulled <= Delivered(job)
        BY <1>0, Types DEF Progress
      <3>2. Delivered(job) \in Nat
        BY <3>1, DeliveredFacts, MaxLenAssumption
      <3> QED
        BY <2>2, <3>1, <3>2
    <2>5. result[settled] \in {"none", "ok", "fail", "stopped"}
      BY <1>0, <2>2, Types
    <2>6. result[settled] = "stopped" => asked
      <3>1. stopIndex \in Int /\ settled \in Int
        BY <1>0, <2>2, Types
      <3> QED
        BY <1>0, <2>2, <3>1 DEF NoSpuriousStop
    <2>7. /\ result[settled] = "ok" => settled \notin job.bad
          /\ result[settled] = "fail" => settled \in job.bad
      BY <1>0, <2>2 DEF Outcomes
    <2>8. PSettle \/ PInterrupted
      BY <2>1, <2>2, <2>3, <2>4, <2>5, <2>6, <2>7, SettleRefines
    <2> QED
      BY <2>8 DEF PNext
  <1>7. CASE SecondPull \/ Fill \/ Poll \/ Unwind \/ Close
    BY <1>7 DEF SecondPull, Fill, Poll, Unwind, Close, pvars
  <1>8. CASE \E l \in Lane : Take(l) \/ Finish(l)
    BY <1>8 DEF Take, Finish, pvars
  <1> QED
    BY <1>1, <1>2, <1>3, <1>4, <1>5, <1>6, <1>7, <1>8, Kinds

(* The parallel lanes implement the promise of the block: whatever the     *)
(* number of lanes, the window, and the order the lanes complete in.       *)
THEOREM LanesKeepPromise == Spec => Promise
  <1>1. Init => PInit
    BY DEF Init
  <1>2. LInv /\ [Next]_vars => [PNext]_pvars
    BY StepRefines
  <1> QED
    BY <1>1, <1>2, LInvHolds, PTL DEF Spec, Promise, PSpec

(* So what follows from the promise holds of the lanes: rows in source     *)
(* order, no failure lost, and errors exact at a normal end.               *)
THEOREM LanesDeliver == Spec => [](SettlementOrder /\ NoFailureLost /\ ErrorsExact)
  <1>1. Spec => PSpec
    BY LanesKeepPromise DEF Promise
  <1> QED
    BY <1>1, PromiseOrder, PromiseNoFailureLost, PromiseErrorsExact, PTL
=============================================================================
