--------------------------- MODULE ParallelLanes ----------------------------
(***************************************************************************)
(* runLanes of flow-runtime-service.js driving the chunks of a parallel    *)
(* forEachChunk.  The calling thread pulls chunks from the source, submits *)
(* them to lanes (threads of the server), and settles their outcomes in    *)
(* chunk order.  The lanes object is Java: it is modelled from the calls   *)
(* runLanes makes (submit, finish, poll, stopAfter, cancel, close, next,   *)
(* canContinue, complete, startedAfter).  The variables of ChunkPromise    *)
(* are those of the block itself: a step of the lanes is a step of the     *)
(* promise, or leaves them alone.                                          *)
(***************************************************************************)
EXTENDS ChunkPromise

CONSTANTS
  Lane,           \* the threads a call may get
  Window          \* chunks submitted and not settled at a time

ASSUME WindowAssumption == Window \in Nat \ {0}

VARIABLES
  pc,           \* where the calling thread is in runLanes
  pulled,       \* tasks given by options.pull()
  pulling,      \* pull() may still give a task
  pullError,    \* what a failed pull threw, "" otherwise
  taken,        \* tasks the lanes took, in the order they were submitted
  lane,         \* the task each lane runs, None between two tasks
  sticky,       \* lanes whose run context has its cancelled reason set
  outbox,       \* outcomes completed and not polled
  ready,        \* outcomes polled and not settled
  result,       \* outcome of each task once it ran
  stopIndex,    \* first failed task known, with failFast
  laneStop,     \* the index given to lanes.stopAfter
  settleFailed, \* task whose settle threw
  discarded     \* details.discardedChunks of the error

None == -1

sourceVars == <<pulled, pulling, pullError>>
laneVars == <<taken, lane, sticky, result>>
stopVars == <<stopIndex, laneStop, settleFailed, discarded>>
vars == <<job, asked, settled, emitted, errors, verdict, pc,
          sourceVars, laneVars, outbox, ready, stopVars>>

Init ==
  /\ PInit
  /\ pc = "start"
  /\ pulled = 0 /\ pulling = TRUE /\ pullError = ""
  /\ taken = 0
  /\ lane = [l \in Lane |-> None]
  /\ sticky = {}
  /\ outbox = {} /\ ready = {}
  /\ result = [i \in Chunk |-> "none"]
  /\ stopIndex = None /\ laneStop = None /\ settleFailed = None
  /\ discarded = {}

-----------------------------------------------------------------------------
(* options.pull().  With lookahead the chunk it gives was read by the call *)
(* before (the first one ahead of runLanes), and the next one is read now. *)

PullOutcome ==
  CASE NextChunk(job, pulled) # "chunk" -> NextChunk(job, pulled)
    [] NextChunk(job, pulled) = "chunk" /\ pulled >= job.limit -> "limit"
    [] OTHER -> IF job.lookahead /\ NextChunk(job, pulled + 1) = "throws"
                THEN "throws" ELSE "task"

ErrorOfPull == CASE PullOutcome = "limit"  -> "limit"
                 [] PullOutcome = "throws" -> "source"
                 [] OTHER                  -> ""

(* One call of pull(), with what the caller keeps of its answer.           *)
Pull ==
  /\ pulled' = IF PullOutcome = "task" THEN pulled + 1 ELSE pulled
  /\ pulling' = (PullOutcome = "task")
  /\ pullError' = ErrorOfPull

-----------------------------------------------------------------------------
(* The client, or the host, asks the request to stop.                      *)
Ask ==
  /\ ~asked
  /\ asked' = TRUE
  /\ UNCHANGED <<job, settled, emitted, errors, verdict, pc, sourceVars,
                 laneVars, outbox, ready, stopVars>>

(* options.check() throws once the request is cancelled.                   *)
Check(at, next) ==
  /\ pc = at
  /\ asked
  /\ verdict' = "cancelled"
  /\ pc' = next
  /\ UNCHANGED <<job, asked, settled, emitted, errors, sourceVars, laneVars,
                 outbox, ready, stopVars>>

(* runParallel reads the first chunk ahead when Each reads chunk.last.     *)
ReadAhead ==
  /\ pc = "start"
  /\ IF job.lookahead /\ NextChunk(job, 0) = "throws"
     THEN pc' = "done" /\ verdict' = "source"
     ELSE /\ pc' = IF job.threads THEN "first" ELSE "inline"
          /\ UNCHANGED verdict
  /\ UNCHANGED <<job, asked, settled, emitted, errors, sourceVars, laneVars,
                 outbox, ready, stopVars>>

(* The first pull, on the calling thread: its error is thrown as it is.    *)
FirstPull ==
  /\ pc = "first"
  /\ ~asked
  /\ Pull
  /\ IF PullOutcome = "task" THEN pc' = "second" /\ UNCHANGED verdict
     ELSE /\ pc' = "done"
          /\ verdict' = IF ErrorOfPull = "" THEN "completed" ELSE ErrorOfPull
  /\ UNCHANGED <<job, asked, settled, emitted, errors, laneVars, outbox, ready,
                 stopVars>>

(* The lanes are opened once a second task is there.                       *)
SecondPull ==
  /\ pc = "second"
  /\ Pull
  /\ pc' = IF PullOutcome = "task" THEN "open" ELSE "inline"
  /\ UNCHANGED <<job, asked, settled, emitted, errors, verdict, laneVars,
                 outbox, ready, stopVars>>

(* openLanes gives lanes, or null: its server has none to give.            *)
OpenLanes ==
  /\ pc = "open"
  /\ pc' \in {"loop", "inline"}
  /\ UNCHANGED <<job, asked, settled, emitted, errors, verdict, sourceVars,
                 laneVars, outbox, ready, stopVars>>

-----------------------------------------------------------------------------
(* The settlement of a task, shared by both ways to run it.                *)

(* What settle may throw ("" for nothing).  The reduce of a good chunk is  *)
(* interrupted once the request is cancelled.                              *)
SettleThrows(i, outcome) ==
  {IF ~Throws(job, i, outcome) THEN ""
   ELSE IF outcome = "stopped" THEN "cancelled" ELSE "chunk"}
    \cup (IF outcome = "ok" /\ asked THEN {"cancelled"} ELSE {})

(* The emitted rows first, then the error of the chunk or its reduce.      *)
SettleTask(outcome, thrown) ==
  /\ settled' = settled + 1
  /\ emitted' = Append(emitted, settled)
  /\ errors' = IF outcome # "ok" /\ ~job.failFast
               THEN Count(errors, settled) ELSE errors
  /\ verdict' = IF thrown = "" THEN verdict ELSE thrown

(* What running Each on chunk i gives: an interrupted one is cancelled.    *)
RunOutcomes(i, interrupted) ==
  {EachOutcome(job, i)} \cup (IF interrupted THEN {"stopped"} ELSE {})

-----------------------------------------------------------------------------
(* Without lanes the tasks run one by one on the calling thread: the ones  *)
(* pulled before openLanes answered, then the ones pulled here.            *)

InlinePull ==
  /\ pc = "inline"
  /\ ~asked
  /\ settled = pulled /\ pulling
  /\ Pull
  /\ CASE PullOutcome = "task" -> pc' = "inlineTask" /\ UNCHANGED verdict
       [] PullOutcome = "end" -> pc' = "done" /\ verdict' = "completed"
       [] OTHER -> pc' = "done" /\ verdict' = ErrorOfPull
  /\ UNCHANGED <<job, asked, settled, emitted, errors, laneVars, outbox, ready,
                 stopVars>>

InlinePending ==
  /\ pc = "inline"
  /\ ~asked
  /\ settled < pulled
  /\ pc' = "inlineTask"
  /\ UNCHANGED <<job, asked, settled, emitted, errors, verdict, sourceVars,
                 laneVars, outbox, ready, stopVars>>

InlineTask ==
  /\ pc = "inlineTask"
  /\ \E outcome \in RunOutcomes(settled, asked) :
       \E thrown \in SettleThrows(settled, outcome) :
         /\ SettleTask(outcome, thrown)
         /\ pc' = IF thrown = "" THEN "inline" ELSE "done"
  /\ UNCHANGED <<job, asked, sourceVars, laneVars, outbox, ready, stopVars>>

(* The second pull gave no task: its error, kept until the first task is   *)
(* settled, is thrown now.                                                 *)
InlineEnd ==
  /\ pc = "inline"
  /\ ~asked
  /\ settled = pulled /\ ~pulling
  /\ pc' = "done"
  /\ verdict' = IF pullError = "" THEN "completed" ELSE pullError
  /\ UNCHANGED <<job, asked, settled, emitted, errors, sourceVars, laneVars,
                 outbox, ready, stopVars>>

-----------------------------------------------------------------------------
(* With lanes: the loop of the calling thread.                             *)

LoopTop ==
  /\ pc = "loop"
  /\ ~asked
  /\ pc' = "fill"
  /\ UNCHANGED <<job, asked, settled, emitted, errors, verdict, sourceVars,
                 laneVars, outbox, ready, stopVars>>

(* Mutant: off by one.                                                     *)
RoomForOneMore == pulling /\ pulled - settled <= Window

Room == pulling /\ pulled - settled < Window

Fill ==
  /\ pc = "fill"
  /\ Room
  /\ Pull
  /\ UNCHANGED <<job, asked, settled, emitted, errors, verdict, pc, laneVars,
                 outbox, ready, stopVars>>

(* Mutant: the loop ends as soon as a failed chunk is known.               *)
ExhaustedAtFailure ==
  /\ ~pulling
  /\ settled = pulled \/ stopIndex >= 0

(* Nothing is left to wait for: the loop returns, or throws what the pull  *)
(* threw.                                                                  *)
Exhausted ==
  /\ ~pulling
  /\ \/ settled = pulled
     \/ stopIndex >= 0 /\ settled > stopIndex

LoopEnd ==
  /\ pc = "fill"
  /\ ~Room
  /\ Exhausted
  /\ IF pullError = "" THEN pc' = "closing" /\ verdict' = "completed"
     ELSE pc' = "unwind" /\ verdict' = pullError
  /\ UNCHANGED <<job, asked, settled, emitted, errors, sourceVars, laneVars,
                 outbox, ready, stopVars>>

ToPoll ==
  /\ pc = "fill"
  /\ ~Room
  /\ ~Exhausted
  /\ pc' = "poll"
  /\ UNCHANGED <<job, asked, settled, emitted, errors, verdict, sourceVars,
                 laneVars, outbox, ready, stopVars>>

(* No outcome came within 50 ms.                                           *)
PollTimeout ==
  /\ pc = "poll"
  /\ outbox = {}
  /\ pc' = "loop"
  /\ UNCHANGED <<job, asked, settled, emitted, errors, verdict, sourceVars,
                 laneVars, outbox, ready, stopVars>>

(* With failFast the first failed chunk known stops the pulls and the      *)
(* lanes after it.                                                         *)
Poll ==
  /\ pc = "poll"
  /\ \E i \in outbox :
       /\ outbox' = outbox \ {i}
       /\ ready' = ready \cup {i}
       /\ IF result[i] # "ok" /\ job.failFast /\ (stopIndex < 0 \/ i < stopIndex)
          THEN stopIndex' = i /\ laneStop' = i /\ pulling' = FALSE
          ELSE UNCHANGED <<stopIndex, laneStop, pulling>>
  /\ pc' = "settle"
  /\ UNCHANGED <<job, asked, settled, emitted, errors, verdict, pulled,
                 pullError, laneVars, settleFailed, discarded>>

Settleable == settled \in ready /\ (stopIndex < 0 \/ settled <= stopIndex)

Settle ==
  /\ pc = "settle"
  /\ Settleable
  /\ ready' = ready \ {settled}
  /\ \E thrown \in SettleThrows(settled, result[settled]) :
       /\ SettleTask(result[settled], thrown)
       /\ IF thrown = "" THEN UNCHANGED <<pc, settleFailed>>
          ELSE pc' = "unwind" /\ settleFailed' = settled
  /\ UNCHANGED <<job, asked, sourceVars, laneVars, outbox, stopIndex, laneStop,
                 discarded>>

SettleEnd ==
  /\ pc = "settle"
  /\ ~Settleable
  /\ pc' = "loop"
  /\ UNCHANGED <<job, asked, settled, emitted, errors, verdict, sourceVars,
                 laneVars, outbox, ready, stopVars>>

(* The finally clause of a loop that threw: lanes.stopAfter, then cancel.  *)
Unwind ==
  /\ pc = "unwind"
  /\ laneStop' = IF settleFailed >= 0 THEN settleFailed ELSE laneStop
  /\ pc' = "closing"
  /\ UNCHANGED <<job, asked, settled, emitted, errors, verdict, sourceVars,
                 laneVars, outbox, ready, stopIndex, settleFailed, discarded>>

(* lanes.close() waits for every lane; then the indexes of the tasks that  *)
(* started after the failed one are given with its error.                  *)
Close ==
  /\ pc = "closing"
  /\ \A l \in Lane : lane[l] = None
  /\ discarded' = IF settleFailed >= 0 THEN settleFailed + 1 .. taken - 1 ELSE {}
  /\ pc' = "done"
  /\ UNCHANGED <<job, asked, settled, emitted, errors, verdict, sourceVars,
                 laneVars, outbox, ready, stopIndex, laneStop, settleFailed>>

-----------------------------------------------------------------------------
(* The lanes.                                                              *)

LanesOpen == pc \in {"loop", "fill", "poll", "settle", "unwind"}
LanesCancelled == pc = "closing" /\ verdict # "completed"

(* lanes.next(): a lane may still take a task after stopAfter, none once   *)
(* the lanes are cancelled.                                                *)
Take(l) ==
  /\ LanesOpen
  /\ lane[l] = None
  /\ taken < pulled
  /\ lane' = [lane EXCEPT ![l] = taken]
  /\ taken' = taken + 1
  /\ UNCHANGED <<job, asked, settled, emitted, errors, verdict, pc, sourceVars,
                 sticky, result, outbox, ready, stopVars>>

(* Mutant: a failed chunk also stops the ones before it.                   *)
InterruptedByAnyStop(l) == l \in sticky \/ asked \/ LanesCancelled \/ laneStop >= 0

(* lanes.canContinue(index) of the lane context: what it saw once it keeps *)
(* for every later task.                                                   *)
Interrupted(l) ==
  \/ l \in sticky
  \/ asked
  \/ LanesCancelled
  \/ laneStop >= 0 /\ lane[l] > laneStop

(* Mutant: what the work of a task throws leaves runLaneTask.              *)
FinishRethrows(l) ==
  /\ lane[l] # None
  /\ \E outcome \in RunOutcomes(lane[l], Interrupted(l)) :
       /\ result' = [result EXCEPT ![lane[l]] = outcome]
       /\ sticky' = IF outcome = "stopped" THEN sticky \cup {l} ELSE sticky
       /\ outbox' = IF outcome = "ok" THEN outbox \cup {lane[l]} ELSE outbox
  /\ lane' = [lane EXCEPT ![l] = None]
  /\ UNCHANGED <<job, asked, settled, emitted, errors, verdict, pc, sourceVars,
                 taken, ready, stopVars>>

Finish(l) ==
  /\ lane[l] # None
  /\ \E outcome \in RunOutcomes(lane[l], Interrupted(l)) :
       /\ result' = [result EXCEPT ![lane[l]] = outcome]
       /\ sticky' = IF outcome = "stopped" THEN sticky \cup {l} ELSE sticky
  /\ outbox' = outbox \cup {lane[l]}
  /\ lane' = [lane EXCEPT ![l] = None]
  /\ UNCHANGED <<job, asked, settled, emitted, errors, verdict, pc, sourceVars,
                 taken, ready, stopVars>>

-----------------------------------------------------------------------------
Checks ==
  \/ Check("first", "done")
  \/ Check("inline", "done")
  \/ Check("loop", "unwind")

Inline == InlinePull \/ InlinePending \/ InlineTask \/ InlineEnd

Threaded ==
  \/ LoopTop \/ Fill \/ LoopEnd \/ ToPoll
  \/ PollTimeout \/ Poll \/ Settle \/ SettleEnd
  \/ Unwind \/ Close

Caller ==
  \/ ReadAhead \/ FirstPull \/ SecondPull \/ OpenLanes
  \/ Checks \/ Inline \/ Threaded

LaneStep(l) == Take(l) \/ Finish(l)

Next == Ask \/ Caller \/ \E l \in Lane : LaneStep(l)

Spec == Init /\ [][Next]_vars

(* The threads are scheduled by the JVM and Each slots end (their blocking *)
(* calls are interrupted); nobody has to ask for a cancellation.           *)
FairSpec ==
  /\ Spec
  /\ WF_vars(Caller)
  /\ \A l \in Lane : WF_vars(LaneStep(l))

-----------------------------------------------------------------------------
TypeOK ==
  /\ job \in Jobs /\ asked \in BOOLEAN
  /\ settled \in 0 .. MaxLen
  /\ emitted \in Seq(Chunk) /\ errors \in Seq(Chunk)
  /\ verdict \in Verdicts
  /\ pc \in {"start", "first", "second", "open", "inline", "inlineTask", "loop",
             "fill", "poll", "settle", "unwind", "closing", "done"}
  /\ pulled \in 0 .. MaxLen /\ pulling \in BOOLEAN
  /\ pullError \in {"", "limit", "source"}
  /\ taken \in 0 .. MaxLen
  /\ lane \in [Lane -> Chunk \cup {None}] /\ sticky \subseteq Lane
  /\ outbox \subseteq Chunk /\ ready \subseteq Chunk
  /\ result \in [Chunk -> {"none", "ok", "fail", "stopped"}]
  /\ stopIndex \in Chunk \cup {None} /\ laneStop \in Chunk \cup {None}
  /\ settleFailed \in Chunk \cup {None} /\ discarded \subseteq Chunk

(* The chunks held at once (submitted, running, or waiting for an earlier  *)
(* one to be settled) never pass the window.                               *)
WindowBound == pulled - settled <= (IF Window < 2 THEN 2 ELSE Window)

(* While the loop runs and nobody asked it to stop, a chunk is interrupted *)
(* only when an earlier one failed: a lane, which keeps its cancelled      *)
(* reason from one task to the next, never spoils a chunk to be settled.   *)
NoSpuriousStop ==
  \A i \in Chunk :
    result[i] = "stopped" /\ ~asked /\ verdict = "running" =>
      stopIndex >= 0 /\ i > stopIndex

(* A chunk that ran, so whose external effects may have happened, is       *)
(* settled or, when a settlement threw, named in discardedChunks.          *)
EffectsAccounted ==
  pc = "done" /\ settleFailed >= 0 =>
    \A i \in Chunk : result[i] # "none" =>
      i < settled \/ i \in discarded

(* What became of each chunk taken is known: it is interrupted only by a   *)
(* failure before it, and settled or named once it may have had effects.   *)
ChunksAccounted == TypeOK /\ NoSpuriousStop /\ EffectsAccounted

(* Every outcome the caller waits for is on its way: no wait for ever.     *)
Termination == <>(pc = "done")

(* What runLanes implements.                                               *)
Promise == PSpec
=============================================================================
