--------------------------- MODULE RuntimeHandles ---------------------------
(***************************************************************************)
(* The runtime handles of an owner (runtime-handle-utils.js): readers,     *)
(* writers, row cursors.  The owner is the context of a request            *)
(* (runFlowRequest closes its handles after a run that ended, and again in *)
(* its finally clause) or of a lane (runLaneTask closes the handles of a   *)
(* task, then forgets them).                                               *)
(***************************************************************************)
EXTENDS Integers, FiniteSets

CONSTANTS
  MaxHandles,   \* handles an owner creates
  MaxTasks      \* tasks a lane runs

ASSUME HandlesAssumption == MaxHandles \in Nat /\ MaxTasks \in Nat \ {0}

VARIABLES
  owner,     \* "request" or "lane"
  broken,    \* the handles whose closer throws
  phase,     \* where the owner is
  task,      \* the task of the lane
  made,      \* handleSeq: handles created, in their order
  held,      \* ctx.handles
  closed,    \* handles with __flowHandleClosed
  calls,     \* history: calls of the closer of each handle
  bodyError, \* history: what the body threw
  error      \* the error of the run or of the task

handleVars == <<owner, broken, phase, task, made, held, closed, calls, bodyError, error>>

Handle == 1 .. MaxHandles
NoError == 0
BodyError == -1
Errors == {NoError, BodyError} \cup Handle   \* a handle: its closer threw

HandlesInit ==
  /\ owner \in {"request", "lane"}
  /\ broken \in SUBSET Handle
  /\ phase = "body" /\ task = 1
  /\ made = 0 /\ held = {} /\ closed = {}
  /\ calls = [h \in Handle |-> 0]
  /\ bodyError = NoError /\ error = NoError

(* create: the handle is held by the context until it is replaced.         *)
Create ==
  /\ phase = "body"
  /\ made < MaxHandles
  /\ made' = made + 1
  /\ held' = held \cup {made'}
  /\ UNCHANGED <<owner, broken, phase, task, closed, calls, bodyError, error>>

(* close of the handles hs: a closed handle is not closed again, and a     *)
(* handle whose closer throws is closed all the same.                      *)
Closing(hs) ==
  /\ closed' = closed \cup hs
  /\ calls' = [h \in Handle |-> IF h \in hs \ closed THEN calls[h] + 1 ELSE calls[h]]

(* A block closes its handle (withReader, withWriter, closeRowsCursor).    *)
(* What the closer throws ends the body, unless a Try catches it.          *)
BlockCloses ==
  /\ phase = "body"
  /\ \E h \in held \ closed :
       /\ Closing({h})
       /\ \/ UNCHANGED <<phase, bodyError, error>>
          \/ /\ h \in broken
             /\ bodyError' = h /\ error' = h
             /\ phase' = IF owner = "lane" THEN "close" ELSE "finally"
  /\ UNCHANGED <<owner, broken, task, made, held>>

BodyThrows ==
  /\ phase = "body"
  /\ bodyError' = BodyError /\ error' = BodyError
  /\ phase' = IF owner = "lane" THEN "close" ELSE "finally"
  /\ UNCHANGED <<owner, broken, task, made, held, closed, calls>>

BodyEnds ==
  /\ phase = "body"
  /\ phase' = "close"
  /\ UNCHANGED <<owner, broken, task, made, held, closed, calls, bodyError, error>>

(* closeAll closes the open handles in the order they were created, and    *)
(* stops at the first one whose closer throws.                             *)
Failing == (held \ closed) \cap broken
FirstFailing == CHOOSE h \in Failing : \A g \in Failing : h <= g

(* Mutant: a handle whose closer throws stays open.                        *)
CloseAllBefore ==
  Closing(IF Failing = {} THEN held
          ELSE {h \in held : h < FirstFailing})

CloseAll ==
  Closing(IF Failing = {} THEN held
          ELSE {h \in held : h <= FirstFailing})

RequestCloses ==
  /\ owner = "request" /\ phase = "close"
  /\ CloseAll
  /\ error' = IF Failing = {} THEN error ELSE FirstFailing
  /\ phase' = "finally"
  /\ UNCHANGED <<owner, broken, task, made, held, bodyError>>

(* What the finally clause throws replaces the error of the run.           *)
RequestEnds ==
  /\ owner = "request" /\ phase = "finally"
  /\ CloseAll
  /\ error' = IF Failing = {} THEN error ELSE FirstFailing
  /\ phase' = "done"
  /\ UNCHANGED <<owner, broken, task, made, held, bodyError>>

(* Mutant: the error of the handles wins.                                  *)
TaskClosesLast ==
  /\ owner = "lane" /\ phase = "close"
  /\ CloseAll
  /\ error' = IF Failing # {} THEN FirstFailing ELSE error
  /\ held' = {}
  /\ phase' = "outcome"
  /\ UNCHANGED <<owner, broken, task, made, bodyError>>

(* The error of the task wins over the one of its handles.                 *)
TaskCloses ==
  /\ owner = "lane" /\ phase = "close"
  /\ CloseAll
  /\ error' = IF error = NoError /\ Failing # {} THEN FirstFailing ELSE error
  /\ held' = {}
  /\ phase' = "outcome"
  /\ UNCHANGED <<owner, broken, task, made, bodyError>>

NextTask ==
  /\ phase = "outcome"
  /\ IF task < MaxTasks
     THEN task' = task + 1 /\ phase' = "body" /\ bodyError' = NoError /\ error' = NoError
     ELSE phase' = "done" /\ UNCHANGED <<task, bodyError, error>>
  /\ UNCHANGED <<owner, broken, made, held, closed, calls>>

HandlesNext ==
  \/ Create \/ BlockCloses \/ BodyThrows \/ BodyEnds
  \/ RequestCloses \/ RequestEnds \/ TaskCloses \/ NextTask

HandlesSpec == HandlesInit /\ [][HandlesNext]_handleVars

-----------------------------------------------------------------------------
HandlesTypeOK ==
  /\ owner \in {"request", "lane"} /\ broken \subseteq Handle
  /\ phase \in {"body", "close", "finally", "outcome", "done"}
  /\ task \in 1 .. MaxTasks
  /\ made \in 0 .. MaxHandles
  /\ held \subseteq 1 .. made /\ closed \subseteq 1 .. made
  /\ calls \in [Handle -> Nat]
  /\ bodyError \in Errors /\ error \in Errors

(* A closer is called once, whoever closes the handle first: its block,    *)
(* the end of the run, or the finally clause, and even when it throws.     *)
ClosedOnce == \A h \in Handle : calls[h] = (IF h \in closed THEN 1 ELSE 0)

Ended == phase \in {"outcome", "done"}
Left == 1 .. made \ closed

(* A handle is left open only by closers that threw: one in a task of a    *)
(* lane, two in a request whose body ended, one in a request that failed.  *)
LeaksExplained ==
  Ended /\ Left # {} =>
    Cardinality({h \in broken \cap closed : \E g \in Left : h < g}) >=
      (IF owner = "request" /\ bodyError = NoError THEN 2 ELSE 1)

(* The closer of each handle is called, and once, but for those a closer   *)
(* that threw left behind it.                                              *)
HandlesClosed == ClosedOnce /\ LeaksExplained

(* A task, or a run, that failed in its body or in a closer never counts   *)
(* as done, and the error of a failed task is the one of its body.         *)
ErrorKept ==
  Ended =>
    /\ bodyError # NoError => error # NoError
    /\ owner = "lane" /\ bodyError # NoError => error = bodyError
=============================================================================
