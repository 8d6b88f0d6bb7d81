---------------------------- MODULE FlowControl -----------------------------
(***************************************************************************)
(* The control of one run of a Flow: executeNodes, the blocks that run     *)
(* slots (if, forEach, while, try, forEachChunk), composite blocks and     *)
(* calls relayed by ctx.callBlock.  Every JavaScript activation that has a *)
(* finally clause, or goes on after its slot, is a frame of `stack`; `ctx` *)
(* is the part of the run context these activations save and restore.      *)
(***************************************************************************)
EXTENDS Integers, Sequences, FiniteSets

CONSTANTS
  Programs,   \* the Flows considered: sequences of nodes
  Nodes,      \* the nodes that may be written in each zone of a Flow
  MaxDepth,   \* maxGraphBlockDepth
  Budget      \* whether the clock may pass the time budget of a while

ASSUME MaxDepthAssumption == MaxDepth \in Nat \ {0}
ASSUME BudgetAssumption == Budget \in BOOLEAN

(* Where in a Flow a node is written: in the body of a loop of the same    *)
(* call, in a chunk of such a body, in what a try catches.                 *)
Zones == [loop : BOOLEAN, chunk : BOOLEAN, caught : BOOLEAN]
Outside == [loop |-> FALSE, chunk |-> FALSE, caught |-> FALSE]

(* The zone of what a frame of a kind runs, entered from zone z, and the   *)
(* kind of the frames that run the body of a block.                        *)
Inside(kind, z) ==
  CASE kind = "item"              -> [z EXCEPT !.loop = TRUE, !.chunk = FALSE]
    [] kind = "slot"              -> [z EXCEPT !.chunk = z.loop]
    [] kind \in {"call", "relay"} -> [z EXCEPT !.loop = FALSE, !.chunk = FALSE]
    [] kind = "try"               -> [z EXCEPT !.caught = TRUE]
    [] OTHER                      -> z

BodyKind(op) ==
  CASE op \in {"forEach", "while", "endless"} -> "item"
    [] op = "chunks"                          -> "slot"
    [] OTHER                                  -> op

(* A Flow is made of nodes made of nodes, each in its zone.                *)
Bodies(kind, z) == {n.body : n \in {m \in Nodes[z] : BodyKind(m.op) = kind}}

ASSUME NodesAssumption ==
  /\ Programs \subseteq Seq(Nodes[Outside])
  /\ \A z \in Zones :
       /\ \A n \in Nodes[z] : n.count \in Nat
       /\ {n.other : n \in Nodes[z]} \subseteq Seq(Nodes[z])
       /\ \A kind \in {BodyKind(n.op) : n \in Nodes[z]} :
            Bodies(kind, z) \subseteq Seq(Nodes[Inside(kind, z)])

(* Two things some properties need of a Flow: no next in a chunk of a loop *)
(* body, as it leaves ctx.skipping set, and a return that follows in the   *)
(* item then ends only the item (forEachChunk.block.js:122 puts back       *)
(* stopped, not skipping); no call whose properties throw inside a try, as *)
(* it stays counted in the depth of calls (graph-block-runtime-service.js: *)
(* 364; the properties of a relayed block are taken before it is counted). *)
WellWritten ==
  \A z \in Zones : \A n \in Nodes[z] :
    /\ n.op = "next" => ~z.chunk
    /\ n.op = "call" /\ n.cond => ~z.caught

VARIABLES
  program,    \* the Flow, chosen once
  stack,      \* the JavaScript activations, the innermost one last
  ctx,        \* the run context
  thrown,     \* the error being thrown, "none" otherwise
  asked,      \* the run was cancelled
  late,       \* the clock passed the budget of every while
  log,        \* what the leaf blocks saw, in the order they ran
  verdict     \* how the run ended

flowVars == <<program, stack, ctx, thrown, asked, late, log, verdict>>

(* A frame runs the nodes of `rest`, or `left` times the nodes of `body`.  *)
(* `saved` is the context it puts back.                                    *)
Frame(kind, rest, left, body, saved) ==
  [kind |-> kind, rest |-> rest, left |-> left, body |-> body, saved |-> saved]

Ctx0 == [stopped |-> FALSE, skipping |-> FALSE, returned |-> FALSE,
         loopDepth |-> 0, local |-> 0, current |-> 0, depth |-> 0]

FlowInit ==
  /\ program \in Programs
  /\ ctx = Ctx0
  /\ stack = <<Frame("flow", program, 0, <<>>, Ctx0)>>
  /\ thrown = "none" /\ asked = FALSE /\ late = FALSE
  /\ log = <<>>
  /\ verdict = "running"

Top == stack[Len(stack)]
Below == SubSeq(stack, 1, Len(stack) - 1)
Running == verdict = "running" /\ thrown = "none"

(* The stack once the innermost list is past its first node, with the      *)
(* frame the node enters.                                                  *)
Advanced == [stack EXCEPT ![Len(stack)].rest = Tail(@)]
Entering(frame) == Append(Advanced, frame)

-----------------------------------------------------------------------------
AskToStop ==
  /\ verdict = "running" /\ ~asked
  /\ asked' = TRUE
  /\ UNCHANGED <<program, stack, ctx, thrown, late, log, verdict>>

TimePasses ==
  /\ Budget /\ verdict = "running" /\ ~late
  /\ late' = TRUE
  /\ UNCHANGED <<program, stack, ctx, thrown, asked, log, verdict>>

-----------------------------------------------------------------------------
(* One node of a list: ensureCanContinue, then the block.                  *)

AtNode == Running /\ Top.rest # <<>> /\ ~ctx.stopped
Node == Head(Top.rest)

Refuse(error) ==
  /\ thrown' = error
  /\ UNCHANGED <<program, stack, ctx, asked, late, log, verdict>>

Cancelled == AtNode /\ asked /\ Refuse("cancelled")

(* Mutant: the executor does not check the cancellation.                   *)
AtUnchecked(op) == AtNode /\ Node.op = op

At(op) == AtNode /\ ~asked /\ Node.op = op

(* Any block without slots: it reads its scopes, and writes its result.    *)
Leaf ==
  /\ At("leaf")
  /\ log' = Append(log, <<Node.id, ctx.current, ctx.local>>)
  /\ stack' = Advanced
  /\ UNCHANGED <<program, ctx, thrown, asked, late, verdict>>

ThrowNode == At("throw") /\ Refuse("user")

ReturnNode ==
  /\ At("return")
  /\ ctx' = [ctx EXCEPT !.returned = TRUE, !.stopped = TRUE]
  /\ stack' = Advanced
  /\ UNCHANGED <<program, thrown, asked, late, log, verdict>>

NextNode ==
  /\ At("next")
  /\ ctx.loopDepth > 0
  /\ ctx' = [ctx EXCEPT !.skipping = TRUE, !.stopped = TRUE]
  /\ stack' = Advanced
  /\ UNCHANGED <<program, thrown, asked, late, log, verdict>>

NextOutsideLoop == At("next") /\ ~(ctx.loopDepth > 0) /\ Refuse("outside")

IfNode ==
  /\ At("if")
  /\ stack' = Entering(Frame("branch", IF Node.cond THEN Node.body ELSE Node.other,
                             0, <<>>, ctx))
  /\ UNCHANGED <<program, ctx, thrown, asked, late, log, verdict>>

TryNode ==
  /\ At("try")
  /\ stack' = Entering(Frame("try", Node.body, 0, Node.other, ctx))
  /\ UNCHANGED <<program, ctx, thrown, asked, late, log, verdict>>

(* forEach over `count` items, forEachChunk over `count` chunks, while     *)
(* whose condition holds `count` times, or (endless) is still true after   *)
(* its maxIterations, `count`.                                             *)
LoopNode ==
  /\ \E op \in {"forEach", "while", "endless", "chunks"} : At(op)
  /\ stack' = Entering(Frame(Node.op, <<>>, Node.count, Node.body, ctx))
  /\ UNCHANGED <<program, ctx, thrown, asked, late, log, verdict>>

(* What a call gives its body: fresh scopes, no loop, nothing returned.    *)
Called == [ctx EXCEPT !.local = @ + 1, !.returned = FALSE, !.stopped = FALSE,
                      !.skipping = FALSE, !.loopDepth = 0]

(* runGraphBlock counts the call before it evaluates the properties.       *)
CallNode ==
  /\ At("call")
  /\ ctx.depth < MaxDepth
  /\ ~Node.cond
  /\ stack' = Entering(Frame("call", Node.body, 0, <<>>, ctx))
  /\ ctx' = [Called EXCEPT !.depth = @ + 1]
  /\ UNCHANGED <<program, thrown, asked, late, log, verdict>>

(* A property of the call whose expression throws.                         *)
CallPropsThrow ==
  /\ At("call")
  /\ ctx.depth < MaxDepth
  /\ Node.cond
  /\ ctx' = [ctx EXCEPT !.depth = @ + 1]
  /\ thrown' = "user"
  /\ UNCHANGED <<program, stack, asked, late, log, verdict>>

CallTooDeep == At("call") /\ ctx.depth >= MaxDepth /\ Refuse("depth")

(* Mutant: a relayed block is not counted in the depth of calls.           *)
RelayUncounted ==
  /\ At("relay")
  /\ ~Node.cond
  /\ ctx.depth < MaxDepth
  /\ stack' = Entering(Frame("relay", Node.body, 0, <<>>, ctx))
  /\ ctx' = Called
  /\ UNCHANGED <<program, thrown, asked, late, log, verdict>>

(* ctx.callBlock of a composite block: callBlock takes the properties, and *)
(* then runGraphBlock counts the block as it does for a call.  What both   *)
(* of them save and put back is one frame.                                 *)
RelayNode ==
  /\ At("relay")
  /\ ~Node.cond
  /\ ctx.depth < MaxDepth
  /\ stack' = Entering(Frame("relay", Node.body, 0, <<>>, ctx))
  /\ ctx' = [Called EXCEPT !.depth = @ + 1]
  /\ UNCHANGED <<program, thrown, asked, late, log, verdict>>

(* The default of a property of the block throws, before it is counted.    *)
RelayPropsThrow == At("relay") /\ Node.cond /\ Refuse("user")

RelayTooDeep == At("relay") /\ ~Node.cond /\ ctx.depth >= MaxDepth /\ Refuse("depth")

-----------------------------------------------------------------------------
(* The finally clauses: the context c once the frame f is left.            *)

(* Mutant: next ends the whole loop.                                       *)
ItemEndStops(c) == [c EXCEPT !.loopDepth = @ - 1, !.skipping = FALSE]

ItemEnd(c) ==
  LET out == [c EXCEPT !.loopDepth = @ - 1]
  IN  IF c.skipping THEN [out EXCEPT !.skipping = FALSE, !.stopped = FALSE] ELSE out

CallEnd(f, c) == [f.saved EXCEPT !.depth = c.depth - 1]

SlotEnd(f, c) ==
  [c EXCEPT !.local = f.saved.local, !.returned = f.saved.returned,
            !.stopped = f.saved.stopped]

Finally(f, c) ==
  CASE f.kind = "item"              -> ItemEnd(c)
    [] f.kind = "forEach"           -> [c EXCEPT !.current = f.saved.current]
    [] f.kind \in {"call", "relay"} -> CallEnd(f, c)
    [] f.kind = "slot"              -> SlotEnd(f, c)
    [] OTHER                        -> c

-----------------------------------------------------------------------------
(* The loops between two bodies.                                           *)

AtLoop(kind) == Running /\ Top.kind = kind

Enter(frame, c) ==
  /\ stack' = Append([stack EXCEPT ![Len(stack)].left = @ - 1], frame)
  /\ ctx' = c
  /\ UNCHANGED <<program, thrown, asked, late, log, verdict>>

(* runLoopBody of the next item.                                           *)
Item(c) == Enter(Frame("item", Top.body, 0, <<>>, ctx), [c EXCEPT !.loopDepth = @ + 1])

ForEachItem ==
  /\ AtLoop("forEach")
  /\ Top.left > 0 /\ ~ctx.stopped
  /\ Item([ctx EXCEPT !.current = Top.left])

(* while checks the cancellation and the clock before anything else.       *)
AtWhile == AtLoop("while") \/ AtLoop("endless")

WhileRefused ==
  /\ AtWhile
  /\ asked \/ late
  /\ Refuse(IF asked THEN "cancelled" ELSE "timeout")

WhileLimit ==
  /\ AtLoop("endless")
  /\ ~asked /\ ~late /\ ~ctx.stopped
  /\ Top.left = 0
  /\ Refuse("limit")

WhileTurn ==
  /\ AtWhile
  /\ ~asked /\ ~late /\ ~ctx.stopped
  /\ Top.left > 0
  /\ Item(ctx)

ChunksRefused == AtLoop("chunks") /\ Top.left > 0 /\ asked /\ Refuse("cancelled")

ChunkSlot ==
  /\ AtLoop("chunks")
  /\ Top.left > 0 /\ ~asked
  /\ Enter(Frame("slot", Top.body, 0, <<>>, ctx),
           [ctx EXCEPT !.local = @ + 1, !.returned = FALSE, !.stopped = FALSE])

-----------------------------------------------------------------------------
(* A frame ends: its nodes are done, or `stopped` ends them.               *)

Over ==
  CASE Top.kind = "forEach" -> Top.left = 0 \/ ctx.stopped
    [] Top.kind = "while"   -> ~asked /\ ~late /\ (Top.left = 0 \/ ctx.stopped)
    [] Top.kind = "endless" -> ~asked /\ ~late /\ ctx.stopped
    [] Top.kind = "chunks"  -> Top.left = 0
    [] OTHER                -> Top.rest = <<>> \/ ctx.stopped

(* The bodies of a loop belong to its block; every other frame is the run  *)
(* of a node, whose executor checks the cancellation again.                *)
Leave ==
  /\ Running
  /\ Over
  /\ Top.kind # "flow"
  /\ stack' = Below
  /\ ctx' = Finally(Top, ctx)
  /\ thrown' = IF asked /\ Top.kind \notin {"item", "slot"} THEN "cancelled" ELSE "none"
  /\ UNCHANGED <<program, asked, late, log, verdict>>

Complete ==
  /\ Running
  /\ Over
  /\ Top.kind = "flow"
  /\ verdict' = IF ctx.returned THEN "returned" ELSE "completed"
  /\ UNCHANGED <<program, stack, ctx, thrown, asked, late, log>>

(* Mutant: the catch nodes run inside the try they belong to.              *)
CatchInside ==
  /\ thrown # "none" /\ verdict = "running"
  /\ Top.kind = "try"
  /\ stack' = Append([stack EXCEPT ![Len(stack)].rest = <<>>],
                     Frame("catch", Top.body, 0, <<>>, ctx))
  /\ thrown' = "none"
  /\ UNCHANGED <<program, ctx, asked, late, log, verdict>>

(* An error leaves the innermost frame: try runs its catch nodes.          *)
Catch ==
  /\ thrown # "none" /\ verdict = "running"
  /\ Top.kind = "try"
  /\ stack' = Append(Below, Frame("catch", Top.body, 0, <<>>, ctx))
  /\ thrown' = "none"
  /\ UNCHANGED <<program, ctx, asked, late, log, verdict>>

Unwind ==
  /\ thrown # "none" /\ verdict = "running"
  /\ Top.kind \notin {"try", "flow"}
  /\ stack' = Below
  /\ ctx' = Finally(Top, ctx)
  /\ UNCHANGED <<program, thrown, asked, late, log, verdict>>

Fail ==
  /\ thrown # "none" /\ verdict = "running"
  /\ Top.kind = "flow"
  /\ verdict' = thrown
  /\ UNCHANGED <<program, stack, ctx, thrown, asked, late, log>>

-----------------------------------------------------------------------------
Blocks ==
  \/ Cancelled \/ Leaf \/ ThrowNode \/ ReturnNode \/ NextNode \/ NextOutsideLoop
  \/ IfNode \/ TryNode \/ LoopNode
  \/ CallNode \/ CallPropsThrow \/ CallTooDeep
  \/ RelayNode \/ RelayPropsThrow \/ RelayTooDeep

Loops == ForEachItem \/ WhileRefused \/ WhileLimit \/ WhileTurn \/ ChunksRefused \/ ChunkSlot

Run == Blocks \/ Loops \/ Leave \/ Complete \/ Catch \/ Unwind \/ Fail

FlowNext == AskToStop \/ TimePasses \/ Run

FlowSpec == FlowInit /\ [][FlowNext]_flowVars

(* One thread runs the Flow to its end.                                    *)
FairSpec == FlowSpec /\ WF_flowVars(Run)

-----------------------------------------------------------------------------
Kinds == {"flow", "branch", "try", "catch", "forEach", "while", "endless", "item",
          "chunks", "slot", "call", "relay"}

FlowTypeOK ==
  /\ \A i \in 1 .. Len(stack) : stack[i].kind \in Kinds /\ stack[i].left \in Nat
  /\ \A flag \in {"stopped", "skipping", "returned"} : ctx[flag] \in BOOLEAN
  /\ \A n \in {"loopDepth", "local", "current", "depth"} : ctx[n] \in Nat
  /\ asked \in BOOLEAN /\ late \in BOOLEAN
  /\ thrown \in {"none", "user", "cancelled", "timeout", "outside", "depth",
                "limit"}

CallFrames == {i \in 1 .. Len(stack) : stack[i].kind \in {"flow", "call", "relay"}}

(* The loop depth next relies on counts the item bodies of this call, not  *)
(* those of its callers.                                                   *)
LoopDepthExact ==
  LET call == CHOOSE i \in CallFrames : \A j \in CallFrames : j <= i
  IN  ctx.loopDepth = Cardinality({i \in call .. Len(stack) : stack[i].kind = "item"})

(* maxGraphBlockDepth counts the composite blocks that are still running,  *)
(* called by a node or relayed by another block.                           *)
CallStackExact ==
  Running => ctx.depth = Cardinality({i \in CallFrames : stack[i].kind # "flow"})

(* A return ends its Flow, composite block or chunk slot: none of the      *)
(* nodes of that scope starts once a value was returned there.             *)
ReturnLeaves == [][Len(log') > Len(log) => ~ctx.returned]_flowVars

(* Whatever happened inside, a run that ends left every frame it entered.  *)
FramesRestored ==
  verdict # "running" =>
    /\ ctx.local = 0 /\ ctx.current = 0 /\ ctx.loopDepth = 0
    /\ ~ctx.skipping
    /\ verdict = "completed" => ~ctx.stopped

(* At each moment the counters of the context are those of the frames that *)
(* run, and nothing is left of them at the end, whatever was thrown.       *)
FramesExact == FlowTypeOK /\ LoopDepthExact /\ CallStackExact /\ FramesRestored

(* No block runs once the run is cancelled: not the catch of a try that    *)
(* caught the cancellation either.                                         *)
NothingAfterCancel == [][asked => log' = log]_flowVars

(* What ends a list ends it at once: a return its scope, a cancellation    *)
(* the whole run.                                                          *)
StopsAtOnce == ReturnLeaves /\ NothingAfterCancel

(* A run always ends.                                                      *)
Termination == <>(verdict # "running")
=============================================================================
