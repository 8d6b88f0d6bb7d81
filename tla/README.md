# A verification project for the Flow engine

TLA+ modules of the parts of `lib_FlowEngine` whose correctness depends on the
order of things: threads, cancellation, errors that cross several activations,
caches, files and locks. TLC checks each module on small instances; TLAPS proves
the central results for every value of the constants.

## 1. The system

A Flow is a tree of nodes (blocks with properties and slots) written in
`.flow` sources. `Engine.js` is loaded by a server (Convertigo) in a Rhino
scope; several scopes and many request threads run at once and share a few
server-wide maps. A request resolves its Flow to a plan, creates a run context
`ctx`, and executes the nodes one by one. Around this core are services that
authors, the Studio and agents call (describe, patch, analyse, preview).

| Component | State | Operations | Interacts with | What makes it correct |
|---|---|---|---|---|
| Flow control (`flow-runtime-service.js`, `graph-block-runtime-service.js`, blocks `if forEach while try throw return next`) | `ctx`: `stopped`, `skipping`, `returned`, `loopDepth`, scopes, `graphBlockStack` | executeNodes, runLoopBody, runSlot, runGraphBlock, callBlock | every block; the host cancels it | a run does what its Flow means; each activation puts back what it changed; nothing runs once cancelled; it ends |
| forEachChunk (`forEachChunk.block.js`) | count of chunks, errors, reduced value, the chunk read ahead | read, run Each, settle (emit, count, reduce), end | a source (rows, file, HTTP pages), Flow control, lanes | settles in source order, loses no failure, counts exactly |
| Parallel lanes (`runLanes`, `runLaneTask`) | pulled, ready, stop index, lane contexts | pull, submit, poll, settle, stopAfter, cancel, close | server threads, forEachChunk | same promise as the sequential loop, bounded window, no lost effects, no wait for ever |
| Runtime handles (`runtime-handle-utils.js`) | `ctx.handles`, `handleSeq`, closed marks | create, close, closeAll, replace | blocks with readers/writers, end of request and of lane task | closed, and once |
| Engine tree flights (`Engine.js` 6480-6680) | shared trees, map of flights (locks) | read, acquire, describe, share, release | several scopes | one description per flight, nobody waits for ever, no lock left behind |
| Generated schemas (`schema-store-service.js`, `flow-output-schema-cache.js`, `Engine.js` 8715-8760) | the file, epoch, memo of the fingerprint, registry of responses | learn, adopt, remove, reset, clear; outputSchema | runs (learn) and authoring requests | an answer is current; a learned file is not overwritten |
| Svelte dev server (`frontend-dev-lifecycle.js`, `Engine.js` 10433-10760, 11176-11690, 11880-12240) | an entry per scope, a state file, the processes | start, prepare, activate, synchronise, stop, watch idle, watch exit | a Vite process that survives the scope, the Studio | one server per project, none out of reach, a stop that holds, a final status that is true |
| Production build (`frontend-production-lifecycle.js`, `Engine.js` 9450-9515, 9778-9990, 10200-10275, 11990-12080) | state file, two locks, cancel objects, staged output | schedule, build, cancel, promote | dev server, Node process | an output is never lost nor replaced by an older one, the state claims what is true, a cancellation reaches the process |
| Front document server (`Engine.js` 8355-8676) | registry, two locks, numbered requests | ask, answer, time out, replace, fall back | a Node process | an answer belongs to its question, one process, one effect |
| Run plan and runtime caches (`run-plan-head-service.js`, `cache-utils.js`, `catalog-loader-service.js`, plan resolution of the runtime) | bounded maps, hot catalogs | read, write, evict, probe, clear | every run, writes of other runtimes | a plan of one's own, of sources recent enough |
| Flow code (`flow-code-service.js`, `Engine.js` 4170-4240) | the file, the working copy in its three homes | get, set, patch, check, discard, promote | conversations, the Studio | one working copy, edits that know what they replace, promotions of what was checked |
| Response budget (`response-budget-service.js`, `catalog-service.js`, `resource-service.js`, `flow-tree-service.js`) | a page, its cursor | list and search in pages | agents, edits of the sources | the pages add up, each moves on, the listing ends |
| Source working copies, block catalog, debugger, parser/renderer/validation, tree and expressions, front catalog, block library, Java classes, interface | see `components` in `PROJECT.json` | | | |

What is hard: lanes complete in any order and share a stop; a cancellation
arrives at any instruction; one flag (`stopped`) means three things (`return`,
`next`, failure of a loop) and is restored by four kinds of activation; locks
live in maps that forget them; a fingerprint taken before an update outlives
it; `finally` clauses that throw; a file checked and then written, by
conversations nothing serialises; processes that outlive the scope that
launched them; answers that come after one gave up; caches that are not probed
for a minute on top of caches that are not probed for a minute.
`PROJECT.json` lists each such hazard at its line with the properties that cover it.

## 2. Modules

```
ChunkJob          what a call of forEachChunk is given and must deliver
                                                             <- ChunkJob_proofs
  ChunkPromise    abstract: what the block promises        <- ParallelLanes_proofs
    ParallelLanes runLanes + lanes         implements it   <- ParallelLanes_proofs
  ChunkLoop       the sequential loop      implements it     <- ChunkLoop_proofs
FlowControl       nodes, slots, calls, flags, errors, cancellation
                                                                 <- Runs_proofs
TreeFlight        one engine tree described by several scopes  <- Engine_proofs
FlowCode          working copy and file of a Flow              <- Engine_proofs
GeneratedSchemas  learned schema file, its fingerprint memo and response cache
                                                              <- Answers_proofs
RuntimeHandles    handles of a request and of a lane        <- Resources_proofs
DocumentServer    the warm companion of the front document  <- Resources_proofs
ProductionBuild   background and explicit builds of a Svelte project
                                                               <- Svelte_proofs
DevServer         its development server: requests, watchers, processes
                                                               <- Svelte_proofs
BoundedMap        the bounded caches, as operators
  RunPlans        hot plans, hot catalogs, compiled plans          <- Runs_proofs
PagedSearch       pages under a budget of time and size        <- Answers_proofs
```

`ParallelLanes` extends `ChunkPromise`, whose variables it shares; `TreeFlight`,
`RuntimeHandles`, `PagedSearch`, `FlowControl` and `DevServer` name their
specification `FlightSpec`, `HandlesSpec`, `PagesSpec`, `FlowSpec` and `DevSpec` so that
one module of proofs can hold two components.

`MCx` modules give the constants of module `x` (and, in `MCFlowControl`, the
reference evaluator). Operators introduced by `(* Mutant: ... *)` are not part
of a specification: each is a plausible bug of the definition that follows it,
used to see that a property would notice it (`mutants` in `PROJECT.json`).

### ChunkJob, ChunkPromise, ChunkLoop, ParallelLanes

A *job* is one call of the block: the length of its source and whether it
breaks, the chunks whose Each slot fails (`bad`) or whose value Reduce refuses
(`unfoldable`), `maxChunks` (`limit`), `onError` (`failFast`), whether Each reads
`chunk.last` (`lookahead`: the block reads one chunk ahead, `needsLast`), and
whether lanes can be opened (`threads`). Rows are abstracted to the number of
their chunk; `MaxErrors` stands for the 100 errors the block keeps.

`ChunkPromise` is what a Flow relies on: chunks are settled one by one in source
order (`PSettle`), a cancellation either ends the loop or makes a chunk fail
(`PInterrupted`), and the end agrees with the source (`PEnd`). It does not say
where chunks run. `ChunkLoop` is `run` of the block with `parallel = 1`: `Read`
is `chunks.next()`, `Admit` the cancellation, `maxChunks` and the read-ahead,
`EachFails`/`EachEnds` the slot with the settlement, `Return` the check of the
node executor. `ParallelLanes` is `runLanes` with the calling thread as one
process (`pc`: pull, open lanes, fill, poll, settle, unwind, close) and each
lane as another (`Take`, `Finish`). The lanes object is Java of the host: its
behaviour is what `runLanes` and `runLaneTask` ask of it (a lane may still take
a task after `stopAfter`, none after `cancel`; `canContinue(i)` is false for the
tasks after the stop; `close` waits). Both implement `ChunkPromise` (the
`Promise` property, with `settled` mapped to `Len(emitted)` for the loop).

### FlowControl

`stack` holds the JavaScript activations that restore something or go on after
a slot; `ctx` is the part of the run context they save. A node's action is
`ensureCanContinue` followed by the block; `Leave` ends a frame with its finally
clause (`Finally`) and the check of the executor; `Unwind` and `Catch` are an
error crossing frames. A list stops when `ctx.stopped` is set, as executeNodes
does. `return` is modelled with a defined value. Leaves log the item and the
depth of the local scope they see, so a scope not restored is visible. A node
`relay` is a composite block reached by `ctx.callBlock`: `callBlock` takes its
values, then `runGraphBlock` checks `maxGraphBlockDepth` and counts it as it does a
`call`, so both are `depth`. One relayed with `{ source: true }`, whose properties
are evaluated by the called block in the frame of the caller, counts as a `call`.

A Flow is any element of `Programs`. `Nodes[z]` are the nodes that may be written in a
zone `z` of a Flow (in the body of a loop, in a chunk of such a body, in what a try
catches), and `NodesAssumption` says that a Flow is made of nodes made of nodes, each
in its zone: it says nothing of what a node does. `WellWritten` leaves out
the two divergences section 4 names; the run checks Flows without them.

### TreeFlight

One key and one fingerprint, several threads. Every access to the shared map,
to the map of flights and to a lock is a step. A lock is named by the
scope that created it; `queue` is what `hasQueuedThreads` sees. `evicted` is history:
a shared tree was evicted.

### GeneratedSchemas

Updaters (a run that learns, the requests adopt, remove, reset, clear) and
readers (outputSchema requests) as threads. `stamp` is what the fingerprint of
the schemas directory depends on: it changes with each write and is `Absent`
without the directory. `current` is a history variable: what the file held at
some moment of the request. A file being written (`partial`) does not parse; a
response built from it is not cached.

### RuntimeHandles

Handles are numbered by creation. `broken` is the set of those whose closer
throws. The owner is a request (`runFlowRequest`: closes after the body and in
its `finally`) or a lane (`runLaneTask`: closes after each task, then replaces
`ctx.handles`).

### ProductionBuild

A scope has a thread of requests (stop, start, explicit build) and a thread of
background builds; `pc` and `task` say where each is. The locks are
`frontendBuildLock` (`buildLock`) and the one of the project. `file` is the
production state, read and written without a lock: `view` is what a thread read
of it. Sources, outputs and fingerprints are version numbers. `target`, `backup`
and `left` are the three places a promoted output may be in; `published` is the
last version whose promotion ended. `Crash` restarts the server at any step.
`refused`, `late`, `overlap` and `owed` are history: a stop refused by the
single-flight, an explicit build whose sources were edited after it generated,
two stops that registered one build each, what the last stop found dirty.

### DevServer

Requests are serialised by the authoring lock of their caller, so one request
(`at[0]`) runs at a time; each entry has an activation thread (`at[i]`), an idle
watcher and an exit watcher, and two scopes know different entries (`map`) of one
file. `alive` are the processes, `setups` those that install. `Look`, `Http` and
`Reread` are `frontendDevEntry` (`Look` is `frontendReconcileDevEntry`: `SameProcess`,
`FileWins`, `Superseded`); `StopDev` and `Finalize` the stop; `Restart` is a
scope reloaded: its entries and threads are gone, its processes stay.
`excused` marks the races listed in section 4, whose consequence
the code does not prevent; without one of them the properties hold. Each is set
at the step where it happens: a request that begins while an activation launches
(`AskDev`), a stop that does not cancel what an activation is about to do
(`StopDev`), an activation that does not see another thread at work or a server its
scope has no entry of (`Unseen`), a state of one process written over the one
of a server that runs (`Overwrites`), a restart beside an unnamed server.

### DocumentServer

A caller selects a companion under the start lock, speaks to it under its own
lock, and falls back to a process of its own when told `unknown` or `invalid`, or
when it gave up. `companion[s]` holds the lines in and out of a process. `effects`
counts how often a question was carried out; `lost` are the questions one of
whose attempts nobody heard of again.

### BoundedMap, RunPlans

`BoundedMap` gives `readBoundedMap`, `writeBoundedMap` (the eviction of the
least recently used entry included) and the clear as operators on a record.
`RunPlans` resolves one request at a time: `Ask` (the hot plan), `Load` (the hot
catalog, or a probe of the files), `Build` (the catalog is read and kept hot),
`Compile` (the compiled plan if its catalog is the very same, and the new hot
plan). Time passes between any two of these steps. A request carries a
`flowSource`, a `definition`, both or none: `Identity` is `flowPlanIdentity` (the
definition wins) and keys the compiled plans, while a head is keyed by the
`flowSource` alone. A catalog is its cache key: project, revision of its sources,
working copies. `Begin` is the refresh of a
runtime whose data generation moved. `replacedAt`, `must` and `recent` are
history: when each revision was replaced, the oldest one a run may use, the
order of uses.

### FlowCode

A text stands for its own revision (a hash). `Working(r)` is what a runtime
reads: the copy of the Flow object, else the one the FlowEngine keeps, else the
mirror of the runtime. A request reads, compares, writes and reads back in
separate steps; a promotion reads twice, then places, stores and clears. `told` is
the last text and revision a conversation was given. `raced` is history: another
request or the Studio changed the Flow since this request last read it. How an
object takes over a copy kept by the FlowEngine is the host's: external.

### PagedSearch

A listing is a sequence of units: a descriptor of the catalog, a file, a Flow in
one phase of the search, all the blocks, types or schemas. A unit has the sizes of
its `matches`, and `covered`, what the key of the cursor holds of it: the identity
and description of a descriptor (`catalog-service.js:454`; not its properties, outputs
and slots), the path, length and date of a file, the name and source of a Flow (not
the blocks its expansion reads), the names of the blocks, nothing of the types and
schemas (`flow-tree-service.js:7049`). An edit changes the one or the other, or both.
`torn` is history: since the first page a unit changed and not what the key covers
of it, or a file changed while its page was searched. `ScanUnit` is one
descriptor or one file, `SearchUnit` and `AddMatch` one unit of the search in Flows and
one match of it. `page` is the request being answered, `cursor` what the
caller sends next. `bytes` is the `estimatedBytes` of the budget, and `SizeHeld` compares the
sum of the items with it. Time runs out at any step.

## 3. What is checked

| Run | Question | States | Bounds |
|---|---|---|---|
| `chunk_loop` | the sequential loop keeps the promise: order, no lost failure, exact errors and counts, end | 38 022 | 0..3 chunks, every combination of failures, limit 1, 2 or none, 2 errors kept |
| `lanes` | the lanes keep the promise and end; window, stops, discarded chunks | 79 667 | every call on 0..2 chunks, 16 calls on up to 4; 2 lanes, window 3, 1 error kept |
| `flow_control` | a run does what its Flow means; frames, flags, cancellation, end | 102 646 | every block around a block around at most two simple nodes; towers of up to four calls, relayed blocks and tries; 2 iterations, depth of calls 2 |
| `tree_flight` | one per flight, waiters served, map left empty, everyone answers | 72 839 | 3 scopes, with evictions, transient errors and waits given up |
| `schemas` | answers are current (no reset), memo is current, all answered | 1 088 517 | 2 readers, a learner, and an adopt, remove, reset or clear |
| `handle_closers` | closed once, leaks explained, error kept | 10 860 | 4 handles, every set of closers that throw, 2 tasks |
| `production_build` | output kept, never older, true state, cancellations that reach, stops that build, no deadlock | 615 088 | 2 scopes, 3 requests, 1 edit, 1 failure or restart |
| `dev_server` | one server, none out of reach, stops that hold, true final status, watched | 2 040 807 | 2 scopes, 2 requests, 4 entries, 3 processes, 1 failure, exit or restart |
| `document_server` | answers of one's own, one companion, one effect, no retry of a rejection, no deadlock | 2 484 289 | 2 scopes, 2 questions, 3 companions, 2 mishaps (slow, death, upgrade) |
| `run_plans` | consistent caches, recent entries kept, own plans, bounded staleness, told is seen | 7 550 624 | 8 forms of request in 2 projects, 2 heads, 1 plan, a minute of 2 ticks, 5 ticks, 3 runs, 1 write |
| `flow_code` | one copy, no lost update but the raced ones, promotions of what was checked | 734 495 | 2 conversations, 2 runtimes, 3 texts, 3 requests, 1 change by the Studio |
| `paged_search` | pages add up to one listing, sizes held, every page moves on, the listing ends | 981 915 | 3 units of 0 to 2 matches, every limit, budget of 2 KB or none, 1 edit, of what a key covers or not |

Most properties of a run are conjunctions of named parts, each commented at its
definition; the other properties are single statements. A mutant breaks one part.

| Run | Property | Parts |
|---|---|---|
| `chunk_loop` | `Delivery` | `SettlementOrder`, `NoFailureLost`, `ErrorsExact`, `CountsEmitted` |
| | `Promise`, `Termination` | |
| `lanes` | `ChunksAccounted` | `TypeOK`, `NoSpuriousStop`, `EffectsAccounted` |
| | `WindowBound`, `Promise`, `Termination` | |
| `flow_control` | `FramesExact` | `FlowTypeOK`, `LoopDepthExact`, `CallStackExact`, `FramesRestored` |
| | `StopsAtOnce` | `ReturnLeaves`, `NothingAfterCancel` |
| | `RunsAsMeant`, `Termination` | |
| `tree_flight` | `DescribedOnce` | `OnePerFlight`, `OneUntilReleased` |
| | `FlightsForgotten`, `WaitersServed`, `EveryoneAnswers` | |
| `schemas` | `AnswersCurrent` | `TypeOK`, `FreshUnlessReset` |
| | `MemoCurrent`, `EveryoneAnswers` | |
| `handle_closers` | `HandlesClosed` | `ClosedOnce`, `LeaksExplained` |
| | `ErrorKept` | |
| `production_build` | `OutputSafe` | `TypeOK`, `OutputKept`, `ClaimsPublished` |
| | `CancelHolds` | `CancelReaches`, `CancelFindsIt` |
| | `WorkEnds` | `NobodyStuck`, `StopBuilds` |
| | `OutputAdvances` | |
| `dev_server` | `ServersAsAsked` | `OneServer`, `StopHolds` |
| | `WithinReach` | `NoOrphan`, `Watched` |
| | `StateTrue` | `DevTypeOK`, `FinalMeansDead` |
| `document_server` | `CompanionShared` | `TypeOK`, `OneCompanion`, `NobodyStuck` |
| | `AnswersOwn`, `EffectsOnce`, `RejectionStands` | |
| `run_plans` | `CachesKept` | `TypeOK`, `CachesConsistent`, `RecentKept` |
| | `OwnPlan`, `StaleAtMostTwice`, `ToldIsSeen` | |
| `flow_code` | `EditsKnown` | `EditSeesWhatItReplaces`, `ToldItsOwn` |
| | `PromotionsSound` | `PromotesWhatWasChecked`, `PromotionErasesNoOther` |
| | `OneCopy` | |
| `paged_search` | `PagesSound` | `PagesTypeOK`, `PlacesAddUp`, `OneListing`, `SizeHeld` |
| | `PagesEnd` | `EveryPageMovesOn`, `EverythingAnswered` |

The type invariants of `ChunkPromise` (`PTypeOK`), `ChunkLoop`, `TreeFlight`
(`FlightTypeOK`), `RuntimeHandles` (`HandlesTypeOK`) and `FlowCode` belong to no run:
they are proved.

Why these bounds: a hazard of the chunks needs a failure before, at and after
another chunk (3), plus one in flight behind a full window (4 chunks, window 3,
2 lanes: completion out of order, a lane used again after a stop). 2 errors kept
out of 3 failures reach the cap. Flags of Flow control meet when two activations
are nested around a node that sets them and a node that follows. The limit on
the depth of calls is met by a call in a relayed block, a relayed block in a call, and
either in a try, under two that fit (4 levels, depth 2). A lock taken
from the map, forgotten by its holder, and created again needs three scopes.
A stale entry needs a reader that fingerprints across an update and a reader
that comes later; two updaters overlap. Two failing closers mask each other with
handles before, between and after them (4).
Two stops that race need a start that cancels one of them: 3 requests. A
development server is lost through two scopes and what one of them knows of the
other's process: one request each, with a third party (watcher, activation,
restart) in between. A late answer needs a question given up and one after it; a
replaced companion, a third. A stale plan needs a minute of head on a minute of
catalog and a request that takes a tick in each: 4 ticks of staleness in 5. A
lost update needs two conversations; a stray copy, two runtimes. A page that
resumes within a unit needs a unit of two matches, and one before and after. A
cursor applied to another listing needs an edit the key tells, and one it does not.

`RunsAsMeant` compares the run with a recursive evaluator that has no stack, no
flag and no finally (`Meant` in `MCFlowControl`): a refinement of a meaning.

### Fairness

Weak fairness of each thread's own steps, nothing more: the JVM schedules the
thread of a request, and the threads of the lanes; a slot of a chunk ends,
since a cancellation interrupts its blocking calls; a queued `ReentrantLock` is
handed over when free (nobody has to wait until the 120 s pass).
`PagedSearch` assumes that the engine answers a page it began (`WF(Answer)`) and
that the caller follows its cursors or starts again when told that the listing
changed (`WF(Ask \/ Mismatch)`): the loop of the agent the pages are for.
`DocumentServer` assumes the callers' threads, not the companion, which may
never answer. Cancellation, the passing of time, evictions,
expiry, edits, failures and restarts are never forced. Liveness is checked
without symmetry.

Deadlock checking is off everywhere because every model ends: a call returns, a
Flow ends, all requests are answered. `Termination`, `EveryoneAnswers` and
`EverythingAnswered` (in `PagesEnd`) say that this end is reached. Where an end is
not owed (a companion that never answers, a build of any length) `NobodyStuck` (in
`WorkEnds` and `CompanionShared`) says that while someone is at work someone can
go on.

## 4. Seen while modelling

What the code does at these places differs from what a comment, a test or a
document says, or a careful reader would expect. Each is a behaviour of the
models; the properties above are stated so that they hold beside it, and say at
their definition what they leave out.

Flow runtime:

* A `next` in the Each slot of a `forEachChunk` nested in a loop leaves
  `skipping` set (`forEachChunk.block.js:122` puts back `stopped` only): a later
  `return` of the same item ends the item, not the Flow as
  `return.block.js:5` says. `FramesExact` and `StopsAtOnce`
  leave such Flows out (`WellWritten`).
* A composite call whose properties throw was pushed on `graphBlockStack`
  (`graph-block-runtime-service.js:364`) before the `try` that pops it: caught
  by a Try, it stays counted, and enough of them fail a call that is not nested
  (342). `WellWritten` has such calls without a Try around them.
* A closer that throws leaves the later handles open
  (`runtime-handle-utils.js:264`), though `flow-runtime-service.js:1148` says the
  handles of a task are closed at its end. `LeaksExplained` says it takes a
  closer that throws.

Shared maps and caches:

* Two scopes can describe one tree at once: a lock read from the map is taken
  after its holder removed it (`Engine.js:6646`, against the comment at 6622).
  `OneUntilReleased` holds until then. A flight acquired without waiting does
  not read the shared trees again (6528, against 6524): a scope that read before
  the tree was shared and takes the flight after it was released describes it
  again. `WaitersServed` is about the scopes that waited.
* An output schema built across a learning run is found again after a reset
  (`flow-output-schema-cache.js:30`, against
  `tests/generated-schema-invalidation.js:27`): `FreshUnlessReset`. Two runs that
  learn together both write (`schema-store-service.js:78`, against `README.md:635`).
* A block edited on disk may be run in its old form for about two minutes, not
  one (`Engine.js:3577`): the minute of a head begins when it is written
  (`run-plan-head-service.js:49`), with a catalog probed up to a minute before
  (`catalog-loader-service.js:226`). `StaleAtMostTwice` states the bound.
* A request that carries a `definition` and a `flowSource` compiles its definition
  (`flow-source-service.js:89`, and `flow-runtime-service.js:1683` for the key of the
  compiled plan), but its head is found by the `flowSource` only
  (`run-plan-head-service.js:2-8`): for a minute, a run may execute the plan of another
  definition, or of the source itself, asked before with the same name and
  `flowSource`. `OwnPlan` says so (`SameHead`). The callers of the repository avoid it:
  `flowCodeTest` clears the definition (`flow-code-service.js:1127`).
* The map of built catalogs has no limit and no eviction.

Flow code (`flow-code-service.js`, `Engine.js`):

* An update is lost when it is written between the second reading of another
  request and its write (671). A set so raced answers the revision of the other's
  text (`Engine.js:4197-4207`), and leaves a mirror whose revision is not its
  text's.
* The mirror of a runtime outlives the removal of the Flow object and brings back
  an old copy then.
* A promotion calls `setFlowSource` and `saveFlowSourceFile`: a set in between is
  saved without validation. A copy written after its second reading (1226) is
  dropped at its end (1265); one promoted with a text of its own drops any
  other copy, and answers `draftCleared` false.

Svelte (`Engine.js`):

* A prepared entry is launched by its activation thread and by `dev.start` with
  `wait`, which does not check `activationStarted` (11894 leads to a second
  Vite). A stop during an activation is followed by the activation registering
  its server (11635); a stop from another scope does not cancel it at all. An
  activation does not look at the state file (11615): an entry prepared before
  another scope began a server becomes a second one, when that scope's idle
  watcher, at its end, deleted the newer entry of its key (11262-11264).
* The exit and idle watchers write the end of an old process over the record of
  its successor (11268, 11335); a synchronisation or an idle poll writes `running`
  back over `exited` (12220); a failed activation writes `failed` over `stopped`, or over
  the record of a server that runs (11625). These two need three requests, one
  more than the run makes: the search for the invariant of section 5 found them.
* A stop while a build of the scope is under way is refused by the single-flight
  (12011), even if that build was cancelled: its sources stay unpublished. Two
  stops that both register leave one build that a start cannot cancel (12026).
* Scopes keep lists of rejected providers of their own over a shared registry
  (8490-8499): they may replace each other's companion at every question.
* A mutation that times out may be carried out by the companion and by the
  fallback. `frontendRunProviderOneShot` retries with `tsx` a mutation the compiled
  one-shot rejected (8407-8438), against the comment at 8351.

Pages:

* A search in Flows with `minItems` 1 whose first unit takes longer than
  `timeoutMs` answers an empty page with the cursor it was given, for ever
  (`flow-tree-service.js:7257`: the unit is already counted); `minItems` 0 does so
  everywhere. `EveryPageMovesOn` and `EverythingAnswered` leave out exactly these.
* A key covers a part of what its pages hold. The one of the catalog is made of
  `blockId`, `provider`, `origin`, `description` and `tags` (`catalog-service.js:454-456`),
  and the items hold properties, outputs and slots too; the one of the search in
  Flows is made of the Flows and of the names of the blocks
  (`flow-tree-service.js:7049-7052`), so the matches in blocks, types and schemas,
  and those in Flows that depend on an expanded block, are not in it. After an edit
  of these the cursor stays valid and the pages mix two listings, with items skipped or
  repeated in the search in Flows. `PagesSound` leaves out such edits (`torn`), and says
  that the catalog gives each descriptor once in spite of them.
* A plain numeric cursor sent with a budget starts again at 0.

## 5. What is proved

For every value of the constants that satisfies the assumptions named below (any
length of source, any number of lanes, scopes, callers, requests, edits, failures
and restarts). Each module of proofs follows one scheme: an inductive invariant,
one lemma for each action that it keeps the invariant, and the theorems.

### forEachChunk

* `ChunkJob_proofs`: the lemmas on `Delivered`, `Ending`, `NextChunk`, `Count` and
  on the list of errors (`ListStep`).
* `ChunkLoop_proofs`: `LoopCounts` and `LoopKeepsPromise`. `IInv` adds `Progress`
  (how `index`, `Len(emitted)` and `pc` relate, and which chunks were read),
  `ErrorsAreBad` and `Stopped`. `StepRefines` maps `Read`/`Admit` to a stutter, a
  cancellation or an end; `EachFails`/`EachEnds` to `PSettle` or
  `PInterrupted`; `Return` to `PEnd` or `PCancel`. `LoopOrder`,
  `LoopNoFailureLost` and `LoopErrorsExact` state the same three facts of the
  loop itself, by `JInv`: `Listed` (errors increase, below the chunk at hand),
  `Ordered`, `AllAccounted` (no chunk done passed unnoticed) and `EndsWell`.
  `LoopDelivers` puts the four together: the run's `Delivery`.
* `ParallelLanes_proofs`, of the promise: it gives order, no lost failure and
  exact errors (`PromiseOrder`, `PromiseNoFailureLost`, `PromiseErrorsExact`). The
  inductive invariant adds the type and `Bounds` (never more settled than
  deliverable, never more errors kept than `MaxErrors`). `NoFailureLost` alone is
  not inductive: that a chunk left out of a full list of errors comes after
  every error in it needs the errors to be increasing and all below `settled`.
* `ParallelLanes_proofs`, of the lanes: `WindowHolds`, `LanesAccount`,
  `LanesKeepPromise` and, through the promise, `LanesDeliver`. `LInv` counts what
  was settled, taken and pulled (`Progress`), says why the pulls ended (`Pulls`),
  and where each task taken is: in one lane, on its way to the settlement, or
  settled (`Held`). Two conjuncts carry the hard case, a failure that overtakes
  others. `Stop`: while the loop runs, the stop the lanes know is the one of the
  calling thread, is a failed chunk not yet settled, and its settlement ends the
  loop. `Spared`: a lane that keeps a cancelled reason runs only tasks after
  the stop, so no chunk that will be settled is interrupted. Without `Spared` the
  errors of the loop could not be those of the source, and the step of the
  settlement would be `PInterrupted` where the promise asks for `PSettle`.

### Shared state

* `Engine_proofs`, flights: `FlightExclusive` (`OnePerFlight`), `DescribedAlone`
  (`OneUntilReleased`), `TreeDescribedOnce` (both), `MapLeftEmpty`
  (`FlightsForgotten`, when no wait was given up) and `WaitersAreServed`
  (`WaitersServed`). `Owners` (a scope past the lock owns the lock it has, and only
  such a scope owns one) gives the first:
  two scopes in one flight would both own its lock. `OneFlight` (until a release,
  every lock a scope has is the one in the map) gives the second. `MapKept` gives
  the fourth: while the map holds a lock and nobody gave up, some scope that has
  it has still to forget it or to wait. For the last, `ServedInv`: while nothing was
  evicted or left unshared, the tree is shared once a scope is past its description,
  or when the lock a scope waits for is free, since its holder shared before; so a
  scope that waited finds the tree when it reads again.
* `Engine_proofs`, revisions: `OneCopyForAll` (a loaded project, until an object is
  removed), `EditsAreKnown` (from `EditsSee` and `ToldOwnRevision`; raced edits apart),
  `PromotionsAreSound` (from `PromotesChecked` and `PromotionsErase`; raced
  promotions apart, and for what they erase those with a text of their own and
  removed objects) and `FlowCodeTyped`. `IInv` is `TypeOK`, `Apart` (two requests
  do not share a runtime), `Mirrors` (until an object is removed a mirror names the
  revision of its own text, and is empty in a loaded project) and `Sound(k)` for
  each conversation: what it carries between two steps (the revision expected,
  the text chosen, the text placed) is still what it read unless it was raced.
  The action properties follow from `IInv` and, for the steps of others,
  from `Left` (a step of one conversation ends no step of another).
* `Answers_proofs`, schemas: `MemoIsCurrent` and `AnswersAreCurrent`. `MemoCurrent` is
  not inductive: a reader may be about to keep a fingerprint. `PrintCurrent` says
  that such a fingerprint, if its generation is still the current one and no
  update is before its bump, is the current one; an update keeps it by being
  `Updating` from its write to its bump, and the bump ends the generation of every
  reader. For the answers the invariant (`Fresh`) follows a response and the
  fingerprint it was built under as a pair: under the fingerprint of now there is
  only what the file holds now (`StampTells`), and whatever a reader of the current
  generation may find under a fingerprint it has, or may be given, the file held
  while that reader was at work (`Seen`). `Counts` bounds the stamps and epochs by
  the updates, which the type invariant needs. Both parts are stated without a
  reset, as `FreshUnlessReset` is; section 4 says what a reset does.
* `Answers_proofs`, pages: `PagesSoundAlways` (`PagesSound`) and `PagesMoveOn`, the part
  of `PagesEnd` that is not liveness. `PlacesAddUp` speaks of whole pages; the
  invariant must follow a page item by item. `Placed` says that what was read and
  what the page holds are, in order, the items before the place it is at: a step
  moves that place over nothing, or over one item (`HoldsMoved`, `HoldsAppend`).
  `Actual` says that each is the item of the listing the caller began with. That the
  next one is too is `Agrees`: unless `torn`, a unit with the key it had is the unit
  it was (`Told`), so a page asked with a cursor that was accepted reads the first
  listing. A descriptor is one match whatever it holds, so the places of the catalog need no
  `torn` (`Sure`). A cursor at the very start resumes under any key, so it must have
  answered nothing (`NothingBefore`). `Weighed` ties the bytes counted to the sum of
  the items, over an explicit sum (`Sums`): `TotalIsSum` shows, from the smallest
  exception, that the recursive `Total` is that sum. For the moves, `Advances`: a
  page at the place it began holds no item.
* `Runs_proofs`, plans: `CachesStayConsistent`, `PlansAreOwn`, `ToldIsAlwaysSeen`,
  `StaleTwiceAtMost` and `CachesHoldRecent`. The first rests on one lemma per
  operation of `BoundedMap` (a touch, a write with or without an eviction, a
  clear): the size is the number of entries and within the limit, the uses
  differ, and the entry evicted is the least recently used, which exists because
  a set of uses has a least element. The next three relate what each cache holds
  to the request under way: `OwnInv` (a head, a hot catalog and a run are those of
  their key; the key of a head does not tell definitions apart, whence the exception
  of `OwnPlan`), `ToldInv` (nothing kept is older than `must`), `AgesInv` (how long ago
  the sources of a catalog may have changed: a request's time for a hot catalog,
  an interval and two requests' time for a head). An edit makes no catalog older
  than the moment it was probed. The last adds `Kept`: the keys of a cache, listed
  in the order of their uses, are the last ones of the history of uses; an
  eviction drops the first of that list, and a touch moves a key to its end.

### Resources and processes

* `Resources_proofs`, handles: `HandlesClosedOnce` and `HandlesLeft`, together
  `ClosersCalled` (`HandlesClosed`), and `ErrorsKept`. `ErrorSoFar` relates the error
  in flight to the phase of the owner. `HandlesLeft` counts culprits: a pass of
  `closeAll` that leaves handles open ended at the first closer that threw, which
  it marked closed; the pass of `finally` can only leave handles behind a second
  one.
* `Resources_proofs`, companion: `AnswersAreOwn`, `CompanionIsOne`, `EffectsAreOnce`,
  `RejectionsStand`. `DInv` follows the numbers of the lines across the two pipes of
  a companion: they increase from the reply to be read next to the line written
  last (`Numbered`), and whoever waits wrote the last line (`Awaited`), so a reply
  with the number waited for is the one to the caller's own line. For the effects,
  a line or reply on its way, unless an attempt of its question was lost, is the
  one its caller waits for now (`Due`, in `Expected`), and no line is of a question
  to come (`Earlier`); so a question is carried out by one of its line
  (`LinesUndone`), its reply (`RepliesHarmless`), its caller (`CallsUndone`) or nobody
  yet (`LaterUndone`). A question refused is over or about to be (`Refusals`).
  `QuietStep` does the work for the steps that write and read no line.
* `Svelte_proofs`, production build: `OutputIsSafe`, `CancelsHold`, `OutputOnlyAdvances`
  and `StopsBuild` (`StopBuilds`). The lock of the project makes a section of everything from the generation of
  the sources to the state written (`InSection`); in it a thread holds sources no
  older than any published (`Published`), which gives the order of outputs, and
  the output moved aside is the last one published (`Aside`, `OutputKept`), which
  survives a restart. `Claims` extends `ClaimsPublished` to the states threads are
  about to write, since they are read and written without a lock. `Jobs` and
  `Listed` give the cancellations: a process runs unlisted only while its job is
  about to look again at the flag a cancellation sets. `OwedInv` gives the last: while
  the sources a stop found dirty are unpublished, some scope is about to register a
  job, or has one that is not cancelled and has yet to take its sources, took them
  after the stop, or failed (`Owes`); when nobody is at work there is no such scope.
* `Svelte_proofs`, development server: `StateIsTrue` (`StateTrue`), `AsAsked`
  (`ServersAsAsked`) and `InReach` (`WithinReach`), from two invariants.
  `BasicHolds`, of every state, races included: an entry and the state file are of
  a process of the kind and the life their status says (`EntryFine`, `FileFine`), dead
  processes stay dead (`Grows`), and a thread is where the entry it works on
  allows (`ThreadFine`, `WatchFine`, `RequestFine`); `FinalMeansDead` is one conjunct of
  it. `TameHolds`, until a race is excused: one activation launches at a
  time and no request meanwhile (`OneLaunch`), only the process whose address the
  log holds runs (`Alone`), and none after a stop (`StopFine`). `OneServer` alone is not
  inductive: a scope may hold a prepared entry while another's server runs, and launch it.
  What prevents it is what each scope knows (`RunningFine`): the state file names the
  server (`Named`), so a request finds it; a prepared entry is older than that file
  (`Olds`), so it loses to it; an entry of the server is in the map of its scope or the
  scope has none (`WellPlaced`), so an activation gives up; and the idle watcher of one
  of its entries has not ended (`Guarded`), which gives `Watched`.

### The control of a run

`Runs_proofs`: `FramesAgree` (`FramesExact`), `FramesAreLeft` and `EndsAtOnce`
(`StopsAtOnce`). The theorems are about any Flow of any size
and any depth: the stack is followed as a sequence of levels, where the context
of a level is what the frame above it saved, or `ctx` (`Level`), so that a finally
clause, which puts back a part of what its frame saved, is a step from one level to the
one below. `FlowInv` says of each pair of levels what a frame of that kind owes
to the one under it (`KeptBy`: the scope, the loop depth, the current item, the
depth of calls, the flags), that the loop depth of a level counts the items above the
innermost call (`LoopCounted`), and how frames stand on each other (`Framed`). Flags
are what makes it hard: `stopped` is set by `return` and by `next` and put back by four
kinds of frames. `Flags` says that a flag set is a flag someone above will obey; it
fails when a chunk of a loop body holds a `next`, so it needs to know
where in the Flow each level is: `Zoned` gives the zone of each frame. `Exact` counts the
composite blocks, called or relayed, and needs that no call throws its properties inside a try. Hence
`WellWritten` is a hypothesis of `FramesAgree` and `EndsAtOnce`; what holds
without it is stated without it (`FramesAreLeft`). The Flows of the run
are well written (an `ASSUME` of `MCFlowControl`), so the hypothesis is met.

### Assumptions

TLC evaluates each of them in the runs of their modules.

* `MaxLenAssumption`, `MaxErrorsAssumption`, `JobsAssumption` (`ChunkJob`): bounds are
  natural numbers and jobs are calls of the block. `WindowAssumption`
  (`ParallelLanes`): the window is at least 1.
* `MaxDepthAssumption`, `BudgetAssumption`, `NodesAssumption` (`FlowControl`): the depth
  is at least 1, and Flows are made of nodes, each in its zone. `WellWritten` is not one:
  it is the hypothesis of two theorems.
* `NoneAssumption` (`TreeFlight`, `ProductionBuild`), `ReadersAssumption`
  (`GeneratedSchemas`), `NobodyAssumption` (`DocumentServer`): the value that stands
  for nobody is not a thread. `CodesAssumption` (`FlowCode`) likewise for texts.
* `PagesAssumption`, `ListingsAssumption` (`PagedSearch`): limits are at least 1, sizes
  and `minItems` natural numbers; a listing is a sequence of units of the kinds of its
  subject, a descriptor has one match, a file one at most, and a key holds nothing of
  types and schemas.
* `MixesAssumption`, `UpdatersAssumption` (`GeneratedSchemas`): what each of finitely
  many updates is. `AsksAssumption` (`DocumentServer`): callers ask for a
  description, a mutation with its key or a generation; a mutation without key
  is only a second attempt, as in `Engine.js`.
* `LimitsAssumption`, `TimesAssumption`, `RequestsAssumption` (`RunPlans`): a cache
  holds something, times are natural numbers, requests are of known projects.
* `BoundsAssumption` (`FlowCode`, `ProductionBuild`, `DocumentServer`),
  `DevBoundsAssumption` (`DevServer`), `HandlesAssumption`, `ManualAssumption`: the
  bounds of the models are natural numbers, the switch a Boolean.

### Only model-checked

* `FlowControl`: `RunsAsMeant` compares with a recursive evaluator, out of the
  prover's reach: what a run does, value by value, is checked for the Flows of the
  run only. Every other safety invariant of the runs is proved.
* `NobodyStuck` in `WorkEnds` and `CompanionShared` is about `ENABLED`, and every
  liveness property about fairness: neither is in the prover's reach. The other
  parts of the two are proved (`StopsBuild`, `CompanionIsOne`).
* What an operator defined by a fold or `RECURSIVE` computes for every input: the
  theorems of induction take an operator, which the provers cannot instantiate. A
  recursive function is in reach, from its smallest exception (`TotalIsSum`).

## 6. Abstractions to know of

* A modification time never repeats: a write within the same millisecond and of
  the same length, which the fingerprint cannot see, is not modelled.
* The fingerprint of a directory is one step.
* A flight waits at most once; the 120 s are a switch (`Timeouts`).
* `while` has one budget for all loops (`late`).
* Blocks that compute are one leaf each; what they compute is not modelled.
* A production build and a start of the development server are a few steps each;
  a state file is read or written in one step; what viewers do is that the idle
  watcher may find nobody at any time.
* A companion takes its lines in order and answers each at most once.
* A request of `RunPlans` reads the clock when it keeps something; the time it
  takes is at most `MaxDelay`, the assumption the bound on staleness names.
* A Java object is read or written in one step in `FlowCode`; two requests never
  share a runtime, which the pool of the bridge guarantees.
* The units of a listing keep their number: an edit changes what a unit holds.
  The sizes of an item and of a page are in KB, the JSON around them left out.

## 7. Not modelled

`components` in `PROJECT.json` names each part with its reason. In short: the parser,
renderer, validation, tree, analysis, expressions and types are pure functions
of texts and trees (state enters them only through the caches modelled here);
the block catalog, front catalog, icons and projects are reads of files; the
debugger, the Java classes and the interface are the host's. Within the modelled
parts: how a tree is described, the inference of a schema, block code and resource
patches (the check then write of `FlowCode` on a file), the memo of
validations, the generation of plans runtimes share, requests that bring their own
`blocks`, pages without a budget, the
idle policy and proxy of the development server, what a build produces.

## 8. Plan

Done: the modules above, and the proofs of section 5. Left, in the order of their
worth: block code and resource
patches in `FlowCode`; the generation shared between runtimes in `RunPlans`; a model
of the idle policy for `DevServer`.
