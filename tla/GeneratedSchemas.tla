-------------------------- MODULE GeneratedSchemas --------------------------
(***************************************************************************)
(* The learned schema file of a Flow (schema-store-service.js) and the     *)
(* shared cache of the output schemas generated from it (outputSchema      *)
(* requests of Engine.js, flow-output-schema-cache.js).                    *)
(*                                                                         *)
(* Updaters change the file, then bump the epoch of the generation.        *)
(* Readers take the generation, fingerprint the schemas directory (a memo  *)
(* keeps it 1000 ms for one generation), and answer the cached response of *)
(* that fingerprint or a new one.                                          *)
(***************************************************************************)
EXTENDS Integers, FiniteSets

CONSTANTS
  Readers,    \* outputSchema requests
  Updaters,   \* runs that learn, and the requests adopt, remove, reset, clear
  Mixes       \* the mixes of updaters considered: what each one does

Kinds == {"learn", "adopt", "remove", "reset", "clear"}

ASSUME MixesAssumption == Mixes \subseteq [Updaters -> Kinds]
ASSUME UpdatersAssumption == IsFiniteSet(Updaters)

VARIABLES
  kind,      \* the mix of updaters, chosen once
  file,      \* the schema in the file: none, being written, or an updater's
  stamp,     \* what the fingerprint of the directory sees, Absent without it
  stamps,    \* stamps given: modification times never come back
  epoch,     \* generatedSchemaEpoch
  memo,      \* generatedSchemaDependencies: fingerprint of one generation
  entry,     \* the registry's entry for the Flow
  lock,      \* holder of the dependencies lock
  pc, gen, print, resp,   \* of the readers
  upc,       \* of the updaters
  current    \* history: what a correct answer of each reader may be

readerVars == <<pc, gen, print, resp, current>>
vars == <<kind, file, stamp, stamps, epoch, memo, entry, lock, readerVars, upc>>

Absent == 0
Free == "free"

ASSUME ReadersAssumption == Free \notin Readers

NoMemo == [gen |-> -1, print |-> Absent]
NoEntry == [print |-> -1, resp |-> "none"]

Contents == {"none", "partial"} \cup Updaters

Init ==
  /\ kind \in Mixes
  /\ file = "none" /\ stamp = Absent /\ stamps = 0
  /\ epoch = 0
  /\ memo = NoMemo /\ entry = NoEntry /\ lock = Free
  /\ pc = [r \in Readers |-> "idle"]
  /\ gen = [r \in Readers |-> 0]
  /\ print = [r \in Readers |-> Absent]
  /\ resp = [r \in Readers |-> "none"]
  /\ upc = [u \in Updaters |-> "idle"]
  /\ current = [r \in Readers |-> {}]

-----------------------------------------------------------------------------
(* The updaters.                                                           *)

(* An update takes effect between its first step and its bump: meanwhile a *)
(* reader may answer what was there before or what is there now.           *)
Becomes(content) ==
  /\ file' = content
  /\ current' = [r \in Readers |->
       IF pc[r] \in {"idle", "done"} THEN current[r] ELSE current[r] \cup {content}]

Touch == stamps' = stamps + 1 /\ stamp' = stamps + 1

UGoto(u, next) == upc' = [upc EXCEPT ![u] = next]

(* learnOutputSchema, learnResultSchema: a file that exists is kept.       *)
LearnCheck(u) ==
  /\ kind[u] = "learn" /\ upc[u] = "idle"
  /\ UGoto(u, IF file = "none" THEN "write" ELSE "done")
  /\ UNCHANGED <<kind, file, stamp, stamps, epoch, memo, entry, lock, readerVars>>

AdoptCheck(u) ==
  /\ kind[u] = "adopt" /\ upc[u] = "idle"
  /\ UGoto(u, "write")
  /\ UNCHANGED <<kind, file, stamp, stamps, epoch, memo, entry, lock, readerVars>>

(* FileUtils.writeStringToFile empties the file, then fills it.            *)
StartWrite(u) ==
  /\ upc[u] = "write"
  /\ Becomes("partial") /\ Touch
  /\ UGoto(u, "fill")
  /\ UNCHANGED <<kind, epoch, memo, entry, lock, pc, gen, print, resp>>

(* Mutant: the epoch is not bumped after a write.                          *)
EndWriteUnannounced(u) ==
  /\ upc[u] = "fill"
  /\ Becomes(u) /\ Touch
  /\ UGoto(u, "done")
  /\ UNCHANGED <<kind, epoch, memo, entry, lock, pc, gen, print, resp>>

EndWrite(u) ==
  /\ upc[u] = "fill"
  /\ Becomes(u) /\ Touch
  /\ UGoto(u, "bump")
  /\ UNCHANGED <<kind, epoch, memo, entry, lock, pc, gen, print, resp>>

(* deleteOutputSchema: the directory stays, with a new modification time,  *)
(* and the epoch is bumped even when there was no file.                    *)
Remove(u) ==
  /\ kind[u] = "remove" /\ upc[u] = "idle"
  /\ IF file = "none" THEN UNCHANGED <<kind, file, stamp, stamps, current>>
     ELSE Becomes("none") /\ Touch
  /\ UGoto(u, "bump")
  /\ UNCHANGED <<kind, epoch, memo, entry, lock, pc, gen, print, resp>>

(* reset of the Flow: its directory is deleted, when it exists.            *)
Reset(u) ==
  /\ kind[u] = "reset" /\ upc[u] = "idle"
  /\ IF stamp = Absent
     THEN UGoto(u, "done") /\ UNCHANGED <<kind, file, stamp, current>>
     ELSE UGoto(u, "bump") /\ Becomes("none") /\ stamp' = Absent
  /\ UNCHANGED <<kind, stamps, epoch, memo, entry, lock, pc, gen, print, resp>>

(* clearRuntimeCaches bumps before it clears the memo.                     *)
Clear(u) ==
  /\ kind[u] = "clear" /\ upc[u] = "idle"
  /\ UGoto(u, "bump")
  /\ UNCHANGED <<kind, file, stamp, stamps, epoch, memo, entry, lock, readerVars>>

Bump(u) ==
  /\ upc[u] = "bump"
  /\ epoch' = epoch + 1
  /\ UGoto(u, IF kind[u] = "clear" THEN "forget" ELSE "done")
  /\ UNCHANGED <<kind, file, stamp, stamps, memo, entry, lock, readerVars>>

Forget(u) ==
  /\ upc[u] = "forget"
  /\ memo' = NoMemo
  /\ UGoto(u, "done")
  /\ UNCHANGED <<kind, file, stamp, stamps, epoch, entry, lock, readerVars>>

Update(u) ==
  \/ LearnCheck(u) \/ AdoptCheck(u) \/ StartWrite(u) \/ EndWrite(u)
  \/ Remove(u) \/ Reset(u) \/ Clear(u) \/ Bump(u) \/ Forget(u)

-----------------------------------------------------------------------------
(* The readers.                                                            *)

Goto(r, next) == pc' = [pc EXCEPT ![r] = next]

(* An update has changed the file and has not bumped the epoch yet.        *)
Updating == \E u \in Updaters : upc[u] \in {"fill", "bump"} /\ kind[u] # "clear"

(* generatedSchemaGeneration.  What was there before an update that is not *)
(* over is not kept in the state: such a reader may answer anything.       *)
Begin(r) ==
  /\ pc[r] = "idle"
  /\ gen' = [gen EXCEPT ![r] = epoch]
  /\ current' = [current EXCEPT ![r] = IF Updating THEN Contents ELSE {file}]
  /\ Goto(r, "memo")
  /\ UNCHANGED <<kind, file, stamp, stamps, epoch, memo, entry, lock, print, resp, upc>>

UseMemo(r) ==
  /\ print' = [print EXCEPT ![r] = memo.print]
  /\ Goto(r, "lookup")
  /\ UNCHANGED <<kind, file, stamp, stamps, epoch, memo, entry, gen, resp, upc, current>>

MemoHit(r) ==
  /\ pc[r] = "memo"
  /\ memo.gen = gen[r]
  /\ UseMemo(r) /\ UNCHANGED lock

MemoMiss(r) ==
  /\ pc[r] = "memo"
  /\ memo.gen # gen[r]
  /\ Goto(r, "lock")
  /\ UNCHANGED <<kind, file, stamp, stamps, epoch, memo, entry, lock, gen, print, resp,
                 upc, current>>

Lock(r) ==
  /\ pc[r] = "lock"
  /\ lock = Free
  /\ lock' = r
  /\ Goto(r, "again")
  /\ UNCHANGED <<kind, file, stamp, stamps, epoch, memo, entry, gen, print, resp, upc,
                 current>>

(* Under the lock: another reader may have filled the memo.                *)
MemoAgain(r) ==
  /\ pc[r] = "again"
  /\ memo.gen = gen[r]
  /\ UseMemo(r) /\ lock' = Free

Fingerprint(r) ==
  /\ pc[r] = "again"
  /\ memo.gen # gen[r]
  /\ print' = [print EXCEPT ![r] = stamp]
  /\ Goto(r, "keep")
  /\ UNCHANGED <<kind, file, stamp, stamps, epoch, memo, entry, lock, gen, resp, upc,
                 current>>

(* Mutant: a fingerprint of a past generation is returned with the lock.   *)
KeepReturns(r) ==
  /\ pc[r] = "keep"
  /\ Goto(r, IF gen[r] = epoch THEN "put" ELSE "lookup")
  /\ UNCHANGED <<kind, file, stamp, stamps, epoch, memo, entry, lock, gen, print, resp,
                 upc, current>>

(* The memo is kept only for a generation that is still the current one.   *)
Keep(r) ==
  /\ pc[r] = "keep"
  /\ Goto(r, IF gen[r] = epoch THEN "put" ELSE "unlock")
  /\ UNCHANGED <<kind, file, stamp, stamps, epoch, memo, entry, lock, gen, print, resp,
                 upc, current>>

(* Mutant: the fingerprint is kept for the generation of now.              *)
PutMemoNow(r) ==
  /\ pc[r] = "put"
  /\ memo' = [gen |-> epoch, print |-> print[r]]
  /\ Goto(r, "unlock")
  /\ UNCHANGED <<kind, file, stamp, stamps, epoch, entry, lock, gen, print, resp, upc,
                 current>>

PutMemo(r) ==
  /\ pc[r] = "put"
  /\ memo' = [gen |-> gen[r], print |-> print[r]]
  /\ Goto(r, "unlock")
  /\ UNCHANGED <<kind, file, stamp, stamps, epoch, entry, lock, gen, print, resp, upc,
                 current>>

Unlock(r) ==
  /\ pc[r] = "unlock"
  /\ lock' = Free
  /\ Goto(r, "lookup")
  /\ UNCHANGED <<kind, file, stamp, stamps, epoch, memo, entry, gen, print, resp, upc,
                 current>>

(* read gives the entry; it serves while its fingerprint is the reader's   *)
(* and the generation has not changed.                                     *)
Lookup(r) ==
  /\ pc[r] = "lookup"
  /\ IF entry.print = print[r]
     THEN resp' = [resp EXCEPT ![r] = entry.resp] /\ Goto(r, "hit")
     ELSE Goto(r, "build") /\ UNCHANGED resp
  /\ UNCHANGED <<kind, file, stamp, stamps, epoch, memo, entry, lock, gen, print, upc,
                 current>>

Valid(r) == gen[r] = epoch

Hit(r) ==
  /\ pc[r] = "hit"
  /\ Goto(r, IF Valid(r) THEN "done" ELSE "build")
  /\ UNCHANGED <<kind, file, stamp, stamps, epoch, memo, entry, lock, gen, print, resp,
                 upc, current>>

(* The analysis reads the file; a file being written does not parse.       *)
Build(r) ==
  /\ pc[r] = "build"
  /\ resp' = [resp EXCEPT ![r] = file]
  /\ Goto(r, IF file = "partial" THEN "done" ELSE "built")
  /\ UNCHANGED <<kind, file, stamp, stamps, epoch, memo, entry, lock, gen, print, upc,
                 current>>

(* A response is published for a generation still current, and when the    *)
(* analysis read nothing else it cannot fingerprint (capture.safe).        *)
Publish(r) ==
  /\ pc[r] = "built"
  /\ \/ Valid(r) /\ Goto(r, "write")
     \/ Goto(r, "done")
  /\ UNCHANGED <<kind, file, stamp, stamps, epoch, memo, entry, lock, gen, print, resp,
                 upc, current>>

Write(r) ==
  /\ pc[r] = "write"
  /\ entry' = [print |-> print[r], resp |-> resp[r]]
  /\ Goto(r, "done")
  /\ UNCHANGED <<kind, file, stamp, stamps, epoch, memo, lock, gen, print, resp, upc,
                 current>>

Read(r) ==
  \/ Begin(r) \/ MemoHit(r) \/ MemoMiss(r) \/ Lock(r) \/ MemoAgain(r)
  \/ Fingerprint(r) \/ Keep(r) \/ PutMemo(r) \/ Unlock(r)
  \/ Lookup(r) \/ Hit(r) \/ Build(r) \/ Publish(r) \/ Write(r)

-----------------------------------------------------------------------------
(* The memo is 1000 ms old, or was evicted by 64 other ones.               *)
Expire ==
  /\ memo # NoMemo
  /\ memo' = NoMemo
  /\ UNCHANGED <<kind, file, stamp, stamps, epoch, entry, lock, readerVars, upc>>

Next ==
  \/ \E r \in Readers : Read(r)
  \/ \E u \in Updaters : Update(u)
  \/ Expire

Spec == Init /\ [][Next]_vars

(* The threads of the requests are scheduled; the lock is a ReentrantLock, *)
(* held for a bounded time.                                                *)
FairSpec ==
  /\ Spec
  /\ \A r \in Readers : WF_vars(Read(r))

-----------------------------------------------------------------------------
TypeOK ==
  /\ kind \in Mixes
  /\ file \in Contents /\ stamp \in 0 .. stamps
  /\ stamps \in 0 .. 2 * Cardinality(Updaters)
  /\ epoch \in 0 .. Cardinality(Updaters)
  /\ memo \in [gen : -1 .. epoch, print : 0 .. stamps]
  /\ entry \in [print : -1 .. stamps, resp : Contents]
  /\ lock \in {Free} \cup Readers
  /\ \A r \in Readers : lock = r <=> pc[r] \in {"again", "keep", "put", "unlock"}
  /\ pc \in [Readers -> {"idle", "memo", "lock", "again", "keep", "put", "unlock",
                         "lookup", "hit", "build", "built", "write", "done"}]
  /\ gen \in [Readers -> 0 .. epoch]
  /\ print \in [Readers -> 0 .. stamps]
  /\ resp \in [Readers -> Contents]
  /\ upc \in [Updaters -> {"idle", "write", "fill", "bump", "forget", "done"}]
  /\ current \in [Readers -> SUBSET Contents]

(* A response, cached or not, is what the schema file held at some moment  *)
(* of the request: an update that is over when a request begins is visible *)
(* to it at once.                                                          *)
FreshAnswer == \A r \in Readers : pc[r] = "done" => resp[r] \in current[r]

(* The same for requests that meet no reset: a reset deletes the directory, *)
(* whose fingerprint may then find a response built across an earlier      *)
(* write, with the schema that was reset.                                  *)
FreshUnlessReset == (\A u \in Updaters : kind[u] # "reset") => FreshAnswer

(* Every answer, of well formed requests, is current but after a reset.    *)
AnswersCurrent == TypeOK /\ FreshUnlessReset

(* The memo of the current generation is the fingerprint of the directory, *)
(* unless an update is about to bump the epoch: no fingerprint taken       *)
(* before an update serves the generation after it.                        *)
MemoCurrent == memo.gen = epoch /\ ~Updating => memo.print = stamp

(* Every request is answered: nobody keeps the lock.                       *)
EveryoneAnswers == <>(\A r \in Readers : pc[r] = "done")
=============================================================================
