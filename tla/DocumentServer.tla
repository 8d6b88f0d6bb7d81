----------------------------- MODULE DocumentServer -----------------------------
(***************************************************************************)
(* The warm companion of the front document (Engine.js 8355-8676): one     *)
(* Node process per tool root, in a registry every Rhino scope shares,     *)
(* answering one line of JSON at a time.  Callers start it under the start *)
(* lock, speak to it under its own lock, give up after a while and fall    *)
(* back to a process of their own.  The companion itself is external: it   *)
(* takes lines in order and may be slow, reject, not know an operation or  *)
(* die.                                                                    *)
(***************************************************************************)
EXTENDS Naturals, Sequences, FiniteSets, Functions

CONSTANTS
  Caller,       \* threads that ask, each of a scope of its own
  MaxServers,   \* bound of the companions launched
  Asks,         \* operations asked: some of Operations but "mutate"
  MaxQuestions, \* bound of the questions, of all the callers
  MaxMishaps    \* bound of the failures, deaths, timeouts and upgrades

ASSUME NobodyAssumption == "nobody" \notin Caller
ASSUME AsksAssumption == Asks \subseteq {"describe", "mutate with key", "generate"}
ASSUME BoundsAssumption == {MaxServers, MaxQuestions, MaxMishaps} \subseteq Nat

VARIABLES
  registry,   \* the companion registered for the tool root, 0 without one
  companion,  \* each companion: what it runs, its lock, sequence, lines in and out
  startLock,  \* who holds the start lock
  pc, call,   \* where each caller is; its operation, companion, request id, selection
  asked,      \* number of the question each caller is at
  answer,     \* the answer each caller was just given
  rejected,   \* compiled providers each scope rejected, by script
  version,    \* version of the compiled provider on disk
  launched,   \* companions launched so far
  effects,    \* times each question was carried out
  lost,       \* questions an attempt of which ended without its answer
  refused,    \* questions the companion was seen to reject
  mishaps

world == <<effects, lost, refused, mishaps>>
shared == <<registry, companion, startLock, launched>>
vars == <<shared, pc, call, asked, answer, rejected, version, world>>

Server == 1 .. MaxServers
Version == 1 .. 2
Question == Caller \X (1 .. MaxQuestions)
Nobody == "nobody"
Operations == {"describe", "mutate with key", "mutate", "generate"}
Key == {"compiled", "tsx"} \X Version
Verdicts == {"ok", "rejected", "unknown", "invalid"}
Carried(op, verdict) == op # "describe" /\ verdict \in {"ok", "invalid", "garbled"}

NoCall == [op |-> "none", server |-> 0, id |-> 0, key |-> <<"tsx", 1>>]
NoAnswer == [of |-> <<Nobody, 0>>, verdict |-> "none"]
Unborn == [alive |-> FALSE, key |-> <<"tsx", 1>>, lock |-> Nobody, sequence |-> 0,
           in |-> <<>>, out |-> <<>>]

Init ==
  /\ registry = 0 /\ companion = [s \in Server |-> Unborn] /\ startLock = Nobody /\ launched = 0
  /\ pc = [c \in Caller |-> "idle"] /\ call = [c \in Caller |-> NoCall]
  /\ asked = [c \in Caller |-> 0] /\ answer = [c \in Caller |-> NoAnswer]
  /\ rejected = [c \in Caller |-> {}] /\ version = 1
  /\ effects = [q \in Question |-> 0] /\ lost = {} /\ refused = {} /\ mishaps = 0

Goto(c, where) == pc' = [pc EXCEPT ![c] = where]
Done(c) == Goto(c, "idle") /\ call' = [call EXCEPT ![c] = NoCall]
Mishap == mishaps < MaxMishaps /\ mishaps' = mishaps + 1
Of(c) == <<c, asked[c]>>
Mine(c) == companion[call[c].server]

(* The compiled provider of a script, unless the scope rejected this       *)
(* version of it.                                                          *)
Selection(c, script) == <<IF <<script, version>> \in rejected[c] THEN "tsx" ELSE "compiled", version>>

(* A failure of a compiled provider rejects it, for this scope.            *)
Rejection(c, script) ==
  IF call[c].key[1] # "compiled" THEN rejected
  ELSE [rejected EXCEPT ![c] = @ \cup {<<script, call[c].key[2]>>}]

-----------------------------------------------------------------------------
Ask(c) ==
  /\ pc[c] = "idle" /\ FoldFunction(+, 0, asked) < MaxQuestions
  /\ asked' = [asked EXCEPT ![c] = @ + 1]
  /\ \E op \in Asks :
       call' = [call EXCEPT ![c] = [NoCall EXCEPT !.op = op]]
  /\ Goto(c, "start")
  /\ UNCHANGED <<shared, answer, rejected, version, world>>

(* startFrontendDocumentServer, under the start lock                       *)
LockStart(c) ==
  /\ pc[c] = "start" /\ startLock = Nobody
  /\ startLock' = c
  /\ Goto(c, "select")
  /\ UNCHANGED <<registry, companion, launched, call, asked, answer, rejected, version, world>>

Reusable(c) == registry # 0 /\ companion[registry].alive /\ companion[registry].key = Selection(c, "document")

(* Mutant: what is not reused is forgotten without being stopped.          *)
SelectLeaves(c) ==
  /\ pc[c] = "select"
  /\ call' = [call EXCEPT ![c].key = Selection(c, "document"), ![c].server = IF Reusable(c) THEN registry ELSE 0]
  /\ IF Reusable(c)
     THEN Goto(c, "queue") /\ startLock' = Nobody /\ UNCHANGED registry
     ELSE Goto(c, "launch") /\ registry' = 0 /\ UNCHANGED startLock
  /\ UNCHANGED <<companion, launched, asked, answer, rejected, version, world>>

(* The companion there is, or it is forgotten and stopped.                 *)
Select(c) ==
  /\ pc[c] = "select"
  /\ call' = [call EXCEPT ![c].key = Selection(c, "document"), ![c].server = IF Reusable(c) THEN registry ELSE 0]
  /\ IF Reusable(c)
     THEN Goto(c, "queue") /\ startLock' = Nobody /\ UNCHANGED <<registry, companion>>
     ELSE /\ Goto(c, "launch") /\ registry' = 0
          /\ companion' = [s \in Server |-> IF s = registry
                             THEN [companion[s] EXCEPT !.alive = FALSE, !.in = <<>>, !.out = <<>>]
                             ELSE companion[s]]
          /\ UNCHANGED startLock
  /\ UNCHANGED <<launched, asked, answer, rejected, version, world>>

(* Dependencies, selection again, process; or one of them fails, the first *)
(* before there is a selection to blame.                                   *)
Launch(c) ==
  /\ pc[c] = "launch"
  /\ \/ /\ launched < MaxServers
        /\ launched' = launched + 1 /\ registry' = launched + 1
        /\ companion' = [companion EXCEPT ![launched + 1] =
                           [Unborn EXCEPT !.alive = TRUE, !.key = Selection(c, "document")]]
        /\ call' = [call EXCEPT ![c].key = Selection(c, "document"), ![c].server = launched + 1]
        /\ Goto(c, "queue")
        /\ UNCHANGED mishaps
     \/ /\ IF launched = MaxServers THEN UNCHANGED mishaps ELSE Mishap
        /\ \E key \in {NoCall.key, Selection(c, "document")} : call' = [call EXCEPT ![c].key = key]
        /\ Goto(c, "failed")
        /\ UNCHANGED <<launched, registry, companion>>
  /\ startLock' = Nobody
  /\ UNCHANGED <<asked, answer, rejected, version, effects, lost, refused>>

-----------------------------------------------------------------------------
(* frontendRunDocumentServer, under the lock of the companion              *)
Queue(c) ==
  /\ pc[c] = "queue" /\ Mine(c).lock = Nobody
  /\ companion' = [companion EXCEPT ![call[c].server].lock = c]
  /\ Goto(c, "write")
  /\ UNCHANGED <<registry, startLock, launched, call, asked, answer, rejected, version, world>>

(* Mutant: the sequence is of the view of a scope, not of the companion.   *)
WriteOwnSequence(c) ==
  /\ pc[c] = "write"
  /\ LET id == asked[c]
         line == [id |-> id, of |-> Of(c), op |-> call[c].op]
     IN /\ call' = [call EXCEPT ![c].id = id]
        /\ companion' = [companion EXCEPT
             ![call[c].server].in = IF Mine(c).alive THEN Append(@, line) ELSE @]
        /\ Goto(c, IF Mine(c).alive THEN "wait" ELSE "broken")
  /\ UNCHANGED <<registry, startLock, launched, asked, answer, rejected, version, world>>

(* The line is written, unless the companion is closed or dead.            *)
Write(c) ==
  /\ pc[c] = "write"
  /\ LET id == Mine(c).sequence + 1
         line == [id |-> id, of |-> Of(c), op |-> call[c].op]
     IN /\ call' = [call EXCEPT ![c].id = id]
        /\ companion' = [companion EXCEPT
             ![call[c].server].sequence = id,
             ![call[c].server].in = IF Mine(c).alive THEN Append(@, line) ELSE @]
        /\ Goto(c, IF Mine(c).alive THEN "wait" ELSE "broken")
  /\ UNCHANGED <<registry, startLock, launched, asked, answer, rejected, version, world>>

(* Mutant: the first answer read is taken.                                 *)
ReadAny(c) ==
  /\ pc[c] = "wait" /\ Mine(c).out # <<>>
  /\ LET line == Head(Mine(c).out)
     IN /\ companion' = [companion EXCEPT ![call[c].server].out = Tail(@),
                                          ![call[c].server].lock = Nobody]
        /\ answer' = [answer EXCEPT ![c] = [of |-> line.of, verdict |-> line.verdict]]
        /\ refused' = IF line.verdict = "rejected" THEN refused \cup {line.of} ELSE refused
        /\ Goto(c, "answered")
  /\ UNCHANGED <<registry, startLock, launched, call, asked, rejected, version, effects, lost,
                 mishaps>>

(* A line is read; those of other requests are skipped.                    *)
Read(c) ==
  /\ pc[c] = "wait" /\ Mine(c).out # <<>>
  /\ LET line == Head(Mine(c).out)
         own == line.id = call[c].id
     IN /\ companion' = [companion EXCEPT ![call[c].server].out = Tail(@),
                                          ![call[c].server].lock = IF own THEN Nobody ELSE @]
        /\ IF own
           THEN /\ answer' = [answer EXCEPT ![c] = [of |-> line.of, verdict |-> line.verdict]]
                /\ refused' = IF line.verdict = "rejected" THEN refused \cup {line.of} ELSE refused
                /\ Goto(c, "answered")
           ELSE UNCHANGED <<answer, refused, pc>>
  /\ UNCHANGED <<registry, startLock, launched, call, asked, rejected, version, effects, lost,
                 mishaps>>

(* No answer: the deadline is over, or the companion is closed or dead     *)
(* (what it answered last may be there, read or not).                      *)
NoAnswerComes(c) ==
  /\ pc[c] \in {"wait", "broken"}
  /\ companion' = [companion EXCEPT ![call[c].server].lock = Nobody]
  /\ lost' = lost \cup {Of(c)}
  /\ Goto(c, "failed")
  /\ UNCHANGED <<registry, startLock, launched, call, asked, answer, rejected, version, effects,
                 refused, mishaps>>

-----------------------------------------------------------------------------
(* Mutant: a mutation is tried again whatever the error.                   *)
AnsweredTriesAgain(c) ==
  /\ pc[c] = "answered"
  /\ IF answer[c].verdict = "ok" THEN Done(c) ELSE Goto(c, "failed") /\ UNCHANGED call
  /\ answer' = [answer EXCEPT ![c] = NoAnswer]
  /\ UNCHANGED <<shared, asked, rejected, version, world>>

(* What the caller makes of it.  An error the provider answered stands,    *)
(* for a description whatever it is, else unless it does not know the      *)
(* operation; a result that is none is a failure.                          *)
Answered(c) ==
  /\ pc[c] = "answered"
  /\ IF answer[c].verdict = "invalid" \/ (call[c].op # "describe" /\ answer[c].verdict = "unknown")
     THEN Goto(c, "failed") /\ UNCHANGED call
     ELSE Done(c)
  /\ answer' = [answer EXCEPT ![c] = NoAnswer]
  /\ UNCHANGED <<shared, asked, rejected, version, world>>

(* A mutation is tried again without its key; a description rejects the    *)
(* provider and forgets a companion that died; then a process is run.      *)
Failed(c) ==
  /\ pc[c] = "failed"
  /\ CASE call[c].op = "mutate with key" ->
            /\ call' = [call EXCEPT ![c] = [NoCall EXCEPT !.op = "mutate"]]
            /\ Goto(c, "start") /\ UNCHANGED <<rejected, registry>>
       [] call[c].op = "mutate" ->
            /\ call' = [call EXCEPT ![c] = [NoCall EXCEPT !.op = "mutate", !.key = Selection(c, "mutate")]]
            /\ Goto(c, "process") /\ UNCHANGED <<rejected, registry>>
       [] call[c].op = "generate" ->
            /\ call' = [call EXCEPT ![c] = [NoCall EXCEPT !.op = call[c].op]]
            /\ Goto(c, "process") /\ UNCHANGED <<rejected, registry>>
       [] call[c].op = "describe" ->
            /\ rejected' = Rejection(c, "document")
            /\ registry' = IF registry # 0 /\ companion[registry].alive THEN registry ELSE 0
            /\ call' = [call EXCEPT ![c] = [NoCall EXCEPT !.op = call[c].op]]
            /\ Goto(c, "process")
  /\ UNCHANGED <<companion, startLock, launched, asked, answer, version, world>>

(* A process of its own: what the compiled mutation fails to do, or answers *)
(* badly, is done again by tsx.                                            *)
Process(c) ==
  /\ pc[c] = "process"
  /\ \E verdict \in {"ok", "rejected", "garbled"} :
       /\ effects' = IF Carried(call[c].op, verdict) THEN [effects EXCEPT ![Of(c)] = @ + 1] ELSE effects
       /\ IF verdict = "garbled" THEN Mishap /\ lost' = lost \cup {Of(c)} ELSE UNCHANGED <<mishaps, lost>>
       /\ IF verdict # "ok" /\ call[c].key[1] = "compiled"
          THEN /\ rejected' = Rejection(c, "mutate")
               /\ call' = [call EXCEPT ![c] = [NoCall EXCEPT !.op = call[c].op]]
               /\ UNCHANGED pc
          ELSE Done(c) /\ UNCHANGED rejected
  /\ UNCHANGED <<shared, asked, answer, version, refused>>

-----------------------------------------------------------------------------
(* The companion carries out the oldest line and answers.                  *)
Serve(s) ==
  /\ companion[s].alive /\ companion[s].in # <<>>
  /\ LET line == Head(companion[s].in)
     IN \E verdict \in Verdicts :
          /\ IF verdict = "invalid" THEN Mishap /\ lost' = lost \cup {line.of} ELSE UNCHANGED <<mishaps, lost>>
          /\ companion' = [companion EXCEPT
               ![s].in = Tail(@),
               ![s].out = Append(@, [id |-> line.id, of |-> line.of, verdict |-> verdict])]
          /\ effects' = IF Carried(line.op, verdict) THEN [effects EXCEPT ![line.of] = @ + 1] ELSE effects
  /\ UNCHANGED <<registry, startLock, launched, pc, call, asked, answer, rejected, version, refused>>

(* It dies, its last answers still to read.                                *)
Die(s) ==
  /\ companion[s].alive /\ Mishap
  /\ companion' = [companion EXCEPT ![s].alive = FALSE, ![s].in = <<>>]
  /\ UNCHANGED <<registry, startLock, launched, pc, call, asked, answer, rejected, version, effects,
                 lost, refused>>

(* Another provider is installed.                                          *)
Upgrade ==
  /\ version = 1 /\ Mishap
  /\ version' = 2
  /\ UNCHANGED <<shared, pc, call, asked, answer, rejected, effects, lost, refused>>

Step(c) ==
  \/ LockStart(c) \/ Select(c) \/ Launch(c) \/ Queue(c) \/ Write(c) \/ Read(c) \/ NoAnswerComes(c)
  \/ Answered(c) \/ Failed(c) \/ Process(c)

Next ==
  \/ \E c \in Caller : Ask(c) \/ Step(c)
  \/ \E s \in Server : Serve(s) \/ Die(s)
  \/ Upgrade

(* The threads of the callers advance: a lock is given back, a deadline    *)
(* comes.  The companion may never answer.                                 *)
Spec == Init /\ [][Next]_vars /\ \A c \in Caller : WF_vars(Step(c))

-----------------------------------------------------------------------------
(* Locks, registry and callers agree: the start lock is held exactly while *)
(* a companion is looked for or launched.                                  *)
TypeOK ==
  /\ registry \in 0 .. launched /\ launched <= MaxServers
  /\ \A s \in Server : companion[s].lock \in Caller \cup {Nobody} /\ companion[s].key \in Key
  /\ \A c \in Caller : startLock = c <=> pc[c] \in {"select", "launch"}
  /\ \A c \in Caller : call[c].server \in 0 .. launched

(* What a caller is given answers its own question, though answers to      *)
(* callers that gave up are still in the pipe (Engine.js:8604-8607).       *)
AnswersOwn == \A c \in Caller : pc[c] = "answered" => answer[c].of = Of(c)

(* One companion runs per tool root, the registered one, whichever scopes  *)
(* replace it because their selections differ (Engine.js:8490-8499).       *)
OneCompanion == {s \in Server : companion[s].alive} \subseteq {registry}

(* A mutation or a generation is carried out twice only when the answer to *)
(* an attempt was lost: a late companion may still do what the process of  *)
(* the fallback did.                                                       *)
EffectsOnce == \A q \in Question : effects[q] <= 1 \/ q \in lost

(* A mutation the companion rejects is reported, never tried again         *)
(* (Engine.js:8351-8356), unless an earlier attempt of it may still run.   *)
RejectionStands ==
  [][\A q \in Question \cap refused : effects'[q] = effects[q] \/ q \in lost]_vars

(* While someone waits someone advances: no lock is kept by a caller that  *)
(* gave up, and no two callers wait on each other for the two locks.       *)
NobodyStuck == (\E c \in Caller : pc[c] # "idle") => \E c \in Caller : ENABLED Step(c)

(* One companion is shared, and nobody keeps it from the others.           *)
CompanionShared == TypeOK /\ OneCompanion /\ NobodyStuck

================================================================================
