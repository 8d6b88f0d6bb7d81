-------------------------- MODULE Resources_proofs --------------------------
(***************************************************************************)
(* The resources callers share or leave behind: the runtime handles of an  *)
(* owner, and the warm companion of the front document.                    *)
(*                                                                         *)
(* Handles: the closer of a handle is called once, errors are kept, and a  *)
(* handle is left open only by closers that threw, whatever the number of  *)
(* handles.                                                                *)
(*                                                                         *)
(* Companion: an answer goes to whoever asked, one companion runs, nothing *)
(* is carried out twice unless an answer was lost, and a rejection stands, *)
(* whatever the number of callers, of companions and of questions.         *)
(***************************************************************************)
EXTENDS DocumentServer, RuntimeHandles, FiniteSetTheorems, WellFoundedInduction, TLAPS

-----------------------------------------------------------------------------
(* Pipes: sequences of lines with increasing numbers.                      *)
Elems(q) == {q[n] : n \in DOMAIN q}
Rising(q) == \A i, j \in DOMAIN q : i < j => q[i].id < q[j].id

LEMMA EmptyPipe == Elems(<<>>) = {} /\ Rising(<<>>)
BY DEF Elems, Rising

LEMMA PipeElems ==
  ASSUME NEW S, NEW q \in Seq(S), NEW e \in Elems(q)
  PROVE  e \in S
BY DEF Elems

(* What is written at the end of a pipe is in it, and the numbers increase *)
(* when the new one is above the others.                                   *)
LEMMA PipeAppend ==
  ASSUME NEW S, NEW q \in Seq(S), NEW e \in S
  PROVE  /\ Append(q, e) \in Seq(S)
         /\ Elems(Append(q, e)) = Elems(q) \cup {e}
         /\ Rising(q) /\ (\A l \in Elems(q) : l.id < e.id) => Rising(Append(q, e))
<1> DEFINE r == Append(q, e)
<1>1. /\ r \in Seq(S) /\ DOMAIN r = 1 .. Len(q) + 1 /\ DOMAIN q = 1 .. Len(q) /\ Len(q) \in Nat
      /\ r[Len(q) + 1] = e /\ \A n \in 1 .. Len(q) : r[n] = q[n]
  OBVIOUS
<1> HIDE DEF r
<1>2. Elems(r) = Elems(q) \cup {e}
  BY <1>1 DEF Elems
<1>3. ASSUME Rising(q), \A l \in Elems(q) : l.id < e.id
      PROVE  Rising(r)
  <2> SUFFICES ASSUME NEW i \in DOMAIN r, NEW j \in DOMAIN r, i < j
               PROVE  r[i].id < r[j].id
    BY DEF Rising
  <2>1. CASE j = Len(q) + 1
    BY <1>1, <1>3, <2>1 DEF Elems
  <2>2. CASE j # Len(q) + 1
    BY <1>1, <1>3, <2>2 DEF Rising
  <2> QED BY <2>1, <2>2
<1> QED BY <1>1, <1>2, <1>3 DEF r

(* What is read from a pipe was in it, and has the smallest number of it.  *)
LEMMA PipeTail ==
  ASSUME NEW S, NEW q \in Seq(S), q # <<>>
  PROVE  /\ Tail(q) \in Seq(S) /\ Head(q) \in S
         /\ Head(q) \in Elems(q) /\ Elems(Tail(q)) \subseteq Elems(q)
         /\ Rising(q) => /\ Rising(Tail(q))
                         /\ \A l \in Elems(Tail(q)) : Head(q).id < l.id
<1> DEFINE r == Tail(q)
<1>1. /\ r \in Seq(S) /\ DOMAIN r = 1 .. Len(q) - 1 /\ DOMAIN q = 1 .. Len(q)
      /\ Len(q) \in Nat \ {0}
      /\ Head(q) = q[1] /\ \A n \in 1 .. Len(q) - 1 : r[n] = q[n + 1]
      /\ q[1] \in S
  OBVIOUS
<1> HIDE DEF r
<1>2. Head(q) \in Elems(q) /\ Elems(r) \subseteq Elems(q)
  BY <1>1 DEF Elems
<1>3. ASSUME Rising(q)
      PROVE  Rising(r) /\ \A l \in Elems(r) : Head(q).id < l.id
  <2>1. Rising(r)
    <3> SUFFICES ASSUME NEW i \in DOMAIN r, NEW j \in DOMAIN r, i < j
                 PROVE  q[i + 1].id < q[j + 1].id
      BY <1>1 DEF Rising
    <3>1. i + 1 \in DOMAIN q /\ j + 1 \in DOMAIN q /\ i + 1 < j + 1
      BY <1>1
    <3> QED BY <1>3, <3>1 DEF Rising
  <2>2. \A n \in DOMAIN r : q[1].id < r[n].id
    <3> SUFFICES ASSUME NEW n \in DOMAIN r PROVE q[1].id < q[n + 1].id
      BY <1>1
    <3>1. 1 \in DOMAIN q /\ n + 1 \in DOMAIN q /\ 1 < n + 1
      BY <1>1
    <3> QED BY <1>3, <3>1 DEF Rising
  <2> QED BY <1>1, <2>1, <2>2 DEF Elems
<1> QED BY <1>1, <1>2, <1>3 DEF r

-----------------------------------------------------------------------------
Line == [id : Nat, of : Caller \X Nat, op : Operations]
Reply == [id : Nat, of : Caller \X Nat, verdict : Verdicts]
Companions ==
  [alive : BOOLEAN, key : Key, lock : Caller \cup {Nobody}, sequence : Nat,
   in : Seq(Line), out : Seq(Reply)]
Calls == [op : Operations \cup {"none"}, server : 0 .. MaxServers, id : Nat, key : Key]
Places ==
  {"idle", "start", "select", "launch", "queue", "write", "wait", "broken", "answered", "failed",
   "process"}

Answers == [of : (Caller \X Nat) \cup {<<Nobody, 0>>}, verdict : Verdicts \cup {"none"}]

Lines(s) == Elems(companion[s].in)
Replies(s) == Elems(companion[s].out)

NewLine(c) == [id |-> Mine(c).sequence + 1, of |-> Of(c), op |-> call[c].op]

(* The variables have their types.                                         *)
DTyped ==
  /\ registry \in 0 .. launched /\ launched \in 0 .. MaxServers
  /\ startLock \in Caller \cup {Nobody}
  /\ companion \in [Server -> Companions]
  /\ pc \in [Caller -> Places] /\ call \in [Caller -> Calls]
  /\ asked \in [Caller -> Nat] /\ version \in Version
  /\ answer \in [Caller -> Answers]
  /\ effects \in [Question -> Nat]

Placed ==
  /\ \A c \in Caller : startLock = c <=> pc[c] \in {"select", "launch"}
  /\ \A c \in Caller : call[c].server <= launched
  /\ \A c \in Caller : pc[c] \in {"queue", "write", "wait", "broken"} => call[c].server # 0
  /\ \A c \in Caller : pc[c] # "idle" => call[c].op \in Operations
  /\ \A c \in Caller : pc[c] = "launch" => registry = 0
  /\ \A s \in Server, c \in Caller :
       companion[s].lock = c <=> pc[c] \in {"write", "wait", "broken"} /\ call[c].server = s

(* The numbers of the lines of a companion increase, from what is still to *)
(* be read to what is still to be carried out.                             *)
Numbered ==
  \A s \in Server :
    /\ Rising(companion[s].in) /\ Rising(companion[s].out)
    /\ \A l \in Lines(s) : l.id <= companion[s].sequence
    /\ \A r \in Replies(s) : r.id <= companion[s].sequence
    /\ \A l \in Lines(s) : \A r \in Replies(s) : r.id < l.id

(* Whoever waits for an answer wrote the last line of its companion.       *)
Awaited ==
  \A c \in Caller : pc[c] = "wait" =>
    /\ call[c].id = companion[call[c].server].sequence
    /\ \A l \in Lines(call[c].server) : l.id = call[c].id => l.of = Of(c)
    /\ \A r \in Replies(call[c].server) : r.id = call[c].id => r.of = Of(c)

(* A line no attempt of which was lost is the one its caller waits for.    *)
Due(l, s) ==
  l.of \notin lost =>
    /\ pc[l.of[1]] = "wait" /\ call[l.of[1]].server = s
    /\ call[l.of[1]].id = l.id /\ asked[l.of[1]] = l.of[2]
Expected ==
  \A s \in Server : (\A l \in Lines(s) : Due(l, s)) /\ (\A r \in Replies(s) : Due(r, s))

(* No line is of a question yet to come.                                   *)
Earlier == \A s \in Server : \A l \in Lines(s) : l.of[2] <= asked[l.of[1]]

Undone(q) == q \in Question => effects[q] = 0
Harmless(q, verdict) == verdict # "invalid" /\ (verdict \in {"rejected", "unknown"} => Undone(q))

(* A question is not carried out before its line is, and a line refused    *)
(* had no effect.                                                          *)
LinesUndone == \A s \in Server : \A l \in Lines(s) : l.of \notin lost => Undone(l.of)
RepliesHarmless ==
  \A s \in Server : \A r \in Replies(s) : r.of \notin lost => Harmless(r.of, r.verdict)
CallsUndone ==
  \A c \in Caller : Of(c) \notin lost =>
    /\ pc[c] \notin {"idle", "wait", "answered"} => Undone(Of(c))
    /\ pc[c] = "answered" => Harmless(Of(c), answer[c].verdict)
LaterUndone == \A q \in Question : q[2] > asked[q[1]] => effects[q] = 0

(* A question refused is over, or about to be.                             *)
Closed(q) ==
  \/ q[2] < asked[q[1]]
  \/ q[2] = asked[q[1]] /\ pc[q[1]] = "idle"
  \/ q[2] = asked[q[1]] /\ pc[q[1]] = "answered" /\ answer[q[1]].verdict = "rejected"
Refusals == refused \subseteq Caller \X Nat /\ \A q \in refused : q \notin lost => Closed(q)

DInv ==
  /\ DTyped /\ Placed /\ OneCompanion /\ Numbered /\ Awaited /\ AnswersOwn
  /\ Expected /\ Earlier /\ LinesUndone /\ RepliesHarmless /\ CallsUndone /\ LaterUndone
  /\ EffectsOnce
  /\ Refusals

LEMMA Pairs ==
  ASSUME NEW S, NEW T, NEW q \in S \X T
  PROVE  q[1] \in S /\ q[2] \in T /\ q = <<q[1], q[2]>>
OBVIOUS

(* What the pipes of a companion hold.                                     *)
LEMMA PipeTypes ==
  ASSUME DTyped, NEW s \in Server
  PROVE  /\ \A l \in Lines(s) : /\ l \in Line /\ l.id \in Nat
                                /\ l.of[1] \in Caller /\ l.of[2] \in Nat
                                /\ l.of = <<l.of[1], l.of[2]>>
         /\ \A r \in Replies(s) : /\ r \in Reply /\ r.id \in Nat
                                  /\ r.of[1] \in Caller /\ r.of[2] \in Nat
                                  /\ r.of = <<r.of[1], r.of[2]>>
         /\ companion[s].sequence \in Nat
         /\ companion[s].in \in Seq(Line) /\ companion[s].out \in Seq(Reply)
<1>1. /\ companion[s].in \in Seq(Line) /\ companion[s].out \in Seq(Reply)
      /\ companion[s].sequence \in Nat
  BY DEF DTyped, Companions
<1>2. ASSUME NEW l \in Lines(s)
      PROVE  /\ l \in Line /\ l.id \in Nat /\ l.of[1] \in Caller /\ l.of[2] \in Nat
             /\ l.of = <<l.of[1], l.of[2]>>
  <2>1. l \in Line
    BY <1>1, PipeElems DEF Lines
  <2>2. l.id \in Nat /\ l.of \in Caller \X Nat
    BY <2>1 DEF Line
  <2> QED BY <2>1, <2>2, Pairs
<1>3. ASSUME NEW r \in Replies(s)
      PROVE  /\ r \in Reply /\ r.id \in Nat /\ r.of[1] \in Caller /\ r.of[2] \in Nat
             /\ r.of = <<r.of[1], r.of[2]>>
  <2>1. r \in Reply
    BY <1>1, PipeElems DEF Replies
  <2>2. r.id \in Nat /\ r.of \in Caller \X Nat
    BY <2>1 DEF Reply
  <2> QED BY <2>1, <2>2, Pairs
<1> QED BY <1>1, <1>2, <1>3

(* A caller past its selection has a companion that was launched.          *)
LEMMA CallPlaced ==
  ASSUME DTyped, Placed, NEW c \in Caller
  PROVE  /\ pc[c] \in {"queue", "write", "wait", "broken"} => call[c].server \in Server
         /\ call[c].server \in Nat /\ launched \in Nat /\ call[c].server <= launched
         /\ ~(call[c].server > launched)
<1>1. MaxServers \in Nat
  BY BoundsAssumption
<1>2. /\ call[c].server \in 0 .. MaxServers /\ launched \in 0 .. MaxServers
      /\ call[c].server <= launched
  BY DEF DTyped, Calls, Placed
<1>3. pc[c] \in {"queue", "write", "wait", "broken"} => call[c].server # 0
  BY DEF Placed
<1>4. Server = 1 .. MaxServers
  BY DEF Server
<1> QED BY <1>1, <1>2, <1>3, <1>4

(* A step of a caller that waits for no answer, and lets the pipes as they *)
(* are or empties some.                                                    *)
Others(c) ==
  \A d \in Caller \ {c} :
    pc'[d] = pc[d] /\ call'[d] = call[d] /\ asked'[d] = asked[d] /\ answer'[d] = answer[d]
Quiet(c) ==
  /\ pc[c] # "wait" /\ pc'[c] # "wait"
  /\ asked'[c] = asked[c] \/ asked'[c] = asked[c] + 1
  /\ Others(c)
  /\ lost' = lost /\ effects' = effects /\ refused' = refused
Emptied ==
  \A s \in Server :
    /\ Lines(s)' \subseteq Lines(s) /\ Replies(s)' \subseteq Replies(s)
    /\ Rising(companion'[s].in) /\ Rising(companion'[s].out)
    /\ \/ companion'[s].sequence = companion[s].sequence
       \/ s > launched /\ Lines(s)' = {} /\ Replies(s)' = {}

(* Such a step keeps what is said of the lines on their way.               *)
LEMMA QuietStep ==
  ASSUME DInv, NEW c \in Caller, Quiet(c), Emptied
  PROVE  Numbered' /\ Awaited' /\ Expected' /\ Earlier' /\ LinesUndone' /\ RepliesHarmless'
<1> USE DEF DInv, Quiet, Others, Emptied
<1>1. Numbered'
  BY DEF Numbered
<1>2. Awaited'
  <2> SUFFICES ASSUME NEW d \in Caller, pc'[d] = "wait"
               PROVE  /\ call'[d].id = companion'[call'[d].server].sequence
                      /\ \A l \in Lines(call[d].server)' : l.id = call'[d].id => l.of = Of(d)'
                      /\ \A r \in Replies(call[d].server)' : r.id = call'[d].id => r.of = Of(d)'
    BY DEF Awaited
  <2>1. /\ d # c /\ pc[d] = "wait" /\ call'[d] = call[d] /\ Of(d)' = Of(d)
        /\ call[d].server \in Server /\ call[d].server <= launched
    BY CallPlaced DEF Of
  <2>2. /\ companion'[call[d].server].sequence = companion[call[d].server].sequence
        /\ ~(call[d].server > launched)
    BY <2>1, CallPlaced
  <2>3. /\ call[d].id = companion[call[d].server].sequence
        /\ \A l \in Lines(call[d].server) : l.id = call[d].id => l.of = Of(d)
        /\ \A r \in Replies(call[d].server) : r.id = call[d].id => r.of = Of(d)
    BY <2>1 DEF Awaited
  <2> DEFINE s == call[d].server
  <2>4. Lines(s)' \subseteq Lines(s) /\ Replies(s)' \subseteq Replies(s)
    BY <2>1
  <2> QED BY <2>1, <2>2, <2>3, <2>4
<1>3. Expected'
  <2>1. ASSUME NEW s \in Server, NEW l, l \in Lines(s) \/ l \in Replies(s)
        PROVE  Due(l, s)'
    <3> SUFFICES ASSUME l.of \notin lost
                 PROVE  /\ pc'[l.of[1]] = "wait" /\ call'[l.of[1]].server = s
                        /\ call'[l.of[1]].id = l.id /\ asked'[l.of[1]] = l.of[2]
      BY DEF Due
    <3>1. CASE l \in Lines(s)
      <4>1. l.of[1] \in Caller /\ Due(l, s)
        BY <3>1, PipeTypes DEF Expected
      <4> QED BY <4>1 DEF Due
    <3>2. CASE l \in Replies(s)
      <4>1. l.of[1] \in Caller /\ Due(l, s)
        BY <3>2, PipeTypes DEF Expected
      <4> QED BY <4>1 DEF Due
    <3> QED BY <2>1, <3>1, <3>2
  <2> QED BY <2>1 DEF Expected
<1>4. LinesUndone'
  BY DEF LinesUndone, Undone
<1>5. RepliesHarmless'
  BY DEF RepliesHarmless, Harmless, Undone
<1>6. ASSUME NEW s \in Server, NEW l \in Lines(s)'
      PROVE  l.of[2] <= asked'[l.of[1]]
  <2>1. /\ l \in Lines(s) /\ l.of[1] \in Caller /\ l.of[2] \in Nat /\ l.of[2] <= asked[l.of[1]]
        /\ asked[l.of[1]] \in Nat
    BY PipeTypes DEF Earlier, DTyped
  <2> QED BY <2>1
<1>7. Earlier'
  BY <1>6 DEF Earlier
<1> QED BY <1>1, <1>2, <1>3, <1>4, <1>5, <1>7

(* The records the steps write have their types.                           *)
LEMMA Records ==
  /\ NoCall \in Calls /\ NoAnswer \in Answers
  /\ \A op \in Operations : [NoCall EXCEPT !.op = op] \in Calls
  /\ \A op \in Operations, key \in Key : [NoCall EXCEPT !.op = op, !.key = key] \in Calls
  /\ \A m \in Calls, key \in Key : [m EXCEPT !.key = key] \in Calls
  /\ \A m \in Calls, key \in Key, s \in 0 .. MaxServers :
       [m EXCEPT !.key = key, !.server = s] \in Calls
  /\ \A m \in Calls, id \in Nat : [m EXCEPT !.id = id] \in Calls
<1>1. 0 \in 0 .. MaxServers /\ MaxServers \in Nat
  BY BoundsAssumption
<1>2. <<"tsx", 1>> \in Key /\ <<Nobody, 0>> \in {<<Nobody, 0>>}
  BY DEF Key, Version
<1>3. NoCall \in Calls
  BY <1>1, <1>2 DEF NoCall, Calls
<1>4. NoAnswer \in Answers
  BY <1>2 DEF NoAnswer, Answers
<1> QED BY <1>3, <1>4 DEF Calls

LEMMA CompanionRecords ==
  /\ Unborn \in Companions
  /\ \A m \in Companions :
       /\ \A lock \in Caller \cup {Nobody} : [m EXCEPT !.lock = lock] \in Companions
       /\ [m EXCEPT !.alive = FALSE, !.in = <<>>, !.out = <<>>] \in Companions
       /\ [m EXCEPT !.alive = FALSE, !.in = <<>>] \in Companions
  /\ \A key \in Key : [Unborn EXCEPT !.alive = TRUE, !.key = key] \in Companions
<1>1. <<>> \in Seq(Line) /\ <<>> \in Seq(Reply)
  OBVIOUS
<1>2. <<"tsx", 1>> \in Key
  BY DEF Key, Version
<1>3. Unborn \in Companions
  BY <1>1, <1>2 DEF Unborn, Companions
<1> QED BY <1>1, <1>3 DEF Companions

LEMMA SelectionTyped ==
  ASSUME version \in Version, NEW c \in Caller, NEW script
  PROVE  Selection(c, script) \in Key
BY DEF Selection, Key

(* Two callers that hold a companion hold two.                             *)
LEMMA HeldAlone ==
  ASSUME Placed, NEW c \in Caller, NEW d \in Caller \ {c}, call[c].server \in Server,
         pc[c] \in {"write", "wait", "broken"}, pc[d] \in {"write", "wait", "broken"}
  PROVE  call[d].server # call[c].server
BY DEF Placed

(* One lemma for each action: it keeps the invariant. A new question is of *)
(* a later number than every line there is.                                *)
LEMMA AskKept ==
  ASSUME DInv, NEW c \in Caller, Ask(c)
  PROVE  DInv'
<1> USE DEF DInv, shared, world, Goto, Done, Mishap
<1>1. /\ pc[c] = "idle" /\ pc'[c] = "start"
      /\ call'[c] \in Calls /\ call'[c].server = 0 /\ call'[c].op \in Operations
      /\ asked'[c] = asked[c] + 1 /\ asked' \in [Caller -> Nat] /\ answer' = answer
      /\ registry' = registry /\ startLock' = startLock /\ companion' = companion
      /\ launched' = launched
  <2>1. PICK op \in Asks : call' = [call EXCEPT ![c] = [NoCall EXCEPT !.op = op]]
    BY DEF Ask
  <2>2. op \in Operations
    BY AsksAssumption DEF Operations
  <2>3. call'[c] = [NoCall EXCEPT !.op = op]
    BY <2>1 DEF DTyped
  <2>4. call'[c] \in Calls
    BY <2>2, <2>3, Records
  <2>5. call'[c].server = 0 /\ call'[c].op \in Operations
    BY <2>2, <2>3 DEF NoCall
  <2>6. asked \in [Caller -> Nat] /\ asked' = [asked EXCEPT ![c] = asked[c] + 1]
    BY DEF Ask, DTyped
  <2>7. asked'[c] = asked[c] + 1 /\ asked' \in [Caller -> Nat]
    BY <2>6
  <2> QED BY <2>4, <2>5, <2>7 DEF Ask, DTyped
<1>2. Quiet(c)
  BY DEF Ask, DTyped, Places, Quiet, Others
<1>3. \A s \in Server : companion'[s].lock = companion[s].lock
  BY <1>1
<1>4. registry' \in 0 .. launched' /\ launched' \in 0 .. MaxServers
  BY <1>1 DEF DTyped
<1>5. startLock' \in Caller \cup {Nobody}
  BY <1>1 DEF DTyped
<1>6. companion' \in [Server -> Companions]
  BY <1>1 DEF DTyped
<1>7. pc' \in [Caller -> Places]
  BY DEF Ask, DTyped, Places
<1>8. call' \in [Caller -> Calls]
  BY <1>1 DEF Ask, DTyped
<1>9. asked' \in [Caller -> Nat] /\ version' \in Version /\ effects' \in [Question -> Nat]
  BY <1>1 DEF Ask, DTyped, Version
<1>10. answer' \in [Caller -> Answers]
  BY <1>1, Records DEF Ask, DTyped
<1>11. DTyped'
  BY <1>4, <1>5, <1>6, <1>7, <1>8, <1>9, <1>10 DEF DTyped
<1>12. \A d \in Caller : startLock' = d <=> pc'[d] \in {"select", "launch"}
  BY NobodyAssumption, <1>1, <1>2 DEF Placed, Nobody, Quiet, Others
<1>13. \A d \in Caller : call'[d].server <= launched'
  BY CallPlaced, <1>1, <1>2 DEF Quiet, Others
<1>14. \A d \in Caller : pc'[d] \in {"queue", "write", "wait", "broken"} => call'[d].server # 0
  BY <1>1, <1>2 DEF Placed, Quiet, Others
<1>15. \A d \in Caller : pc'[d] # "idle" => call'[d].op \in Operations
  BY <1>1, <1>2 DEF Placed, Quiet, Others
<1>16. \A d \in Caller : pc'[d] = "launch" => registry' = 0
  BY <1>1, <1>2 DEF Placed, Quiet, Others
<1>17. \A s \in Server, d \in Caller :
        companion'[s].lock = d <=> pc'[d] \in {"write", "wait", "broken"} /\ call'[d].server = s
  BY NobodyAssumption, <1>1, <1>2, <1>3 DEF Placed, Nobody, Quiet, Others
<1>18. Placed'
  BY <1>12, <1>13, <1>14, <1>15, <1>16, <1>17 DEF Placed
<1>19. Emptied
  BY <1>1 DEF Numbered, Lines, Replies, Emptied
<1>20. Numbered' /\ Awaited' /\ Expected' /\ Earlier' /\ LinesUndone' /\ RepliesHarmless'
  BY <1>2, <1>19, QuietStep
<1>21. OneCompanion'
  BY <1>1 DEF OneCompanion
<1>22. AnswersOwn'
  BY <1>1, <1>2 DEF AnswersOwn, Of, Quiet, Others
<1>23. CallsUndone'
  <2> SUFFICES ASSUME NEW d \in Caller, Of(d)' \notin lost'
               PROVE  /\ pc'[d] \notin {"idle", "wait", "answered"} => Undone(Of(d))'
                      /\ pc'[d] = "answered" => Harmless(Of(d), answer[d].verdict)'
    BY DEF CallsUndone
  <2>1. CASE d = c
    <3>1. asked[c] \in Nat
      BY DEF DTyped
    <3>2. ASSUME <<c, asked[c] + 1>> \in Question
          PROVE  effects[<<c, asked[c] + 1>>] = 0
      BY <3>1, <3>2 DEF LaterUndone
    <3> QED BY <2>1, <3>2, <1>1, <1>2 DEF Undone, Of, Quiet, Others
  <2>2. CASE d # c
    BY <2>2, <1>2 DEF CallsUndone, Undone, Harmless, Of, Quiet, Others
  <2> QED BY <2>1, <2>2
<1>24. LaterUndone' /\ EffectsOnce'
  <2>1. ASSUME NEW q \in Question, q[2] > asked'[q[1]]
        PROVE  q[2] > asked[q[1]]
    <3>1. q[1] \in Caller /\ q[2] \in Nat /\ asked[q[1]] \in Nat
      BY Pairs, BoundsAssumption DEF Question, DTyped
    <3> QED BY <2>1, <3>1, <1>1, <1>2 DEF Quiet, Others
  <2> QED BY <2>1, <1>2 DEF LaterUndone, EffectsOnce, Quiet, Others
<1>25. Refusals'
  <2>1. ASSUME NEW q \in refused, q \notin lost
        PROVE  Closed(q)'
    <3>1. q[1] \in Caller /\ q[2] \in Nat /\ asked[q[1]] \in Nat
      BY Pairs DEF Refusals, DTyped
    <3>2. Closed(q)
      BY <2>1 DEF Refusals
    <3> QED BY <3>1, <3>2, <1>1, <1>2 DEF Closed, Quiet, Others
  <2> QED BY <2>1, <1>2 DEF Refusals, Quiet, Others
<1> QED BY <1>11, <1>18, <1>20, <1>21, <1>22, <1>23, <1>24, <1>25

(* The start lock is taken by a caller that goes to select.                *)
LEMMA LockStartKept ==
  ASSUME DInv, NEW c \in Caller, LockStart(c)
  PROVE  DInv'
<1> USE DEF DInv, shared, world, Goto, Done, Mishap
<1>1. /\ pc[c] = "start" /\ pc'[c] = "select" /\ startLock = Nobody /\ startLock' = c
      /\ call' = call /\ asked' = asked /\ answer' = answer
      /\ registry' = registry /\ companion' = companion /\ launched' = launched
  BY DEF LockStart, DTyped
<1>2. Quiet(c)
  BY DEF LockStart, DTyped, Places, Quiet, Others
<1>3. \A s \in Server : companion'[s].lock = companion[s].lock
  BY <1>1
<1>4. registry' \in 0 .. launched' /\ launched' \in 0 .. MaxServers
  BY <1>1 DEF DTyped
<1>5. startLock' \in Caller \cup {Nobody}
  BY <1>1 DEF DTyped
<1>6. companion' \in [Server -> Companions]
  BY <1>1 DEF DTyped
<1>7. pc' \in [Caller -> Places]
  BY DEF LockStart, DTyped, Places
<1>8. call' \in [Caller -> Calls]
  BY <1>1 DEF LockStart, DTyped
<1>9. asked' \in [Caller -> Nat] /\ version' \in Version /\ effects' \in [Question -> Nat]
  BY <1>1 DEF LockStart, DTyped, Version
<1>10. answer' \in [Caller -> Answers]
  BY <1>1, Records DEF LockStart, DTyped
<1>11. DTyped'
  BY <1>4, <1>5, <1>6, <1>7, <1>8, <1>9, <1>10 DEF DTyped
<1>12. \A d \in Caller : startLock' = d <=> pc'[d] \in {"select", "launch"}
  BY NobodyAssumption, <1>1, <1>2 DEF Placed, Nobody, Quiet, Others
<1>13. \A d \in Caller : call'[d].server <= launched'
  BY CallPlaced, <1>1, <1>2 DEF Quiet, Others
<1>14. \A d \in Caller : pc'[d] \in {"queue", "write", "wait", "broken"} => call'[d].server # 0
  BY <1>1, <1>2 DEF Placed, Quiet, Others
<1>15. \A d \in Caller : pc'[d] # "idle" => call'[d].op \in Operations
  BY <1>1, <1>2 DEF Placed, Quiet, Others
<1>16. \A d \in Caller : pc'[d] = "launch" => registry' = 0
  BY <1>1, <1>2 DEF Placed, Quiet, Others
<1>17. \A s \in Server, d \in Caller :
        companion'[s].lock = d <=> pc'[d] \in {"write", "wait", "broken"} /\ call'[d].server = s
  BY NobodyAssumption, <1>1, <1>2, <1>3 DEF Placed, Nobody, Quiet, Others
<1>18. Placed'
  BY <1>12, <1>13, <1>14, <1>15, <1>16, <1>17 DEF Placed
<1>19. Emptied
  BY <1>1 DEF Numbered, Lines, Replies, Emptied
<1>20. Numbered' /\ Awaited' /\ Expected' /\ Earlier' /\ LinesUndone' /\ RepliesHarmless'
  BY <1>2, <1>19, QuietStep
<1>21. OneCompanion'
  BY <1>1 DEF OneCompanion
<1>22. AnswersOwn'
  BY <1>1, <1>2 DEF AnswersOwn, Of, Quiet, Others
<1>23. CallsUndone'
  BY <1>1, <1>2 DEF CallsUndone, Undone, Harmless, Of, Quiet, Others
<1>24. LaterUndone' /\ EffectsOnce'
  BY <1>1, <1>2 DEF LaterUndone, EffectsOnce, Quiet, Others
<1>25. Refusals'
  BY <1>1, <1>2, Pairs DEF Refusals, Closed, Quiet, Others
<1> QED BY <1>11, <1>18, <1>20, <1>21, <1>22, <1>23, <1>24, <1>25

(* A companion that is not reused is stopped before it is forgotten: its   *)
(* pipes are empty, and none is left running.                              *)
LEMMA SelectKept ==
  ASSUME DInv, NEW c \in Caller, Select(c)
  PROVE  DInv'
<1> USE DEF DInv, shared, world, Goto, Done, Mishap
<1>1. /\ pc[c] = "select" /\ asked' = asked /\ answer' = answer
      /\ call'[c] \in Calls /\ call'[c].op = call[c].op
      /\ \/ /\ Reusable(c) /\ pc'[c] = "queue" /\ call'[c].server = registry /\ registry # 0
            /\ startLock' = Nobody /\ registry' = registry /\ companion' = companion
         \/ /\ ~Reusable(c) /\ pc'[c] = "launch" /\ call'[c].server = 0
            /\ startLock' = startLock /\ registry' = 0
      /\ launched' = launched
  <2> DEFINE to == IF Reusable(c) THEN registry ELSE 0
  <2>1. call'[c] = [call[c] EXCEPT !.key = Selection(c, "document"), !.server = to]
    BY DEF Select, DTyped
  <2>2. to \in 0 .. MaxServers
    BY BoundsAssumption DEF DTyped
  <2>3. call[c] \in Calls /\ Selection(c, "document") \in Key
    BY SelectionTyped DEF DTyped
  <2>4. call'[c] \in Calls /\ call'[c].op = call[c].op /\ call'[c].server = to
    <3> HIDE DEF to
    <3>1. call'[c] \in Calls
      BY <2>1, <2>2, <2>3 DEF Calls
    <3>2. call'[c].op = call[c].op /\ call'[c].server = to
      BY <2>1, <2>3 DEF Calls
    <3> QED BY <3>1, <3>2
  <2>5. CASE Reusable(c)
    <3>1. registry # 0
      BY <2>5 DEF Reusable
    <3> QED BY <2>4, <2>5, <3>1 DEF Select, DTyped
  <2>6. CASE ~Reusable(c)
    BY <2>4, <2>6 DEF Select, DTyped
  <2> QED BY <2>5, <2>6
<1>2. /\ companion' = [s \in Server |-> companion'[s]]
      /\ \A s \in Server :
           companion'[s] = IF Reusable(c) \/ s # registry THEN companion[s]
                           ELSE [companion[s] EXCEPT !.alive = FALSE, !.in = <<>>, !.out = <<>>]
  <2>1. CASE Reusable(c)
    BY <2>1, <1>1 DEF DTyped
  <2>2. CASE ~Reusable(c)
    BY <2>2 DEF Select
  <2> QED BY <2>1, <2>2
<1>3. Quiet(c)
  BY DEF Select, DTyped, Places, Quiet, Others
<1>4. \A s \in Server : companion'[s].lock = companion[s].lock
  <2> SUFFICES ASSUME NEW s \in Server PROVE companion'[s].lock = companion[s].lock
    OBVIOUS
  <2>1. companion[s] \in Companions
    BY DEF DTyped
  <2> QED BY <2>1, <1>2 DEF Companions
<1>5. registry' \in 0 .. launched' /\ launched' \in 0 .. MaxServers
  BY <1>1 DEF DTyped
<1>6. startLock' \in Caller \cup {Nobody}
  BY <1>1 DEF DTyped
<1>7. companion' \in [Server -> Companions]
  <2>1. ASSUME NEW s \in Server PROVE companion'[s] \in Companions
    <3>1. companion[s] \in Companions
      BY DEF DTyped
    <3>2. <<>> \in Seq(Line) /\ <<>> \in Seq(Reply)
      OBVIOUS
    <3> QED BY <3>1, <3>2, <1>2 DEF Companions
  <2> QED BY <2>1, <1>2
<1>8. pc' \in [Caller -> Places]
  BY DEF Select, DTyped, Places
<1>9. call' \in [Caller -> Calls]
  BY <1>1 DEF Select, DTyped
<1>10. asked' \in [Caller -> Nat] /\ version' \in Version /\ effects' \in [Question -> Nat]
  BY <1>1 DEF Select, DTyped, Version
<1>11. answer' \in [Caller -> Answers]
  BY <1>1, Records DEF Select, DTyped
<1>12. DTyped'
  BY <1>5, <1>6, <1>7, <1>8, <1>9, <1>10, <1>11 DEF DTyped
<1>13. \A d \in Caller : startLock' = d <=> pc'[d] \in {"select", "launch"}
  BY NobodyAssumption, <1>1, <1>3 DEF Placed, Nobody, Quiet, Others
<1>14. \A d \in Caller : call'[d].server <= launched'
  <2>1. registry <= launched /\ 0 <= launched
    BY BoundsAssumption DEF DTyped
  <2> QED BY CallPlaced, <2>1, <1>1, <1>3 DEF Quiet, Others
<1>15. \A d \in Caller : pc'[d] \in {"queue", "write", "wait", "broken"} => call'[d].server # 0
  BY <1>1, <1>3 DEF Placed, Quiet, Others
<1>16. \A d \in Caller : pc'[d] # "idle" => call'[d].op \in Operations
  BY <1>1, <1>3 DEF Placed, Quiet, Others
<1>17. \A d \in Caller : pc'[d] = "launch" => registry' = 0
  BY <1>1, <1>3 DEF Placed, Quiet, Others
<1>18. \A s \in Server, d \in Caller :
        companion'[s].lock = d <=> pc'[d] \in {"write", "wait", "broken"} /\ call'[d].server = s
  BY NobodyAssumption, <1>1, <1>3, <1>4 DEF Placed, Nobody, Quiet, Others
<1>19. Placed'
  BY <1>13, <1>14, <1>15, <1>16, <1>17, <1>18 DEF Placed
<1>20. Emptied
  <2> SUFFICES ASSUME NEW s \in Server
               PROVE  /\ Lines(s)' \subseteq Lines(s) /\ Replies(s)' \subseteq Replies(s)
                      /\ Rising(companion'[s].in) /\ Rising(companion'[s].out)
                      /\ \/ companion'[s].sequence = companion[s].sequence
                         \/ s > launched /\ Lines(s)' = {} /\ Replies(s)' = {}
    BY DEF Emptied
  <2>1. companion[s] \in Companions
    BY DEF DTyped
  <2>2. Rising(companion[s].in) /\ Rising(companion[s].out)
    BY DEF Numbered
  <2>3. \/ /\ companion'[s].in = companion[s].in /\ companion'[s].out = companion[s].out
           /\ companion'[s].sequence = companion[s].sequence
        \/ /\ companion'[s].in = <<>> /\ companion'[s].out = <<>>
           /\ companion'[s].sequence = companion[s].sequence 
    BY <2>1, <1>2 DEF Companions
  <2> QED BY <2>2, <2>3, EmptyPipe DEF Lines, Replies
<1>21. Numbered' /\ Awaited' /\ Expected' /\ Earlier' /\ LinesUndone' /\ RepliesHarmless'
  BY <1>3, <1>20, QuietStep
<1>22. OneCompanion'
  <2> SUFFICES ASSUME NEW s \in Server, companion'[s].alive PROVE s = registry'
    BY DEF OneCompanion
  <2>1. companion[s] \in Companions
    BY DEF DTyped
  <2>2. companion[s].alive /\ (Reusable(c) \/ s # registry)
    BY <2>1, <1>2 DEF Companions
  <2> QED BY <2>2, <1>1 DEF OneCompanion
<1>23. AnswersOwn'
  BY <1>1, <1>3 DEF AnswersOwn, Of, Quiet, Others
<1>24. CallsUndone'
  BY <1>1, <1>3 DEF CallsUndone, Undone, Harmless, Of, Quiet, Others
<1>25. LaterUndone' /\ EffectsOnce'
  BY <1>1, <1>3 DEF LaterUndone, EffectsOnce, Quiet, Others
<1>26. Refusals'
  BY <1>1, <1>3, Pairs DEF Refusals, Closed, Quiet, Others
<1> QED BY <1>12, <1>19, <1>21, <1>22, <1>23, <1>24, <1>25, <1>26

(* A companion is launched only after the one registered was stopped, and  *)
(* its pipes are empty.                                                    *)
LEMMA LaunchKept ==
  ASSUME DInv, NEW c \in Caller, Launch(c)
  PROVE  DInv'
<1> USE DEF DInv, shared, world, Goto, Done, Mishap
<1>1. /\ pc[c] = "launch" /\ asked' = asked /\ answer' = answer /\ startLock' = Nobody
      /\ call'[c] \in Calls /\ call'[c].op = call[c].op
      /\ \/ /\ pc'[c] = "queue" /\ call'[c].server = launched + 1 /\ launched < MaxServers
            /\ launched' = launched + 1 /\ registry' = launched + 1
         \/ /\ pc'[c] = "failed" /\ call'[c].server = call[c].server
            /\ launched' = launched /\ registry' = registry /\ companion' = companion
  <2>1. call[c] \in Calls /\ Selection(c, "document") \in Key /\ NoCall.key \in Key
    BY SelectionTyped DEF DTyped, NoCall, Key, Version
  <2>2. launched \in 0 .. MaxServers /\ MaxServers \in Nat
    BY BoundsAssumption DEF DTyped
  <2>3. CASE /\ launched < MaxServers
             /\ launched' = launched + 1 /\ registry' = launched + 1
             /\ call' = [call EXCEPT ![c].key = Selection(c, "document"), ![c].server = launched + 1]
             /\ Goto(c, "queue")
    <3>1. call'[c] = [call[c] EXCEPT !.key = Selection(c, "document"), !.server = launched + 1]
      BY <2>3 DEF DTyped
    <3>2. launched + 1 \in 0 .. MaxServers
      BY <2>2, <2>3
    <3>3. call'[c] \in Calls
      BY <2>1, <3>1, <3>2 DEF Calls
    <3>4. call'[c].op = call[c].op /\ call'[c].server = launched + 1
      BY <2>1, <3>1 DEF Calls
    <3> QED BY <2>3, <3>3, <3>4 DEF Launch, DTyped
  <2>4. CASE /\ \E key \in {NoCall.key, Selection(c, "document")} : call' = [call EXCEPT ![c].key = key]
             /\ Goto(c, "failed")
             /\ UNCHANGED <<launched, registry, companion>>
    <3>1. PICK key \in {NoCall.key, Selection(c, "document")} : call' = [call EXCEPT ![c].key = key]
      BY <2>4
    <3>2. call'[c] = [call[c] EXCEPT !.key = key]
      BY <3>1 DEF DTyped
    <3>3. call'[c] \in Calls
      BY <2>1, <3>1, <3>2 DEF Calls
    <3>4. call'[c].op = call[c].op /\ call'[c].server = call[c].server
      BY <2>1, <3>2 DEF Calls
    <3> QED BY <2>4, <3>3, <3>4 DEF Launch, DTyped
  <2> QED BY <2>3, <2>4 DEF Launch
<1>2. /\ companion' = [s \in Server |-> companion'[s]]
      /\ \A s \in Server :
           companion'[s] = IF launched' = launched + 1 /\ s = launched + 1
                           THEN [Unborn EXCEPT !.alive = TRUE, !.key = Selection(c, "document")]
                           ELSE companion[s]
  <2>1. launched \in Nat
    BY CallPlaced
  <2>2. CASE launched' = launched + 1
    BY <2>1, <2>2 DEF Launch, DTyped
  <2>3. CASE launched' # launched + 1
    BY <2>3, <1>1 DEF DTyped
  <2> QED BY <2>2, <2>3
<1>3. Quiet(c)
  BY DEF Launch, DTyped, Places, Quiet, Others
<1>4. \A s \in Server : companion'[s].lock = companion[s].lock
  <2> SUFFICES ASSUME NEW s \in Server PROVE companion'[s].lock = companion[s].lock
    OBVIOUS
  <2>1. CASE launched' = launched + 1 /\ s = launched + 1
    <3>1. companion'[s].lock = Nobody
      BY <2>1, <1>2 DEF Unborn
    <3>2. companion[s].lock \in Caller \cup {Nobody}
      BY DEF DTyped, Companions
    <3>3. ASSUME NEW d \in Caller PROVE companion[s].lock # d
      BY <2>1, CallPlaced DEF Placed
    <3> QED BY <3>1, <3>2, <3>3
  <2>2. CASE ~(launched' = launched + 1 /\ s = launched + 1)
    BY <2>2, <1>2
  <2> QED BY <2>1, <2>2
<1>5. registry' \in 0 .. launched' /\ launched' \in 0 .. MaxServers
  <2>1. launched \in 0 .. MaxServers /\ registry \in 0 .. launched /\ MaxServers \in Nat
    BY BoundsAssumption DEF DTyped
  <2> QED BY <2>1, <1>1
<1>6. startLock' \in Caller \cup {Nobody}
  BY <1>1 DEF DTyped
<1>7. companion' \in [Server -> Companions]
  <2>1. ASSUME NEW s \in Server PROVE companion'[s] \in Companions
    <3>1. CASE launched' = launched + 1 /\ s = launched + 1
      <4>1. companion'[s] = [Unborn EXCEPT !.alive = TRUE, !.key = Selection(c, "document")]
        BY <3>1, <1>2
      <4>2. Selection(c, "document") \in Key
        BY SelectionTyped DEF DTyped
      <4> QED BY <4>1, <4>2, CompanionRecords
    <3>2. CASE ~(launched' = launched + 1 /\ s = launched + 1)
      BY <3>2, <1>2 DEF DTyped
    <3> QED BY <3>1, <3>2
  <2> QED BY <2>1, <1>2
<1>8. pc' \in [Caller -> Places]
  BY DEF Launch, DTyped, Places
<1>9. call' \in [Caller -> Calls]
  BY <1>1 DEF Launch, DTyped
<1>10. asked' \in [Caller -> Nat] /\ version' \in Version /\ effects' \in [Question -> Nat]
  BY <1>1 DEF Launch, DTyped, Version
<1>11. answer' \in [Caller -> Answers]
  BY <1>1, Records DEF Launch, DTyped
<1>12. DTyped'
  BY <1>5, <1>6, <1>7, <1>8, <1>9, <1>10, <1>11 DEF DTyped
<1>13. \A d \in Caller : startLock' = d <=> pc'[d] \in {"select", "launch"}
  BY NobodyAssumption, <1>1, <1>3 DEF Placed, Nobody, Quiet, Others
<1>14. \A d \in Caller : call'[d].server <= launched'
  BY CallPlaced, <1>1, <1>3 DEF Quiet, Others
<1>15. \A d \in Caller : pc'[d] \in {"queue", "write", "wait", "broken"} => call'[d].server # 0
  <2>1. launched \in Nat
    BY CallPlaced
  <2> QED BY <2>1, <1>1, <1>3 DEF Placed, Quiet, Others
<1>16. \A d \in Caller : pc'[d] # "idle" => call'[d].op \in Operations
  BY <1>1, <1>3 DEF Placed, Quiet, Others
<1>17. \A d \in Caller : pc'[d] = "launch" => registry' = 0
  BY <1>1, <1>3 DEF Placed, Quiet, Others
<1>18. \A s \in Server, d \in Caller :
        companion'[s].lock = d <=> pc'[d] \in {"write", "wait", "broken"} /\ call'[d].server = s
  BY NobodyAssumption, <1>1, <1>3, <1>4 DEF Placed, Nobody, Quiet, Others
<1>19. Placed'
  BY <1>13, <1>14, <1>15, <1>16, <1>17, <1>18 DEF Placed
<1>20. Emptied
  <2> SUFFICES ASSUME NEW s \in Server
               PROVE  /\ Lines(s)' \subseteq Lines(s) /\ Replies(s)' \subseteq Replies(s)
                      /\ Rising(companion'[s].in) /\ Rising(companion'[s].out)
                      /\ \/ companion'[s].sequence = companion[s].sequence
                         \/ s > launched /\ Lines(s)' = {} /\ Replies(s)' = {}
    BY DEF Emptied
  <2>1. companion[s] \in Companions
    BY DEF DTyped
  <2>2. Rising(companion[s].in) /\ Rising(companion[s].out)
    BY DEF Numbered
  <2>3. \/ /\ companion'[s].in = companion[s].in /\ companion'[s].out = companion[s].out
           /\ companion'[s].sequence = companion[s].sequence
        \/ /\ companion'[s].in = <<>> /\ companion'[s].out = <<>>
           /\ s > launched
    <3>1. CASE launched' = launched + 1 /\ s = launched + 1
      <4>1. companion'[s].in = <<>> /\ companion'[s].out = <<>>
        BY <3>1, <1>2 DEF Unborn
      <4>2. s > launched
        BY <3>1, CallPlaced
      <4> QED BY <4>1, <4>2
    <3>2. CASE ~(launched' = launched + 1 /\ s = launched + 1)
      BY <3>2, <1>2
    <3> QED BY <3>1, <3>2
  <2> QED BY <2>2, <2>3, EmptyPipe DEF Lines, Replies
<1>21. Numbered' /\ Awaited' /\ Expected' /\ Earlier' /\ LinesUndone' /\ RepliesHarmless'
  BY <1>3, <1>20, QuietStep
<1>22. OneCompanion'
  <2> SUFFICES ASSUME NEW s \in Server, companion'[s].alive PROVE s = registry'
    BY DEF OneCompanion
  <2>1. ~companion[s].alive
    BY <1>1 DEF OneCompanion, Placed, Server
  <2> QED BY <2>1, <1>2, <1>1
<1>23. AnswersOwn'
  BY <1>1, <1>3 DEF AnswersOwn, Of, Quiet, Others
<1>24. CallsUndone'
  BY <1>1, <1>3 DEF CallsUndone, Undone, Harmless, Of, Quiet, Others
<1>25. LaterUndone' /\ EffectsOnce'
  BY <1>1, <1>3 DEF LaterUndone, EffectsOnce, Quiet, Others
<1>26. Refusals'
  BY <1>1, <1>3, Pairs DEF Refusals, Closed, Quiet, Others
<1> QED BY <1>12, <1>19, <1>21, <1>22, <1>23, <1>24, <1>25, <1>26

(* The lock of a companion is taken by one caller.                         *)
LEMMA QueueKept ==
  ASSUME DInv, NEW c \in Caller, Queue(c)
  PROVE  DInv'
<1> USE DEF DInv, shared, world, Goto, Done, Mishap
<1>1. /\ pc[c] = "queue" /\ pc'[c] = "write" /\ call' = call /\ asked' = asked /\ answer' = answer
      /\ call[c].server \in Server /\ companion[call[c].server].lock = Nobody
      /\ registry' = registry /\ startLock' = startLock /\ launched' = launched
  <2>1. pc[c] = "queue"
    BY DEF Queue
  <2>2. call[c].server \in Server
    BY <2>1, CallPlaced
  <2> QED BY <2>2 DEF Queue, DTyped, Mine
<1>2. /\ companion' = [s \in Server |-> companion'[s]]
      /\ \A s \in Server :
           companion'[s] = IF s = call[c].server THEN [companion[s] EXCEPT !.lock = c] ELSE companion[s]
  BY DEF Queue, DTyped
<1>3. Quiet(c)
  BY DEF Queue, DTyped, Places, Quiet, Others
<1>4. \A s \in Server :
        companion'[s].lock = IF s = call[c].server THEN c ELSE companion[s].lock
  <2> SUFFICES ASSUME NEW s \in Server
               PROVE  companion'[s].lock = IF s = call[c].server THEN c ELSE companion[s].lock
    OBVIOUS
  <2>1. companion[s] \in Companions
    BY DEF DTyped
  <2> QED BY <2>1, <1>2 DEF Companions
<1>5. registry' \in 0 .. launched' /\ launched' \in 0 .. MaxServers
  BY <1>1 DEF DTyped
<1>6. startLock' \in Caller \cup {Nobody}
  BY <1>1 DEF DTyped
<1>7. companion' \in [Server -> Companions]
  <2>1. ASSUME NEW s \in Server PROVE companion'[s] \in Companions
    <3>1. companion[s] \in Companions
      BY DEF DTyped
    <3>2. <<>> \in Seq(Line) /\ <<>> \in Seq(Reply)
      OBVIOUS
    <3> QED BY <3>1, <3>2, <1>2 DEF Companions
  <2> QED BY <2>1, <1>2
<1>8. pc' \in [Caller -> Places]
  BY DEF Queue, DTyped, Places
<1>9. call' \in [Caller -> Calls]
  BY <1>1 DEF Queue, DTyped
<1>10. asked' \in [Caller -> Nat] /\ version' \in Version /\ effects' \in [Question -> Nat]
  BY <1>1 DEF Queue, DTyped, Version
<1>11. answer' \in [Caller -> Answers]
  BY <1>1, Records DEF Queue, DTyped
<1>12. DTyped'
  BY <1>5, <1>6, <1>7, <1>8, <1>9, <1>10, <1>11 DEF DTyped
<1>13. \A d \in Caller : startLock' = d <=> pc'[d] \in {"select", "launch"}
  BY NobodyAssumption, <1>1, <1>3 DEF Placed, Nobody, Quiet, Others
<1>14. \A d \in Caller : call'[d].server <= launched'
  BY CallPlaced, <1>1, <1>3 DEF Quiet, Others
<1>15. \A d \in Caller : pc'[d] \in {"queue", "write", "wait", "broken"} => call'[d].server # 0
  BY <1>1, <1>3 DEF Placed, Quiet, Others
<1>16. \A d \in Caller : pc'[d] # "idle" => call'[d].op \in Operations
  BY <1>1, <1>3 DEF Placed, Quiet, Others
<1>17. \A d \in Caller : pc'[d] = "launch" => registry' = 0
  BY <1>1, <1>3 DEF Placed, Quiet, Others
<1>18. \A s \in Server, d \in Caller :
        companion'[s].lock = d <=> pc'[d] \in {"write", "wait", "broken"} /\ call'[d].server = s
  BY NobodyAssumption, <1>1, <1>3, <1>4 DEF Placed, Nobody, Quiet, Others
<1>19. Placed'
  BY <1>13, <1>14, <1>15, <1>16, <1>17, <1>18 DEF Placed
<1>20. Emptied
  <2> SUFFICES ASSUME NEW s \in Server
               PROVE  /\ Lines(s)' \subseteq Lines(s) /\ Replies(s)' \subseteq Replies(s)
                      /\ Rising(companion'[s].in) /\ Rising(companion'[s].out)
                      /\ \/ companion'[s].sequence = companion[s].sequence
                         \/ s > launched /\ Lines(s)' = {} /\ Replies(s)' = {}
    BY DEF Emptied
  <2>1. companion[s] \in Companions
    BY DEF DTyped
  <2>2. Rising(companion[s].in) /\ Rising(companion[s].out)
    BY DEF Numbered
  <2>3. \/ /\ companion'[s].in = companion[s].in /\ companion'[s].out = companion[s].out
           /\ companion'[s].sequence = companion[s].sequence
        \/ /\ companion'[s].in = <<>> /\ companion'[s].out = <<>>
           /\ companion'[s].sequence = companion[s].sequence 
    BY <2>1, <1>2 DEF Companions
  <2> QED BY <2>2, <2>3, EmptyPipe DEF Lines, Replies
<1>21. Numbered' /\ Awaited' /\ Expected' /\ Earlier' /\ LinesUndone' /\ RepliesHarmless'
  BY <1>3, <1>20, QuietStep
<1>22. OneCompanion'
  <2>1. ASSUME NEW s \in Server PROVE companion'[s].alive = companion[s].alive
    BY <1>2 DEF DTyped, Companions
  <2> QED BY <2>1, <1>1 DEF OneCompanion
<1>23. AnswersOwn'
  BY <1>1, <1>3 DEF AnswersOwn, Of, Quiet, Others
<1>24. CallsUndone'
  BY <1>1, <1>3 DEF CallsUndone, Undone, Harmless, Of, Quiet, Others
<1>25. LaterUndone' /\ EffectsOnce'
  BY <1>1, <1>3 DEF LaterUndone, EffectsOnce, Quiet, Others
<1>26. Refusals'
  BY <1>1, <1>3, Pairs DEF Refusals, Closed, Quiet, Others
<1> QED BY <1>12, <1>19, <1>21, <1>22, <1>23, <1>24, <1>25, <1>26

(* A rejection ends the question, so it is never tried again.              *)
LEMMA AnsweredKept ==
  ASSUME DInv, NEW c \in Caller, Answered(c)
  PROVE  DInv'
<1> USE DEF DInv, shared, world, Goto, Done, Mishap
<1>1. /\ pc[c] = "answered" /\ asked' = asked /\ answer'[c] = NoAnswer
      /\ call'[c] \in Calls
      /\ \/ /\ pc'[c] = "failed" /\ call' = call
            /\ answer[c].verdict = "invalid" \/ (call[c].op # "describe" /\ answer[c].verdict = "unknown")
         \/ /\ pc'[c] = "idle" /\ call'[c].server = 0
            /\ answer[c].verdict # "invalid"
      /\ registry' = registry /\ startLock' = startLock /\ companion' = companion
      /\ launched' = launched
  <2>1. CASE Goto(c, "failed") /\ UNCHANGED call /\
             (answer[c].verdict = "invalid" \/ (call[c].op # "describe" /\ answer[c].verdict = "unknown"))
    BY <2>1 DEF Answered, DTyped
  <2>2. CASE Done(c) /\ answer[c].verdict # "invalid"
    <3>1. call'[c] = NoCall
      BY <2>2 DEF DTyped
    <3>2. call'[c] \in Calls
      BY <3>1, Records
    <3>3. call'[c].server = 0
      BY <3>1 DEF NoCall
    <3> QED BY <2>2, <3>2, <3>3 DEF Answered, DTyped
  <2> QED BY <2>1, <2>2 DEF Answered
<1>2. Quiet(c)
  BY DEF Answered, DTyped, Places, Quiet, Others
<1>3. \A s \in Server : companion'[s].lock = companion[s].lock
  BY <1>1
<1>4. registry' \in 0 .. launched' /\ launched' \in 0 .. MaxServers
  BY <1>1 DEF DTyped
<1>5. startLock' \in Caller \cup {Nobody}
  BY <1>1 DEF DTyped
<1>6. companion' \in [Server -> Companions]
  BY <1>1 DEF DTyped
<1>7. pc' \in [Caller -> Places]
  BY DEF Answered, DTyped, Places
<1>8. call' \in [Caller -> Calls]
  BY <1>1 DEF Answered, DTyped
<1>9. asked' \in [Caller -> Nat] /\ version' \in Version /\ effects' \in [Question -> Nat]
  BY <1>1 DEF Answered, DTyped, Version
<1>10. answer' \in [Caller -> Answers]
  BY <1>1, Records DEF Answered, DTyped
<1>11. DTyped'
  BY <1>4, <1>5, <1>6, <1>7, <1>8, <1>9, <1>10 DEF DTyped
<1>12. \A d \in Caller : startLock' = d <=> pc'[d] \in {"select", "launch"}
  BY NobodyAssumption, <1>1, <1>2 DEF Placed, Nobody, Quiet, Others
<1>13. \A d \in Caller : call'[d].server <= launched'
  BY CallPlaced, <1>1, <1>2 DEF Quiet, Others
<1>14. \A d \in Caller : pc'[d] \in {"queue", "write", "wait", "broken"} => call'[d].server # 0
  BY <1>1, <1>2 DEF Placed, Quiet, Others
<1>15. \A d \in Caller : pc'[d] # "idle" => call'[d].op \in Operations
  BY <1>1, <1>2 DEF Placed, Quiet, Others
<1>16. \A d \in Caller : pc'[d] = "launch" => registry' = 0
  BY <1>1, <1>2 DEF Placed, Quiet, Others
<1>17. \A s \in Server, d \in Caller :
        companion'[s].lock = d <=> pc'[d] \in {"write", "wait", "broken"} /\ call'[d].server = s
  BY NobodyAssumption, <1>1, <1>2, <1>3 DEF Placed, Nobody, Quiet, Others
<1>18. Placed'
  BY <1>12, <1>13, <1>14, <1>15, <1>16, <1>17 DEF Placed
<1>19. Emptied
  BY <1>1 DEF Numbered, Lines, Replies, Emptied
<1>20. Numbered' /\ Awaited' /\ Expected' /\ Earlier' /\ LinesUndone' /\ RepliesHarmless'
  BY <1>2, <1>19, QuietStep
<1>21. OneCompanion'
  BY <1>1 DEF OneCompanion
<1>22. AnswersOwn'
  BY <1>1, <1>2 DEF AnswersOwn, Of, Quiet, Others
<1>23. CallsUndone'
  BY <1>1, <1>2 DEF CallsUndone, Undone, Harmless, Of, Quiet, Others
<1>24. LaterUndone' /\ EffectsOnce'
  BY <1>1, <1>2 DEF LaterUndone, EffectsOnce, Quiet, Others
<1>25. Refusals'
  BY <1>1, <1>2, Pairs DEF Refusals, Closed, Quiet, Others
<1> QED BY <1>11, <1>18, <1>20, <1>21, <1>22, <1>23, <1>24, <1>25

(* What is tried again was not carried out, unless its answer was lost.    *)
LEMMA FailedKept ==
  ASSUME DInv, NEW c \in Caller, Failed(c)
  PROVE  DInv'
<1> USE DEF DInv, shared, world, Goto, Done, Mishap
<1>1. /\ pc' = [pc EXCEPT ![c] = pc'[c]] /\ call' = [call EXCEPT ![c] = call'[c]]
      /\ pc[c] = "failed" /\ pc'[c] \in {"start", "process"} /\ asked' = asked /\ answer' = answer
      /\ call'[c] \in Calls /\ call'[c].server = 0 /\ call'[c].op \in Operations
      /\ registry' = registry \/ (registry' = 0 /\ ~companion[registry].alive)
      /\ startLock' = startLock /\ companion' = companion /\ launched' = launched
  <2>1. call[c].op \in Operations /\ Selection(c, "mutate") \in Key
    BY SelectionTyped DEF Failed, Placed, DTyped
  <2>2. /\ pc' = [pc EXCEPT ![c] = pc'[c]] /\ pc'[c] \in {"start", "process"}
        /\ call' = [call EXCEPT ![c] = call'[c]]
        /\ registry' = registry \/ (registry' = 0 /\ ~companion[registry].alive)
        /\ \/ \E op \in Operations : call'[c] = [NoCall EXCEPT !.op = op]
           \/ call'[c] = [NoCall EXCEPT !.op = "mutate", !.key = Selection(c, "mutate")]
    <3>1. CASE call[c].op = "mutate with key"
      <4>1. /\ call' = [call EXCEPT ![c] = [NoCall EXCEPT !.op = "mutate"]]
            /\ Goto(c, "start") /\ registry' = registry
        BY <3>1 DEF Failed
      <4>2. call'[c] = [NoCall EXCEPT !.op = "mutate"] /\ pc'[c] = "start"
        BY <4>1 DEF DTyped
      <4>3. pc' = [pc EXCEPT ![c] = pc'[c]] /\ call' = [call EXCEPT ![c] = call'[c]]
        BY <4>1, <4>2
      <4>4. registry' = registry
        BY <4>1
      <4>5. \/ \E op \in Operations : call'[c] = [NoCall EXCEPT !.op = op]
            \/ call'[c] = [NoCall EXCEPT !.op = "mutate", !.key = Selection(c, "mutate")]
        BY <2>1, <4>2 DEF Operations
      <4> QED BY <4>2, <4>3, <4>4, <4>5
    <3>2. CASE call[c].op = "mutate"
      <4>1. /\ call' = [call EXCEPT ![c] =
                 [NoCall EXCEPT !.op = "mutate", !.key = Selection(c, "mutate")]]
            /\ Goto(c, "process") /\ registry' = registry
        BY <3>2 DEF Failed
      <4>2. /\ call'[c] = [NoCall EXCEPT !.op = "mutate", !.key = Selection(c, "mutate")]
            /\ pc'[c] = "process"
        BY <4>1 DEF DTyped
      <4>3. pc' = [pc EXCEPT ![c] = pc'[c]] /\ call' = [call EXCEPT ![c] = call'[c]]
        BY <4>1, <4>2
      <4>4. registry' = registry
        BY <4>1
      <4>5. \/ \E op \in Operations : call'[c] = [NoCall EXCEPT !.op = op]
            \/ call'[c] = [NoCall EXCEPT !.op = "mutate", !.key = Selection(c, "mutate")]
        BY <2>1, <4>2 DEF Operations
      <4> QED BY <4>2, <4>3, <4>4, <4>5
    <3>3. CASE call[c].op = "generate"
      <4>1. /\ call' = [call EXCEPT ![c] = [NoCall EXCEPT !.op = call[c].op]]
            /\ Goto(c, "process") /\ registry' = registry
        BY <3>3 DEF Failed
      <4>2. call'[c] = [NoCall EXCEPT !.op = call[c].op] /\ pc'[c] = "process"
        BY <4>1 DEF DTyped
      <4>3. pc' = [pc EXCEPT ![c] = pc'[c]] /\ call' = [call EXCEPT ![c] = call'[c]]
        BY <4>1, <4>2
      <4>4. registry' = registry
        BY <4>1
      <4>5. \/ \E op \in Operations : call'[c] = [NoCall EXCEPT !.op = op]
            \/ call'[c] = [NoCall EXCEPT !.op = "mutate", !.key = Selection(c, "mutate")]
        BY <2>1, <4>2 DEF Operations
      <4> QED BY <4>2, <4>3, <4>4, <4>5
    <3>4. CASE call[c].op = "describe"
      <4>1. /\ call' = [call EXCEPT ![c] = [NoCall EXCEPT !.op = call[c].op]]
            /\ Goto(c, "process")
            /\ registry' = IF registry # 0 /\ companion[registry].alive THEN registry ELSE 0
        BY <3>4 DEF Failed
      <4>2. call'[c] = [NoCall EXCEPT !.op = call[c].op] /\ pc'[c] = "process"
        BY <4>1 DEF DTyped
      <4>3. pc' = [pc EXCEPT ![c] = pc'[c]] /\ call' = [call EXCEPT ![c] = call'[c]]
        BY <4>1, <4>2
      <4>4. registry' = registry \/ (registry' = 0 /\ ~companion[registry].alive)
        <5>1. CASE registry # 0 /\ companion[registry].alive
          BY <4>1, <5>1
        <5>2. CASE registry = 0
          BY <4>1, <5>2
        <5>3. CASE ~companion[registry].alive
          BY <4>1, <5>3
        <5> QED BY <5>1, <5>2, <5>3
      <4>5. \/ \E op \in Operations : call'[c] = [NoCall EXCEPT !.op = op]
            \/ call'[c] = [NoCall EXCEPT !.op = "mutate", !.key = Selection(c, "mutate")]
        BY <2>1, <4>2 DEF Operations
      <4> QED BY <4>2, <4>3, <4>4, <4>5
    <3> QED BY <2>1, <3>1, <3>2, <3>3, <3>4 DEF Operations
  <2>3. call'[c] \in Calls /\ call'[c].server = 0 /\ call'[c].op \in Operations
    BY <2>1, <2>2, Records DEF NoCall, Operations
  <2> QED BY <2>2, <2>3 DEF Failed
<1>2. Quiet(c)
  BY <1>1 DEF Failed, DTyped, Quiet, Others
<1>3. \A s \in Server : companion'[s].lock = companion[s].lock
  BY <1>1
<1>4. registry' \in 0 .. launched' /\ launched' \in 0 .. MaxServers
  BY <1>1 DEF DTyped
<1>5. startLock' \in Caller \cup {Nobody}
  BY <1>1 DEF DTyped
<1>6. companion' \in [Server -> Companions]
  BY <1>1 DEF DTyped
<1>7. pc' \in [Caller -> Places]
  BY <1>1 DEF DTyped, Places
<1>8. call' \in [Caller -> Calls]
  BY <1>1 DEF DTyped
<1>9. asked' \in [Caller -> Nat] /\ version' \in Version /\ effects' \in [Question -> Nat]
  BY <1>1 DEF Failed, DTyped, Version
<1>10. answer' \in [Caller -> Answers]
  BY <1>1, Records DEF Failed, DTyped
<1>11. DTyped'
  BY <1>4, <1>5, <1>6, <1>7, <1>8, <1>9, <1>10 DEF DTyped
<1>12. \A d \in Caller : startLock' = d <=> pc'[d] \in {"select", "launch"}
  BY NobodyAssumption, <1>1, <1>2 DEF Placed, Nobody, Quiet, Others
<1>13. \A d \in Caller : call'[d].server <= launched'
  BY CallPlaced, <1>1, <1>2 DEF Quiet, Others
<1>14. \A d \in Caller : pc'[d] \in {"queue", "write", "wait", "broken"} => call'[d].server # 0
  BY <1>1, <1>2 DEF Placed, Quiet, Others
<1>15. \A d \in Caller : pc'[d] # "idle" => call'[d].op \in Operations
  BY <1>1, <1>2 DEF Placed, Quiet, Others
<1>16. \A d \in Caller : pc'[d] = "launch" => registry' = 0
  BY <1>1, <1>2 DEF Placed, Quiet, Others
<1>17. \A s \in Server, d \in Caller :
        companion'[s].lock = d <=> pc'[d] \in {"write", "wait", "broken"} /\ call'[d].server = s
  BY NobodyAssumption, <1>1, <1>2, <1>3 DEF Placed, Nobody, Quiet, Others
<1>18. Placed'
  BY <1>12, <1>13, <1>14, <1>15, <1>16, <1>17 DEF Placed
<1>19. Emptied
  BY <1>1 DEF Numbered, Lines, Replies, Emptied
<1>20. Numbered' /\ Awaited' /\ Expected' /\ Earlier' /\ LinesUndone' /\ RepliesHarmless'
  BY <1>2, <1>19, QuietStep
<1>21. OneCompanion'
  BY <1>1 DEF OneCompanion
<1>22. AnswersOwn'
  BY <1>1, <1>2 DEF AnswersOwn, Of, Quiet, Others
<1>23. CallsUndone'
  BY <1>1, <1>2 DEF CallsUndone, Undone, Harmless, Of, Quiet, Others
<1>24. LaterUndone' /\ EffectsOnce'
  BY <1>1, <1>2 DEF LaterUndone, EffectsOnce, Quiet, Others
<1>25. Refusals'
  BY <1>1, <1>2, Pairs DEF Refusals, Closed, Quiet, Others
<1> QED BY <1>11, <1>18, <1>20, <1>21, <1>22, <1>23, <1>24, <1>25

(* The new line has the largest number of both pipes, and its caller waits *)
(* for that number.                                                        *)
LEMMA WriteKept ==
  ASSUME DInv, NEW c \in Caller, Write(c)
  PROVE  DInv'
<1> USE DEF DInv, shared, world, Goto, Done, Mishap
<1>1. /\ pc[c] = "write" /\ pc'[c] = IF Mine(c).alive THEN "wait" ELSE "broken"
      /\ call[c].server \in Server /\ companion[call[c].server].lock = c
      /\ call'[c] \in Calls /\ call'[c].server = call[c].server /\ call'[c].op = call[c].op
      /\ call'[c].id = Mine(c).sequence + 1
      /\ registry' = registry /\ startLock' = startLock /\ launched' = launched
      /\ asked' = asked /\ answer' = answer /\ lost' = lost /\ effects' = effects
      /\ refused' = refused
  <2>1. /\ call[c].server \in Server /\ companion[call[c].server].lock = c
        /\ call[c] \in Calls /\ companion[call[c].server] \in Companions
    BY CallPlaced DEF Write, Placed, DTyped
  <2>2. call'[c] = [call[c] EXCEPT !.id = Mine(c).sequence + 1] /\ Mine(c).sequence \in Nat
    BY <2>1 DEF Write, DTyped, Mine, Companions
  <2>3. /\ call'[c] \in Calls /\ call'[c].server = call[c].server /\ call'[c].op = call[c].op
        /\ call'[c].id = Mine(c).sequence + 1
    BY <2>1, <2>2 DEF Calls
  <2> QED BY <2>1, <2>3 DEF Write, DTyped
<1>2. /\ companion' \in [Server -> Companions]
      /\ \A t \in Server : t # call[c].server => companion'[t] = companion[t]
      /\ Mine(c).sequence \in Nat /\ companion'[call[c].server].sequence = Mine(c).sequence + 1
      /\ companion'[call[c].server].lock = Mine(c).lock
      /\ companion'[call[c].server].alive = Mine(c).alive
      /\ companion'[call[c].server].out = Mine(c).out
      /\ companion'[call[c].server].in =
           IF Mine(c).alive
           THEN Append(Mine(c).in, NewLine(c)) ELSE Mine(c).in
      /\ NewLine(c) \in Line /\ NewLine(c).id = Mine(c).sequence + 1 /\ NewLine(c).of = Of(c)
  <2> DEFINE s == call[c].server
  <2>1. /\ companion[s] \in Companions /\ companion \in [Server -> Companions] /\ s \in Server
        /\ call[c].op \in Operations /\ asked[c] \in Nat
    BY <1>1 DEF DTyped, Placed
  <2>2. NewLine(c) \in Line /\ NewLine(c).id = Mine(c).sequence + 1 /\ NewLine(c).of = Of(c)
    BY <2>1 DEF NewLine, Line, Of, Mine, Companions
  <2>3. companion[s].in \in Seq(Line) /\ companion[s].sequence \in Nat
    BY <2>1 DEF Companions
  <2> DEFINE input == IF Mine(c).alive THEN Append(Mine(c).in, NewLine(c)) ELSE Mine(c).in
  <2>4. input \in Seq(Line)
    BY <2>2, <2>3, PipeAppend DEF Mine
  <2> DEFINE new == [companion[s] EXCEPT !.sequence = Mine(c).sequence + 1, !.in = input]
  <2>5. companion' = [companion EXCEPT ![s] = new]
    BY <2>1 DEF Write, Mine, NewLine
  <2>6. /\ new \in Companions /\ new.sequence = Mine(c).sequence + 1 /\ new.lock = Mine(c).lock
        /\ new.alive = Mine(c).alive /\ new.out = Mine(c).out /\ new.in = input
    <3>1. Mine(c) = companion[s]
      BY DEF Mine
    <3>2. Mine(c).sequence + 1 \in Nat
      BY <2>3, <3>1
    <3> HIDE DEF input
    <3> QED BY <2>1, <2>4, <3>1, <3>2 DEF Companions
  <2> HIDE DEF new
  <2>7. companion' \in [Server -> Companions] /\ companion'[s] = new
    BY <2>1, <2>5, <2>6
  <2>8. \A t \in Server : t # s => companion'[t] = companion[t]
    BY <2>1, <2>5
  <2> QED BY <2>2, <2>3, <2>6, <2>7, <2>8 DEF Mine
<1>3. \A t \in Server :
        /\ Rising(companion'[t].in) /\ Rising(companion'[t].out) /\ Replies(t)' = Replies(t)
        /\ companion'[t].sequence = IF t = call[c].server THEN Mine(c).sequence + 1 ELSE companion[t].sequence
        /\ \/ Lines(t)' = Lines(t)
           \/ t = call[c].server /\ pc'[c] = "wait" /\ Lines(t)' = Lines(t) \cup {NewLine(c)}
  <2> SUFFICES ASSUME NEW t \in Server
               PROVE  /\ Rising(companion'[t].in) /\ Rising(companion'[t].out)
                      /\ Replies(t)' = Replies(t)
                      /\ companion'[t].sequence =
                           IF t = call[c].server THEN Mine(c).sequence + 1 ELSE companion[t].sequence
                      /\ \/ Lines(t)' = Lines(t)
                         \/ t = call[c].server /\ pc'[c] = "wait" /\ Lines(t)' = Lines(t) \cup {NewLine(c)}
    OBVIOUS
  <2>1. /\ Rising(companion[t].in) /\ Rising(companion[t].out) /\ companion[t].in \in Seq(Line)
        /\ \A l \in Lines(t) : l.id \in Nat /\ l.id <= companion[t].sequence
    BY PipeTypes DEF Numbered
  <2>2. CASE t # call[c].server
    BY <2>1, <2>2, <1>2 DEF Lines, Replies
  <2>3. CASE t = call[c].server /\ ~Mine(c).alive
    BY <2>1, <2>3, <1>2 DEF Lines, Replies, Mine
  <2>4. CASE t = call[c].server /\ Mine(c).alive
    <3>1. /\ companion'[t].in = Append(companion[t].in, NewLine(c))
          /\ companion'[t].out = companion[t].out
          /\ companion'[t].sequence = Mine(c).sequence + 1 /\ pc'[c] = "wait"
          /\ NewLine(c) \in Line /\ NewLine(c).id = companion[t].sequence + 1
          /\ companion[t].sequence \in Nat
      BY <2>4, <1>1, <1>2 DEF Mine
    <3>2. \A l \in Elems(companion[t].in) : l.id < NewLine(c).id
      BY <2>1, <3>1 DEF Lines
    <3>3. /\ Rising(Append(companion[t].in, NewLine(c)))
          /\ Elems(Append(companion[t].in, NewLine(c))) = Elems(companion[t].in) \cup {NewLine(c)}
      BY <2>1, <3>1, <3>2, PipeAppend
    <3> QED BY <2>1, <2>4, <3>1, <3>3 DEF Lines, Replies
  <2> QED BY <2>2, <2>3, <2>4
<1>4. Others(c)
  BY DEF Write, DTyped, Others
<1>5. registry' \in 0 .. launched' /\ launched' \in 0 .. MaxServers
  BY <1>1 DEF DTyped
<1>6. startLock' \in Caller \cup {Nobody}
  BY <1>1 DEF DTyped
<1>7. companion' \in [Server -> Companions]
  BY <1>2
<1>8. pc' \in [Caller -> Places]
  BY DEF Write, DTyped, Places
<1>9. call' \in [Caller -> Calls]
  BY <1>1 DEF Write, DTyped
<1>10. asked' \in [Caller -> Nat] /\ version' \in Version /\ effects' \in [Question -> Nat]
  BY <1>1 DEF Write, DTyped, Version
<1>11. answer' \in [Caller -> Answers]
  BY <1>1 DEF Write, DTyped
<1>12. DTyped'
  BY <1>5, <1>6, <1>7, <1>8, <1>9, <1>10, <1>11 DEF DTyped
<1>13. \A d \in Caller : startLock' = d <=> pc'[d] \in {"select", "launch"}
  BY NobodyAssumption, <1>1, <1>4 DEF Placed, Nobody, Others
<1>14. \A d \in Caller : call'[d].server <= launched'
  BY CallPlaced, <1>1, <1>4 DEF Others
<1>15. \A d \in Caller : pc'[d] \in {"queue", "write", "wait", "broken"} => call'[d].server # 0
  BY <1>1, <1>4 DEF Placed, Others
<1>16. \A d \in Caller : pc'[d] # "idle" => call'[d].op \in Operations
  BY <1>1, <1>4 DEF Placed, Others
<1>17. \A d \in Caller : pc'[d] = "launch" => registry' = 0
  BY <1>1, <1>4 DEF Placed, Others
<1>18. \A s \in Server, d \in Caller :
        companion'[s].lock = d <=> pc'[d] \in {"write", "wait", "broken"} /\ call'[d].server = s
  BY NobodyAssumption, <1>1, <1>2, <1>4 DEF Placed, Nobody, Others, Mine
<1>19. Placed'
  BY <1>13, <1>14, <1>15, <1>16, <1>17, <1>18 DEF Placed
<1>20. Numbered'
  <2> SUFFICES ASSUME NEW t \in Server
               PROVE  /\ \A l \in Lines(t)' : l.id <= companion'[t].sequence
                      /\ \A r \in Replies(t)' : r.id <= companion'[t].sequence
                      /\ \A l \in Lines(t)' : \A r \in Replies(t)' : r.id < l.id
    BY <1>3 DEF Numbered
  <2>1. /\ \A l \in Lines(t) : l.id \in Nat /\ l.id <= companion[t].sequence
        /\ \A r \in Replies(t) : r.id \in Nat /\ r.id <= companion[t].sequence
        /\ \A l \in Lines(t) : \A r \in Replies(t) : r.id < l.id
        /\ companion[t].sequence \in Nat
    BY PipeTypes DEF Numbered
  <2>2. CASE Lines(t)' = Lines(t)
    BY <2>1, <2>2, <1>3 DEF Mine
  <2>3. CASE t = call[c].server /\ Lines(t)' = Lines(t) \cup {NewLine(c)}
    <3>1. companion'[t].sequence = companion[t].sequence + 1 /\ NewLine(c).id = companion[t].sequence + 1
      BY <2>3, <1>3, <1>2 DEF Mine
    <3> QED BY <2>1, <2>3, <3>1, <1>3
  <2> QED BY <2>2, <2>3, <1>3
<1>21. Awaited'
  <2> SUFFICES ASSUME NEW d \in Caller, pc'[d] = "wait"
               PROVE  /\ call'[d].id = companion'[call'[d].server].sequence
                      /\ \A l \in Lines(call[d].server)' : l.id = call'[d].id => l.of = Of(d)'
                      /\ \A r \in Replies(call[d].server)' : r.id = call'[d].id => r.of = Of(d)'
    BY DEF Awaited

  <2>1. CASE d # c
    <3>1. /\ pc[d] = "wait" /\ call'[d] = call[d] /\ Of(d)' = Of(d) /\ call[d].server \in Server
      BY <2>1, CallPlaced, <1>4 DEF Others, Of
    <3>2. /\ call[d].id = companion[call[d].server].sequence
          /\ \A l \in Lines(call[d].server) : l.id = call[d].id => l.of = Of(d)
          /\ \A r \in Replies(call[d].server) : r.id = call[d].id => r.of = Of(d)
      BY <3>1 DEF Awaited
    <3>3. call[d].server # call[c].server
      BY <2>1, <3>1, <1>1, HeldAlone
    <3> DEFINE t == call[d].server
    <3>4. Lines(t)' = Lines(t) /\ Replies(t)' = Replies(t) /\ companion'[t].sequence = companion[t].sequence
      BY <3>1, <3>3, <1>2, <1>3 DEF Lines, Replies
    <3> QED BY <3>1, <3>2, <3>4

  <2>2. CASE d = c
    <3> DEFINE s == call[c].server
    <3>1. /\ s \in Server /\ call'[c].server = s /\ call'[c].id = companion[s].sequence + 1
          /\ companion'[s].sequence = companion[s].sequence + 1 /\ Of(c)' = Of(c)
          /\ companion[s].sequence \in Nat
      BY <1>1, <1>3, <1>2 DEF Mine, Of
    <3>2. /\ \A l \in Lines(s) : l.id \in Nat /\ l.id <= companion[s].sequence
          /\ \A r \in Replies(s) : r.id \in Nat /\ r.id <= companion[s].sequence
      BY <3>1, PipeTypes DEF Numbered
    <3>3. \A l \in Lines(s)' : l.id = companion[s].sequence + 1 => l.of = Of(c)
      <4>1. \A l \in Lines(s)' : l \in Lines(s) \/ l.of = Of(c)
        BY <3>1, <1>3, <1>2
      <4> QED BY <3>1, <3>2, <4>1
    <3>4. \A r \in Replies(s)' : r.id # companion[s].sequence + 1
      BY <3>1, <3>2, <1>3
    <3> QED BY <2>2, <3>1, <3>3, <3>4
  <2> QED BY <2>1, <2>2
<1>22. Expected'
  <2> SUFFICES ASSUME NEW t \in Server, NEW l \in Lines(t)' \cup Replies(t)', l.of \notin lost'
               PROVE  /\ pc'[l.of[1]] = "wait" /\ call'[l.of[1]].server = t
                      /\ call'[l.of[1]].id = l.id /\ asked'[l.of[1]] = l.of[2]
    BY DEF Expected, Due

  <2>1. CASE l \in Lines(t) \cup Replies(t) /\ l.of[1] # c
    <3>1. l.of \notin lost /\ l.of[1] \in Caller
      BY <2>1, <1>1, PipeTypes
    <3>2. Due(l, t)
      BY <2>1 DEF Expected
    <3> QED BY <2>1, <3>1, <3>2, <1>4 DEF Due, Others

  <2>2. CASE l \in Lines(t) \cup Replies(t) /\ l.of[1] = c
    <3>1. Due(l, t)
      BY <2>2 DEF Expected
    <3> QED BY <2>2, <3>1, <1>1 DEF Due
  <2>3. CASE t = call[c].server /\ pc'[c] = "wait" /\ l = NewLine(c)
    <3>1. l.of = <<c, asked[c]>> /\ l.id = Mine(c).sequence + 1
      BY <2>3, <1>2 DEF Of
    <3> QED BY <2>3, <3>1, <1>1
  <2> QED BY <2>1, <2>2, <2>3, <1>3
<1>23. Earlier'
  <2> SUFFICES ASSUME NEW t \in Server, NEW l \in Lines(t)' PROVE l.of[2] <= asked[l.of[1]]
    BY <1>1 DEF Earlier
  <2>1. CASE l \in Lines(t)
    BY <2>1 DEF Earlier
  <2>2. CASE l = NewLine(c)
    <3>1. l.of = <<c, asked[c]>> /\ asked[c] \in Nat
      BY <2>2, <1>2 DEF Of, DTyped
    <3> QED BY <3>1
  <2> QED BY <2>1, <2>2, <1>3
<1>24. LinesUndone'
  <2> SUFFICES ASSUME NEW t \in Server, NEW l \in Lines(t)', l.of \notin lost PROVE Undone(l.of)'
    BY <1>1 DEF LinesUndone
  <2>1. Undone(l.of)
    <3>1. CASE l \in Lines(t)
      BY <3>1 DEF LinesUndone
    <3>2. CASE l = NewLine(c)
      BY <3>2, <1>1, <1>2 DEF CallsUndone
    <3> QED BY <3>1, <3>2, <1>3
  <2> QED BY <2>1, <1>1 DEF Undone
<1>25. RepliesHarmless'
  BY <1>1, <1>3 DEF RepliesHarmless, Harmless, Undone
<1>26. OneCompanion'
  BY <1>2, <1>1 DEF OneCompanion, Mine
<1>27. AnswersOwn'
  BY <1>1, <1>4 DEF AnswersOwn, Of, Others
<1>28. CallsUndone'
  BY <1>1, <1>4 DEF CallsUndone, Undone, Harmless, Of, Others
<1>29. LaterUndone' /\ EffectsOnce'
  BY <1>1 DEF LaterUndone, EffectsOnce
<1>30. Refusals'
  BY <1>1, <1>4, Pairs DEF Refusals, Closed, Others
<1> QED BY <1>12, <1>19, <1>20, <1>21, <1>22, <1>23, <1>24, <1>25, <1>26, <1>27, <1>28, <1>29, <1>30

(* The line read is the oldest reply: either it is of the number the       *)
(* caller waits for, and of its question, or it is of a question an        *)
(* attempt of which was lost.                                              *)
LEMMA ReadKept ==
  ASSUME DInv, NEW c \in Caller, Read(c)
  PROVE  DInv'
<1> USE DEF DInv, shared, world, Goto, Done, Mishap
<1>1. /\ pc[c] = "wait" /\ Mine(c).out # <<>>
      /\ call[c].server \in Server /\ companion[call[c].server].lock = c
      /\ call' = call /\ registry' = registry /\ startLock' = startLock /\ launched' = launched
      /\ asked' = asked /\ lost' = lost /\ effects' = effects
      /\ IF Head(Mine(c).out).id = call[c].id
         THEN /\ answer'[c] = [of |-> Head(Mine(c).out).of, verdict |-> Head(Mine(c).out).verdict]
              /\ pc'[c] = "answered"
              /\ refused' = refused \/ (/\ Head(Mine(c).out).verdict = "rejected"
                                        /\ refused' = refused \cup {Head(Mine(c).out).of})
         ELSE answer' = answer /\ pc' = pc /\ refused' = refused
  <2>1. /\ call[c].server \in Server /\ companion[call[c].server].lock = c
    BY CallPlaced DEF Read, Placed
  <2>2. pc[c] = "wait" /\ Mine(c).out # <<>>
    BY DEF Read
  <2>3. CASE Head(Mine(c).out).id = call[c].id
    BY <2>1, <2>2, <2>3 DEF Read, DTyped
  <2>4. CASE Head(Mine(c).out).id # call[c].id
    BY <2>1, <2>2, <2>4 DEF Read
  <2> QED BY <2>3, <2>4
<1>2. /\ companion' \in [Server -> Companions]
      /\ \A t \in Server : t # call[c].server => companion'[t] = companion[t]
      /\ companion'[call[c].server].sequence = Mine(c).sequence
      /\ companion'[call[c].server].lock = IF Head(Mine(c).out).id = call[c].id THEN Nobody ELSE c
      /\ companion'[call[c].server].alive = Mine(c).alive
      /\ companion'[call[c].server].out = Tail(Mine(c).out)
      /\ companion'[call[c].server].in = Mine(c).in
  <2> DEFINE s == call[c].server
  <2> DEFINE lock == IF Head(Mine(c).out).id = call[c].id THEN Nobody ELSE c
  <2>1. companion[s] \in Companions /\ companion \in [Server -> Companions] /\ s \in Server
    BY <1>1 DEF DTyped
  <2>2. companion[s].out \in Seq(Reply) /\ companion[s].lock = c /\ companion[s].out # <<>>
    BY <2>1, <1>1 DEF Companions, Mine
  <2>3. Tail(companion[s].out) \in Seq(Reply)
    BY <2>2, PipeTail
  <2> DEFINE new == [companion[s] EXCEPT !.out = Tail(companion[s].out), !.lock = lock]
  <2>4. companion' = [companion EXCEPT ![s] = new]
    BY <2>1, <2>2 DEF Read, Mine
  <2>5. /\ new \in Companions /\ new.sequence = Mine(c).sequence /\ new.lock = lock
        /\ new.alive = Mine(c).alive /\ new.out = Tail(Mine(c).out) /\ new.in = Mine(c).in
    <3>1. lock \in Caller \cup {Nobody}
      OBVIOUS
    <3> HIDE DEF lock
    <3> QED BY <2>1, <2>3, <3>1 DEF Companions, Mine
  <2> HIDE DEF new
  <2>6. companion' \in [Server -> Companions] /\ companion'[s] = new
    BY <2>1, <2>4, <2>5
  <2>7. \A t \in Server : t # s => companion'[t] = companion[t]
    BY <2>1, <2>4
  <2> QED BY <2>5, <2>6, <2>7
<1>3. /\ \A t \in Server :
           /\ Rising(companion'[t].in) /\ Rising(companion'[t].out) /\ Lines(t)' = Lines(t)
           /\ companion'[t].sequence = companion[t].sequence /\ Replies(t)' \subseteq Replies(t)
      /\ Head(Mine(c).out) \in Replies(call[c].server)
      /\ Head(Mine(c).out).of \in Caller \X Nat /\ Head(Mine(c).out).verdict \in Verdicts
      /\ Head(Mine(c).out).id \in Nat
      /\ \A r \in Replies(call[c].server)' : Head(Mine(c).out).id < r.id
  <2> DEFINE s == call[c].server
  <2>1. /\ s \in Server /\ Mine(c).out \in Seq(Reply) /\ Mine(c).out # <<>>
        /\ Mine(c) = companion[s]
    BY <1>1, PipeTypes DEF Mine
  <2>2. /\ Head(Mine(c).out) \in Reply /\ Head(Mine(c).out) \in Elems(Mine(c).out)
        /\ Elems(Tail(Mine(c).out)) \subseteq Elems(Mine(c).out)
        /\ Rising(Mine(c).out) =>
             /\ Rising(Tail(Mine(c).out))
             /\ \A r \in Elems(Tail(Mine(c).out)) : Head(Mine(c).out).id < r.id
    BY <2>1, PipeTail
  <2>3. Rising(Mine(c).out)
    BY <2>1 DEF Numbered
  <2>4. /\ Head(Mine(c).out) \in Replies(s) /\ Head(Mine(c).out).of \in Caller \X Nat
        /\ Head(Mine(c).out).verdict \in Verdicts /\ Head(Mine(c).out).id \in Nat
    BY <2>1, <2>2 DEF Reply, Replies
  <2>5. \A r \in Replies(s)' : Head(Mine(c).out).id < r.id
    BY <2>2, <2>3, <1>2, <1>1 DEF Replies
  <2>6. ASSUME NEW t \in Server
        PROVE  /\ Rising(companion'[t].in) /\ Rising(companion'[t].out) /\ Lines(t)' = Lines(t)
               /\ companion'[t].sequence = companion[t].sequence /\ Replies(t)' \subseteq Replies(t)
    <3>1. CASE t = s
      BY <2>1, <2>2, <2>3, <3>1, <1>2 DEF Lines, Replies, Numbered
    <3>2. CASE t # s
      BY <3>2, <1>2 DEF Lines, Replies, Numbered
    <3> QED BY <3>1, <3>2
  <2>7. call'[c].server = s
    BY <1>1
  <2> QED BY <2>4, <2>5, <2>6
<1>4. Others(c)
  BY DEF Read, DTyped, Others
<1>5. registry' \in 0 .. launched' /\ launched' \in 0 .. MaxServers
  BY <1>1 DEF DTyped
<1>6. startLock' \in Caller \cup {Nobody}
  BY <1>1 DEF DTyped
<1>7. companion' \in [Server -> Companions]
  BY <1>2
<1>8. pc' \in [Caller -> Places]
  BY DEF Read, DTyped, Places
<1>9. call' \in [Caller -> Calls]
  BY <1>1 DEF Read, DTyped
<1>10. asked' \in [Caller -> Nat] /\ version' \in Version /\ effects' \in [Question -> Nat]
  BY <1>1 DEF Read, DTyped, Version
<1>11. answer' \in [Caller -> Answers]
  <2>1. CASE Head(Mine(c).out).id # call[c].id
    BY <2>1, <1>1 DEF DTyped
  <2>2. CASE Head(Mine(c).out).id = call[c].id
    <3>1. [of |-> Head(Mine(c).out).of, verdict |-> Head(Mine(c).out).verdict] \in Answers
      BY <1>3 DEF Answers
    <3>2. answer' = [answer EXCEPT ![c] = [of |-> Head(Mine(c).out).of, verdict |-> Head(Mine(c).out).verdict]]
      BY <2>2 DEF Read
    <3> QED BY <3>1, <3>2 DEF DTyped
  <2> QED BY <2>1, <2>2
<1>12. DTyped'
  BY <1>5, <1>6, <1>7, <1>8, <1>9, <1>10, <1>11 DEF DTyped
<1>13. \A d \in Caller : startLock' = d <=> pc'[d] \in {"select", "launch"}
  BY NobodyAssumption, <1>1, <1>4 DEF Placed, Nobody, Others
<1>14. \A d \in Caller : call'[d].server <= launched'
  BY CallPlaced, <1>1, <1>4 DEF Others
<1>15. \A d \in Caller : pc'[d] \in {"queue", "write", "wait", "broken"} => call'[d].server # 0
  BY <1>1, <1>4 DEF Placed, Others
<1>16. \A d \in Caller : pc'[d] # "idle" => call'[d].op \in Operations
  BY <1>1, <1>4 DEF Placed, Others
<1>17. \A d \in Caller : pc'[d] = "launch" => registry' = 0
  BY <1>1, <1>4 DEF Placed, Others
<1>18. \A s \in Server, d \in Caller :
        companion'[s].lock = d <=> pc'[d] \in {"write", "wait", "broken"} /\ call'[d].server = s
  BY NobodyAssumption, <1>1, <1>2, <1>4 DEF Placed, Nobody, Others, Mine
<1>19. Placed'
  BY <1>13, <1>14, <1>15, <1>16, <1>17, <1>18 DEF Placed
<1>20. Numbered'
  BY <1>3 DEF Numbered
<1>21. Awaited'
  <2> SUFFICES ASSUME NEW d \in Caller, pc'[d] = "wait"
               PROVE  /\ call'[d].id = companion'[call'[d].server].sequence
                      /\ \A l \in Lines(call[d].server)' : l.id = call'[d].id => l.of = Of(d)'
                      /\ \A r \in Replies(call[d].server)' : r.id = call'[d].id => r.of = Of(d)'
    BY DEF Awaited

  <2>1. CASE d # c
    <3>1. /\ pc[d] = "wait" /\ call'[d] = call[d] /\ Of(d)' = Of(d) /\ call[d].server \in Server
      BY <2>1, CallPlaced, <1>4 DEF Others, Of
    <3>2. /\ call[d].id = companion[call[d].server].sequence
          /\ \A l \in Lines(call[d].server) : l.id = call[d].id => l.of = Of(d)
          /\ \A r \in Replies(call[d].server) : r.id = call[d].id => r.of = Of(d)
      BY <3>1 DEF Awaited
    <3>3. call[d].server # call[c].server
      BY <2>1, <3>1, <1>1, HeldAlone
    <3> DEFINE t == call[d].server
    <3>4. Lines(t)' = Lines(t) /\ Replies(t)' = Replies(t) /\ companion'[t].sequence = companion[t].sequence
      BY <3>1, <3>3, <1>2, <1>3 DEF Lines, Replies
    <3> QED BY <3>1, <3>2, <3>4

  <2>2. CASE d = c
    <3> DEFINE s == call[c].server
    <3>1. /\ s \in Server /\ call' = call /\ Of(c)' = Of(c) /\ pc[c] = "wait"
      BY <1>1 DEF Of
    <3>2. Lines(s)' = Lines(s) /\ Replies(s)' \subseteq Replies(s) /\ companion'[s].sequence = companion[s].sequence
      BY <3>1, <1>3
    <3>3. /\ call[c].id = companion[s].sequence
          /\ \A l \in Lines(s) : l.id = call[c].id => l.of = Of(c)
          /\ \A r \in Replies(s) : r.id = call[c].id => r.of = Of(c)
      BY <3>1 DEF Awaited
    <3> QED BY <2>2, <3>1, <3>2, <3>3
  <2> QED BY <2>1, <2>2
<1>22. Expected'
  <2> SUFFICES ASSUME NEW t \in Server, NEW l \in Lines(t)' \cup Replies(t)', l.of \notin lost'
               PROVE  /\ pc'[l.of[1]] = "wait" /\ call'[l.of[1]].server = t
                      /\ call'[l.of[1]].id = l.id /\ asked'[l.of[1]] = l.of[2]
    BY DEF Expected, Due

  <2>0. l \in Lines(t) \cup Replies(t)
    BY <1>3

  <2>1. CASE l \in Lines(t) \cup Replies(t) /\ l.of[1] # c
    <3>1. l.of \notin lost /\ l.of[1] \in Caller
      BY <2>1, <1>1, PipeTypes
    <3>2. Due(l, t)
      BY <2>1 DEF Expected
    <3> QED BY <2>1, <3>1, <3>2, <1>4 DEF Due, Others

  <2>2. CASE l.of[1] = c
    <3>1. Due(l, t)
      BY <2>0 DEF Expected
    <3>2. call[c].server = t /\ call[c].id = l.id /\ asked[c] = l.of[2] /\ l.id \in Nat
      BY <2>0, <2>2, <3>1, <1>1, PipeTypes DEF Due
    <3>3. Head(Mine(c).out).id # call[c].id
      <4>1. CASE l \in Lines(t)'
        <5>1. l \in Lines(t) /\ Head(Mine(c).out) \in Replies(t)
          BY <3>2, <4>1, <1>3
        <5>2. Head(Mine(c).out).id < l.id
          BY <5>1 DEF Numbered
        <5> QED BY <3>2, <5>2, <1>3
      <4>2. CASE l \in Replies(t)'
        BY <3>2, <4>2, <1>3, <1>1
      <4> QED BY <4>1, <4>2
    <3> QED BY <2>2, <3>2, <3>3, <1>1
  <2> QED BY <2>0, <2>1, <2>2
<1>23. Earlier'
  BY <1>1, <1>3 DEF Earlier
<1>24. LinesUndone'
  BY <1>1, <1>3 DEF LinesUndone, Undone
<1>25. RepliesHarmless'
  BY <1>1, <1>3 DEF RepliesHarmless, Harmless, Undone
<1>26. OneCompanion'
  BY <1>2, <1>1 DEF OneCompanion, Mine
<1>27. AnswersOwn'
  <2>1. Head(Mine(c).out).id = call[c].id => Head(Mine(c).out).of = Of(c)
    BY <1>1, <1>3 DEF Awaited
  <2>2. Of(c)' = Of(c)
    BY <1>1 DEF Of
  <2> QED BY <2>1, <2>2, <1>1, <1>4 DEF AnswersOwn, Of, Others
<1>28. CallsUndone'
  <2>1. Head(Mine(c).out).id = call[c].id => Head(Mine(c).out).of = Of(c)
    BY <1>1, <1>3 DEF Awaited
  <2>2. Of(c)' = Of(c)
    BY <1>1 DEF Of

  <2> SUFFICES ASSUME NEW d \in Caller, Of(d)' \notin lost'
               PROVE  /\ pc'[d] \notin {"idle", "wait", "answered"} => Undone(Of(d))'
                      /\ pc'[d] = "answered" => Harmless(Of(d), answer[d].verdict)'
    BY DEF CallsUndone
  <2>3. CASE d # c
    BY <2>3, <1>1, <1>4 DEF CallsUndone, Undone, Harmless, Of, Others
  <2>4. CASE d = c /\ Head(Mine(c).out).id # call[c].id
    BY <2>4, <1>1
  <2>5. CASE d = c /\ Head(Mine(c).out).id = call[c].id
    <3>1. Harmless(Of(c), Head(Mine(c).out).verdict)
      BY <2>1, <2>2, <2>5, <1>1, <1>3 DEF RepliesHarmless
    <3> QED BY <2>2, <2>5, <3>1, <1>1 DEF Harmless, Undone
  <2> QED BY <2>3, <2>4, <2>5
<1>29. LaterUndone' /\ EffectsOnce'
  BY <1>1 DEF LaterUndone, EffectsOnce
<1>30. Refusals'
  <2>1. Head(Mine(c).out).id = call[c].id => Head(Mine(c).out).of = Of(c)
    BY <1>1, <1>3 DEF Awaited
  <2>2. Of(c)' = Of(c)
    BY <1>1 DEF Of

  <2>3. refused' \subseteq Caller \X Nat
    BY <1>1, <1>3 DEF Refusals
  <2>4. ASSUME NEW q \in refused', q \notin lost'
        PROVE  Closed(q)'
    <3>1. q[1] \in Caller
      BY <2>3, <2>4, Pairs
    <3>2. CASE q \in refused
      <4>1. Closed(q) /\ q \notin lost
        BY <2>4, <3>2, <1>1 DEF Refusals
      <4> QED BY <3>1, <4>1, <1>1, <1>4 DEF Closed, Others
    <3>3. CASE q \notin refused
      <4>1. /\ q = Of(c) /\ pc'[c] = "answered" /\ answer'[c].verdict = "rejected" /\ asked' = asked
        BY <2>1, <2>4, <3>3, <1>1
      <4> QED BY <4>1 DEF Closed, Of
    <3> QED BY <3>2, <3>3
  <2> QED BY <2>3, <2>4 DEF Refusals
<1> QED BY <1>12, <1>19, <1>20, <1>21, <1>22, <1>23, <1>24, <1>25, <1>26, <1>27, <1>28, <1>29, <1>30

(* A caller that gives up counts its question as lost: what is left in the *)
(* pipes is of lost questions.                                             *)
LEMMA NoAnswerComesKept ==
  ASSUME DInv, NEW c \in Caller, NoAnswerComes(c)
  PROVE  DInv'
<1> USE DEF DInv, shared, world, Goto, Done, Mishap
<1>1. /\ pc[c] \in {"wait", "broken"} /\ pc'[c] = "failed"
      /\ call[c].server \in Server /\ companion[call[c].server].lock = c
      /\ call' = call /\ registry' = registry /\ startLock' = startLock /\ launched' = launched
      /\ asked' = asked /\ answer' = answer /\ effects' = effects /\ refused' = refused
      /\ lost' = lost \cup {Of(c)}
  <2>1. call[c].server \in Server /\ companion[call[c].server].lock = c
    BY CallPlaced DEF NoAnswerComes, Placed
  <2> QED BY <2>1 DEF NoAnswerComes, DTyped
<1>2. /\ companion' \in [Server -> Companions]
      /\ \A t \in Server : t # call[c].server => companion'[t] = companion[t]
      /\ companion'[call[c].server].sequence = Mine(c).sequence
      /\ companion'[call[c].server].lock = Nobody
      /\ companion'[call[c].server].alive = Mine(c).alive
      /\ companion'[call[c].server].out = Mine(c).out
      /\ companion'[call[c].server].in = Mine(c).in
  BY <1>1, CallPlaced DEF NoAnswerComes, DTyped, Companions, Line, Mine
<1>3. \A t \in Server :
        /\ companion'[t].in = companion[t].in /\ companion'[t].out = companion[t].out
        /\ companion'[t].sequence = companion[t].sequence
        /\ Lines(t)' = Lines(t) /\ Replies(t)' = Replies(t)
  BY <1>2 DEF Lines, Replies, Mine
<1>4. Others(c)
  BY DEF NoAnswerComes, DTyped, Others
<1>5. registry' \in 0 .. launched' /\ launched' \in 0 .. MaxServers
  BY <1>1 DEF DTyped
<1>6. startLock' \in Caller \cup {Nobody}
  BY <1>1 DEF DTyped
<1>7. companion' \in [Server -> Companions]
  BY <1>2
<1>8. pc' \in [Caller -> Places]
  BY DEF NoAnswerComes, DTyped, Places
<1>9. call' \in [Caller -> Calls]
  BY <1>1 DEF NoAnswerComes, DTyped
<1>10. asked' \in [Caller -> Nat] /\ version' \in Version /\ effects' \in [Question -> Nat]
  BY <1>1 DEF NoAnswerComes, DTyped, Version
<1>11. answer' \in [Caller -> Answers]
  BY <1>1 DEF NoAnswerComes, DTyped
<1>12. DTyped'
  BY <1>5, <1>6, <1>7, <1>8, <1>9, <1>10, <1>11 DEF DTyped
<1>13. \A d \in Caller : startLock' = d <=> pc'[d] \in {"select", "launch"}
  BY NobodyAssumption, <1>1, <1>4 DEF Placed, Nobody, Others
<1>14. \A d \in Caller : call'[d].server <= launched'
  BY CallPlaced, <1>1, <1>4 DEF Others
<1>15. \A d \in Caller : pc'[d] \in {"queue", "write", "wait", "broken"} => call'[d].server # 0
  BY <1>1, <1>4 DEF Placed, Others
<1>16. \A d \in Caller : pc'[d] # "idle" => call'[d].op \in Operations
  BY <1>1, <1>4 DEF Placed, Others
<1>17. \A d \in Caller : pc'[d] = "launch" => registry' = 0
  BY <1>1, <1>4 DEF Placed, Others
<1>18. \A s \in Server, d \in Caller :
        companion'[s].lock = d <=> pc'[d] \in {"write", "wait", "broken"} /\ call'[d].server = s
  BY NobodyAssumption, <1>1, <1>2, <1>4 DEF Placed, Nobody, Others, Mine
<1>19. Placed'
  BY <1>13, <1>14, <1>15, <1>16, <1>17, <1>18 DEF Placed
<1>20. Numbered'
  BY <1>3 DEF Numbered
<1>21. Awaited'
  <2> SUFFICES ASSUME NEW d \in Caller, pc'[d] = "wait"
               PROVE  /\ call'[d].id = companion'[call'[d].server].sequence
                      /\ \A l \in Lines(call[d].server)' : l.id = call'[d].id => l.of = Of(d)'
                      /\ \A r \in Replies(call[d].server)' : r.id = call'[d].id => r.of = Of(d)'
    BY DEF Awaited

  <2>1. CASE d # c
    <3>1. /\ pc[d] = "wait" /\ call'[d] = call[d] /\ Of(d)' = Of(d) /\ call[d].server \in Server
      BY <2>1, CallPlaced, <1>4 DEF Others, Of
    <3>2. /\ call[d].id = companion[call[d].server].sequence
          /\ \A l \in Lines(call[d].server) : l.id = call[d].id => l.of = Of(d)
          /\ \A r \in Replies(call[d].server) : r.id = call[d].id => r.of = Of(d)
      BY <3>1 DEF Awaited
    <3>3. call[d].server # call[c].server
      BY <2>1, <3>1, <1>1, HeldAlone
    <3> DEFINE t == call[d].server
    <3>4. Lines(t)' = Lines(t) /\ Replies(t)' = Replies(t) /\ companion'[t].sequence = companion[t].sequence
      BY <3>1, <3>3, <1>2, <1>3 DEF Lines, Replies
    <3> QED BY <3>1, <3>2, <3>4
  <2> QED BY <2>1, <1>1
<1>22. Expected'
  <2> SUFFICES ASSUME NEW t \in Server, NEW l \in Lines(t)' \cup Replies(t)', l.of \notin lost'
               PROVE  /\ pc'[l.of[1]] = "wait" /\ call'[l.of[1]].server = t
                      /\ call'[l.of[1]].id = l.id /\ asked'[l.of[1]] = l.of[2]
    BY DEF Expected, Due

  <2>0. l \in Lines(t) \cup Replies(t)
    BY <1>3

  <2>1. CASE l \in Lines(t) \cup Replies(t) /\ l.of[1] # c
    <3>1. l.of \notin lost /\ l.of[1] \in Caller
      BY <2>1, <1>1, PipeTypes
    <3>2. Due(l, t)
      BY <2>1 DEF Expected
    <3> QED BY <2>1, <3>1, <3>2, <1>4 DEF Due, Others

  <2>2. CASE l.of[1] = c
    <3>1. Due(l, t) /\ l.of = <<l.of[1], l.of[2]>>
      BY <2>0, PipeTypes DEF Expected
    <3> QED BY <2>2, <3>1, <1>1 DEF Due, Of
  <2> QED BY <2>0, <2>1, <2>2
<1>23. Earlier'
  BY <1>1, <1>3 DEF Earlier
<1>24. LinesUndone'
  BY <1>1, <1>3 DEF LinesUndone, Undone
<1>25. RepliesHarmless'
  BY <1>1, <1>3 DEF RepliesHarmless, Harmless, Undone
<1>26. OneCompanion'
  BY <1>2, <1>1 DEF OneCompanion, Mine
<1>27. AnswersOwn'
  BY <1>1, <1>4 DEF AnswersOwn, Of, Others
<1>28. CallsUndone'
  BY <1>1, <1>4 DEF CallsUndone, Undone, Harmless, Of, Others
<1>29. LaterUndone' /\ EffectsOnce'
  BY <1>1 DEF LaterUndone, EffectsOnce
<1>30. Refusals'
  BY <1>1, <1>4, Pairs DEF Refusals, Closed, Others
<1> QED BY <1>12, <1>19, <1>20, <1>21, <1>22, <1>23, <1>24, <1>25, <1>26, <1>27, <1>28, <1>29, <1>30

(* A process carries out a question no line of which is on its way, unless *)
(* one was lost.                                                           *)
LEMMA ProcessKept ==
  ASSUME DInv, NEW c \in Caller, Process(c)
  PROVE  DInv'
<1> USE DEF DInv, shared, world, Goto, Done, Mishap
<1>1. /\ pc[c] = "process" /\ call'[c] \in Calls /\ call'[c].server = 0
      /\ companion' = companion /\ registry' = registry /\ startLock' = startLock
      /\ launched' = launched
      /\ asked' = asked /\ answer' = answer /\ refused' = refused
      /\ \/ pc'[c] = "idle"
         \/ pc'[c] = "process" /\ call'[c].op = call[c].op /\ (effects' = effects \/ Of(c) \in lost')
      /\ effects' = effects \/ effects' = [effects EXCEPT ![Of(c)] = @ + 1]
      /\ lost' = lost \/ lost' = lost \cup {Of(c)}
  <2>1. pc[c] = "process" /\ call[c].op \in Operations
    BY DEF Process, Placed
  <2>2. PICK verdict \in {"ok", "rejected", "garbled"} :
          /\ effects' = IF Carried(call[c].op, verdict) THEN [effects EXCEPT ![Of(c)] = @ + 1] ELSE effects
          /\ IF verdict = "garbled" THEN Mishap /\ lost' = lost \cup {Of(c)} ELSE UNCHANGED <<mishaps, lost>>
          /\ IF verdict # "ok" /\ call[c].key[1] = "compiled"
             THEN /\ rejected' = Rejection(c, "mutate")
                  /\ call' = [call EXCEPT ![c] = [NoCall EXCEPT !.op = call[c].op]]
                  /\ UNCHANGED pc
             ELSE Done(c) /\ UNCHANGED rejected
    BY DEF Process
  <2>3. CASE verdict # "ok" /\ call[c].key[1] = "compiled"
    <3>1. call'[c] = [NoCall EXCEPT !.op = call[c].op] /\ pc' = pc
      BY <2>2, <2>3 DEF DTyped
    <3>2. call'[c] \in Calls
      BY <2>1, <3>1, Records
    <3>3. call'[c].op = call[c].op /\ call'[c].server = 0
      BY <3>1 DEF NoCall
    <3>4. verdict = "rejected" \/ verdict = "garbled"
      BY <2>3
    <3>5. effects' = effects \/ Of(c) \in lost'
      BY <2>2, <3>4 DEF Carried
    <3> QED BY <2>1, <2>2, <3>1, <3>2, <3>3, <3>5 DEF Process
  <2>4. CASE ~(verdict # "ok" /\ call[c].key[1] = "compiled")
    <3>1. call'[c] = NoCall /\ pc'[c] = "idle"
      BY <2>2, <2>4 DEF DTyped
    <3>2. call'[c] \in Calls
      BY <3>1, Records
    <3>3. call'[c].server = 0
      BY <3>1 DEF NoCall
    <3> QED BY <2>1, <2>2, <3>1, <3>2, <3>3 DEF Process
  <2> QED BY <2>3, <2>4
<1>2. Others(c)
  BY DEF Process, DTyped, Others
<1>3. registry' \in 0 .. launched' /\ launched' \in 0 .. MaxServers
  BY <1>1 DEF DTyped
<1>4. startLock' \in Caller \cup {Nobody}
  BY <1>1 DEF DTyped
<1>5. companion' \in [Server -> Companions]
  BY <1>1 DEF DTyped
<1>6. pc' \in [Caller -> Places]
  BY DEF Process, DTyped, Places
<1>7. call' \in [Caller -> Calls]
  BY <1>1 DEF Process, DTyped
<1>8. asked' \in [Caller -> Nat] /\ version' \in Version /\ effects' \in [Question -> Nat]
  <2>1. effects \in [Question -> Nat] /\ \A q \in Question : effects[q] + 1 \in Nat
    BY DEF DTyped
  <2>2. effects' \in [Question -> Nat]
    BY <2>1, <1>1
  <2> QED BY <2>2, <1>1 DEF Process, DTyped
<1>9. answer' \in [Caller -> Answers]
  BY <1>1 DEF Process, DTyped
<1>10. DTyped'
  BY <1>3, <1>4, <1>5, <1>6, <1>7, <1>8, <1>9 DEF DTyped
<1>11. \A d \in Caller : startLock' = d <=> pc'[d] \in {"select", "launch"}
  BY NobodyAssumption, <1>1, <1>2 DEF Placed, Nobody, Others
<1>12. \A d \in Caller : call'[d].server <= launched'
  BY CallPlaced, <1>1, <1>2 DEF Others
<1>13. \A d \in Caller : pc'[d] \in {"queue", "write", "wait", "broken"} => call'[d].server # 0
  BY <1>1, <1>2 DEF Placed, Others
<1>14. \A d \in Caller : pc'[d] # "idle" => call'[d].op \in Operations
  BY <1>1, <1>2 DEF Placed, Others
<1>15. \A d \in Caller : pc'[d] = "launch" => registry' = 0
  BY <1>1, <1>2 DEF Placed, Others
<1>16. \A s \in Server, d \in Caller :
        companion'[s].lock = d <=> pc'[d] \in {"write", "wait", "broken"} /\ call'[d].server = s
  BY NobodyAssumption, <1>1, <1>2 DEF Placed, Nobody, Others
<1>17. Placed'
  BY <1>11, <1>12, <1>13, <1>14, <1>15, <1>16 DEF Placed
<1>18. Numbered'
  BY <1>1 DEF Numbered, Lines, Replies
<1>19. Awaited'
  BY <1>1, <1>2 DEF Awaited, Others, Of, Lines, Replies
<1>20. Expected'
  <2> SUFFICES ASSUME NEW t \in Server, NEW l \in Lines(t)' \cup Replies(t)', l.of \notin lost'
               PROVE  /\ pc'[l.of[1]] = "wait" /\ call'[l.of[1]].server = t
                      /\ call'[l.of[1]].id = l.id /\ asked'[l.of[1]] = l.of[2]
    BY DEF Expected, Due

  <2>0. l \in Lines(t) \cup Replies(t)
    BY <1>1 DEF Lines, Replies

  <2>1. CASE l \in Lines(t) \cup Replies(t) /\ l.of[1] # c
    <3>1. l.of \notin lost /\ l.of[1] \in Caller
      BY <2>1, <1>1, PipeTypes
    <3>2. Due(l, t)
      BY <2>1 DEF Expected
    <3> QED BY <2>1, <3>1, <3>2, <1>2 DEF Due, Others

  <2>2. CASE l.of[1] = c
    <3>1. Due(l, t)
      BY <2>0 DEF Expected
    <3> QED BY <2>2, <3>1, <1>1 DEF Due
  <2> QED BY <2>0, <2>1, <2>2
<1>21. Earlier'
  BY <1>1 DEF Earlier, Lines
<1>22. LinesUndone'
  <2>1. ASSUME NEW t \in Server, NEW l \in Lines(t) \cup Replies(t), l.of \notin lost, Undone(l.of)
        PROVE  Undone(l.of)'
    <3>1. Due(l, t)
      BY <2>1 DEF Expected
    <3>2. l.of # Of(c)
      BY <2>1, <3>1, <1>1 DEF Due, Of
    <3> QED BY <2>1, <3>2, <1>1 DEF Undone, DTyped
  <2> QED BY <2>1, <1>1 DEF LinesUndone, Lines
<1>23. RepliesHarmless'
  <2>1. ASSUME NEW t \in Server, NEW l \in Lines(t) \cup Replies(t), l.of \notin lost, Undone(l.of)
        PROVE  Undone(l.of)'
    <3>1. Due(l, t)
      BY <2>1 DEF Expected
    <3>2. l.of # Of(c)
      BY <2>1, <3>1, <1>1 DEF Due, Of
    <3> QED BY <2>1, <3>2, <1>1 DEF Undone, DTyped
  <2> QED BY <2>1, <1>1 DEF RepliesHarmless, Harmless, Replies
<1>24. OneCompanion'
  BY <1>1 DEF OneCompanion
<1>25. AnswersOwn'
  BY <1>1, <1>2 DEF AnswersOwn, Of, Others
<1>26. CallsUndone'
  <2> SUFFICES ASSUME NEW d \in Caller, Of(d)' \notin lost'
               PROVE  /\ pc'[d] \notin {"idle", "wait", "answered"} => Undone(Of(d))'
                      /\ pc'[d] = "answered" => Harmless(Of(d), answer[d].verdict)'
    BY DEF CallsUndone
  <2>0. Of(d)' = Of(d) /\ Of(d) \notin lost
    BY <1>1 DEF Of
  <2>1. CASE d # c
    <3>1. Of(d) # Of(c)
      BY <2>1 DEF Of
    <3>2. Undone(Of(d)) => Undone(Of(d))'
      BY <2>0, <3>1, <1>1 DEF Undone, DTyped
    <3>3. pc'[d] = pc[d] /\ answer'[d] = answer[d]
      BY <2>1, <1>2 DEF Others
    <3> QED BY <2>0, <3>2, <3>3 DEF CallsUndone, Harmless
  <2>2. CASE d = c
    BY <2>0, <2>2, <1>1 DEF CallsUndone, Undone
  <2> QED BY <2>1, <2>2
<1>27. LaterUndone' /\ EffectsOnce'
  <2>1. LaterUndone'
    <3> SUFFICES ASSUME NEW q \in Question, q[2] > asked[q[1]] PROVE effects'[q] = 0
      BY <1>1 DEF LaterUndone
    <3>1. effects[q] = 0
      BY DEF LaterUndone
    <3>2. q # Of(c)
      <4>1. asked[c] \in Nat
        BY DEF DTyped
      <4> QED BY <4>1 DEF Of
    <3> QED BY <3>1, <3>2, <1>1 DEF DTyped
  <2>2. EffectsOnce'
    <3> SUFFICES ASSUME NEW q \in Question, q \notin lost' PROVE effects'[q] <= 1
      BY DEF EffectsOnce
    <3>1. effects[q] <= 1 /\ effects[q] \in Nat /\ q \notin lost
      BY <1>1 DEF EffectsOnce, DTyped
    <3>2. CASE q = Of(c)
      <4>1. effects[q] = 0
        BY <3>1, <3>2, <1>1 DEF CallsUndone, Undone
      <4>2. effects'[q] = effects[q] \/ effects'[q] = effects[q] + 1
        BY <3>2, <1>1 DEF DTyped
      <4> QED BY <4>1, <4>2
    <3>3. CASE q # Of(c)
      BY <3>1, <3>3, <1>1 DEF DTyped
    <3> QED BY <3>2, <3>3
  <2> QED BY <2>1, <2>2
<1>28. Refusals'
  BY <1>1, <1>2, Pairs DEF Refusals, Closed, Others
<1> QED BY <1>10, <1>17, <1>18, <1>19, <1>20, <1>21, <1>22, <1>23, <1>24, <1>25, <1>26, <1>27, <1>28

(* The companion carries out a line: the line moves to the other pipe,     *)
(* behind the replies to older lines.                                      *)
LEMMA ServeKept ==
  ASSUME DInv, NEW s \in Server, Serve(s)
  PROVE  DInv'
<1> USE DEF DInv
<1>0. /\ companion[s].in # <<>> /\ companion[s].in \in Seq(Line) /\ companion[s].out \in Seq(Reply)
      /\ companion[s] \in Companions /\ companion \in [Server -> Companions]
  BY DEF Serve, DTyped, Companions
<1>1. PICK line \in Line : line = Head(companion[s].in)
  BY <1>0, PipeTail
<1>2. PICK verdict \in Verdicts :
        /\ IF verdict = "invalid" THEN Mishap /\ lost' = lost \cup {line.of} ELSE UNCHANGED <<mishaps, lost>>
        /\ companion' = [companion EXCEPT
             ![s].in = Tail(@),
             ![s].out = Append(@, [id |-> line.id, of |-> line.of, verdict |-> verdict])]
        /\ effects' = IF Carried(line.op, verdict) THEN [effects EXCEPT ![line.of] = @ + 1] ELSE effects
  BY <1>1 DEF Serve
<1>3. /\ pc' = pc /\ call' = call /\ asked' = asked /\ answer' = answer /\ refused' = refused
      /\ registry' = registry /\ startLock' = startLock /\ launched' = launched
      /\ version' = version
  BY DEF Serve
<1>4. /\ line \in Lines(s) /\ Tail(companion[s].in) \in Seq(Line)
      /\ Elems(Tail(companion[s].in)) \subseteq Lines(s) /\ Rising(Tail(companion[s].in))
      /\ \A l \in Elems(Tail(companion[s].in)) : line.id < l.id
  BY <1>0, <1>1, PipeTail DEF Lines, Numbered
<1> DEFINE answered == [id |-> line.id, of |-> line.of, verdict |-> verdict]
<1>5. PICK reply \in Reply : /\ reply = answered
                             /\ reply.id = line.id /\ reply.of = line.of /\ reply.verdict = verdict
  <2>1. answered \in Reply /\ answered.id = line.id /\ answered.of = line.of /\ answered.verdict = verdict
    BY DEF Line, Reply
  <2> QED BY <2>1
<1>29. line.id \in Nat /\ line.of \in Caller \X Nat
  BY DEF Line
<1>6. /\ Append(companion[s].out, reply) \in Seq(Reply)
      /\ Elems(Append(companion[s].out, reply)) = Replies(s) \cup {reply}
      /\ Rising(Append(companion[s].out, reply))
  <2>1. \A r \in Elems(companion[s].out) : r.id < reply.id
    BY <1>4, <1>5 DEF Numbered, Replies
  <2> QED BY <1>0, <1>5, <2>1, PipeAppend DEF Numbered, Replies
<1> DEFINE new == [companion[s] EXCEPT !.in = Tail(companion[s].in),
                                       !.out = Append(companion[s].out, reply)]
<1>7. companion' = [companion EXCEPT ![s] = new]
  BY <1>0, <1>2, <1>5
<1>8. /\ new \in Companions /\ new.in = Tail(companion[s].in)
      /\ new.out = Append(companion[s].out, reply)
      /\ new.lock = companion[s].lock /\ new.sequence = companion[s].sequence
      /\ new.alive = companion[s].alive
  BY <1>0, <1>4, <1>6 DEF Companions
<1> HIDE DEF new
<1>9. /\ companion' \in [Server -> Companions]
      /\ \A t \in Server : /\ t # s => companion'[t] = companion[t]
                           /\ companion'[t].lock = companion[t].lock
                           /\ companion'[t].alive = companion[t].alive
                           /\ companion'[t].sequence = companion[t].sequence
      /\ companion'[s].in = Tail(companion[s].in)
      /\ companion'[s].out = Append(companion[s].out, reply)
  BY <1>0, <1>7, <1>8
<1>10. /\ \A t \in Server : Lines(t)' \subseteq Lines(t) /\ (t # s => Replies(t)' = Replies(t))
       /\ \A l \in Lines(s)' : line.id < l.id
       /\ Replies(s)' = Replies(s) \cup {reply}
       /\ \A t \in Server : Rising(companion'[t].in) /\ Rising(companion'[t].out)
  BY <1>4, <1>6, <1>9 DEF Lines, Replies, Numbered
<1>11. /\ lost' = lost \/ lost' = lost \cup {line.of}
       /\ verdict = "invalid" => line.of \in lost'
       /\ effects' = effects \/ (/\ effects' = [effects EXCEPT ![line.of] = @ + 1]
                                 /\ verdict \notin {"rejected", "unknown"})
  <2>1. lost' = lost \/ lost' = lost \cup {line.of}
    BY <1>2
  <2>2. verdict = "invalid" => line.of \in lost'
    BY <1>2
  <2>3. Carried(line.op, verdict) => verdict \notin {"rejected", "unknown"}
    BY DEF Carried
  <2> QED BY <1>2, <2>1, <2>2, <2>3
<1>12. DTyped'
  <2>1. effects \in [Question -> Nat] /\ \A q \in Question : effects[q] + 1 \in Nat
    BY DEF DTyped
  <2>2. effects' \in [Question -> Nat]
    BY <2>1, <1>11
  <2> QED BY <1>3, <1>9, <2>2 DEF DTyped
<1>13. Placed'
  BY <1>3, <1>9 DEF Placed
<1>14. Numbered'
  <2> SUFFICES ASSUME NEW t \in Server
               PROVE  /\ \A l \in Lines(t)' : l.id <= companion[t].sequence
                      /\ \A r \in Replies(t)' : r.id <= companion[t].sequence
                      /\ \A l \in Lines(t)' : \A r \in Replies(t)' : r.id < l.id
    BY <1>9, <1>10 DEF Numbered
  <2>1. CASE t # s
    BY <2>1, <1>10 DEF Numbered
  <2>2. CASE t = s
    <3>1. line.id <= companion[s].sequence
      BY <1>4 DEF Numbered
    <3> QED BY <2>2, <3>1, <1>5, <1>29, <1>10 DEF Numbered
  <2> QED BY <2>1, <2>2
<1>15. Awaited'
  <2> SUFFICES ASSUME NEW d \in Caller, pc[d] = "wait", NEW t \in Server, call[d].server = t
               PROVE  /\ call[d].id = companion'[t].sequence
                      /\ \A l \in Lines(t)' : l.id = call[d].id => l.of = Of(d)
                      /\ \A r \in Replies(t)' : r.id = call[d].id => r.of = Of(d)
    <3>1. ASSUME NEW d \in Caller, pc'[d] = "wait"
          PROVE  /\ call'[d].id = companion'[call'[d].server].sequence
                 /\ \A l \in Lines(call[d].server)' : l.id = call'[d].id => l.of = Of(d)'
                 /\ \A r \in Replies(call[d].server)' : r.id = call'[d].id => r.of = Of(d)'
      <4>1. PICK t \in Server : t = call[d].server
        BY <1>3, <3>1, CallPlaced
      <4> QED BY <1>3, <3>1, <4>1 DEF Of
    <3> QED BY <3>1 DEF Awaited
  <2>1. /\ call[d].id = companion[t].sequence
        /\ \A l \in Lines(t) : l.id = call[d].id => l.of = Of(d)
        /\ \A r \in Replies(t) : r.id = call[d].id => r.of = Of(d)
    BY DEF Awaited
  <2>2. companion'[t].sequence = companion[t].sequence /\ Lines(t)' \subseteq Lines(t)
    BY <1>9, <1>10
  <2>3. \A r \in Replies(t)' : r \in Replies(t) \/ (t = s /\ r.id = line.id /\ r.of = line.of)
    BY <1>5, <1>10
  <2> QED BY <1>4, <2>1, <2>2, <2>3
<1>16. Expected'
  <2>1. \A t \in Server : \A l : Due(l, t) => Due(l, t)'
    BY <1>3, <1>11 DEF Due
  <2>2. Due(reply, s)'
    <3>1. Due(line, s)'
      BY <2>1, <1>4 DEF Expected
    <3> QED BY <3>1, <1>5 DEF Due
  <2> SUFFICES ASSUME NEW t \in Server
               PROVE  (\A l \in Lines(t)' : Due(l, t)') /\ (\A r \in Replies(t)' : Due(r, t)')
    BY DEF Expected
  <2>3. (\A l \in Lines(t) : Due(l, t)') /\ (\A r \in Replies(t) : Due(r, t)')
    BY <2>1 DEF Expected
  <2> QED BY <2>2, <2>3, <1>10
<1>17. Earlier'
  BY <1>3, <1>10 DEF Earlier
<1>18. line.of \notin lost => Due(line, s) /\ Undone(line.of)
  BY <1>4 DEF Expected, LinesUndone
(* What is left in the pipes is of other questions, unless it was lost.    *)
<1>19. ASSUME NEW t \in Server, NEW l, l \in Lines(t)' \/ l \in Replies(t), l.of \notin lost
       PROVE  l.of # line.of
  <2>1. Due(l, t) /\ l.id \in Nat
    BY <1>19, <1>10, PipeTypes DEF Expected
  <2>2. t = s => l.id # line.id
    BY <1>4, <1>5, <1>29, <1>10, <1>19, <2>1 DEF Numbered
  <2> QED BY <1>18, <1>19, <2>1, <2>2 DEF Due
<1>20. \A q : q # line.of /\ Undone(q) => Undone(q)'
  BY <1>11 DEF Undone, DTyped
<1>21. LinesUndone'
  BY <1>10, <1>11, <1>19, <1>20 DEF LinesUndone
<1>22. RepliesHarmless'
  <2>1. ASSUME NEW t \in Server, NEW r \in Replies(t), r.of \notin lost'
        PROVE  Harmless(r.of, r.verdict)'
    <3>1. r.of \notin lost /\ r.of # line.of /\ Harmless(r.of, r.verdict)
      BY <2>1, <1>11, <1>19 DEF RepliesHarmless
    <3> QED BY <3>1, <1>20 DEF Harmless
  <2>2. line.of \notin lost' => Harmless(line.of, verdict)'
    <3>1. ASSUME line.of \notin lost', verdict \in {"rejected", "unknown"}
          PROVE  Undone(line.of)'
      <4>1. effects' = effects /\ line.of \notin lost
        BY <3>1, <1>11
      <4> QED BY <4>1, <1>18 DEF Undone
    <3>2. line.of \notin lost' => verdict # "invalid"
      BY <1>11
    <3> QED BY <3>1, <3>2 DEF Harmless
  <2> QED BY <2>1, <2>2, <1>5, <1>29, <1>10 DEF RepliesHarmless
<1>23. OneCompanion'
  BY <1>3, <1>9 DEF OneCompanion
<1>24. AnswersOwn'
  BY <1>3 DEF AnswersOwn, Of
<1>25. CallsUndone'
  <2> SUFFICES ASSUME NEW d \in Caller, Of(d) \notin lost'
               PROVE  /\ pc[d] \notin {"idle", "wait", "answered"} => Undone(Of(d))'
                      /\ pc[d] = "answered" => Harmless(Of(d), answer[d].verdict)'
    BY <1>3 DEF CallsUndone, Of
  <2>1. Of(d)' = Of(d) /\ Of(d) \notin lost
    BY <1>3, <1>11 DEF Of
  <2>2. CASE Of(d) = line.of
    <3>1. pc[d] = "wait"
      BY <2>1, <2>2, <1>18 DEF Due, Of
    <3> QED BY <3>1
  <2>3. CASE Of(d) # line.of
    BY <2>1, <2>3, <1>3, <1>20 DEF CallsUndone, Harmless
  <2> QED BY <2>2, <2>3
<1>26. LaterUndone'
  <2> SUFFICES ASSUME NEW q \in Question, q[2] > asked[q[1]] PROVE effects'[q] = 0
    BY <1>3 DEF LaterUndone
  <2>1. effects[q] = 0
    BY DEF LaterUndone
  <2>2. q # line.of
    <3>1. line.of[2] <= asked[line.of[1]] /\ line.of[2] \in Nat /\ asked[line.of[1]] \in Nat
      BY <1>4, PipeTypes DEF Earlier, DTyped
    <3> QED BY <3>1
  <2> QED BY <2>1, <2>2, <1>11 DEF DTyped
<1>27. EffectsOnce'
  <2> SUFFICES ASSUME NEW q \in Question, q \notin lost' PROVE effects'[q] <= 1
    BY DEF EffectsOnce
  <2>1. effects[q] <= 1 /\ effects[q] \in Nat /\ q \notin lost
    BY <1>11 DEF EffectsOnce, DTyped
  <2>2. CASE q = line.of
    <3>1. effects[q] = 0
      BY <2>1, <2>2, <1>18 DEF Undone
    <3>2. effects'[q] = effects[q] \/ effects'[q] = effects[q] + 1
      BY <2>2, <1>11 DEF DTyped
    <3> QED BY <3>1, <3>2
  <2>3. CASE q # line.of
    BY <2>1, <2>3, <1>11 DEF DTyped
  <2> QED BY <2>2, <2>3
<1>28. Refusals'
  BY <1>3, <1>11 DEF Refusals, Closed
<1> QED
  BY <1>12, <1>13, <1>14, <1>15, <1>16, <1>17, <1>21, <1>22, <1>23, <1>24, <1>25, <1>26,
     <1>27, <1>28

(* A companion that dies answers nothing more.                             *)
LEMMA DieKept ==
  ASSUME DInv, NEW s \in Server, Die(s)
  PROVE  DInv'
<1> USE DEF DInv
<1>1. /\ pc' = pc /\ call' = call /\ asked' = asked /\ answer' = answer /\ refused' = refused
      /\ registry' = registry /\ startLock' = startLock /\ launched' = launched
      /\ version' = version
      /\ effects' = effects /\ lost' = lost
  BY DEF Die
<1>2. /\ companion' \in [Server -> Companions]
      /\ \A t \in Server : /\ companion'[t].lock = companion[t].lock
                           /\ companion'[t].sequence = companion[t].sequence
                           /\ companion'[t].alive => companion[t].alive
                           /\ companion'[t].out = companion[t].out
                           /\ companion'[t].in = companion[t].in \/ companion'[t].in = <<>>
  <2> DEFINE new == [companion[s] EXCEPT !.alive = FALSE, !.in = <<>>]
  <2>1. companion[s] \in Companions /\ companion \in [Server -> Companions]
    BY DEF DTyped
  <2>2. new \in Companions
    BY <2>1, CompanionRecords
  <2>3. /\ new.lock = companion[s].lock /\ new.sequence = companion[s].sequence /\ new.alive = FALSE
        /\ new.out = companion[s].out /\ new.in = <<>>
    BY <2>1 DEF Companions
  <2>4. companion' = [companion EXCEPT ![s] = new]
    BY <2>1 DEF Die
  <2> HIDE DEF new
  <2> QED BY <2>1, <2>2, <2>3, <2>4
<1>3. \A t \in Server : /\ Lines(t)' \subseteq Lines(t) /\ Replies(t)' = Replies(t)
                        /\ Rising(companion'[t].in) /\ Rising(companion'[t].out)
  BY <1>2, EmptyPipe DEF Lines, Replies, Numbered
<1>4. DTyped' /\ Placed'
  <2>1. DTyped'
    BY <1>1, <1>2 DEF DTyped
  <2>2. Placed'
    BY <1>1, <1>2 DEF Placed
  <2> QED BY <2>1, <2>2
<1>5. Numbered' /\ Earlier'
  BY <1>1, <1>2, <1>3 DEF Numbered, Earlier
<1>6. Awaited'
  <2>1. \A d \in Caller : pc[d] = "wait" => call[d].server \in Server
    BY CallPlaced
  <2> QED BY <2>1, <1>1, <1>2, <1>3 DEF Awaited, Of
<1>7. Expected'
  BY <1>1, <1>3 DEF Expected, Due
<1>8. LinesUndone' /\ RepliesHarmless'
  BY <1>1, <1>3 DEF LinesUndone, RepliesHarmless, Harmless, Undone
<1>9. OneCompanion' /\ AnswersOwn' /\ CallsUndone' /\ LaterUndone' /\ EffectsOnce' /\ Refusals'
  BY <1>1, <1>2
     DEF OneCompanion, AnswersOwn, CallsUndone, LaterUndone, EffectsOnce, Refusals,
     Closed, Harmless,
         Undone, Of
<1> QED BY <1>4, <1>5, <1>6, <1>7, <1>8, <1>9

(* Nothing else depends on the version installed.                          *)
LEMMA UpgradeKept ==
  ASSUME DInv, \/ Upgrade
               \/ UNCHANGED vars
  PROVE  DInv'
<1> USE DEF DInv
<1>1. /\ registry' = registry /\ companion' = companion /\ startLock' = startLock
      /\ launched' = launched
      /\ pc' = pc /\ call' = call /\ asked' = asked /\ answer' = answer
      /\ effects' = effects /\ lost' = lost /\ refused' = refused /\ version' \in Version
  BY DEF Upgrade, vars, shared, world, DTyped, Version
<1>2. DTyped' /\ Placed'
  BY <1>1 DEF DTyped, Placed
<1>3. Numbered' /\ Earlier' /\ Awaited' /\ Expected'
  BY <1>1 DEF Numbered, Earlier, Awaited, Expected, Due, Lines, Replies, Of
<1>4. LinesUndone' /\ RepliesHarmless' /\ CallsUndone'
  BY <1>1 DEF LinesUndone, RepliesHarmless, CallsUndone, Lines, Replies, Harmless, Undone, Of
<1>5. OneCompanion' /\ AnswersOwn' /\ LaterUndone' /\ EffectsOnce' /\ Refusals'
  BY <1>1 DEF OneCompanion, AnswersOwn, LaterUndone, EffectsOnce, Refusals, Closed, Of
<1> QED BY <1>2, <1>3, <1>4, <1>5

LEMMA InitDInv == Init => DInv
<1> SUFFICES ASSUME Init PROVE DInv
  OBVIOUS
<1>1. MaxServers \in Nat /\ 0 \in 0 .. MaxServers
  BY BoundsAssumption
<1>2. DTyped
  <2>1. companion \in [Server -> Companions]
    BY CompanionRecords DEF Init
  <2>2. call \in [Caller -> Calls] /\ answer \in [Caller -> Answers]
    BY Records DEF Init
  <2>3. registry \in 0 .. launched /\ launched \in 0 .. MaxServers /\ startLock = Nobody
    BY <1>1 DEF Init
  <2> QED BY <2>1, <2>2, <2>3 DEF Init, DTyped, Places, Version
<1>3. /\ registry = 0 /\ launched = 0 /\ startLock = Nobody /\ lost = {} /\ refused = {}
      /\ \A c \in Caller : pc[c] = "idle" /\ call[c].server = 0
      /\ \A s \in Server : /\ companion[s].in = <<>> /\ companion[s].out = <<>> /\ ~companion[s].alive
                           /\ companion[s].lock = Nobody
      /\ \A q \in Question : effects[q] = 0
  BY DEF Init, NoCall, Unborn
<1>4. Placed
  BY <1>3, NobodyAssumption DEF Placed, Nobody
<1>5. Numbered /\ Earlier /\ Expected /\ LinesUndone /\ RepliesHarmless
  BY <1>3, EmptyPipe DEF Numbered, Earlier, Expected, LinesUndone, RepliesHarmless, Lines, Replies
<1>6. Awaited /\ OneCompanion /\ AnswersOwn /\ CallsUndone
  BY <1>3 DEF Awaited, OneCompanion, AnswersOwn, CallsUndone
<1>7. LaterUndone /\ EffectsOnce /\ Refusals
  BY <1>3 DEF LaterUndone, EffectsOnce, Refusals
<1> QED BY <1>2, <1>4, <1>5, <1>6, <1>7 DEF DInv

LEMMA NextDInv == DInv /\ [Next]_vars => DInv'
<1> SUFFICES ASSUME DInv, [Next]_vars PROVE DInv'
  OBVIOUS
<1>1. CASE \E c \in Caller : Ask(c) \/ Step(c)
  BY <1>1, AskKept, LockStartKept, SelectKept, LaunchKept, QueueKept, WriteKept, ReadKept,
     NoAnswerComesKept, AnsweredKept, FailedKept, ProcessKept DEF Step
<1>2. CASE \E s \in Server : Serve(s) \/ Die(s)
  BY <1>2, ServeKept, DieKept
<1>3. CASE Upgrade \/ UNCHANGED vars
  BY <1>3, UpgradeKept
<1> QED BY <1>1, <1>2, <1>3 DEF Next

(* The lines on their way, the callers that wait and the companion agree.  *)
THEOREM DInvHolds == Spec => []DInv
BY InitDInv, NextDInv, PTL DEF Spec

(* For any callers and companions, what a caller is given answers its own  *)
(* question, whatever answers to callers that gave up are still in the     *)
(* pipe (Engine.js:8604-8607): the numbers in the pipes increase, and only *)
(* the last one is waited for.                                             *)
THEOREM AnswersAreOwn == Spec => []AnswersOwn
<1>1. DInv => AnswersOwn
  BY DEF DInv
<1> QED BY <1>1, DInvHolds, PTL

(* For any callers, one companion runs, the registered one, and locks,     *)
(* registry and callers agree (Engine.js:8490-8499): whoever replaces a    *)
(* companion stops it under the start lock.                                *)
THEOREM CompanionIsOne == Spec => [](TypeOK /\ OneCompanion)
<1>1. ASSUME DInv PROVE TypeOK
  <2>1. registry \in 0 .. launched /\ launched <= MaxServers
    BY <1>1, BoundsAssumption DEF DInv, DTyped
  <2>2. \A s \in Server : companion[s].lock \in Caller \cup {Nobody} /\ companion[s].key \in Key
    BY <1>1 DEF DInv, DTyped, Companions
  <2>3. \A c \in Caller : startLock = c <=> pc[c] \in {"select", "launch"}
    BY <1>1 DEF DInv, Placed
  <2>4. \A c \in Caller : call[c].server \in 0 .. launched
    BY <1>1, CallPlaced DEF DInv
  <2> QED BY <2>1, <2>2, <2>3, <2>4 DEF TypeOK
<1>2. DInv => OneCompanion
  BY DEF DInv
<1> QED BY <1>1, <1>2, DInvHolds, PTL

(* For any callers, a mutation or a generation is carried out twice only   *)
(* when the answer to an attempt of it was lost.                           *)
THEOREM EffectsAreOnce == Spec => []EffectsOnce
<1>1. DInv => EffectsOnce
  BY DEF DInv
<1> QED BY <1>1, DInvHolds, PTL

(* For any callers, what the companion rejected is never carried out       *)
(* afterwards, unless an attempt of it was lost (Engine.js:8351-8356).     *)
THEOREM RejectionsStand == Spec => RejectionStands
<1>1. DInv /\ [Next]_vars =>
        [\A q \in Question \cap refused : effects'[q] = effects[q] \/ q \in lost]_vars
  <2> SUFFICES ASSUME DInv, Next, NEW q \in Question, q \in refused, q \notin lost
               PROVE  effects'[q] = effects[q]
    OBVIOUS
  <2>1. Closed(q)
    BY DEF DInv, Refusals
  <2>2. CASE \E c \in Caller : Process(c)
    <3>1. PICK c \in Caller : Process(c)
      BY <2>2
    <3>2. q # Of(c)
      BY <2>1, <3>1 DEF Process, Closed, Of, DInv, DTyped
    <3>3. effects' = effects \/ effects' = [effects EXCEPT ![Of(c)] = @ + 1]
      BY <3>1 DEF Process
    <3> QED BY <3>2, <3>3 DEF DInv, DTyped
  <2>3. CASE \E s \in Server : Serve(s)
    <3>1. PICK s \in Server : Serve(s)
      BY <2>3
    <3> DEFINE line == Head(companion[s].in)
    <3>2. line \in Lines(s) /\ line.of[1] \in Caller /\ line.of[2] \in Nat
      <4>1. companion[s].in \in Seq(Line) /\ companion[s].in # <<>>
        BY <3>1, PipeTypes DEF DInv, Serve
      <4>2. line \in Lines(s)
        BY <4>1, PipeTail DEF Lines
      <4> QED BY <4>2, PipeTypes DEF DInv
    <3>3. effects' = effects \/ effects' = [effects EXCEPT ![line.of] = @ + 1]
      BY <3>1 DEF Serve
    <3> HIDE DEF line
    <3>4. q # line.of
      <4>1. Due(line, s)
        BY <3>2 DEF DInv, Expected
      <4>2. asked[line.of[1]] \in Nat
        BY <3>2 DEF DInv, DTyped
      <4>3. SUFFICES ASSUME q = line.of PROVE FALSE
        OBVIOUS
      <4>4. pc[q[1]] = "wait" /\ asked[q[1]] = q[2]
        BY <4>1, <4>3 DEF Due
      <4> QED BY <2>1, <4>2, <4>3, <4>4 DEF Closed
    <3> QED BY <3>3, <3>4 DEF DInv, DTyped
  <2>4. CASE effects' = effects
    BY <2>4
  <2>5. ASSUME NEW c \in Caller, Ask(c) \/ Step(c), ~Process(c)
        PROVE  effects' = effects
    BY <2>5 DEF Step, Ask, LockStart, Select, Launch, Queue, Write, Read, NoAnswerComes,
       Answered, Failed,
                shared, world
  <2>6. ASSUME Upgrade \/ \E s \in Server : Die(s)
        PROVE  effects' = effects
    BY <2>6 DEF Upgrade, Die
  <2> QED BY <2>2, <2>3, <2>4, <2>5, <2>6 DEF Next
<1> QED BY <1>1, DInvHolds, PTL DEF Spec, RejectionStands

-----------------------------------------------------------------------------
(* A set of natural numbers has a smallest one.                            *)
LEMMA Smallest ==
  ASSUME NEW S \in SUBSET Nat, S # {}
  PROVE  \E x \in S : \A y \in S : x <= y
<1> DEFINE R == OpToRel(<, Nat)
<1>1. IsWellFoundedOn(R, Nat)
  BY NatLessThanWellFounded
<1>2. \E x \in S : \A y \in S : ~ (<<y, x>> \in R)
  <2> HIDE DEF R
  <2> QED
    BY <1>1, WFMin
<1>3. ASSUME NEW x \in Nat, NEW y \in Nat, ~ (<<y, x>> \in R) PROVE x <= y
  BY <1>3 DEF OpToRel
<1> QED
  BY <1>2, <1>3

(* The first handle whose closer throws is one, and closeAll closes every  *)
(* handle before it.                                                       *)
LEMMA FirstFails ==
  ASSUME HandlesTypeOK, Failing # {}
  PROVE  FirstFailing \in Failing /\ \A g \in Failing : FirstFailing <= g
<1>1. Failing \in SUBSET Nat
  BY HandlesAssumption DEF Failing, HandlesTypeOK, Handle
<1>2. \E h \in Failing : \A g \in Failing : h <= g
  BY <1>1, Smallest
<1> QED
  BY <1>2 DEF FirstFailing

(* So what closeAll throws is an error.                                    *)
LEMMA FirstFailsError ==
  ASSUME HandlesTypeOK, Failing # {}
  PROVE  FirstFailing \in Errors \ {NoError}
<1>1. FirstFailing \in Failing
  BY FirstFails
<1>2. Failing \subseteq Handle /\ 0 \notin Handle
  BY HandlesAssumption DEF Failing, HandlesTypeOK, Handle
<1> QED
  BY <1>1, <1>2 DEF Errors, NoError

-----------------------------------------------------------------------------
(* What an owner that has not failed yet, or has, remembers of it.         *)
ErrorSoFar ==
  /\ phase = "body" => bodyError = NoError /\ error = NoError
  /\ phase = "close" => error = bodyError
  /\ phase = "close" /\ owner = "request" => bodyError = NoError
  /\ phase = "finally" => owner = "request"
  /\ phase = "outcome" => owner = "lane"
  /\ bodyError # NoError => error # NoError
  /\ owner = "lane" /\ bodyError # NoError => error = bodyError

IInv == HandlesTypeOK /\ ClosedOnce /\ ErrorSoFar

USE HandlesAssumption

LEMMA InitIInv == HandlesInit => IInv
  BY DEF HandlesInit, IInv, HandlesTypeOK, ClosedOnce, ErrorSoFar, Errors, Handle,
     NoError, BodyError

(* Closing handles that are held leaves every handle closed once.          *)
LEMMA ClosingOnce ==
  ASSUME HandlesTypeOK, ClosedOnce, NEW hs \in SUBSET held, Closing(hs)
  PROVE  /\ closed' \subseteq 1 .. made /\ calls' \in [Handle -> Nat]
         /\ \A h \in Handle : calls'[h] = (IF h \in closed' THEN 1 ELSE 0)
  BY DEF HandlesTypeOK, ClosedOnce, Closing, Handle

LEMMA CloseAllOnce ==
  ASSUME HandlesTypeOK, ClosedOnce, CloseAll
  PROVE  /\ closed' \subseteq 1 .. made /\ calls' \in [Handle -> Nat]
         /\ \A h \in Handle : calls'[h] = (IF h \in closed' THEN 1 ELSE 0)
<1>1. \E hs \in SUBSET held : Closing(hs)
  BY DEF CloseAll
<1> QED
  BY <1>1, ClosingOnce

LEMMA NextIInv == IInv /\ [HandlesNext]_handleVars => IInv'
<1> SUFFICES ASSUME IInv, [HandlesNext]_handleVars PROVE IInv'
  OBVIOUS
<1> USE DEF IInv
<1>1. CASE UNCHANGED handleVars
  BY <1>1 DEF handleVars, HandlesTypeOK, ClosedOnce, ErrorSoFar, Handle
<1>2. CASE Create
  BY <1>2 DEF Create, HandlesTypeOK, ClosedOnce, ErrorSoFar, Handle
<1>3. CASE BlockCloses
  <2>1. PICK h \in held \ closed : Closing({h})
        /\ \/ UNCHANGED <<phase, bodyError, error>>
           \/ /\ h \in broken
              /\ bodyError' = h /\ error' = h
              /\ phase' = IF owner = "lane" THEN "close" ELSE "finally"
    BY <1>3 DEF BlockCloses
  <2>2. UNCHANGED <<owner, broken, task, made, held>> /\ phase = "body"
    BY <1>3 DEF BlockCloses
  <2>3. {h} \in SUBSET held
    OBVIOUS
  <2>4. HandlesTypeOK' /\ ClosedOnce'
    BY <2>1, <2>2, <2>3, ClosingOnce DEF HandlesTypeOK, ClosedOnce, Errors, Handle
  <2>5. ErrorSoFar'
    BY <2>1, <2>2 DEF ErrorSoFar, HandlesTypeOK, Handle, NoError
  <2> QED
    BY <2>4, <2>5
<1>4. CASE BodyThrows
  BY <1>4 DEF BodyThrows, HandlesTypeOK, ClosedOnce, ErrorSoFar, Errors, Handle, NoError, BodyError
<1>5. CASE BodyEnds
  BY <1>5 DEF BodyEnds, HandlesTypeOK, ClosedOnce, ErrorSoFar, Handle
<1>6. CASE RequestCloses
  <2>1. error' \in Errors /\ (Failing # {} => error' # NoError) /\ (Failing = {} => error' = error)
    <3>1. error \in Errors
      BY DEF HandlesTypeOK
    <3>2. error' = IF Failing = {} THEN error ELSE FirstFailing
      BY <1>6 DEF RequestCloses
    <3> QED
      BY <3>1, <3>2, FirstFailsError
  <2>2. HandlesTypeOK' /\ ClosedOnce'
    BY <1>6, <2>1, CloseAllOnce DEF RequestCloses, HandlesTypeOK, ClosedOnce
  <2>3. ErrorSoFar'
    BY <1>6, <2>1 DEF RequestCloses, ErrorSoFar
  <2> QED
    BY <2>2, <2>3
<1>7. CASE RequestEnds
  <2>1. error' \in Errors /\ (Failing # {} => error' # NoError) /\ (Failing = {} => error' = error)
    <3>1. error \in Errors
      BY DEF HandlesTypeOK
    <3>2. error' = IF Failing = {} THEN error ELSE FirstFailing
      BY <1>7 DEF RequestEnds
    <3> QED
      BY <3>1, <3>2, FirstFailsError
  <2>2. HandlesTypeOK' /\ ClosedOnce'
    BY <1>7, <2>1, CloseAllOnce DEF RequestEnds, HandlesTypeOK, ClosedOnce
  <2>3. ErrorSoFar'
    BY <1>7, <2>1 DEF RequestEnds, ErrorSoFar
  <2> QED
    BY <2>2, <2>3
<1>8. CASE TaskCloses
  <2>1. error' \in Errors /\ (bodyError # NoError => error' = error)
    <3>1. error \in Errors /\ error = bodyError
      BY <1>8 DEF TaskCloses, HandlesTypeOK, ErrorSoFar
    <3>2. error' = IF error = NoError /\ Failing # {} THEN FirstFailing ELSE error
      BY <1>8 DEF TaskCloses
    <3> QED
      BY <3>1, <3>2, FirstFailsError
  <2>2. HandlesTypeOK' /\ ClosedOnce'
    BY <1>8, <2>1, CloseAllOnce DEF TaskCloses, HandlesTypeOK, ClosedOnce
  <2>3. ErrorSoFar'
    BY <1>8, <2>1 DEF TaskCloses, ErrorSoFar
  <2> QED
    BY <2>2, <2>3
<1>9. CASE NextTask
  BY <1>9 DEF NextTask, HandlesTypeOK, ClosedOnce, ErrorSoFar, Errors, Handle, NoError
<1> QED
  BY <1>1, <1>2, <1>3, <1>4, <1>5, <1>6, <1>7, <1>8, <1>9 DEF HandlesNext

(* The handles of an owner, their closers and its errors agree.            *)
THEOREM IInvHolds == HandlesSpec => []IInv
<1>1. HandlesInit => IInv
  BY InitIInv
<1>2. IInv /\ [HandlesNext]_handleVars => IInv'
  BY NextIInv
<1> QED
  BY <1>1, <1>2, PTL DEF HandlesSpec

(* The closer of a handle is called once, whoever closes it first.         *)
THEOREM HandlesClosedOnce == HandlesSpec => []ClosedOnce
<1>1. IInv => ClosedOnce
  BY DEF IInv
<1> QED
  BY <1>1, IInvHolds, PTL

(* A run or a task that failed never counts as done, and the error of a    *)
(* failed task is the one of its body.                                     *)
THEOREM ErrorsKept == HandlesSpec => []ErrorKept
<1>1. IInv => ErrorKept
  BY DEF IInv, ErrorSoFar, ErrorKept
<1> QED
  BY <1>1, IInvHolds, PTL

(* The handles an owner holds and closed are handles it created.           *)
THEOREM HandlesTyped == HandlesSpec => []HandlesTypeOK
<1>1. IInv => HandlesTypeOK
  BY DEF IInv
<1> QED
  BY <1>1, IInvHolds, PTL

-----------------------------------------------------------------------------
(* Why a handle is left open.                                              *)
Culprits == broken \cap closed
Behind(g) == \E h \in Culprits : h < g
BehindTwo(g) == \E h1, h2 \in Culprits : h1 < h2 /\ h2 < g

LInv ==
  /\ owner = "request" => held = 1 .. made
  /\ \A g \in Left : g \in held \/ Behind(g)
  /\ phase = "finally" /\ bodyError = NoError => \A g \in Left : Behind(g)
  /\ Ended => \A g \in Left : Behind(g)
  /\ Ended /\ owner = "request" /\ bodyError = NoError => \A g \in Left : BehindTwo(g)

LEMMA InitLInv == HandlesInit => LInv
  BY DEF HandlesInit, LInv, Left, Ended

(* What closeAll leaves open comes after a closer that threw just now.     *)
LEMMA CloseAllLeaves ==
  ASSUME HandlesTypeOK, CloseAll, UNCHANGED <<broken, made, held>>
  PROVE  /\ Culprits \subseteq Culprits' /\ Left' \subseteq Left
         /\ \A g \in Left' \cap held : \E h \in Culprits' \cap Left : h < g
<1>1. closed \subseteq closed'
  BY DEF CloseAll, Closing
<1>2. Culprits \subseteq Culprits' /\ Left' \subseteq Left
  BY <1>1 DEF Culprits, Left
<1>3. ASSUME NEW g \in Left' \cap held PROVE \E h \in Culprits' \cap Left : h < g
  <2>1. Failing # {} /\ closed' = closed \cup {h \in held : h <= FirstFailing}
    BY <1>3 DEF CloseAll, Closing, Left
  <2>2. FirstFailing \in Failing
    BY <2>1, FirstFails
  <2>3. FirstFailing \in Culprits' \cap Left
    BY <2>1, <2>2 DEF Failing, Culprits, Left, HandlesTypeOK
  <2>4. ~ (g <= FirstFailing)
    BY <1>3, <2>1 DEF Left
  <2>5. g \in Int /\ FirstFailing \in Int
    BY <1>3, <2>3 DEF Left, HandlesTypeOK
  <2> QED
    BY <2>3, <2>4, <2>5
<1> QED
  BY <1>2, <1>3

(* Handles that are closed one by one only help.                           *)
LEMMA ClosingHelps ==
  ASSUME NEW hs, Closing(hs), UNCHANGED <<broken, made>>
  PROVE  Culprits \subseteq Culprits' /\ Left' \subseteq Left
  BY DEF Closing, Culprits, Left

LEMMA NextLInv == IInv /\ LInv /\ [HandlesNext]_handleVars => LInv'
<1> SUFFICES ASSUME IInv, LInv, [HandlesNext]_handleVars PROVE LInv'
  OBVIOUS
<1>0. HandlesTypeOK /\ ErrorSoFar
  BY DEF IInv
<1>1. CASE UNCHANGED handleVars
  BY <1>1 DEF handleVars, LInv, Left, Ended, Behind, BehindTwo, Culprits
<1>2. CASE Create
  <2>1. Left' \subseteq Left \cup {made'} /\ made' \in held' /\ held \subseteq held'
    BY <1>0, <1>2 DEF Create, Left, HandlesTypeOK
  <2>2. owner = "request" => held' = 1 .. made'
    BY <1>0, <1>2 DEF Create, LInv, HandlesTypeOK
  <2> QED
    BY <1>2, <2>1, <2>2 DEF Create, LInv, Ended, Behind, Culprits
<1>3. CASE BlockCloses
  <2>1. Culprits \subseteq Culprits' /\ Left' \subseteq Left
    BY <1>3, ClosingHelps DEF BlockCloses
  <2>2. ~Ended' /\ UNCHANGED <<owner, made, held>>
    BY <1>3 DEF BlockCloses, Ended
  <2>3. phase' = "finally" => bodyError' # NoError
    BY <1>0, <1>3 DEF BlockCloses, HandlesTypeOK, Handle, NoError
  <2> QED
    BY <2>1, <2>2, <2>3 DEF LInv, Behind
<1>4. CASE BodyThrows
  BY <1>4 DEF BodyThrows, LInv, Left, Ended, Behind, Culprits, NoError, BodyError
<1>5. CASE BodyEnds
  BY <1>5 DEF BodyEnds, LInv, Left, Ended, Behind, Culprits
<1>6. CASE RequestCloses
  <2>1. UNCHANGED <<owner, broken, made, held, bodyError>> /\ ~Ended' /\ owner = "request"
    BY <1>6 DEF RequestCloses, Ended
  <2>2. \A g \in Left' : Behind(g)'
    BY <1>0, <1>6, <2>1, CloseAllLeaves DEF RequestCloses, LInv, Left, Behind
  <2> QED
    BY <2>1, <2>2 DEF LInv
<1>7. CASE RequestEnds
  <2>1. UNCHANGED <<owner, broken, made, held, bodyError>> /\ owner = "request"
        /\ phase = "finally"
    BY <1>7 DEF RequestEnds
  <2>2. /\ Culprits \subseteq Culprits' /\ Left' \subseteq Left
        /\ \A g \in Left' : \E h \in Culprits' \cap Left : h < g
    BY <1>0, <1>7, <2>1, CloseAllLeaves DEF RequestEnds, LInv, Left
  <2>3. \A g \in Left' : Behind(g)'
    BY <2>2 DEF Behind
  <2>4. bodyError = NoError => \A g \in Left' : BehindTwo(g)'
    BY <2>1, <2>2 DEF LInv, Behind, BehindTwo
  <2> QED
    BY <1>7, <2>1, <2>3, <2>4 DEF RequestEnds, LInv, Ended
<1>8. CASE TaskCloses
  <2>1. UNCHANGED <<owner, broken, made, bodyError>> /\ owner = "lane" /\ phase' = "outcome"
    BY <1>8 DEF TaskCloses
  <2>2. \A g \in Left' : Behind(g)'
    <3>1. closed \subseteq closed'
      BY <1>8 DEF TaskCloses, CloseAll, Closing
    <3>2. ASSUME NEW g \in Left', g \in held PROVE Behind(g)'
      <4>1. Failing # {} /\ closed' = closed \cup {h \in held : h <= FirstFailing}
        BY <1>8, <3>2 DEF TaskCloses, CloseAll, Closing, Left
      <4>2. FirstFailing \in Failing
        BY <1>0, <4>1, FirstFails
      <4>3. FirstFailing \in Culprits'
        BY <1>0, <2>1, <4>1, <4>2 DEF Failing, Culprits, HandlesTypeOK
      <4>4. g \in Int /\ FirstFailing \in Int /\ ~ (g <= FirstFailing)
        BY <1>0, <3>2, <4>1, <4>2 DEF Left, HandlesTypeOK, Failing
      <4> QED
        BY <4>3, <4>4 DEF Behind
    <3> QED
      BY <2>1, <3>1, <3>2 DEF LInv, Left, Behind, Culprits
  <2> QED
    BY <2>1, <2>2 DEF LInv, Ended
<1>9. CASE NextTask
  BY <1>0, <1>9 DEF NextTask, LInv, Left, Ended, Behind, BehindTwo, Culprits, ErrorSoFar
<1> QED
  BY <1>1, <1>2, <1>3, <1>4, <1>5, <1>6, <1>7, <1>8, <1>9 DEF HandlesNext

LEMMA AtLeastTwo ==
  ASSUME NEW S, IsFiniteSet(S), NEW x \in S, NEW y \in S, x # y
  PROVE  Cardinality(S) >= 2
<1>1. IsFiniteSet({x}) /\ Cardinality({x}) = 1
  BY FS_Singleton
<1>2. Cardinality({x} \cup {y}) = 2
  BY <1>1, FS_AddElement
<1>3. Cardinality({x} \cup {y}) <= Cardinality(S)
  BY FS_Subset
<1> QED
  BY <1>2, <1>3, FS_CardinalityType

LEMMA AtLeastOne ==
  ASSUME NEW S, IsFiniteSet(S), NEW x \in S
  PROVE  Cardinality(S) >= 1
<1>1. Cardinality({x}) = 1
  BY FS_Singleton
<1>2. Cardinality({x}) <= Cardinality(S)
  BY FS_Subset
<1> QED
  BY <1>1, <1>2, FS_CardinalityType

(* A handle is left open only by closers that threw: one of them in a task *)
(* of a lane or in a request that failed, two in a request that did not.   *)
THEOREM HandlesLeft == HandlesSpec => []LeaksExplained
<1>1. ASSUME HandlesTypeOK, LInv PROVE LeaksExplained
  <2> DEFINE Before == {h \in broken \cap closed : \E g \in Left : h < g}
  <2> SUFFICES ASSUME Ended, NEW g \in Left
               PROVE  /\ Cardinality(Before) >= 1
                      /\ owner = "request" /\ bodyError = NoError => Cardinality(Before) >= 2
    BY DEF LeaksExplained
  <2>1. IsFiniteSet(Before)
    <3>1. Before \subseteq 1 .. MaxHandles
      BY <1>1 DEF HandlesTypeOK, Handle
    <3>2. IsFiniteSet(1 .. MaxHandles)
      BY FS_Interval
    <3> QED
      BY <3>1, <3>2, FS_Subset
  <2>2. Cardinality(Before) >= 1
    <3>1. PICK h \in Before : TRUE
      BY <1>1 DEF LInv, Behind, Culprits
    <3> HIDE DEF Before
    <3> QED
      BY <2>1, <3>1, AtLeastOne
  <2>3. ASSUME owner = "request", bodyError = NoError PROVE Cardinality(Before) >= 2
    <3>1. PICK h1 \in Culprits, h2 \in Culprits : h1 < h2 /\ h2 < g
      BY <1>1, <2>3 DEF LInv, BehindTwo
    <3>2. h1 \in Int /\ h2 \in Int /\ g \in Int
      BY <1>1 DEF HandlesTypeOK, Culprits, Left, Handle
    <3>3. h1 \in Before /\ h2 \in Before /\ h1 # h2
      BY <3>1, <3>2 DEF Culprits
    <3> HIDE DEF Before
    <3> QED
      BY <2>1, <3>3, AtLeastTwo
  <2> QED
    BY <2>2, <2>3
<1>2. HandlesInit => LInv
  BY InitLInv
<1>3. IInv /\ LInv /\ [HandlesNext]_handleVars => LInv'
  BY NextLInv
<1>4. IInv => HandlesTypeOK
  BY DEF IInv
<1> QED
  BY <1>1, <1>2, <1>3, <1>4, IInvHolds, PTL DEF HandlesSpec

(* For any number of handles and of tasks, a closer is called once, but    *)
(* for those left behind one that threw (runtime-handle-utils.js:240-271). *)
THEOREM ClosersCalled == HandlesSpec => []HandlesClosed
<1>1. ClosedOnce /\ LeaksExplained => HandlesClosed
  BY DEF HandlesClosed
<1> QED
  BY <1>1, HandlesClosedOnce, HandlesLeft, PTL
=============================================================================
