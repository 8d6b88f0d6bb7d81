--------------------------- MODULE Engine_proofs ---------------------------
(***************************************************************************)
(* Proofs about what the engine keeps of a Flow: its revisions (FlowCode)  *)
(* and the flights that read its tree (TreeFlight).                        *)
(*                                                                         *)
(* Revisions, for any number of conversations, runtimes and texts: the     *)
(* invariant says what each request in flight may rely on; the steps of    *)
(* others either leave it alone or mark it raced.                          *)
(*                                                                         *)
(* Flights, for any scopes and requests: one flight per tree, and who      *)
(* waited for it reads the tree again.                                     *)
(***************************************************************************)
EXTENDS FlowCode, TreeFlight, FiniteSetTheorems, TLAPS

-----------------------------------------------------------------------------
(* The inductive invariant.                                                *)

(* Two requests in flight run on two runtimes.                             *)
Apart ==
  \A j, k \in Talks :
    j # k /\ req[j].at # "idle" /\ req[k].at # "idle" => req[j].rt # req[k].rt

(* Until an object is removed, the mirror of a Flow without one names the  *)
(* revision of its text, and is empty when the project is loaded.          *)
Mirrors ==
  ~removed /\ ~object =>
    \A r \in Runtimes : /\ mirror[r].revision = mirror[r].code
                        /\ loaded => mirror[r] = Nothing

(* An edit with a revision expects the one its conversation was told.      *)
Edits(k) ==
  /\ req[k].at \in {"read", "reread", "write"} => req[k].code \in Codes
  /\ req[k].at \in {"read", "reread", "write"} /\ req[k].given
       => req[k].revision # NoCode /\ req[k].revision = told[k].revision
  /\ req[k].at = "write" /\ req[k].given /\ ~raced[k]
       => \/ Current(req[k].rt) = Nothing
          \/ Current(req[k].rt).revision = req[k].revision
  /\ req[k].at = "readback" /\ ~raced[k] /\ object => Answered = req[k].code

Named(k) == req[k].given /\ ~req[k].supplied
Plain(k) == ~req[k].supplied /\ ~removed

(* A promotion holds a valid text, the one of the revision it expects.     *)
Chosen(k) ==
  /\ req[k].at \in {"recheck", "place", "store"} => req[k].code \in Valid
  /\ req[k].at \in {"promote", "recheck", "place", "store"} /\ Named(k)
       => req[k].revision = checked[k]
  /\ req[k].at \in {"recheck", "place", "store", "clear"} /\ Plain(k)
       => req[k].code = req[k].revision

(* What the stores hold at each step of a promotion nobody raced.          *)
Placed(k) ==
  /\ req[k].at = "place" /\ ~raced[k] /\ Plain(k)
       => Working(req[k].rt).code = req[k].code
  /\ req[k].at = "store" /\ ~raced[k]
       => /\ object /\ Answered = Format[req[k].code]
          /\ draft \in {NoCode, Format[req[k].code]}
  /\ req[k].at = "clear" /\ ~raced[k] /\ Plain(k)
       => Working(req[k].rt).code \in
            {NoCode, req[k].code, Format[req[k].code]}

Sound(k) == Edits(k) /\ Chosen(k) /\ Placed(k)

IInv == TypeOK /\ Apart /\ Mirrors /\ \A k \in Talks : Sound(k)

-----------------------------------------------------------------------------
(* Lemmas.                                                                 *)

(* What a runtime reads is a text and a revision.                          *)
LEMMA ReadsTyped ==
  ASSUME TypeOK, NEW r \in Runtimes
  PROVE  /\ Working(r) \in Draft /\ Current(r) \in Draft
         /\ AfterRead(r) \in [Runtimes -> Draft]
         /\ \A s \in Runtimes : AfterRead(r)[s] \in {mirror[s], Nothing}
         /\ \A s \in Runtimes : s # r => AfterRead(r)[s] = mirror[s]
         /\ ~object => AfterRead(r) = mirror
<1>1. Nothing \in Draft /\ \A c \in Codes \cup {NoCode} : Text(c) \in Draft
  BY DEF Nothing, Text, Draft
<1>2. AfterRead(r) \in [Runtimes -> Draft]
  BY <1>1 DEF AfterRead, TypeOK
<1>3. Working(r) \in Draft /\ Current(r) \in Draft
  BY <1>1 DEF Working, Current, TypeOK
<1> QED BY <1>1, <1>2, <1>3 DEF AfterRead, TypeOK

(* The initial states satisfy the invariant.                               *)
LEMMA InitSound == Init => IInv
<1> SUFFICES ASSUME Init PROVE IInv
  OBVIOUS
<1>1. Nothing \in Draft /\ Nothing.revision = Nothing.code
  BY DEF Nothing, Text, Draft
<1>2. PICK r \in Runtimes : req = [k \in Talks |-> Idle(r)]
  BY DEF Init
<1>3. \A k \in Talks : req[k].at = "idle"
  BY <1>2 DEF Idle
<1>4. TypeOK
  <2>1. req \in [Talks -> [at : Steps, rt : Runtimes, code : Codes \cup {NoCode},
                           revision : Codes \cup {NoCode},
                           supplied : BOOLEAN, given : BOOLEAN]]
    BY <1>2 DEF Idle, Steps
  <2>2. /\ mirror \in [Runtimes -> Draft]
        /\ told \in [Talks -> Draft]
        /\ checked \in [Talks -> Codes \cup {NoCode}]
        /\ raced \in [Talks -> BOOLEAN]
    BY <1>1 DEF Init
  <2>3. loaded \in BOOLEAN /\ object \in {FALSE, loaded}
    BY DEF Init
  <2>4. object \in BOOLEAN /\ (object => loaded)
    <3>1. CASE object = FALSE
      BY <3>1
    <3>2. CASE object = loaded
      BY <2>3, <3>2
    <3> QED BY <2>3, <3>1, <3>2
  <2> QED BY <2>1, <2>2, <2>3, <2>4 DEF Init, TypeOK
<1>5. Apart
  BY <1>3 DEF Apart
<1>6. Mirrors
  BY <1>1 DEF Mirrors, Init
<1>7. ASSUME NEW k \in Talks PROVE Sound(k)
  <2>1. req[k].at = "idle"
    BY <1>3
  <2>2. Edits(k)
    BY <2>1 DEF Edits
  <2>3. Chosen(k)
    BY <2>1 DEF Chosen
  <2>4. Placed(k)
    BY <2>1 DEF Placed
  <2> QED BY <2>2, <2>3, <2>4 DEF Sound
<1> QED BY <1>4, <1>5, <1>6, <1>7 DEF IInv

(* The requests that are one step.                                         *)
Simple(k) == \E r \in Runtimes : Get(k, r) \/ Check(k, r) \/ Discard(k, r)

(* Those that start one.                                                   *)
Starts(k, r, rq) ==
  \/ \E c \in Codes, v \in {NoCode, told[k].revision} :
       rq = [Idle(r) EXCEPT !.at = "reread", !.code = c, !.revision = v,
                            !.given = v # NoCode]
  \/ \E c \in Codes :
       /\ told[k].revision # NoCode
       /\ rq = [Idle(r) EXCEPT !.at = "read", !.code = c,
                               !.revision = told[k].revision, !.given = TRUE]
  \/ \E v \in {NoCode, checked[k]} :
       rq = [Idle(r) EXCEPT !.at = "promote", !.revision = v, !.given = v # NoCode]
  \/ \E c \in Codes :
       rq = [Idle(r) EXCEPT !.at = "promote", !.code = c, !.revision = c,
                            !.given = TRUE, !.supplied = TRUE]

Sends(k) == \E r \in Runtimes : \E rq : Starts(k, r, rq) /\ Send(k, r, rq)

LEMMA RequestCases ==
  ASSUME NEW k \in Talks, Request(k)
  PROVE  Simple(k) \/ Sends(k)
<1>1. PICK r \in Runtimes :
         \/ Get(k, r) \/ Check(k, r) \/ Discard(k, r)
         \/ \E c \in Codes : \/ \E v \in {NoCode, told[k].revision} : AskSet(k, r, c, v)
                             \/ AskPatch(k, r, c)
                             \/ AskPromoteText(k, r, c)
         \/ \E v \in {NoCode, checked[k]} : AskPromote(k, r, v)
  BY DEF Request
<1>2. CASE Get(k, r) \/ Check(k, r) \/ Discard(k, r)
  BY <1>2 DEF Simple
<1>3. ASSUME NEW c \in Codes, NEW v \in {NoCode, told[k].revision}, AskSet(k, r, c, v)
      PROVE  Sends(k)
  BY <1>3 DEF Sends, Starts, AskSet
<1>4. ASSUME NEW c \in Codes, AskPatch(k, r, c) PROVE Sends(k)
  BY <1>4 DEF Sends, Starts, AskPatch
<1>5. ASSUME NEW c \in Codes, AskPromoteText(k, r, c) PROVE Sends(k)
  BY <1>5 DEF Sends, Starts, AskPromoteText
<1>6. ASSUME NEW v \in {NoCode, checked[k]}, AskPromote(k, r, v) PROVE Sends(k)
  BY <1>6 DEF Sends, Starts, AskPromote
<1> QED BY <1>1, <1>2, <1>3, <1>4, <1>5, <1>6

LEMMA StartsTyped ==
  ASSUME TypeOK, NEW k \in Talks, NEW r \in Runtimes, NEW rq, Starts(k, r, rq)
  PROVE  /\ rq \in [at : Steps, rt : Runtimes, code : Codes \cup {NoCode},
                    revision : Codes \cup {NoCode},
                    supplied : BOOLEAN, given : BOOLEAN]
         /\ rq.rt = r /\ rq.at \in {"read", "reread", "promote"}
         /\ rq.at \in {"read", "reread"} /\ rq.given
              => rq.revision # NoCode /\ rq.revision = told[k].revision
         /\ rq.at \in {"read", "reread"} => rq.code \in Codes
         /\ rq.at = "promote" /\ rq.given /\ ~rq.supplied => rq.revision = checked[k]
<1>1. told[k].revision \in Codes \cup {NoCode} /\ checked[k] \in Codes \cup {NoCode}
  BY DEF TypeOK, Draft
<1> DEFINE
  Good == /\ rq \in [at : Steps, rt : Runtimes, code : Codes \cup {NoCode},
                    revision : Codes \cup {NoCode},
                    supplied : BOOLEAN, given : BOOLEAN]
          /\ rq.rt = r /\ rq.at \in {"read", "reread", "promote"}
          /\ rq.at \in {"read", "reread"} /\ rq.given
               => rq.revision # NoCode /\ rq.revision = told[k].revision
          /\ rq.at \in {"read", "reread"} => rq.code \in Codes
          /\ rq.at = "promote" /\ rq.given /\ ~rq.supplied
               => rq.revision = checked[k]
<1>2. ASSUME NEW c \in Codes, NEW v \in {NoCode, told[k].revision},
             rq = [Idle(r) EXCEPT !.at = "reread", !.code = c, !.revision = v,
                                  !.given = v # NoCode]
      PROVE  Good
  <2>1. rq = [at |-> "reread", rt |-> r, code |-> c, revision |-> v,
               supplied |-> FALSE, given |-> (v # NoCode)]
    BY <1>2 DEF Idle
  <2> QED BY <1>1, <2>1 DEF Steps
<1>3. ASSUME NEW c \in Codes, told[k].revision # NoCode,
             rq = [Idle(r) EXCEPT !.at = "read", !.code = c,
                                  !.revision = told[k].revision, !.given = TRUE]
      PROVE  Good
  <2>1. rq = [at |-> "read", rt |-> r, code |-> c, revision |-> told[k].revision,
               supplied |-> FALSE, given |-> TRUE]
    BY <1>3 DEF Idle
  <2>2. told[k].revision # NoCode
    BY <1>3
  <2> QED BY <1>1, <2>1, <2>2 DEF Steps
<1>4. ASSUME NEW v \in {NoCode, checked[k]},
             rq = [Idle(r) EXCEPT !.at = "promote", !.revision = v,
                                  !.given = v # NoCode]
      PROVE  Good
  <2>1. rq = [at |-> "promote", rt |-> r, code |-> NoCode, revision |-> v,
               supplied |-> FALSE, given |-> (v # NoCode)]
    BY <1>4 DEF Idle
  <2> QED BY <1>1, <2>1 DEF Steps
<1>5. ASSUME NEW c \in Codes,
             rq = [Idle(r) EXCEPT !.at = "promote", !.code = c, !.revision = c,
                                  !.given = TRUE, !.supplied = TRUE]
      PROVE  Good
  <2>1. rq = [at |-> "promote", rt |-> r, code |-> c, revision |-> c,
               supplied |-> TRUE, given |-> TRUE]
    BY <1>5 DEF Idle
  <2> QED BY <1>1, <2>1 DEF Steps
<1> HIDE DEF Good
<1>6. Good
  BY <1>2, <1>3, <1>4, <1>5 DEF Starts
<1> QED BY <1>6 DEF Good

(* A step of a request moves it alone.                                     *)
Requests ==
  [Talks -> [at : Steps, rt : Runtimes, code : Codes \cup {NoCode},
             revision : Codes \cup {NoCode},
             supplied : BOOLEAN, given : BOOLEAN]]

Alone(k) == \A j \in Talks : j # k => req'[j] = req[j]

LEMMA GoMoves ==
  ASSUME TypeOK, NEW k \in Talks, NEW at \in Steps, Go(k, at)
  PROVE  /\ req' \in Requests /\ Alone(k)
         /\ req'[k].at = at /\ req'[k].rt = req[k].rt
         /\ req'[k].code = req[k].code /\ req'[k].revision = req[k].revision
         /\ req'[k].supplied = req[k].supplied /\ req'[k].given = req[k].given
  BY DEF Go, TypeOK, Requests, Alone

LEMMA EndMoves ==
  ASSUME TypeOK, NEW k \in Talks, End(k)
  PROVE  /\ req' \in Requests /\ Alone(k)
         /\ req'[k].at = "idle" /\ req'[k].rt = req[k].rt
<1>1. Idle(req[k].rt) \in [at : Steps, rt : Runtimes, code : Codes \cup {NoCode},
                           revision : Codes \cup {NoCode},
                           supplied : BOOLEAN, given : BOOLEAN]
      /\ Idle(req[k].rt).at = "idle" /\ Idle(req[k].rt).rt = req[k].rt
  BY DEF Idle, Steps, TypeOK
<1> QED BY <1>1 DEF End, TypeOK, Requests, Alone

LEMMA SendMoves ==
  ASSUME TypeOK, NEW k \in Talks, NEW r \in Runtimes, NEW rq,
         Starts(k, r, rq), Send(k, r, rq)
  PROVE  /\ req' \in Requests /\ Alone(k) /\ req'[k] = rq
         /\ req[k].at = "idle" /\ Free(r)
<1>1. rq \in [at : Steps, rt : Runtimes, code : Codes \cup {NoCode},
              revision : Codes \cup {NoCode}, supplied : BOOLEAN, given : BOOLEAN]
  BY StartsTyped
<1>2. req' = [req EXCEPT ![k] = rq] /\ req[k].at = "idle" /\ Free(r)
  BY DEF Send, Ask
<1> QED BY <1>1, <1>2 DEF TypeOK, Requests, Alone

(* The steps of the system.                                                *)
LEMMA StepCases ==
  ASSUME [Next]_vars
  PROVE  \/ \E k \in Talks : Simple(k) \/ Sends(k) \/ Serve(k)
         \/ Studio \/ UNCHANGED vars
  BY RequestCases DEF Next

-----------------------------------------------------------------------------
(* Type correctness is preserved.                                          *)

LEMMA RacedTyped ==
  ASSUME TypeOK, NEW k, Disturb(k) \/ DisturbAll
  PROVE  raced' \in [Talks -> BOOLEAN]
<1> DEFINE one(j) == IF j = k THEN raced[j] ELSE req[j].at \in Exposed
           all(j) == req[j].at \in Exposed
<1>1. ASSUME NEW j \in Talks PROVE one(j) \in BOOLEAN /\ all(j) \in BOOLEAN
  <2>1. raced[j] \in BOOLEAN
    BY DEF TypeOK
  <2>2. (req[j].at \in Exposed) \in BOOLEAN
    OBVIOUS
  <2> QED BY <2>1, <2>2
<1>2. raced' = [j \in Talks |-> one(j)] \/ raced' = [j \in Talks |-> all(j)]
  BY DEF Disturb, DisturbAll
<1> HIDE DEF one, all
<1> QED BY <1>1, <1>2

(* Writing without a Flow object.                                          *)
LEMMA KeepTyped ==
  ASSUME IInv, NEW k \in Talks, Keep(k), UNCHANGED loaded, ~object
  PROVE  /\ kept' \in Codes \cup {NoCode} /\ (~loaded => kept' = NoCode)
         /\ mirror' \in [Runtimes -> Draft]
         /\ told' \in [Talks -> Draft] /\ checked' \in [Talks -> Codes \cup {NoCode}]
         /\ req' \in Requests
<1>1. TypeOK /\ req[k].code \in Codes \cup {NoCode} /\ req[k].rt \in Runtimes
  BY DEF IInv, TypeOK
<1>2. Nothing \in Draft /\ Text(req[k].code) \in Draft
  BY <1>1 DEF Nothing, Text, Draft
<1>3. mirror' \in [Runtimes -> Draft]
  BY <1>1, <1>2 DEF Keep, TypeOK
<1>4. kept' \in Codes \cup {NoCode} /\ (~loaded => kept' = NoCode)
  BY <1>1 DEF Keep, TypeOK
<1>5. [code |-> req[k].code, revision |-> req[k].code] \in Draft
  BY <1>1 DEF Draft
<1>6. told' \in [Talks -> Draft]
  BY <1>1, <1>5 DEF Keep, Tell, TypeOK
<1>7. checked' \in [Talks -> Codes \cup {NoCode}]
  BY <1>1 DEF Keep, Accepted, TypeOK
<1>8. req' \in Requests
  BY <1>1, EndMoves DEF Keep
<1> QED BY <1>3, <1>4, <1>6, <1>7, <1>8

LEMMA TypeStep ==
  ASSUME IInv, [Next]_vars
  PROVE  TypeOK'
<1> USE DEF Requests
<1>0. TypeOK
  BY DEF IInv
<1>1. ASSUME NEW k \in Talks, Simple(k) PROVE TypeOK'
  <2>1. PICK r \in Runtimes : Get(k, r) \/ Check(k, r) \/ Discard(k, r)
    BY <1>1 DEF Simple
  <2>2. CASE Get(k, r)
    BY <1>0, <2>2, ReadsTyped DEF Get, Ask, TypeOK, stores
  <2>3. CASE Check(k, r)
    <3>1. Current(r).revision \in Codes \cup {NoCode}
      BY <1>0, ReadsTyped DEF Draft
    <3> QED BY <1>0, <2>3, <3>1, ReadsTyped DEF Check, Ask, TypeOK, stores
  <2>4. CASE Discard(k, r)
    <3>1. Nothing \in Draft
      BY DEF Nothing, Text, Draft
    <3>2. raced' \in [Talks -> BOOLEAN]
      BY <1>0, <2>4, RacedTyped DEF Discard
    <3> QED BY <1>0, <2>4, <3>1, <3>2 DEF Discard, Ask, TypeOK, known
  <2> QED BY <2>1, <2>2, <2>3, <2>4
<1>2. ASSUME NEW k \in Talks, Sends(k) PROVE TypeOK'
  <2>1. PICK r \in Runtimes : \E rq : Starts(k, r, rq) /\ Send(k, r, rq)
    BY <1>2 DEF Sends
  <2>2. PICK rq : Starts(k, r, rq) /\ Send(k, r, rq)
    BY <2>1
  <2>3. req' \in Requests
    BY <1>0, <2>2, SendMoves
  <2> QED BY <1>0, <2>2, <2>3 DEF Send, Ask, TypeOK, stores, known
<1>3. ASSUME NEW k \in Talks, PatchRead(k) PROVE TypeOK'
  <2>1. req' \in Requests
    BY <1>0, <1>3, GoMoves, EndMoves DEF PatchRead, Steps
  <2>2. mirror' \in [Runtimes -> Draft]
    BY <1>0, <1>3, ReadsTyped DEF PatchRead, TypeOK
  <2> QED BY <1>0, <1>3, <2>1, <2>2 DEF PatchRead, TypeOK, stores, known
<1>4. ASSUME NEW k \in Talks, SetRead(k) PROVE TypeOK'
  <2> DEFINE current == Current(req[k].rt)
  <2>1. req' \in Requests
    BY <1>0, <1>4, GoMoves, EndMoves DEF SetRead, Steps
  <2>2. /\ mirror' \in [Runtimes -> Draft]
        /\ current.revision \in Codes \cup {NoCode}
    BY <1>0, <1>4, ReadsTyped DEF SetRead, TypeOK, Draft
  <2>3. [code |-> req[k].code, revision |-> current.revision] \in Draft
    BY <1>0, <2>2 DEF TypeOK, Draft
  <2>4. told' \in [Talks -> Draft]
    BY <1>0, <1>4, <2>3 DEF SetRead, Tell, known, TypeOK
  <2>5. checked' \in [Talks -> Codes \cup {NoCode}]
    BY <1>0, <1>4, <2>2 DEF SetRead, Accepted, known, TypeOK
  <2>6. raced' \in [Talks -> BOOLEAN]
    BY <1>0, <1>4 DEF SetRead, Fresh, TypeOK
  <2> QED BY <1>0, <1>4, <2>1, <2>2, <2>4, <2>5, <2>6 DEF SetRead, TypeOK, stores
<1>5. ASSUME NEW k \in Talks, SetWrite(k) PROVE TypeOK'
  <2>1. raced' \in [Talks -> BOOLEAN]
    BY <1>0, <1>5, RacedTyped DEF SetWrite
  <2>2. CASE object /\ SetSource(req[k].code) /\ Go(k, "readback")
               /\ UNCHANGED <<object, saved, kept, mirror, known>>
    <3>1. req' \in Requests
      BY <1>0, <2>2, GoMoves DEF Steps
    <3>2. draft' \in Codes \cup {NoCode}
      BY <1>0, <2>2 DEF SetSource, TypeOK
    <3> QED BY <1>0, <1>5, <2>1, <2>2, <3>1, <3>2 DEF SetWrite, TypeOK, known
  <2>3. CASE ~object /\ Keep(k)
    <3>1. /\ kept' \in Codes \cup {NoCode} /\ (~loaded => kept' = NoCode)
          /\ mirror' \in [Runtimes -> Draft]
          /\ told' \in [Talks -> Draft] /\ checked' \in [Talks -> Codes \cup {NoCode}]
          /\ req' \in Requests
      BY <1>5, <2>3, KeepTyped DEF SetWrite
    <3> QED BY <1>0, <1>5, <2>1, <2>3, <3>1 DEF SetWrite, Keep, TypeOK
  <2> QED BY <1>5, <2>2, <2>3 DEF SetWrite
<1>6. ASSUME NEW k \in Talks, SetReadBack(k) PROVE TypeOK'
  <2>1. CASE object
    <3>1. req' \in Requests
      BY <1>0, <1>6, <2>1, EndMoves DEF SetReadBack
    <3>2. Answered \in Codes \cup {NoCode} /\ req[k].code \in Codes \cup {NoCode}
      BY <1>0 DEF Answered, TypeOK
    <3>3. /\ [code |-> req[k].code, revision |-> Answered] \in Draft
          /\ [code |-> req[k].code, revision |-> draft] \in Draft
          /\ Nothing \in Draft
      BY <1>0, <3>2 DEF Draft, Nothing, Text, TypeOK
    <3>4. mirror' \in [Runtimes -> Draft]
      BY <1>0, <1>6, <2>1, <3>3 DEF SetReadBack, TypeOK
    <3>5. told' \in [Talks -> Draft]
      BY <1>0, <1>6, <2>1, <3>3 DEF SetReadBack, Tell, TypeOK
    <3>6. checked' \in [Talks -> Codes \cup {NoCode}]
      BY <1>0, <1>6, <2>1, <3>2 DEF SetReadBack, Accepted, TypeOK
    <3> QED BY <1>0, <1>6, <2>1, <3>1, <3>4, <3>5, <3>6
            DEF SetReadBack, TypeOK, stores
  <2>2. CASE ~object
    <3>1. Keep(k) /\ UNCHANGED loaded
      BY <1>6, <2>2 DEF SetReadBack
    <3>2. raced' \in [Talks -> BOOLEAN]
      BY <1>0, <1>6, <2>2, RacedTyped DEF SetReadBack
    <3>3. /\ kept' \in Codes \cup {NoCode} /\ (~loaded => kept' = NoCode)
          /\ mirror' \in [Runtimes -> Draft]
          /\ told' \in [Talks -> Draft] /\ checked' \in [Talks -> Codes \cup {NoCode}]
          /\ req' \in Requests
      BY <2>2, <3>1, KeepTyped
    <3> QED BY <1>0, <1>6, <2>2, <3>1, <3>2, <3>3 DEF SetReadBack, Keep, TypeOK
  <2> QED BY <2>1, <2>2
<1>7. ASSUME NEW k \in Talks, PromoteRead(k) PROVE TypeOK'
  <2> DEFINE current == IF req[k].supplied THEN Text(req[k].code)
                        ELSE Working(req[k].rt)
  <2>1. mirror' \in [Runtimes -> Draft]
    BY <1>0, <1>7, ReadsTyped DEF PromoteRead, TypeOK
  <2>2. raced' \in [Talks -> BOOLEAN]
    BY <1>0, <1>7 DEF PromoteRead, Fresh, TypeOK
  <2>3. current \in Draft
    BY <1>0, ReadsTyped DEF TypeOK, Text, Draft
  <2> HIDE DEF current
  <2>4. \/ End(k) \/ Go(k, "place")
        \/ req' = [req EXCEPT ![k].at = "recheck", ![k].code = current.code,
                              ![k].revision = current.revision]
    BY <1>7 DEF PromoteRead, current
  <2>5. req' \in Requests
    <3>1. CASE End(k)
      BY <1>0, <3>1, EndMoves
    <3>2. CASE Go(k, "place")
      BY <1>0, <3>2, GoMoves DEF Steps
    <3>3. CASE req' = [req EXCEPT ![k].at = "recheck", ![k].code = current.code,
                                  ![k].revision = current.revision]
      <4>1. current.code \in Codes \cup {NoCode}
            /\ current.revision \in Codes \cup {NoCode}
        BY <2>3 DEF Draft
      <4> DEFINE q1 == [req EXCEPT ![k].at = "recheck"]
                 q2 == [q1 EXCEPT ![k].code = current.code]
                 q3 == [q2 EXCEPT ![k].revision = current.revision]
      <4>5. req \in Requests /\ "recheck" \in Steps
        BY <1>0 DEF TypeOK, Requests, Steps
      <4>2. q1 \in Requests
        BY <4>5 DEF Requests
      <4> HIDE DEF q1
      <4>3. q2 \in Requests
        BY <4>1, <4>2
      <4> HIDE DEF q2
      <4>4. q3 \in Requests
        BY <4>1, <4>3
      <4> QED BY <3>3, <4>4 DEF q1, q2
    <3> QED BY <2>4, <3>1, <3>2, <3>3
  <2> QED BY <1>0, <1>7, <2>1, <2>2, <2>5 DEF PromoteRead, TypeOK, stores, known
<1>8. ASSUME NEW k \in Talks, Recheck(k) PROVE TypeOK'
  <2>1. req' \in Requests
    BY <1>0, <1>8, GoMoves, EndMoves DEF Recheck, Steps
  <2>2. mirror' \in [Runtimes -> Draft] /\ raced' \in [Talks -> BOOLEAN]
    BY <1>0, <1>8, ReadsTyped DEF Recheck, Fresh, TypeOK
  <2> QED BY <1>0, <1>8, <2>1, <2>2 DEF Recheck, TypeOK, stores, known
<1>9. ASSUME NEW k \in Talks, Place(k) PROVE TypeOK'
  <2>1. req' \in Requests
    BY <1>0, <1>9, GoMoves DEF Place, Steps
  <2>2. raced' \in [Talks -> BOOLEAN]
    BY <1>0, <1>9, RacedTyped DEF Place
  <2>3. Format[req[k].code] \in Codes
    BY <1>9, CodesAssumption DEF Place, IInv, Sound, Chosen
  <2>4. /\ draft' \in Codes \cup {NoCode} /\ saved' \in Codes \cup {NoCode}
        /\ object => saved' # NoCode
        /\ ~object => draft' = NoCode
    BY <1>0, <1>9, <2>3 DEF Place, SetSource, TypeOK
  <2> QED BY <1>0, <1>9, <2>1, <2>2, <2>4 DEF Place, TypeOK, known
<1>10. ASSUME NEW k \in Talks, Store(k) PROVE TypeOK'
  <2>1. req' \in Requests
    BY <1>0, <1>10, GoMoves DEF Store, Steps
  <2>2. raced' \in [Talks -> BOOLEAN]
    BY <1>0, <1>10, RacedTyped DEF Store
  <2>3. Format[req[k].code] \in Codes
    BY <1>10, CodesAssumption DEF Store, IInv, Sound, Chosen
  <2>4. saved' \in Codes \cup {NoCode} /\ (object => saved' # NoCode)
    BY <1>0, <1>10, <2>3 DEF Store, Answered, TypeOK
  <2> QED BY <1>0, <1>10, <2>1, <2>2, <2>4 DEF Store, TypeOK, known
<1>11. ASSUME NEW k \in Talks, Clear(k) PROVE TypeOK'
  <2>1. req' \in Requests
    BY <1>0, <1>11, EndMoves DEF Clear
  <2>2. raced' \in [Talks -> BOOLEAN]
    BY <1>0, <1>11, RacedTyped DEF Clear
  <2>3. Nothing \in Draft
    BY DEF Nothing, Text, Draft
  <2> QED BY <1>0, <1>11, <2>1, <2>2, <2>3 DEF Clear, TypeOK, known
<1>12. ASSUME Studio PROVE TypeOK'
  <2>0. Outside
    BY <1>12 DEF Studio, StudioEdit, StudioSave, StudioReload, LoadObject,
       RemoveObject, EditFile
  <2>1. /\ raced' \in [Talks -> BOOLEAN] /\ changes' \in Nat
        /\ UNCHANGED <<loaded, mirror, req, told, checked, requests>>
    BY <1>0, <2>0, RacedTyped DEF Outside, TypeOK, known
  <2>2. CASE \E c \in Codes : StudioEdit(c) \/ EditFile(c)
    BY <1>0, <2>1, <2>2, CodesAssumption DEF StudioEdit, EditFile, SetSource, TypeOK
  <2>3. CASE StudioSave
    BY <1>0, <2>1, <2>3 DEF StudioSave, Answered, TypeOK
  <2>4. CASE StudioReload \/ LoadObject \/ RemoveObject
    BY <1>0, <2>1, <2>4 DEF StudioReload, LoadObject, RemoveObject, TypeOK
  <2> QED BY <1>12, <2>2, <2>3, <2>4 DEF Studio
<1>13. CASE UNCHANGED vars
  BY <1>0, <1>13 DEF TypeOK, vars, stores, known
<1> QED BY StepCases, <1>1, <1>2, <1>3, <1>4, <1>5, <1>6, <1>7, <1>8, <1>9,
           <1>10, <1>11, <1>12, <1>13 DEF Serve

-----------------------------------------------------------------------------
(* The requests in flight stay apart, and a step of one leaves the others  *)
(* what they rely on.                                                      *)

(* Reading to promote keeps the text and the revision read.                *)
LEMMA SelectMoves ==
  ASSUME TypeOK, NEW k \in Talks, NEW c, NEW v,
         req' = [req EXCEPT ![k].at = "recheck", ![k].code = c, ![k].revision = v]
  PROVE  /\ Alone(k)
         /\ req'[k].at = "recheck" /\ req'[k].rt = req[k].rt
         /\ req'[k].code = c /\ req'[k].revision = v
         /\ req'[k].supplied = req[k].supplied /\ req'[k].given = req[k].given
<1>1. req[k] = [at |-> req[k].at, rt |-> req[k].rt, code |-> req[k].code,
                revision |-> req[k].revision, supplied |-> req[k].supplied,
                given |-> req[k].given]
  BY DEF TypeOK
<1> QED BY <1>1 DEF TypeOK, Alone

(* A request in flight stays on its runtime and moves alone.               *)
LEMMA ServedAlone ==
  ASSUME TypeOK, NEW k \in Talks, Serve(k)
  PROVE  Alone(k) /\ req[k].at # "idle" /\ req'[k].rt = req[k].rt
<1>1. CASE PatchRead(k)
  BY <1>1, GoMoves, EndMoves DEF PatchRead, Steps
<1>2. CASE SetRead(k)
  BY <1>2, GoMoves, EndMoves DEF SetRead, Steps
<1>3. CASE SetWrite(k)
  BY <1>3, GoMoves, EndMoves DEF SetWrite, Keep, Steps
<1>4. CASE SetReadBack(k)
  BY <1>4, EndMoves DEF SetReadBack, Keep
<1>5. CASE PromoteRead(k)
  <2> DEFINE current == IF req[k].supplied THEN Text(req[k].code)
                        ELSE Working(req[k].rt)
  <2>1. \/ End(k) \/ Go(k, "place")
        \/ req' = [req EXCEPT ![k].at = "recheck", ![k].code = current.code,
                              ![k].revision = current.revision]
    BY <1>5 DEF PromoteRead
  <2>2. req[k].at # "idle" /\ "place" \in Steps
    BY <1>5 DEF PromoteRead, Steps
  <2> HIDE DEF current
  <2>3. CASE End(k)
    BY <2>2, <2>3, EndMoves
  <2>4. CASE Go(k, "place")
    BY <2>2, <2>4, GoMoves
  <2>5. CASE req' = [req EXCEPT ![k].at = "recheck", ![k].code = current.code,
                                ![k].revision = current.revision]
    <3>1. Alone(k) /\ req'[k].rt = req[k].rt
      BY <2>5, SelectMoves
    <3> QED BY <2>2, <3>1
  <2> QED BY <2>1, <2>3, <2>4, <2>5
<1>6. CASE Recheck(k)
  BY <1>6, GoMoves, EndMoves DEF Recheck, Steps
<1>7. CASE Place(k)
  BY <1>7, GoMoves DEF Place, Steps
<1>8. CASE Store(k)
  BY <1>8, GoMoves DEF Store, Steps
<1>9. CASE Clear(k)
  BY <1>9, EndMoves DEF Clear
<1> QED BY <1>1, <1>2, <1>3, <1>4, <1>5, <1>6, <1>7, <1>8, <1>9 DEF Serve

LEMMA StudioMoves ==
  ASSUME Studio
  PROVE  Outside
BY DEF Studio, StudioEdit, StudioSave, StudioReload, LoadObject, RemoveObject,
   EditFile

LEMMA ApartStep ==
  ASSUME IInv, [Next]_vars
  PROVE  Apart'
<1>0. TypeOK /\ Apart
  BY DEF IInv
<1>1. ASSUME NEW k \in Talks, Simple(k) PROVE Apart'
  <2>1. req' = req
    BY <1>1 DEF Simple, Get, Check, Discard
  <2> QED BY <1>0, <2>1 DEF Apart
<1>2. ASSUME NEW k \in Talks, Sends(k) PROVE Apart'
  <2>1. PICK r \in Runtimes : \E rq : Starts(k, r, rq) /\ Send(k, r, rq)
    BY <1>2 DEF Sends
  <2>2. PICK rq : Starts(k, r, rq) /\ Send(k, r, rq)
    BY <2>1
  <2>3. Alone(k) /\ req'[k] = rq /\ Free(r) /\ rq.rt = r
    BY <1>0, <2>2, SendMoves, StartsTyped
  <2> QED BY <1>0, <2>3 DEF Alone, Apart, Free
<1>3. ASSUME NEW k \in Talks, Serve(k) PROVE Apart'
  <2>1. Alone(k) /\ req[k].at # "idle" /\ req'[k].rt = req[k].rt
    BY <1>0, <1>3, ServedAlone
  <2> QED BY <1>0, <2>1 DEF Alone, Apart
<1>4. ASSUME Studio PROVE Apart'
  <2>1. req' = req
    BY <1>4, StudioMoves DEF Outside
  <2> QED BY <1>0, <2>1 DEF Apart
<1>5. CASE UNCHANGED vars
  BY <1>0, <1>5 DEF Apart, vars
<1> QED BY StepCases, <1>1, <1>2, <1>3, <1>4, <1>5

(* What a step of another leaves to a request: its own record and what its *)
(* conversation knows; and unless it marks the request raced, the stores   *)
(* and what its runtime reads.                                             *)
Untouched(k) ==
  /\ req'[k] = req[k] /\ told'[k] = told[k] /\ checked'[k] = checked[k]
  /\ removed => removed'
  /\ req[k].at \in Exposed
       => \/ raced'[k]
          \/ /\ raced'[k] = raced[k] /\ removed' = removed
             /\ UNCHANGED <<object, saved, draft>>
             /\ Working(req[k].rt)' = Working(req[k].rt)

LEMMA Left ==
  ASSUME NEW k \in Talks, Sound(k), Untouched(k)
  PROVE  Sound(k)'
<1>1. Edits(k)'
  BY DEF Sound, Edits, Untouched, Exposed, Current, Answered
<1>2. Chosen(k)'
  BY DEF Sound, Chosen, Named, Plain, Untouched
<1>3. Placed(k)'
  BY DEF Sound, Placed, Plain, Untouched, Exposed, Answered
<1> QED BY <1>1, <1>2, <1>3 DEF Sound

(* A read on another runtime changes nothing of what this one reads.       *)
LEMMA ReadsElsewhere ==
  ASSUME TypeOK, NEW r \in Runtimes, NEW s \in Runtimes, r # s,
         mirror' = AfterRead(r) \/ mirror' = mirror,
         UNCHANGED <<object, saved, draft, kept>>
  PROVE  Working(s)' = Working(s)
<1>1. mirror'[s] = mirror[s]
  BY ReadsTyped
<1> QED BY <1>1 DEF Working

LEMMA OthersLeave ==
  ASSUME IInv, NEW k \in Talks, NEW j \in Talks, j # k,
         Simple(j) \/ Sends(j) \/ Serve(j)
  PROVE  Untouched(k)
<1>0. TypeOK /\ Apart /\ req[k].rt \in Runtimes /\ req[j].rt \in Runtimes
  BY DEF IInv, TypeOK
<1>1. ASSUME Disturb(j), req[k].at \in Exposed PROVE raced'[k]
  BY <1>1 DEF Disturb
<1>2. ASSUME Fresh(j) PROVE raced'[k] = raced[k]
  BY <1>0, <1>2 DEF Fresh, TypeOK
<1>3. req[k].at \in Exposed => req[k].at # "idle"
  BY DEF Exposed
<1>4. CASE Simple(j)
  <2>1. PICK r \in Runtimes : Get(j, r) \/ Check(j, r) \/ Discard(j, r)
    BY <1>4 DEF Simple
  <2>2. req[k].at \in Exposed => req[k].rt # r
    BY <1>3, <2>1 DEF Get, Check, Discard, Ask, Free
  <2>3. CASE Get(j, r) \/ Check(j, r)
    <3>1. /\ UNCHANGED <<object, saved, draft, kept, req, raced, removed>>
          /\ told'[k] = told[k] /\ checked'[k] = checked[k]
          /\ mirror' = AfterRead(r)
      BY <1>0, <2>3 DEF Get, Check, Ask, stores, TypeOK
    <3> QED BY <1>0, <2>2, <3>1, ReadsElsewhere DEF Untouched
  <2>4. CASE Discard(j, r)
    BY <1>1, <2>4 DEF Discard, Ask, known, Untouched
  <2> QED BY <2>1, <2>3, <2>4
<1>5. CASE Sends(j)
  <2>1. PICK r \in Runtimes : \E rq : Starts(j, r, rq) /\ Send(j, r, rq)
    BY <1>5 DEF Sends
  <2>2. PICK rq : Starts(j, r, rq) /\ Send(j, r, rq)
    BY <2>1
  <2>3. Alone(j)
    BY <1>0, <2>2, SendMoves
  <2>4. UNCHANGED <<object, saved, draft, kept, mirror, told, checked, raced, removed>>
    BY <2>2 DEF Send, Ask, stores, known
  <2> QED BY <2>3, <2>4 DEF Untouched, Alone, Working
<1>6. CASE Serve(j)
  <2>1. req'[k] = req[k] /\ req[j].at # "idle"
    BY <1>0, <1>6, ServedAlone DEF Alone
  <2>2. req[k].at \in Exposed => req[k].rt # req[j].rt
    BY <1>0, <1>3, <2>1 DEF Apart
  <2>3. told'[k] = told[k] /\ checked'[k] = checked[k] /\ removed' = removed
    BY <1>0, <1>6 DEF Serve, PatchRead, SetRead, SetWrite, SetReadBack, PromoteRead,
       Recheck, Place, Store, Clear, Keep, Tell, Accepted, known, TypeOK
  <2>4. CASE PatchRead(j) \/ SetRead(j) \/ PromoteRead(j) \/ Recheck(j)
    <3>1. /\ UNCHANGED <<object, saved, draft, kept>>
          /\ raced'[k] = raced[k]
          /\ mirror' = AfterRead(req[j].rt) \/ mirror' = mirror
      BY <1>2, <2>4 DEF PatchRead, SetRead, PromoteRead, Recheck, stores
    <3>2. req[k].at \in Exposed => Working(req[k].rt)' = Working(req[k].rt)
      <4> SUFFICES ASSUME req[k].at \in Exposed
                   PROVE  Working(req[k].rt)' = Working(req[k].rt)
        OBVIOUS
      <4>1. mirror'[req[k].rt] = mirror[req[k].rt]
        BY <1>0, <2>2, <3>1, ReadsTyped
      <4> QED BY <2>1, <3>1, <4>1 DEF Working
    <3> QED BY <2>1, <2>3, <3>1, <3>2 DEF Untouched
  <2>5. CASE SetReadBack(j) /\ object
    <3>1. UNCHANGED <<object, saved, draft, kept, raced>> /\ object
      BY <2>5 DEF SetReadBack, stores
    <3>2. Working(req[k].rt)' = Working(req[k].rt)
      BY <2>1, <3>1 DEF Working
    <3> QED BY <2>1, <2>3, <3>1, <3>2 DEF Untouched
  <2>6. CASE Disturb(j)
    BY <1>1, <2>1, <2>3, <2>6 DEF Untouched
  <2>7. SetWrite(j) \/ Place(j) \/ Store(j) \/ Clear(j) => Disturb(j)
    BY DEF SetWrite, Place, Store, Clear
  <2>8. SetReadBack(j) /\ ~object => Disturb(j)
    BY DEF SetReadBack
  <2> QED BY <1>6, <2>4, <2>5, <2>6, <2>7, <2>8 DEF Serve
<1> QED BY <1>4, <1>5, <1>6

-----------------------------------------------------------------------------
(* The mirrors, and the steps of a request itself.                         *)

LEMMA MirrorsStep ==
  ASSUME IInv, [Next]_vars
  PROVE  Mirrors'
<1>0. TypeOK /\ Mirrors /\ \A k \in Talks : req[k].rt \in Runtimes
  BY DEF IInv, TypeOK
<1>1. Nothing.revision = Nothing.code /\ \A c : Text(c).revision = Text(c).code
  BY DEF Nothing, Text
<1>2. ASSUME NEW r \in Runtimes, mirror' = AfterRead(r) \/ mirror' = mirror,
             UNCHANGED <<loaded, object, removed>>
      PROVE  Mirrors'
  BY <1>0, <1>2, ReadsTyped DEF Mirrors
<1>3. ASSUME NEW r \in Runtimes, mirror' = [mirror EXCEPT ![r] = Nothing],
             UNCHANGED <<loaded, object, removed>>
      PROVE  Mirrors'
  BY <1>0, <1>1, <1>3 DEF Mirrors, TypeOK
<1>4. ASSUME NEW k \in Talks, Keep(k), UNCHANGED <<loaded, removed>>
      PROVE  Mirrors'
  <2>1. CASE loaded
    BY <1>0, <1>3, <1>4, <2>1 DEF Keep
  <2>2. CASE ~loaded
    BY <1>0, <1>1, <1>4, <2>2 DEF Keep, Mirrors, TypeOK
  <2> QED BY <2>1, <2>2
<1>5. ASSUME NEW k \in Talks, Simple(k) PROVE Mirrors'
  BY <1>2, <1>3, <1>5 DEF Simple, Get, Check, Discard, Ask, stores
<1>6. ASSUME NEW k \in Talks, Sends(k) PROVE Mirrors'
  BY <1>0, <1>6 DEF Sends, Send, Ask, Mirrors, stores
<1>7. ASSUME NEW k \in Talks, Serve(k) PROVE Mirrors'
  <2>1. CASE PatchRead(k) \/ SetRead(k) \/ PromoteRead(k) \/ Recheck(k)
    BY <1>0, <1>2, <2>1 DEF PatchRead, SetRead, PromoteRead, Recheck, stores
  <2>2. CASE SetWrite(k)
    BY <1>0, <1>4, <2>2 DEF SetWrite, Mirrors
  <2>3. CASE SetReadBack(k)
    BY <1>0, <1>4, <2>3 DEF SetReadBack, Mirrors, stores
  <2>4. CASE Place(k) \/ Store(k)
    BY <1>0, <2>4 DEF Place, Store, Mirrors
  <2>5. CASE Clear(k)
    BY <1>0, <1>3, <2>5 DEF Clear
  <2> QED BY <1>7, <2>1, <2>2, <2>3, <2>4, <2>5 DEF Serve
<1>8. ASSUME Studio PROVE Mirrors'
  <2>1. UNCHANGED <<loaded, mirror>>
    BY <1>8, StudioMoves DEF Outside
  <2>2. (removed => removed') /\ (object' \/ removed' \/ ~object)
    BY <1>8 DEF Studio, StudioEdit, StudioSave, StudioReload, LoadObject,
       RemoveObject, EditFile
  <2> QED BY <1>0, <2>1, <2>2 DEF Mirrors
<1>9. CASE UNCHANGED vars
  BY <1>0, <1>9 DEF Mirrors, vars, stores
<1> QED BY StepCases, <1>5, <1>6, <1>7, <1>8, <1>9

(* An idle request relies on nothing.                                      *)
LEMMA IdleSound ==
  ASSUME NEW k \in Talks, req'[k].at = "idle"
  PROVE  Sound(k)'
<1>1. Edits(k)'
  BY DEF Edits
<1>2. Chosen(k)'
  BY DEF Chosen
<1>3. Placed(k)'
  BY DEF Placed
<1> QED BY <1>1, <1>2, <1>3 DEF Sound

(* A read leaves what its runtime reads.                                   *)
LEMMA ReadsAgain ==
  ASSUME TypeOK, NEW r \in Runtimes, mirror' = AfterRead(r),
         UNCHANGED <<object, saved, draft, kept>>
  PROVE  Working(r)' = Working(r) /\ Current(r)' = Current(r)
<1>1. Working(r)' = Working(r)
  BY DEF Working, AfterRead
<1> QED BY <1>1 DEF Current

(* Until an object is removed, a revision read is the one of the text.     *)
LEMMA ReadsItsRevision ==
  ASSUME TypeOK, Mirrors, ~removed, NEW r \in Runtimes
  PROVE  Working(r).revision = Working(r).code
BY DEF Working, Mirrors, Text

LEMMA OwnStep ==
  ASSUME IInv, NEW k \in Talks, Simple(k) \/ Sends(k) \/ Serve(k)
  PROVE  Sound(k)'
<1>0. TypeOK /\ Mirrors /\ Sound(k) /\ req[k].rt \in Runtimes
  BY DEF IInv, TypeOK
<1>1. CASE Simple(k)
  BY <1>1, IdleSound DEF Simple, Get, Check, Discard, Ask
<1>2. CASE Sends(k)
  <2>1. PICK r \in Runtimes : \E rq : Starts(k, r, rq) /\ Send(k, r, rq)
    BY <1>2 DEF Sends
  <2>2. PICK rq : Starts(k, r, rq) /\ Send(k, r, rq)
    BY <2>1
  <2>3. /\ req'[k] = rq /\ rq.at \in {"read", "reread", "promote"}
        /\ rq.at \in {"read", "reread"} /\ rq.given
             => rq.revision # NoCode /\ rq.revision = told[k].revision
        /\ rq.at \in {"read", "reread"} => rq.code \in Codes
        /\ rq.at = "promote" /\ rq.given /\ ~rq.supplied => rq.revision = checked[k]
    BY <1>0, <2>2, SendMoves, StartsTyped
  <2>4. told' = told /\ checked' = checked
    BY <2>2 DEF Send, known
  <2>5. Edits(k)'
    BY <2>3, <2>4 DEF Edits
  <2>6. Chosen(k)'
    BY <2>3, <2>4 DEF Chosen, Named
  <2>7. Placed(k)'
    BY <2>3 DEF Placed
  <2> QED BY <2>5, <2>6, <2>7 DEF Sound
<1>3. CASE PatchRead(k)
  <2>1. CASE End(k)
    BY <1>0, <2>1, EndMoves, IdleSound
  <2>2. CASE Go(k, "reread")
    <3>1. /\ req'[k].at = "reread" /\ req'[k].given = req[k].given
          /\ req'[k].code = req[k].code
          /\ req'[k].revision = req[k].revision
      BY <1>0, <2>2, GoMoves DEF Steps
    <3>2. Edits(k)'
      BY <1>0, <1>3, <3>1 DEF PatchRead, Sound, Edits, known
    <3>3. Chosen(k)'
      BY <3>1 DEF Chosen
    <3>4. Placed(k)'
      BY <3>1 DEF Placed
    <3> QED BY <3>2, <3>3, <3>4 DEF Sound
  <2> QED BY <1>3, <2>1, <2>2 DEF PatchRead
<1>4. CASE SetRead(k)
  <2>1. CASE End(k)
    BY <1>0, <2>1, EndMoves, IdleSound
  <2>2. CASE ~Stale(k, Current(req[k].rt)) /\ Go(k, "write") /\ UNCHANGED known
    <3>1. /\ req'[k].at = "write" /\ req'[k].given = req[k].given
          /\ req'[k].code = req[k].code
          /\ req'[k].revision = req[k].revision /\ req'[k].rt = req[k].rt
      BY <1>0, <2>2, GoMoves DEF Steps
    <3>2. Current(req[k].rt)' = Current(req[k].rt)
      BY <1>0, <1>4, ReadsAgain, <3>1 DEF SetRead, stores
    <3>3. /\ req[k].code \in Codes
          /\ req[k].given
               => req[k].revision # NoCode /\ req[k].revision = told[k].revision
      BY <1>0, <1>4 DEF SetRead, Sound, Edits
    <3>5. Edits(k)'
      BY <2>2, <3>1, <3>2, <3>3 DEF Edits, Stale, known
    <3>6. Chosen(k)'
      BY <3>1 DEF Chosen
    <3>7. Placed(k)'
      BY <3>1 DEF Placed
    <3> QED BY <3>5, <3>6, <3>7 DEF Sound
  <2> QED BY <1>4, <2>1, <2>2 DEF SetRead
<1>5. CASE SetWrite(k)
  <2>1. CASE object /\ SetSource(req[k].code) /\ Go(k, "readback")
               /\ UNCHANGED <<object, saved, kept, mirror, known>>
    <3>1. req'[k].at = "readback" /\ req'[k].code = req[k].code
      BY <1>0, <2>1, GoMoves DEF Steps
    <3>2. req[k].code \in Codes
      BY <1>0, <1>5 DEF SetWrite, Sound, Edits
    <3>3. Answered' = req[k].code
      BY <2>1, <3>2, CodesAssumption DEF SetSource, Answered
    <3>4. Edits(k)'
      BY <3>1, <3>3 DEF Edits
    <3>5. Chosen(k)'
      BY <3>1 DEF Chosen
    <3>6. Placed(k)'
      BY <3>1 DEF Placed
    <3> QED BY <3>4, <3>5, <3>6 DEF Sound
  <2>2. CASE Keep(k)
    BY <1>0, <2>2, EndMoves, IdleSound DEF Keep
  <2> QED BY <1>5, <2>1, <2>2 DEF SetWrite
<1>6. CASE SetReadBack(k)
  BY <1>0, <1>6, EndMoves, IdleSound DEF SetReadBack, Keep
<1>7. CASE PromoteRead(k)
  <2> DEFINE current == IF req[k].supplied THEN Text(req[k].code)
                        ELSE Working(req[k].rt)
  <2>1. /\ removed' = removed /\ checked' = checked
        /\ \/ End(k)
           \/ Promotable(k, current) /\ req[k].supplied /\ Go(k, "place")
           \/ /\ Promotable(k, current) /\ ~req[k].supplied
              /\ req' = [req EXCEPT ![k].at = "recheck", ![k].code = current.code,
                                    ![k].revision = current.revision]
    BY <1>0, <1>7, EndMoves DEF PromoteRead, known
  <2>2. CASE End(k)
    BY <1>0, <2>2, EndMoves, IdleSound
  <2>3. CASE Promotable(k, current) /\ req[k].supplied /\ Go(k, "place")
    <3>1. req'[k].at = "place" /\ req'[k].code = req[k].code /\ req'[k].supplied
      BY <1>0, <2>3, GoMoves DEF Steps
    <3>2. req[k].code \in Valid
      BY <2>3 DEF Promotable, Text
    <3>3. Edits(k)'
      BY <3>1 DEF Edits
    <3>4. Chosen(k)'
      BY <3>1, <3>2 DEF Chosen, Named, Plain
    <3>5. Placed(k)'
      BY <3>1 DEF Placed, Plain
    <3> QED BY <3>3, <3>4, <3>5 DEF Sound
  <2>4. CASE /\ Promotable(k, current) /\ ~req[k].supplied
             /\ req' = [req EXCEPT ![k].at = "recheck", ![k].code = current.code,
                                   ![k].revision = current.revision]
    <3>1. /\ req'[k].at = "recheck" /\ req'[k].code = Working(req[k].rt).code
          /\ req'[k].revision = Working(req[k].rt).revision
          /\ req'[k].supplied = req[k].supplied /\ req'[k].given = req[k].given
      <4>1. current = Working(req[k].rt)
        BY <2>4
      <4> DEFINE c == current.code
                 v == current.revision
      <4>2. req' = [req EXCEPT ![k].at = "recheck", ![k].code = c, ![k].revision = v]
        BY <2>4
      <4>3. c = Working(req[k].rt).code /\ v = Working(req[k].rt).revision
        BY <4>1
      <4> HIDE DEF current, c, v
      <4>4. TypeOK
        BY <1>0
      <4>5. req'[k].at = "recheck"
        BY <4>2, <4>4, SelectMoves
      <4>6. req'[k].code = c
        BY <4>2, <4>4, SelectMoves
      <4>7. req'[k].revision = v
        BY <4>2, <4>4 DEF TypeOK
      <4>8. req'[k].supplied = req[k].supplied
        BY <4>2, <4>4, SelectMoves
      <4>9. req'[k].given = req[k].given
        BY <4>2, <4>4, SelectMoves
      <4> QED BY <4>3, <4>5, <4>6, <4>7, <4>8, <4>9
    <3>2. /\ Working(req[k].rt).code \in Valid
          /\ req[k].given => Working(req[k].rt).revision = req[k].revision
      BY <2>4 DEF Promotable
    <3>3. ~req[k].supplied /\ req[k].given => req[k].revision = checked[k]
      BY <1>0, <1>7 DEF PromoteRead, Sound, Chosen, Named
    <3>4. ~removed => Working(req[k].rt).revision = Working(req[k].rt).code
      BY <1>0, ReadsItsRevision
    <3>5. Edits(k)'
      BY <3>1 DEF Edits
    <3>6. Chosen(k)'
      BY <2>1, <2>4, <3>1, <3>2, <3>3, <3>4 DEF Chosen, Named, Plain
    <3>7. Placed(k)'
      BY <3>1 DEF Placed
    <3> QED BY <3>5, <3>6, <3>7 DEF Sound
  <2> QED BY <2>1, <2>2, <2>3, <2>4
<1>8. CASE Recheck(k)
  <2>1. CASE End(k)
    BY <1>0, <2>1, EndMoves, IdleSound
  <2>2. CASE Unmoved(k) /\ Go(k, "place")
    <3>1. /\ req'[k].at = "place" /\ req'[k].code = req[k].code
          /\ req'[k].revision = req[k].revision /\ req'[k].rt = req[k].rt
          /\ req'[k].supplied = req[k].supplied /\ req'[k].given = req[k].given
      BY <1>0, <2>2, GoMoves DEF Steps
    <3>2. Working(req[k].rt)' = Working(req[k].rt)
      BY <1>0, <1>8, ReadsAgain, <3>1 DEF Recheck, stores
    <3>3. Plain(k) => Working(req[k].rt).code = req[k].code
      BY <1>0, <1>8, <2>2, ReadsItsRevision
         DEF Recheck, Unmoved, Plain, Sound, Chosen
    <3>4. Edits(k)'
      BY <3>1 DEF Edits
    <3>5. Chosen(k)'
      BY <1>0, <1>8, <3>1 DEF Recheck, Sound, Chosen, Named, Plain, known
    <3>6. Placed(k)'
      BY <1>8, <3>1, <3>2, <3>3 DEF Recheck, Placed, Plain
    <3> QED BY <3>4, <3>5, <3>6 DEF Sound
  <2> QED BY <1>8, <2>1, <2>2 DEF Recheck
<1>9. CASE Place(k)
  <2>1. CASE object /\ SetSource(Format[req[k].code]) /\ Go(k, "store")
               /\ UNCHANGED saved
    <3>1. /\ req'[k].at = "store" /\ req'[k].code = req[k].code
          /\ req'[k].revision = req[k].revision
          /\ req'[k].supplied = req[k].supplied /\ req'[k].given = req[k].given
      BY <1>0, <2>1, GoMoves DEF Steps
    <3>2. Format[req[k].code] # NoCode
      BY <1>0, <1>9, CodesAssumption DEF Place, Sound, Chosen
    <3>3. object' /\ Answered' = Format[req[k].code]
          /\ draft' \in {NoCode, Format[req[k].code]}
      BY <1>9, <2>1, <3>2 DEF Place, SetSource, Answered
    <3>4. Edits(k)'
      BY <3>1 DEF Edits
    <3>5. Chosen(k)'
      BY <1>0, <1>9, <3>1 DEF Place, Sound, Chosen, Named, Plain, known
    <3>6. Placed(k)'
      BY <3>1, <3>3 DEF Placed
    <3> QED BY <3>4, <3>5, <3>6 DEF Sound
  <2>2. CASE ~object /\ Go(k, "clear") /\ UNCHANGED draft
    <3>1. /\ req'[k].at = "clear" /\ req'[k].code = req[k].code
          /\ req'[k].revision = req[k].revision /\ req'[k].rt = req[k].rt
          /\ req'[k].supplied = req[k].supplied /\ req'[k].given = req[k].given
      BY <1>0, <2>2, GoMoves DEF Steps
    <3>2. Working(req[k].rt)' = Working(req[k].rt)
      BY <1>9, <2>2, <3>1 DEF Place, Working
    <3>3. raced'[k] = raced[k]
      BY <1>0, <1>9 DEF Place, Disturb, TypeOK
    <3>4. Plain(k) /\ ~raced[k] => Working(req[k].rt).code = req[k].code
      BY <1>0, <1>9 DEF Place, Sound, Placed
    <3>5. Edits(k)'
      BY <3>1 DEF Edits
    <3>6. Chosen(k)'
      BY <1>0, <1>9, <3>1 DEF Place, Sound, Chosen, Named, Plain, known
    <3>7. Placed(k)'
      BY <1>9, <3>1, <3>2, <3>3, <3>4 DEF Place, Placed, Plain
    <3> QED BY <3>5, <3>6, <3>7 DEF Sound
  <2> QED BY <1>9, <2>1, <2>2 DEF Place
<1>10. CASE Store(k)
  <2>1. /\ req'[k].at = "clear" /\ req'[k].code = req[k].code
        /\ req'[k].revision = req[k].revision /\ req'[k].rt = req[k].rt
        /\ req'[k].supplied = req[k].supplied /\ req'[k].given = req[k].given
    BY <1>0, <1>10, GoMoves DEF Store, Steps
  <2>2. raced'[k] = raced[k] /\ draft' = NoCode /\ object' = object
    BY <1>0, <1>10 DEF Store, Disturb, TypeOK
  <2>3. ~raced[k] => object
    BY <1>0, <1>10 DEF Store, Sound, Placed
  <2>4. ~raced[k] => Working(req[k].rt)'.code = NoCode
    BY <2>1, <2>2, <2>3 DEF Working, Text
  <2>5. Edits(k)'
    BY <2>1 DEF Edits
  <2>6. Chosen(k)'
    BY <1>0, <1>10, <2>1 DEF Store, Sound, Chosen, Named, Plain, known
  <2>7. Placed(k)'
    BY <2>1, <2>2, <2>4 DEF Placed
  <2> QED BY <2>5, <2>6, <2>7 DEF Sound
<1>11. CASE Clear(k)
  BY <1>0, <1>11, EndMoves, IdleSound DEF Clear
<1> QED BY <1>1, <1>2, <1>3, <1>4, <1>5, <1>6, <1>7, <1>8, <1>9, <1>10, <1>11
        DEF Serve

(* The Studio marks every request it may disturb.                          *)
LEMMA StudioLeaves ==
  ASSUME IInv, Studio, NEW k \in Talks
  PROVE  Untouched(k)
<1>1. Outside
  BY StudioMoves
<1>2. req' = req /\ told' = told /\ checked' = checked
  BY <1>1 DEF Outside, known
<1>3. req[k].at \in Exposed => raced'[k]
  BY <1>1 DEF Outside, DisturbAll
<1>4. removed => removed'
  BY DEF Studio, StudioEdit, StudioSave, StudioReload, LoadObject, RemoveObject,
     EditFile
<1> QED BY <1>2, <1>3, <1>4 DEF Untouched

LEMMA SoundStep ==
  ASSUME IInv, [Next]_vars, NEW k \in Talks
  PROVE  Sound(k)'
<1>0. Sound(k)
  BY DEF IInv
<1>1. ASSUME NEW j \in Talks, Simple(j) \/ Sends(j) \/ Serve(j) PROVE Sound(k)'
  <2>1. CASE j = k
    BY <1>1, <2>1, OwnStep
  <2>2. CASE j # k
    BY <1>0, <1>1, <2>2, OthersLeave, Left
  <2> QED BY <2>1, <2>2
<1>2. CASE Studio
  BY <1>0, <1>2, StudioLeaves, Left
<1>3. CASE UNCHANGED vars
  <2>1. Untouched(k)
    BY <1>3 DEF vars, stores, known, Untouched, Working
  <2> QED BY <1>0, <2>1, Left
<1> QED BY StepCases, <1>1, <1>2, <1>3

-----------------------------------------------------------------------------
(* Theorems.                                                               *)

(* The invariant holds in every reachable state.                           *)
THEOREM InvariantHolds == Spec => []IInv
<1>1. Init => IInv
  BY InitSound
<1>2. IInv /\ [Next]_vars => IInv'
  <2> SUFFICES ASSUME IInv, [Next]_vars PROVE IInv'
    OBVIOUS
  <2>1. TypeOK' /\ Apart' /\ Mirrors'
    BY TypeStep, ApartStep, MirrorsStep
  <2>2. (\A k \in Talks : Sound(k))'
    BY SoundStep
  <2> QED BY <2>1, <2>2 DEF IInv
<1> QED BY <1>1, <1>2, PTL DEF Spec

(* Every state of the homes of a Flow and of its requests is well formed.  *)
THEOREM FlowCodeTyped == Spec => []TypeOK
<1>1. IInv => TypeOK
  BY DEF IInv
<1> QED BY <1>1, InvariantHolds, PTL

(* For any number of runtimes, all read the same working copy of a Flow of *)
(* a loaded project until its object is removed                            *)
(* (flow-code-service.js:440-488, 675-693).  Nothing is said of a Flow     *)
(* without a loaded project, where each runtime has a mirror of its own.   *)
THEOREM OneCopyForAll == Spec => []OneCopy
<1>1. IInv => OneCopy
  BY DEF IInv, TypeOK, Mirrors, OneCopy, Working
<1> QED BY <1>1, InvariantHolds, PTL

(* For any number of conversations, an edit sent with a revision loses no  *)
(* text its conversation has not seen, but one written after its last read *)
(* (flow-code-service.js:627-648, 760-789).                                *)
THEOREM EditsSee == Spec => EditSeesWhatItReplaces
<1>1. ASSUME IInv, [Next]_vars, NEW k \in Talks,
             Leaves(k, "write"), req[k].given, ~raced[k]
      PROVE  \/ Current(req[k].rt) = Nothing
             \/ told[k].revision = Current(req[k].rt).revision
  BY <1>1 DEF IInv, Sound, Edits, Leaves
<1>2. IInv /\ [Next]_vars =>
        [\A k \in Talks :
           Leaves(k, "write") /\ req[k].given /\ ~raced[k]
             => \/ Current(req[k].rt) = Nothing
                \/ told[k].revision = Current(req[k].rt).revision]_vars
  BY <1>1
<1> QED BY <1>2, InvariantHolds, PTL DEF Spec, EditSeesWhatItReplaces

(* A request in flight that moves is served.                               *)
LEMMA MovedByItself ==
  ASSUME IInv, [Next]_vars, NEW k \in Talks, req[k].at # "idle",
         req'[k].at # req[k].at
  PROVE  Serve(k)
<1>1. ASSUME NEW j \in Talks, Simple(j) \/ Sends(j) \/ Serve(j) PROVE Serve(k)
  <2>1. CASE j # k
    BY <1>1, <2>1, OthersLeave DEF Untouched
  <2>2. CASE j = k /\ (Simple(k) \/ Sends(k))
    BY <2>2 DEF Simple, Sends, Get, Check, Discard, Send, Ask
  <2> QED BY <1>1, <2>1, <2>2
<1>2. CASE Studio
  BY <1>2, StudioLeaves DEF Untouched
<1>3. CASE UNCHANGED vars
  BY <1>3 DEF vars
<1> QED BY StepCases, <1>1, <1>2, <1>3

(* Nor does it answer the revision of a text another wrote, unless raced   *)
(* (flow-code-service.js:671-693, Engine.js:4197).                         *)
THEOREM ToldOwnRevision == Spec => ToldItsOwn
<1>1. ASSUME IInv, [Next]_vars, NEW k \in Talks,
             req[k].at \in {"write", "readback"}, req'[k].at = "idle", ~raced[k]
      PROVE  told'[k] = Text(req[k].code)
  <2>0. TypeOK /\ Sound(k)
    BY <1>1 DEF IInv
  <2>1. Serve(k)
    BY <1>1, MovedByItself
  <2>2. ASSUME Keep(k) PROVE told'[k] = Text(req[k].code)
    BY <2>0, <2>2 DEF Keep, Tell, Text, TypeOK
  <2>3. CASE req[k].at = "write"
    <3>1. SetWrite(k)
      BY <2>1, <2>3 DEF Serve, PatchRead, SetRead, SetReadBack, PromoteRead,
         Recheck, Place, Store, Clear
    <3>2. ~Go(k, "readback")
      BY <1>1, <2>0, GoMoves DEF Steps
    <3> QED BY <2>2, <3>1, <3>2 DEF SetWrite
  <2>4. CASE req[k].at = "readback"
    <3>1. SetReadBack(k)
      BY <2>1, <2>4 DEF Serve, PatchRead, SetRead, SetWrite, PromoteRead,
         Recheck, Place, Store, Clear
    <3>2. CASE object
      <4>1. Answered = req[k].code
        BY <1>1, <2>0, <2>4, <3>2 DEF Sound, Edits
      <4>2. Tell(k, Answered)
        BY <3>1, <3>2 DEF SetReadBack
      <4> QED BY <2>0, <4>1, <4>2 DEF Tell, Text, TypeOK
    <3>3. CASE ~object
      BY <2>2, <3>1, <3>3 DEF SetReadBack
    <3> QED BY <3>2, <3>3
  <2> QED BY <1>1, <2>3, <2>4
<1>2. IInv /\ [Next]_vars =>
        [\A k \in Talks :
           req[k].at \in {"write", "readback"} /\ req'[k].at = "idle" /\ ~raced[k]
             => told'[k] = Text(req[k].code)]_vars
  BY <1>1
<1> QED BY <1>2, InvariantHolds, PTL DEF Spec, ToldItsOwn

(* A promotion nobody raced saves the formatted form of a valid text, the  *)
(* one of the checked revision (flow-code-service.js:1178-1266).           *)
THEOREM PromotesChecked == Spec => PromotesWhatWasChecked
<1> DEFINE Good(k) == \/ raced[k]
                      \/ \E c \in Valid :
                           /\ saved' = Format[c]
                           /\ req[k].given /\ ~req[k].supplied /\ ~removed
                                => c = checked[k]
<1>1. ASSUME IInv, [Next]_vars, NEW k \in Talks,
             Leaves(k, "store") \/ (Leaves(k, "place") /\ ~object)
      PROVE  Good(k)
  <2>1. Serve(k)
    BY <1>1, MovedByItself DEF Leaves
  <2>2. /\ req[k].code \in Valid
        /\ req[k].given /\ ~req[k].supplied /\ ~removed => req[k].code = checked[k]
    BY <1>1 DEF Leaves, IInv, Sound, Chosen, Named, Plain
  <2>3. raced[k] \/ saved' = Format[req[k].code]
    <3>1. CASE req[k].at = "store"
      <4>1. Store(k)
        BY <2>1, <3>1 DEF Serve, PatchRead, SetRead, SetWrite, SetReadBack,
           PromoteRead, Recheck, Place, Clear
      <4> QED BY <1>1, <3>1, <4>1 DEF Store, IInv, Sound, Placed
    <3>2. CASE req[k].at = "place" /\ ~object
      <4>1. Place(k)
        BY <2>1, <3>2 DEF Serve, PatchRead, SetRead, SetWrite, SetReadBack,
           PromoteRead, Recheck, Store, Clear
      <4> QED BY <3>2, <4>1 DEF Place
    <3> QED BY <1>1, <3>1, <3>2 DEF Leaves
  <2> QED BY <2>2, <2>3
<1>2. IInv /\ [Next]_vars =>
        [\A k \in Talks :
           Leaves(k, "store") \/ (Leaves(k, "place") /\ ~object) => Good(k)]_vars
  BY <1>1
<1> QED BY <1>2, InvariantHolds, PTL DEF Spec, PromotesWhatWasChecked

(* A promotion without a text of its own drops no working copy but the one *)
(* it promotes, or one written after its second reading, until an object   *)
(* is removed (flow-code-service.js:1224-1230, 1260-1266).                 *)
THEOREM PromotionsErase == Spec => PromotionErasesNoOther
<1>1. ASSUME IInv, [Next]_vars, NEW k \in Talks,
             Promoting(k), ~req[k].supplied, ~raced[k], ~removed
      PROVE  Working(req[k].rt).code \in
               {NoCode, req[k].code, Format[req[k].code]}
  <2>1. Placed(k) /\ Plain(k)
    BY <1>1 DEF IInv, Sound, Plain
  <2>2. CASE req[k].at = "place" \/ req[k].at = "clear"
    BY <1>1, <2>1, <2>2 DEF Placed
  <2>3. CASE req[k].at = "store"
    BY <1>1, <2>1, <2>3 DEF Placed, Working, Text
  <2> QED BY <1>1, <2>2, <2>3 DEF Promoting, Leaves
<1>2. IInv /\ [Next]_vars =>
        [\A k \in Talks :
           Promoting(k) /\ ~req[k].supplied /\ ~raced[k] /\ ~removed
             => Working(req[k].rt).code \in
                  {NoCode, req[k].code, Format[req[k].code]}]_vars
  BY <1>1
<1> QED BY <1>2, InvariantHolds, PTL DEF Spec, PromotionErasesNoOther

(* A conversation knows what it overwrites and what it wrote: both facts   *)
(* on edits (flow-code-service.js:627-693).                                *)
THEOREM EditsAreKnown == Spec => EditsKnown
<1> QED BY EditsSee, ToldOwnRevision, PTL DEF EditsKnown

(* A promotion that nobody raced saves a text that validates and, without  *)
(* a text of its own and until an object is removed, the one that was      *)
(* checked, and erases no other working copy                               *)
(* (flow-code-service.js:1178-1266).                                       *)
THEOREM PromotionsAreSound == Spec => PromotionsSound
<1> QED BY PromotesChecked, PromotionsErase, PTL DEF PromotionsSound

-----------------------------------------------------------------------------
(* The flights of a tree.                                                  *)

(* A scope past the lock owns the lock it has, if it has one, and only such *)
(* a scope owns a lock.                                                    *)
Holds(s) == pc[s] \in InFlight /\ got[s] # None => owner[got[s]] = s
Owned(s) == \A k \in Lock : owner[k] = s => pc[s] \in InFlight

(* A scope that asks for a lock, waits for it or gives it back has one.    *)
HasLock(s) == pc[s] \in {"tryLock", "wait", "reread", "forget", "unlock"} => got[s] # None

Owners == \A s \in Scope : Holds(s) /\ Owned(s) /\ HasLock(s)

(* Until a flight is released the map holds the only one there is.         *)
Released == \E s \in Scope : pc[s] \in {"unlock", "done"}
OneFlight == ~Released => \A s \in Scope : got[s] # None => got[s] = flight

FlightInv == FlightTypeOK /\ Owners /\ OneFlight

USE NoneAssumption DEF Lock

LEMMA InitFlightInv == FlightInit => FlightInv
  BY DEF FlightInit, FlightInv, FlightTypeOK, Owners, Holds, Owned, HasLock, InFlight,
     OneFlight, Released

(* No step of a scope disturbs the invariant: one case per action.         *)
LEMMA NextFlightInv == FlightInv /\ [FlightNext]_flightVars => FlightInv'
<1> SUFFICES ASSUME FlightInv, [FlightNext]_flightVars PROVE FlightInv'
  OBVIOUS
<1> USE DEF FlightInv, Goto
<1>1. CASE UNCHANGED flightVars
  BY <1>1 DEF flightVars, FlightTypeOK, Owners, Holds, Owned, HasLock, InFlight, OneFlight, Released
<1>2. CASE Evict
  BY <1>2 DEF Evict, FlightTypeOK, Owners, Holds, Owned, HasLock, InFlight, OneFlight, Released
<1>3. ASSUME NEW s \in Scope, Step(s) PROVE FlightInv'
  <2>1. CASE Read(s)
    <3>1. FlightTypeOK'
      BY <2>1 DEF Read, FlightTypeOK, Owners, Owned, HasLock, InFlight
    <3>2. Owners'
      BY <2>1 DEF Read, FlightTypeOK, Owners, Holds, Owned, HasLock, InFlight
    <3>3. OneFlight'
      BY <2>1 DEF Read, FlightTypeOK, OneFlight, Released
    <3> QED
      BY <3>1, <3>2, <3>3
  <2>2. CASE GetFlight(s)
    <3>1. FlightTypeOK'
      BY <2>2 DEF GetFlight, FlightTypeOK, Owners, Owned, HasLock, InFlight
    <3>2. Owners'
      BY <2>2 DEF GetFlight, FlightTypeOK, Owners, Holds, Owned, HasLock, InFlight
    <3>3. OneFlight'
      BY <2>2 DEF GetFlight, FlightTypeOK, OneFlight, Released
    <3> QED
      BY <3>1, <3>2, <3>3
  <2>3. CASE PutFlight(s)
    <3>1. FlightTypeOK'
      BY <2>3 DEF PutFlight, FlightTypeOK, Owners, Owned, HasLock, InFlight
    <3>2. Owners'
      BY <2>3 DEF PutFlight, FlightTypeOK, Owners, Holds, Owned, HasLock, InFlight
    <3>3. OneFlight'
      BY <2>3 DEF PutFlight, FlightTypeOK, OneFlight, Released
    <3> QED
      BY <3>1, <3>2, <3>3
  <2>4. CASE TryLock(s)
    <3>1. FlightTypeOK'
      BY <2>4 DEF TryLock, FlightTypeOK, Owners, Owned, HasLock, InFlight
    <3>2. Owners'
      BY <2>4 DEF TryLock, FlightTypeOK, Owners, Holds, Owned, HasLock, InFlight
    <3>3. OneFlight'
      BY <2>4 DEF TryLock, FlightTypeOK, OneFlight, Released
    <3> QED
      BY <3>1, <3>2, <3>3
  <2>5. CASE Acquire(s)
    <3>1. FlightTypeOK'
      BY <2>5 DEF Acquire, FlightTypeOK, Owners, Owned, HasLock, InFlight
    <3>2. Owners'
      BY <2>5 DEF Acquire, FlightTypeOK, Owners, Holds, Owned, HasLock, InFlight
    <3>3. OneFlight'
      BY <2>5 DEF Acquire, FlightTypeOK, OneFlight, Released
    <3> QED
      BY <3>1, <3>2, <3>3
  <2>6. CASE GiveUp(s)
    <3>1. FlightTypeOK'
      BY <2>6 DEF GiveUp, FlightTypeOK, Owners, Owned, HasLock, InFlight
    <3>2. Owners'
      BY <2>6 DEF GiveUp, FlightTypeOK, Owners, Holds, Owned, HasLock, InFlight
    <3>3. OneFlight'
      BY <2>6 DEF GiveUp, FlightTypeOK, OneFlight, Released
    <3> QED
      BY <3>1, <3>2, <3>3
  <2>7. CASE Reread(s)
    <3>1. FlightTypeOK'
      BY <2>7 DEF Reread, FlightTypeOK, Owners, Owned, HasLock, InFlight
    <3>2. Owners'
      BY <2>7 DEF Reread, FlightTypeOK, Owners, Holds, Owned, HasLock, InFlight
    <3>3. OneFlight'
      BY <2>7 DEF Reread, FlightTypeOK, OneFlight, Released
    <3> QED
      BY <3>1, <3>2, <3>3
  <2>8. CASE Describe(s)
    <3>1. FlightTypeOK'
      BY <2>8 DEF Describe, FlightTypeOK, Owners, Owned, HasLock, InFlight
    <3>2. Owners'
      BY <2>8 DEF Describe, FlightTypeOK, Owners, Holds, Owned, HasLock, InFlight
    <3>3. OneFlight'
      BY <2>8 DEF Describe, FlightTypeOK, OneFlight, Released
    <3> QED
      BY <3>1, <3>2, <3>3
  <2>9. CASE Share(s)
    <3>1. FlightTypeOK'
      BY <2>9 DEF Share, FlightTypeOK, Owners, Owned, HasLock, InFlight
    <3>2. Owners'
      BY <2>9 DEF Share, FlightTypeOK, Owners, Holds, Owned, HasLock, InFlight
    <3>3. OneFlight'
      BY <2>9 DEF Share, FlightTypeOK, OneFlight, Released
    <3> QED
      BY <3>1, <3>2, <3>3
  <2>10. CASE Release(s)
    <3>1. FlightTypeOK'
      BY <2>10 DEF Release, FlightTypeOK, Owners, Owned, HasLock, InFlight
    <3>2. Owners'
      BY <2>10 DEF Release, FlightTypeOK, Owners, Holds, Owned, HasLock, InFlight
    <3>3. OneFlight'
      BY <2>10 DEF Release, FlightTypeOK, OneFlight, Released
    <3> QED
      BY <3>1, <3>2, <3>3
  <2>11. CASE Forget(s)
    <3>1. FlightTypeOK'
      BY <2>11 DEF Forget, FlightTypeOK, Owners, Owned, HasLock, InFlight
    <3>2. Owners'
      BY <2>11 DEF Forget, FlightTypeOK, Owners, Holds, Owned, HasLock, InFlight
    <3>3. OneFlight'
      BY <2>11 DEF Forget, FlightTypeOK, OneFlight, Released
    <3> QED
      BY <3>1, <3>2, <3>3
  <2>12. CASE Unlock(s)
    <3>1. FlightTypeOK'
      BY <2>12 DEF Unlock, FlightTypeOK, Owners, Owned, HasLock, InFlight
    <3>2. Owners'
      BY <2>12 DEF Unlock, FlightTypeOK, Owners, Holds, Owned, HasLock, InFlight
    <3>3. OneFlight'
      BY <2>12 DEF Unlock, FlightTypeOK, OneFlight, Released
    <3> QED
      BY <3>1, <3>2, <3>3
  <2> QED
    BY <1>3, <2>1, <2>2, <2>3, <2>4, <2>5, <2>6, <2>7, <2>8, <2>9, <2>10, <2>11, <2>12
       DEF Step, Progress
<1> QED
  BY <1>1, <1>2, <1>3 DEF FlightNext

(* Locks, flights and waiters agree in every reachable state.              *)
THEOREM FlightInvHolds == FlightSpec => []FlightInv
<1>1. FlightInit => FlightInv
  BY InitFlightInv
<1>2. FlightInv /\ [FlightNext]_flightVars => FlightInv'
  BY NextFlightInv
<1> QED
  BY <1>1, <1>2, PTL DEF FlightSpec

(* A flight has one scope at a time: two scopes past the same lock would   *)
(* both own it.                                                            *)
THEOREM FlightExclusive == FlightSpec => []OnePerFlight
<1>1. FlightInv => OnePerFlight
  BY DEF FlightInv, Owners, Holds, OnePerFlight, InFlight
<1> QED
  BY <1>1, FlightInvHolds, PTL

(* Scopes that ask the tree together are described once, until a flight is *)
(* released or a wait given up: two of them would own the lock of the map. *)
THEOREM DescribedAlone == FlightSpec => []OneUntilReleased
<1>1. ASSUME FlightInv PROVE OneUntilReleased
  <2> DEFINE D == {s \in Scope : pc[s] = "describe"}
  <2> SUFFICES ASSUME ~Released, \A s \in D : got[s] # None
               PROVE  Cardinality(D) <= 1
    BY DEF OneUntilReleased, Released
  <2>1. \A s, t \in D : s = t
    BY <1>1 DEF FlightInv, OneFlight, Owners, Holds, InFlight
  <2>2. CASE D = {}
    BY <2>2, FS_EmptySet
  <2>3. CASE D # {}
    <3>1. PICK s \in D : TRUE
      BY <2>3
    <3>2. D = {s}
      BY <2>1, <3>1
    <3>3. Cardinality({s}) = 1
      BY FS_Singleton
    <3>4. Cardinality(D) = 1
      BY <3>2, <3>3
    <3> HIDE DEF D
    <3> QED
      BY <3>4
  <2> QED
    BY <2>2, <2>3
<1> QED
  BY <1>1, FlightInvHolds, PTL

(* Every lock is owned by a scope that has it, and the queue of a lock is  *)
(* made of the scopes that wait for it.                                    *)
THEOREM FlightTyped == FlightSpec => []FlightTypeOK
<1>1. FlightInv => FlightTypeOK
  BY DEF FlightInv
<1> QED
  BY <1>1, FlightInvHolds, PTL

-----------------------------------------------------------------------------
(* While the map holds a lock, a scope that has it will forget it, or      *)
(* leave it to one that waits.                                             *)
Keeping == {"tryLock", "wait", "reread", "describe", "share", "release", "forget"}
Kept == \E s \in Scope : got[s] = flight /\ pc[s] \in Keeping
MapKept == gaveUp = {} /\ flight # None => Kept

LEMMA NextMapKept == FlightInv /\ MapKept /\ [FlightNext]_flightVars => MapKept'
<1> SUFFICES ASSUME FlightInv, MapKept, [FlightNext]_flightVars, gaveUp' = {}, flight' # None
             PROVE  Kept'
  BY DEF MapKept
<1> USE DEF FlightInv, Goto, Keeping
<1>1. CASE UNCHANGED flightVars
  BY <1>1 DEF flightVars, MapKept, Kept
<1>2. CASE Evict
  BY <1>2 DEF Evict, MapKept, Kept
<1>3. ASSUME NEW s \in Scope, Step(s) PROVE Kept'
  <2>1. CASE Read(s)
    <3>1. PICK t \in Scope : got[t] = flight /\ pc[t] \in Keeping
      BY <2>1 DEF Read, MapKept, Kept
    <3>2. got'[t] = flight' /\ pc'[t] \in Keeping
      BY <2>1, <3>1 DEF Read, FlightTypeOK
    <3> QED
      BY <3>2 DEF Kept
  <2>2. CASE GetFlight(s)
    <3>1. PICK t \in Scope : got[t] = flight /\ pc[t] \in Keeping
      BY <2>2 DEF GetFlight, MapKept, Kept
    <3>2. got'[t] = flight' /\ pc'[t] \in Keeping
      BY <2>2, <3>1 DEF GetFlight, FlightTypeOK
    <3> QED
      BY <3>2 DEF Kept
  <2>3. CASE PutFlight(s)
    <3>1. CASE flight = None
      <4>1. got'[s] = flight' /\ pc'[s] = "tryLock"
        BY <2>3, <3>1 DEF PutFlight, FlightTypeOK
      <4> QED
        BY <4>1 DEF Kept
    <3>2. CASE flight # None
      <4>1. PICK t \in Scope : got[t] = flight /\ pc[t] \in Keeping
        BY <2>3, <3>2 DEF PutFlight, MapKept, Kept
      <4>2. got'[t] = flight' /\ pc'[t] \in Keeping
        BY <2>3, <3>2, <4>1 DEF PutFlight, FlightTypeOK
      <4> QED
        BY <4>2 DEF Kept
    <3> QED
      BY <3>1, <3>2
  <2>4. CASE TryLock(s)
    <3>1. PICK t \in Scope : got[t] = flight /\ pc[t] \in Keeping
      BY <2>4 DEF TryLock, MapKept, Kept
    <3>2. got'[t] = flight' /\ pc'[t] \in Keeping
      BY <2>4, <3>1 DEF TryLock, FlightTypeOK
    <3> QED
      BY <3>2 DEF Kept
  <2>5. CASE Acquire(s)
    <3>1. PICK t \in Scope : got[t] = flight /\ pc[t] \in Keeping
      BY <2>5 DEF Acquire, MapKept, Kept
    <3>2. got'[t] = flight' /\ pc'[t] \in Keeping
      BY <2>5, <3>1 DEF Acquire, FlightTypeOK
    <3> QED
      BY <3>2 DEF Kept
  <2>6. CASE GiveUp(s)
    BY <2>6 DEF GiveUp
  <2>7. CASE Reread(s)
    <3>1. PICK t \in Scope : got[t] = flight /\ pc[t] \in Keeping
      BY <2>7 DEF Reread, MapKept, Kept
    <3>2. got'[t] = flight' /\ pc'[t] \in Keeping
      BY <2>7, <3>1 DEF Reread, FlightTypeOK
    <3> QED
      BY <3>2 DEF Kept
  <2>8. CASE Describe(s)
    <3>1. PICK t \in Scope : got[t] = flight /\ pc[t] \in Keeping
      BY <2>8 DEF Describe, MapKept, Kept
    <3>2. got'[t] = flight' /\ pc'[t] \in Keeping
      BY <2>8, <3>1 DEF Describe, FlightTypeOK
    <3> QED
      BY <3>2 DEF Kept
  <2>9. CASE Share(s)
    <3>1. PICK t \in Scope : got[t] = flight /\ pc[t] \in Keeping
      BY <2>9 DEF Share, MapKept, Kept
    <3>2. got'[t] = flight' /\ pc'[t] \in Keeping
      BY <2>9, <3>1 DEF Share, FlightTypeOK
    <3> QED
      BY <3>2 DEF Kept
  <2>10. CASE Release(s)
    <3>1. PICK t \in Scope : got[t] = flight /\ pc[t] \in Keeping
      BY <2>10 DEF Release, MapKept, Kept
    <3>2. CASE t # s \/ queue[got[s]] = {}
      <4>1. got'[t] = flight' /\ pc'[t] \in Keeping
        BY <2>10, <3>1, <3>2 DEF Release, FlightTypeOK
      <4> QED
        BY <4>1 DEF Kept
    <3>3. CASE t = s /\ queue[got[s]] # {}
      <4>1. got[s] \in Lock
        BY <2>10, <3>1, <3>3 DEF Release, FlightTypeOK
      <4>2. PICK w \in Scope : pc[w] = "wait" /\ got[w] = got[s]
        BY <3>3, <4>1 DEF FlightTypeOK
      <4>3. got'[w] = flight' /\ pc'[w] \in Keeping
        BY <2>10, <3>1, <3>3, <4>2 DEF Release, FlightTypeOK
      <4> QED
        BY <4>3 DEF Kept
    <3> QED
      BY <3>2, <3>3
  <2>11. CASE Forget(s)
    <3>1. PICK t \in Scope : got[t] = flight /\ pc[t] \in Keeping
      BY <2>11 DEF Forget, MapKept, Kept
    <3>2. got'[t] = flight' /\ pc'[t] \in Keeping
      BY <2>11, <3>1 DEF Forget, FlightTypeOK
    <3> QED
      BY <3>2 DEF Kept
  <2>12. CASE Unlock(s)
    <3>1. PICK t \in Scope : got[t] = flight /\ pc[t] \in Keeping
      BY <2>12 DEF Unlock, MapKept, Kept
    <3>2. got'[t] = flight' /\ pc'[t] \in Keeping
      BY <2>12, <3>1 DEF Unlock, FlightTypeOK
    <3> QED
      BY <3>2 DEF Kept
  <2> QED
    BY <1>3, <2>1, <2>2, <2>3, <2>4, <2>5, <2>6, <2>7, <2>8, <2>9, <2>10, <2>11, <2>12
       DEF Step, Progress
<1> QED
  BY <1>1, <1>2, <1>3 DEF FlightNext

(* The server-wide map forgets every lock: once each scope has its tree,   *)
(* and no wait was given up, the map holds none.                           *)
THEOREM MapLeftEmpty == FlightSpec => []FlightsForgotten
<1>1. FlightInit => MapKept
  BY DEF FlightInit, MapKept
<1>2. MapKept => FlightsForgotten
  BY DEF MapKept, Kept, Keeping, FlightsForgotten
<1> QED
  BY <1>1, <1>2, NextMapKept, FlightInvHolds, PTL DEF FlightSpec

(* For any number of scopes, no flight is described twice at once, nor the *)
(* tree in two flights before a release (Engine.js:6520-6670).             *)
THEOREM TreeDescribedOnce == FlightSpec => []DescribedOnce
<1>1. OnePerFlight /\ OneUntilReleased => DescribedOnce
  BY DEF DescribedOnce
<1> QED
  BY <1>1, FlightExclusive, DescribedAlone, PTL

-----------------------------------------------------------------------------
(* Without an eviction or a description that could not be shared, the tree *)
(* is shared before its flight is released: hence to whoever acquires the  *)
(* lock of a flight it waited for.                                         *)
Calm == ~evicted /\ \A t \in Scope : answer[t] # "transient"
PastShare == {"reread", "release", "forget", "unlock", "done"}
Served(s) ==
  /\ pc[s] \in PastShare => shared
  /\ pc[s] = "wait" /\ owner[got[s]] = None => shared
  /\ s \in waited => pc[s] \in PastShare

Asking == {"read", "get", "put", "tryLock", "wait", "reread", "describe"}
Unanswered == \A s \in Scope : pc[s] \in Asking => answer[s] = "none"

ServedInv == Unanswered /\ (Calm => \A s \in Scope : Served(s))

LEMMA NextUnanswered == FlightInv /\ Unanswered /\ [FlightNext]_flightVars => Unanswered'
<1> SUFFICES ASSUME FlightInv, Unanswered, [FlightNext]_flightVars PROVE Unanswered'
  OBVIOUS
<1> USE DEF FlightInv, FlightTypeOK, Goto, Asking, Unanswered
<1>1. CASE UNCHANGED flightVars
  BY <1>1 DEF flightVars
<1>2. CASE Evict
  BY <1>2 DEF Evict
<1>3. ASSUME NEW s \in Scope, Step(s) PROVE Unanswered'
  <2>1. CASE Read(s)
    BY <2>1 DEF Read
  <2>2. CASE GetFlight(s)
    BY <2>2 DEF GetFlight
  <2>3. CASE PutFlight(s)
    BY <2>3 DEF PutFlight
  <2>4. CASE TryLock(s)
    BY <2>4 DEF TryLock
  <2>5. CASE Acquire(s)
    BY <2>5 DEF Acquire
  <2>6. CASE GiveUp(s)
    BY <2>6 DEF GiveUp
  <2>7. CASE Reread(s)
    BY <2>7 DEF Reread
  <2>8. CASE Describe(s)
    BY <2>8 DEF Describe
  <2>9. CASE Share(s)
    BY <2>9 DEF Share
  <2>10. CASE Release(s)
    BY <2>10 DEF Release
  <2>11. CASE Forget(s)
    BY <2>11 DEF Forget
  <2>12. CASE Unlock(s)
    BY <2>12 DEF Unlock
  <2> QED
    BY <1>3, <2>1, <2>2, <2>3, <2>4, <2>5, <2>6, <2>7, <2>8, <2>9, <2>10, <2>11, <2>12
       DEF Step, Progress
<1> QED
  BY <1>1, <1>2, <1>3 DEF FlightNext

(* A step that leaves a calm state behind it began in one.                 *)
LEMMA CalmBefore ==
  FlightInv /\ Unanswered /\ [FlightNext]_flightVars /\ Calm' => Calm
<1> SUFFICES ASSUME FlightInv, Unanswered, [FlightNext]_flightVars, Calm' PROVE Calm
  OBVIOUS
<1> USE DEF FlightInv, FlightTypeOK, Asking, Unanswered, Calm
<1>1. CASE UNCHANGED flightVars
  BY <1>1 DEF flightVars
<1>2. CASE Evict
  BY <1>2 DEF Evict
<1>3. ASSUME NEW s \in Scope, Step(s) PROVE Calm
  <2>1. CASE Read(s)
    BY <2>1 DEF Read
  <2>2. CASE GetFlight(s)
    BY <2>2 DEF GetFlight
  <2>3. CASE PutFlight(s)
    BY <2>3 DEF PutFlight
  <2>4. CASE TryLock(s)
    BY <2>4 DEF TryLock
  <2>5. CASE Acquire(s)
    BY <2>5 DEF Acquire
  <2>6. CASE GiveUp(s)
    BY <2>6 DEF GiveUp
  <2>7. CASE Reread(s)
    BY <2>7 DEF Reread
  <2>8. CASE Describe(s)
    BY <2>8 DEF Describe
  <2>9. CASE Share(s)
    BY <2>9 DEF Share
  <2>10. CASE Release(s)
    BY <2>10 DEF Release
  <2>11. CASE Forget(s)
    BY <2>11 DEF Forget
  <2>12. CASE Unlock(s)
    BY <2>12 DEF Unlock
  <2> QED
    BY <1>3, <2>1, <2>2, <2>3, <2>4, <2>5, <2>6, <2>7, <2>8, <2>9, <2>10, <2>11, <2>12
       DEF Step, Progress
<1> QED
  BY <1>1, <1>2, <1>3 DEF FlightNext

LEMMA NextServed == FlightInv /\ ServedInv /\ [FlightNext]_flightVars => ServedInv'
<1> SUFFICES ASSUME FlightInv, ServedInv, [FlightNext]_flightVars, Calm', NEW t \in Scope
             PROVE  Served(t)'
  BY NextUnanswered DEF ServedInv
<1>0. \A s \in Scope : Served(s)
  BY CalmBefore DEF ServedInv
<1> USE DEF FlightInv, Goto, PastShare
<1>1. CASE UNCHANGED flightVars
  BY <1>0, <1>1 DEF flightVars, Served
<1>2. CASE Evict
  BY <1>2 DEF Evict, Calm
<1>3. ASSUME NEW s \in Scope, Step(s) PROVE Served(t)'
  <2>0. Served(t) /\ Served(s)
    BY <1>0
  <2>1. CASE Read(s)
    BY <2>1, <2>0 DEF Read, Served, FlightTypeOK, Owners, Owned, HasLock, InFlight
  <2>2. CASE GetFlight(s)
    BY <2>2, <2>0 DEF GetFlight, Served, FlightTypeOK, Owners, Owned, HasLock, InFlight
  <2>3. CASE PutFlight(s)
    BY <2>3, <2>0 DEF PutFlight, Served, FlightTypeOK, Owners, Owned, HasLock, InFlight
  <2>4. CASE TryLock(s)
    BY <2>4, <2>0 DEF TryLock, Served, FlightTypeOK, Owners, Owned, HasLock, InFlight
  <2>5. CASE Acquire(s)
    BY <2>5, <2>0 DEF Acquire, Served, FlightTypeOK, Owners, Owned, HasLock, InFlight
  <2>6. CASE GiveUp(s)
    BY <2>6, <2>0 DEF GiveUp, Served, FlightTypeOK, Owners, Owned, HasLock, InFlight
  <2>7. CASE Reread(s)
    BY <2>7, <2>0 DEF Reread, Served, FlightTypeOK, Owners, Owned, HasLock, InFlight
  <2>8. CASE Describe(s)
    <3>1. pc'[s] = "share"
      BY <2>8 DEF Describe, Calm, FlightTypeOK
    <3> QED
      BY <2>8, <2>0, <3>1 DEF Describe, Served, FlightTypeOK
  <2>9. CASE Share(s)
    BY <2>9, <2>0 DEF Share, Served, FlightTypeOK, Owners, Owned, HasLock, InFlight
  <2>10. CASE Release(s)
    BY <2>10, <2>0 DEF Release, Served, FlightTypeOK, Owners, Owned, HasLock, InFlight
  <2>11. CASE Forget(s)
    BY <2>11, <2>0 DEF Forget, Served, FlightTypeOK, Owners, Owned, HasLock, InFlight
  <2>12. CASE Unlock(s)
    BY <2>12, <2>0 DEF Unlock, Served, FlightTypeOK, Owners, Owned, HasLock, InFlight
  <2> QED
    BY <1>3, <2>1, <2>2, <2>3, <2>4, <2>5, <2>6, <2>7, <2>8, <2>9, <2>10, <2>11, <2>12
       DEF Step, Progress
<1> QED
  BY <1>1, <1>2, <1>3 DEF FlightNext

(* A scope that waited for a flight describes the tree itself only after a *)
(* description that was not shared or an eviction: the tree is shared      *)
(* before its flight is released (Engine.js:6527-6551).                    *)
THEOREM WaitersAreServed == FlightSpec => []WaitersServed
<1>1. FlightInit => ServedInv
  BY DEF FlightInit, ServedInv, Unanswered, Served, PastShare
<1>2. FlightInv /\ ServedInv => WaitersServed
  BY DEF FlightInv, FlightTypeOK, ServedInv, Served, PastShare, Calm, WaitersServed
<1> QED
  BY <1>1, <1>2, NextServed, FlightInvHolds, PTL DEF FlightSpec
==============================================================================
