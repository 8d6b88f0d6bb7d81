------------------------------- MODULE FlowCode -------------------------------
(***************************************************************************)
(* The FlowScript of one Flow: its saved file, its working copy and the    *)
(* requests of several conversations (get, set, patch, check, discard,     *)
(* promote), each on a runtime of the pool, beside the Studio.             *)
(*                                                                         *)
(* The working copy has three homes: the loaded Flow object; without one,  *)
(* the FlowEngine of the loaded project; without a loaded project, the     *)
(* memory of the runtime (the mirror).  Nothing locks them: a request      *)
(* reads, compares revisions, then writes.  One access to a Java object is *)
(* one step here.  A revision is the hash of a text: a text stands for     *)
(* its revision.                                                           *)
(***************************************************************************)
EXTENDS Naturals

CONSTANTS
  Talks,        \* conversations
  Runtimes,     \* runtimes of the pool
  Codes,        \* FlowScript texts
  NoCode,       \* no text, no revision
  Valid,        \* the texts that validate
  Format,       \* text -> the text rendered from its tree
  MaxRequests,  \* bound: requests sent
  MaxStudio     \* bound: changes made by the Studio or on the file

ASSUME CodesAssumption ==
  /\ NoCode \notin Codes
  /\ Valid \subseteq Codes
  /\ Format \in [Codes -> Codes]

ASSUME BoundsAssumption == MaxRequests \in Nat /\ MaxStudio \in Nat

VARIABLES
  loaded,   \* the project is loaded in a Convertigo server (or standalone)
  object,   \* a Flow object is loaded
  saved,    \* the .flow.js file
  draft,    \* working copy of the Flow object
  kept,     \* working copy kept by the FlowEngine
  mirror,   \* runtime -> memoryDrafts, the code and its revision
  req,      \* conversation -> its request
  told,     \* conversation -> the code it knows and the revision it got
  checked,  \* conversation -> the last revision a check or a set accepted
  raced,    \* history: the Flow changed since the request last read it
  removed,  \* history: a Flow object was removed
  requests, changes

stores == <<object, saved, draft, kept>>
known == <<told, checked>>
vars == <<loaded, stores, mirror, req, known, raced, removed, requests, changes>>

Text(c) == [code |-> c, revision |-> c]
Nothing == Text(NoCode)

(* A request: where it stands, its runtime, the text it carries or         *)
(* promotes, the revision it expects, whether its caller gave it.          *)
Steps == {"idle", "read", "reread", "write", "readback",
          "promote", "recheck", "place", "store", "clear"}

Idle(r) == [at |-> "idle", rt |-> r, code |-> NoCode, revision |-> NoCode,
            supplied |-> FALSE, given |-> FALSE]

Init ==
  /\ loaded \in BOOLEAN
  /\ object \in {FALSE, loaded}
  /\ saved \in Codes \cup {NoCode}
  /\ object => saved # NoCode
  /\ draft = NoCode /\ kept = NoCode
  /\ mirror = [r \in Runtimes |-> Nothing]
  /\ \E r \in Runtimes : req = [k \in Talks |-> Idle(r)]
  /\ told = [k \in Talks |-> Nothing]
  /\ checked = [k \in Talks |-> NoCode]
  /\ raced = [k \in Talks |-> FALSE]
  /\ removed = FALSE
  /\ requests = 0 /\ changes = 0

-----------------------------------------------------------------------------
(* Reading.                                                                *)

(* The working copy a runtime reads.                                       *)
Working(r) ==
  IF object THEN Text(draft)
  ELSE IF kept # NoCode THEN Text(kept) ELSE mirror[r]

(* The text an edit starts from: the working copy, else the saved file.    *)
Current(r) == IF Working(r) # Nothing THEN Working(r) ELSE Text(saved)

(* A read drops the mirror of a Flow whose object has no working copy.     *)
AfterRead(r) ==
  IF object /\ draft = NoCode THEN [mirror EXCEPT ![r] = Nothing] ELSE mirror

(* The Flow changes under the requests that have read it for the last time.*)
Exposed == {"write", "readback", "place", "store", "clear"}

DisturbAll == raced' = [j \in Talks |-> req[j].at \in Exposed]
Disturb(k) ==
  raced' = [j \in Talks |-> IF j = k THEN raced[j] ELSE req[j].at \in Exposed]
Fresh(k) == raced' = [raced EXCEPT ![k] = FALSE]

Go(k, at) == req' = [req EXCEPT ![k].at = at]
End(k) == req' = [req EXCEPT ![k] = Idle(req[k].rt)]

Free(r) == \A j \in Talks : req[j].at = "idle" \/ req[j].rt # r

Ask(k, r) ==
  /\ req[k].at = "idle" /\ Free(r)
  /\ requests < MaxRequests
  /\ requests' = requests + 1
  /\ UNCHANGED <<loaded, removed, changes>>

(* flowCodeGetRequest: UNKNOWN_FLOW tells nothing.                         *)
Get(k, r) ==
  /\ Ask(k, r)
  /\ told' = [told EXCEPT ![k] = Current(r)]
  /\ mirror' = AfterRead(r)
  /\ UNCHANGED <<stores, req, checked, raced>>

(* flowCodeCheckRequest without a code.                                    *)
Check(k, r) ==
  /\ Ask(k, r)
  /\ Current(r).code \in Valid
  /\ checked' = [checked EXCEPT ![k] = Current(r).revision]
  /\ mirror' = AfterRead(r)
  /\ UNCHANGED <<stores, req, told, raced>>

(* flowCodeDiscardRequest.                                                 *)
Discard(k, r) ==
  /\ Ask(k, r)
  /\ draft' = NoCode
  /\ kept' = IF object THEN kept ELSE NoCode
  /\ mirror' = [mirror EXCEPT ![r] = Nothing]
  /\ Disturb(k)
  /\ UNCHANGED <<object, saved, req, known>>

-----------------------------------------------------------------------------
(* Writing a working copy.                                                 *)

Send(k, r, rq) ==
  /\ Ask(k, r)
  /\ req' = [req EXCEPT ![k] = rq]
  /\ UNCHANGED <<stores, mirror, known, raced>>

(* flowCodeSetRequest: with the revision told last, or with none.          *)
AskSet(k, r, c, revision) ==
  Send(k, r, [Idle(r) EXCEPT !.at = "reread", !.code = c, !.revision = revision,
                             !.given = revision # NoCode])

(* flowCodePatchRequest: a revision is required.                           *)
AskPatch(k, r, c) ==
  /\ told[k].revision # NoCode
  /\ Send(k, r, [Idle(r) EXCEPT !.at = "read", !.code = c,
                                !.revision = told[k].revision, !.given = TRUE])

(* Mutant: the revision a request expects is not compared.                 *)
StaleNever(k, current) == FALSE

Stale(k, current) ==
  /\ req[k].revision # NoCode
  /\ current # Nothing
  /\ current.revision # req[k].revision

(* The patch is applied to the text read; on an unknown Flow it is a set.  *)
PatchRead(k) ==
  LET current == Current(req[k].rt) IN
  /\ req[k].at = "read"
  /\ IF Stale(k, current) THEN End(k) ELSE Go(k, "reread")
  /\ mirror' = AfterRead(req[k].rt)
  /\ UNCHANGED <<loaded, stores, known, raced, removed, requests, changes>>

Accepted(k, revision) ==
  checked' = IF req[k].code \in Valid THEN [checked EXCEPT ![k] = revision]
             ELSE checked

Tell(k, revision) ==
  told' = [told EXCEPT ![k] = [code |-> req[k].code, revision |-> revision]]

(* flowCodeDraftSetRequest reads again, compares, and stops when nothing   *)
(* changes.                                                                *)
SetRead(k) ==
  LET current == Current(req[k].rt) IN
  /\ req[k].at = "reread"
  /\ mirror' = AfterRead(req[k].rt)
  /\ \/ Stale(k, current) /\ End(k) /\ UNCHANGED known
     \/ /\ ~Stale(k, current)
        /\ current.code = req[k].code
        /\ End(k) /\ Tell(k, current.revision) /\ Accepted(k, current.revision)
     \/ /\ ~Stale(k, current)
        /\ current.code # req[k].code
        /\ Go(k, "write") /\ UNCHANGED known
  /\ Fresh(k)
  /\ UNCHANGED <<loaded, stores, removed, requests, changes>>

(* Mutant: the mirror is kept beside the copy of the FlowEngine.           *)
KeepBoth(k) ==
  LET c == req[k].code IN
  /\ IF loaded THEN kept' = c ELSE UNCHANGED kept
  /\ mirror' = [mirror EXCEPT ![req[k].rt] = Text(c)]
  /\ End(k) /\ Tell(k, c) /\ Accepted(k, c)
  /\ UNCHANGED <<object, saved, draft>>

(* Without a Flow object: the FlowEngine of a loaded project, which may    *)
(* see no change in the saved text, else the mirror.                       *)
Keep(k) ==
  LET c == req[k].code IN
  /\ IF loaded
       THEN /\ kept' \in {c} \cup (IF c = saved THEN {NoCode} ELSE {})
            /\ mirror' = [mirror EXCEPT ![req[k].rt] = Nothing]
       ELSE /\ mirror' = [mirror EXCEPT ![req[k].rt] = Text(c)]
            /\ UNCHANGED kept
  /\ End(k) /\ Tell(k, c) /\ Accepted(k, c)
  /\ UNCHANGED <<object, saved, draft>>

(* flow.setFlowSource: the object drops a draft equal to the saved source. *)
SetSource(c) == draft' = IF c = saved THEN NoCode ELSE c

SetWrite(k) ==
  /\ req[k].at = "write"
  /\ \/ /\ object
        /\ SetSource(req[k].code)
        /\ Go(k, "readback")
        /\ UNCHANGED <<object, saved, kept, mirror, known>>
     \/ ~object /\ Keep(k)
  /\ Disturb(k)
  /\ UNCHANGED <<loaded, removed, requests, changes>>

(* readProjectFlowWorkingCode after the write: the object answers with     *)
(* what it holds now, and the mirror is written or dropped.                *)
Answered == IF draft # NoCode THEN draft ELSE saved

SetReadBack(k) ==
  /\ req[k].at = "readback"
  /\ \/ /\ object
        /\ mirror' = [mirror EXCEPT ![req[k].rt] =
             IF draft = NoCode THEN Nothing
             ELSE [code |-> req[k].code, revision |-> draft]]
        /\ End(k) /\ Tell(k, Answered) /\ Accepted(k, Answered)
        /\ UNCHANGED <<stores, raced>>
     \/ ~object /\ Keep(k) /\ Disturb(k)
  /\ UNCHANGED <<loaded, removed, requests, changes>>

-----------------------------------------------------------------------------
(* Promoting: flowCodePromoteRequest.                                      *)

(* With the revision checked last, or the current one when none is given;  *)
(* with a text of its own under its own revision.                          *)
AskPromote(k, r, revision) ==
  Send(k, r, [Idle(r) EXCEPT !.at = "promote", !.revision = revision,
                             !.given = revision # NoCode])

AskPromoteText(k, r, c) ==
  Send(k, r, [Idle(r) EXCEPT !.at = "promote", !.code = c, !.revision = c,
                             !.given = TRUE, !.supplied = TRUE])

Formats(c) == Format[c] \in Valid

(* Mutant: the revision that was checked is not compared.                  *)
PromotableAnyRevision(k, current) ==
  /\ current # Nothing
  /\ current.code \in Valid

(* The revision is compared, the text validated.                           *)
Promotable(k, current) ==
  /\ current # Nothing
  /\ req[k].given => current.revision = req[k].revision
  /\ current.code \in Valid

PromoteRead(k) ==
  LET rt == req[k].rt
      current == IF req[k].supplied THEN Text(req[k].code) ELSE Working(rt) IN
  /\ req[k].at = "promote"
  /\ mirror' = IF req[k].supplied THEN mirror ELSE AfterRead(rt)
  /\ \/ ~Promotable(k, current) /\ End(k)
     \/ /\ Promotable(k, current)
        /\ req[k].supplied
        /\ IF Formats(current.code) THEN Go(k, "place") ELSE End(k)
     \/ /\ Promotable(k, current)
        /\ ~req[k].supplied
        /\ req' = [req EXCEPT ![k].at = "recheck", ![k].code = current.code,
                              ![k].revision = current.revision]
  /\ Fresh(k)
  /\ UNCHANGED <<loaded, stores, known, removed, requests, changes>>

(* The working copy is read again after the validation.                    *)
Unmoved(k) == Working(req[k].rt).revision = req[k].revision

Recheck(k) ==
  /\ req[k].at = "recheck"
  /\ IF Unmoved(k) /\ Formats(req[k].code) THEN Go(k, "place") ELSE End(k)
  /\ mirror' = AfterRead(req[k].rt)
  /\ Fresh(k)
  /\ UNCHANGED <<loaded, stores, known, removed, requests, changes>>

(* setProjectFlow gives the formatted text to the object, or writes the    *)
(* file of a Flow without one.                                             *)
Place(k) ==
  /\ req[k].at = "place"
  /\ \/ /\ object
        /\ SetSource(Format[req[k].code])
        /\ Go(k, "store")
        /\ UNCHANGED saved
     \/ /\ ~object
        /\ saved' = Format[req[k].code]
        /\ Go(k, "clear")
        /\ UNCHANGED draft
  /\ Disturb(k)
  /\ UNCHANGED <<loaded, object, kept, mirror, known, removed, requests, changes>>

(* saveFlowSourceFile writes what the object holds; when the object went   *)
(* meanwhile, the file is written all the same.                            *)
Store(k) ==
  /\ req[k].at = "store"
  /\ saved' = IF object THEN Answered ELSE Format[req[k].code]
  /\ draft' = NoCode
  /\ Go(k, "clear")
  /\ Disturb(k)
  /\ UNCHANGED <<loaded, object, kept, mirror, known, removed, requests, changes>>

(* The mirror and the copy the FlowEngine keeps are dropped, whatever they *)
(* hold by now.                                                            *)
Clear(k) ==
  /\ req[k].at = "clear"
  /\ mirror' = [mirror EXCEPT ![req[k].rt] = Nothing]
  /\ kept' = NoCode
  /\ End(k)
  /\ Disturb(k)
  /\ UNCHANGED <<loaded, object, saved, draft, known, removed, requests, changes>>

-----------------------------------------------------------------------------
(* The Studio, and whoever edits the file.                                 *)

Outside ==
  /\ changes < MaxStudio
  /\ changes' = changes + 1
  /\ DisturbAll
  /\ UNCHANGED <<loaded, mirror, req, known, requests>>

StudioEdit(c) ==
  /\ Outside /\ object
  /\ SetSource(c)
  /\ UNCHANGED <<object, saved, kept, removed>>

StudioSave ==
  /\ Outside /\ loaded
  /\ draft # NoCode \/ kept # NoCode
  /\ saved' = IF object THEN Answered ELSE kept
  /\ draft' = NoCode
  /\ kept' = IF object THEN kept ELSE NoCode
  /\ UNCHANGED <<object, removed>>

StudioReload ==
  /\ Outside /\ draft # NoCode
  /\ draft' = NoCode
  /\ UNCHANGED <<object, saved, kept, removed>>

(* How an object takes over a copy the FlowEngine keeps is Convertigo's    *)
(* own: it is loaded here when none is kept.                               *)
LoadObject ==
  /\ Outside /\ loaded /\ ~object
  /\ saved # NoCode /\ kept = NoCode
  /\ object' = TRUE
  /\ UNCHANGED <<saved, draft, kept, removed>>

RemoveObject ==
  /\ Outside /\ object
  /\ object' = FALSE
  /\ draft' = NoCode
  /\ saved' \in {saved, NoCode}
  /\ removed' = TRUE
  /\ UNCHANGED kept

EditFile(c) ==
  /\ Outside /\ saved # c /\ draft = NoCode
  /\ saved' = c
  /\ UNCHANGED <<object, draft, kept, removed>>

-----------------------------------------------------------------------------
Request(k) ==
  \E r \in Runtimes :
    \/ Get(k, r) \/ Check(k, r) \/ Discard(k, r)
    \/ \E c \in Codes : \/ \E v \in {NoCode, told[k].revision} : AskSet(k, r, c, v)
                        \/ AskPatch(k, r, c)
                        \/ AskPromoteText(k, r, c)
    \/ \E v \in {NoCode, checked[k]} : AskPromote(k, r, v)

Serve(k) ==
  \/ PatchRead(k) \/ SetRead(k) \/ SetWrite(k) \/ SetReadBack(k)
  \/ PromoteRead(k) \/ Recheck(k) \/ Place(k) \/ Store(k) \/ Clear(k)

Studio ==
  \/ \E c \in Codes : StudioEdit(c) \/ EditFile(c)
  \/ StudioSave \/ StudioReload \/ LoadObject \/ RemoveObject

Next == (\E k \in Talks : Request(k) \/ Serve(k)) \/ Studio

Spec == Init /\ [][Next]_vars

-----------------------------------------------------------------------------
(* Properties.                                                             *)

Draft == [code : Codes \cup {NoCode}, revision : Codes \cup {NoCode}]

(* Type invariant; a Flow object has a file and a loaded project, and the  *)
(* FlowEngine keeps copies for a loaded project only.                      *)
TypeOK ==
  /\ loaded \in BOOLEAN /\ object \in BOOLEAN
  /\ saved \in Codes \cup {NoCode}
  /\ draft \in Codes \cup {NoCode}
  /\ kept \in Codes \cup {NoCode}
  /\ mirror \in [Runtimes -> Draft]
  /\ req \in [Talks -> [at : Steps, rt : Runtimes, code : Codes \cup {NoCode},
                        revision : Codes \cup {NoCode},
                        supplied : BOOLEAN, given : BOOLEAN]]
  /\ told \in [Talks -> Draft]
  /\ checked \in [Talks -> Codes \cup {NoCode}]
  /\ raced \in [Talks -> BOOLEAN]
  /\ removed \in BOOLEAN
  /\ requests \in Nat /\ changes \in Nat
  /\ object => loaded /\ saved # NoCode
  /\ ~object => draft = NoCode
  /\ ~loaded => kept = NoCode

(* In a loaded project every runtime reads the same working copy, at every *)
(* moment of every request (flow-code-service.js:451, 471 and              *)
(* Engine.js:4228); until a Flow object is removed, which leaves the       *)
(* mirror of the runtime that wrote its copy.                              *)
OneCopy ==
  loaded /\ ~removed => \A r, s \in Runtimes : Working(r) = Working(s)

(* A request ends a step.                                                  *)
Leaves(k, at) == req[k].at = at /\ req'[k].at # at

Promoting(k) == \E at \in {"place", "store", "clear"} : Leaves(k, at)

(* An edit sent with a revision overwrites only a text its conversation    *)
(* knows, or one that appeared after the request read the Flow for the     *)
(* last time: there is no other lost update.                               *)
EditSeesWhatItReplaces ==
  [][\A k \in Talks :
       Leaves(k, "write") /\ req[k].given /\ ~raced[k]
         => \/ Current(req[k].rt) = Nothing
            \/ told[k].revision = Current(req[k].rt).revision]_vars

(* A set that nobody raced answers the revision of the text it wrote, not  *)
(* one that would let its conversation overwrite the text of another.      *)
ToldItsOwn ==
  [][\A k \in Talks :
       req[k].at \in {"write", "readback"} /\ req'[k].at = "idle" /\ ~raced[k]
         => told'[k] = Text(req[k].code)]_vars

(* A conversation knows what it overwrites and is told what it wrote.      *)
EditsKnown == EditSeesWhatItReplaces /\ ToldItsOwn

(* A promotion that nobody raced puts in the file the formatted form of a  *)
(* valid text, and when its caller named a checked revision, of that one   *)
(* (a raced set may leave a mirror whose text is not its revision's: it is *)
(* read once the Flow object is removed).                                  *)
PromotesWhatWasChecked ==
  [][\A k \in Talks :
       Leaves(k, "store") \/ (Leaves(k, "place") /\ ~object)
         => \/ raced[k]
            \/ \E c \in Valid :
                 /\ saved' = Format[c]
                 /\ req[k].given /\ ~req[k].supplied /\ ~removed
                      => c = checked[k]]_vars

(* A promotion without a text of its own replaces or drops no working copy *)
(* but the one it promotes, unless that one appeared after its second      *)
(* reading (it then goes without a word: flow-code-service.js:1262-1266).  *)
PromotionErasesNoOther ==
  [][\A k \in Talks :
       Promoting(k) /\ ~req[k].supplied /\ ~raced[k] /\ ~removed
         => Working(req[k].rt).code \in
              {NoCode, req[k].code, Format[req[k].code]}]_vars

(* A promotion saves what was checked and, unless a text came with it or   *)
(* an object was removed, erases nothing else.                             *)
PromotionsSound == PromotesWhatWasChecked /\ PromotionErasesNoOther

===============================================================================
