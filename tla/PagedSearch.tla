----------------------------- MODULE PagedSearch -----------------------------
(***************************************************************************)
(* A listing answered in pages under a budget of time and size: the block  *)
(* catalog, the search in resources and the search in Flows.  A page ends  *)
(* at its limit, when its budget is spent, or with the listing; its cursor *)
(* is where the next page resumes, and holds a key of the listing.         *)
(*                                                                         *)
(* A listing is a sequence of units: a descriptor, a file, a Flow in one   *)
(* phase of the search, or all the blocks, types or schemas.  A unit has   *)
(* the sizes of its matches, and what the key covers of it: the identity   *)
(* and description of a descriptor (not its properties), the path, length  *)
(* and date of a file, the name and source of a Flow (not the blocks its   *)
(* expansion reads), the names of the blocks, nothing of the types and the *)
(* learned schemas.                                                        *)
(***************************************************************************)
EXTENDS Integers, Sequences, Functions

CONSTANTS
  Subjects,   \* what is listed: subset of {"catalog", "resources", "flows"}
  Listings,   \* subject -> its listings
  Covers,     \* what a key may hold of a unit
  Nothing,    \* what it holds of the types and of the schemas
  Limits,     \* items a page may hold
  MinItems,   \* items a page holds whatever its budget
  Sizes,      \* maxResponseKB, NoSize for none
  NoSize,
  MaxEdits    \* bound: edits of the sources

ASSUME PagesAssumption ==
  /\ Subjects \subseteq {"catalog", "resources", "flows"}
  /\ Limits \subseteq Nat \ {0} /\ MinItems \subseteq Nat
  /\ Sizes \ {NoSize} \subseteq Nat /\ NoSize \notin Nat
  /\ MaxEdits \in Nat

UnitKinds == [catalog |-> {"descriptor"}, resources |-> {"file"},
          flows |-> {"flow", "block", "type", "schema"}]

Units(of) == [kind : UnitKinds[of], covered : Covers, matches : Seq(Nat)]

(* A listing: a descriptor is one match, a file one at most.               *)
WellFormed(of, l) ==
  /\ l \in Seq(Units(of))
  /\ \A u \in DOMAIN l :
       /\ l[u].kind = "descriptor" => Len(l[u].matches) = 1
       /\ l[u].kind = "file" => Len(l[u].matches) <= 1
       /\ l[u].kind \in {"type", "schema"} => l[u].covered = Nothing

ASSUME ListingsAssumption ==
  \A s \in Subjects : \A l \in Listings[s] : WellFormed(s, l)

VARIABLES
  subject,  \* what is listed
  listing,  \* what the sources hold
  stage,    \* "idle", "unit" or "match": where the request of a page is
  page,     \* the request: its options, its listing, its items, its place
  cursor,   \* what the caller sends next: Start, a place with its key, or Over
  read,     \* history: the items answered since Start
  base,     \* history: the listing at Start
  torn,     \* history: since Start, a unit was not the one its key told
  edits

pageVars == <<subject, listing, stage, page, cursor, read, base, torn, edits>>

Start == [at |-> <<1, 1>>, key |-> <<>>]
Over == [at |-> <<0, 0>>, key |-> <<>>]

(* Mutant: the key is made of the names of the units.                      *)
KeyOfNames(l) == [u \in DOMAIN l |-> u]

(* The revision in the signature of the query: what it covers of a unit.   *)
Key(l) == [u \in DOMAIN l |-> l[u].covered]

NoPage ==
  [limit |-> 1, min |-> 0, max |-> NoSize, due |-> FALSE, late |-> FALSE,
   seen |-> <<>>, from |-> <<1, 1>>, at |-> <<1, 1>>,
   items |-> <<>>, bytes |-> 0, found |-> <<>>]

PagesInit ==
  /\ subject \in Subjects
  /\ listing \in Listings[subject]
  /\ stage = "idle" /\ page = NoPage
  /\ cursor = Start
  /\ read = <<>> /\ base = listing /\ torn = FALSE
  /\ edits = 0

-----------------------------------------------------------------------------
(* A caller asks for a page with the cursor of the last one, under options *)
(* of its choice; answerBefore may have passed already.                    *)
Ask ==
  /\ stage = "idle" /\ cursor # Over
  /\ cursor = Start \/ cursor.key = Key(listing)
  /\ \E l \in Limits, m \in MinItems, x \in Sizes, d \in BOOLEAN :
       \E late \in {FALSE, d} :
         page' = [limit |-> l, min |-> m, max |-> x, due |-> d, late |-> late,
                  seen |-> listing, from |-> cursor.at, at |-> cursor.at,
                  items |-> <<>>, bytes |-> 0, found |-> <<>>]
  /\ stage' = "unit"
  /\ IF cursor = Start THEN base' = listing /\ torn' = FALSE
     ELSE UNCHANGED <<base, torn>>
  /\ UNCHANGED <<subject, listing, cursor, read, edits>>

(* RESPONSE_CURSOR_MISMATCH: the caller starts again without a cursor.     *)
Mismatch ==
  /\ stage = "idle" /\ cursor \notin {Start, Over}
  /\ cursor.key # Key(listing)
  /\ cursor' = Start /\ read' = <<>>
  /\ UNCHANGED <<subject, listing, stage, page, base, torn, edits>>

TimePasses ==
  /\ stage # "idle" /\ page.due /\ ~page.late
  /\ page' = [page EXCEPT !.late = TRUE]
  /\ UNCHANGED <<subject, listing, stage, cursor, read, base, torn, edits>>

-----------------------------------------------------------------------------
(* The budget.                                                             *)

Unit == page.at[1]

Full == Len(page.items) >= page.limit

(* Mutant: minItems does not count against the time.                       *)
GoesOnInTime(work) == ~(page.due /\ page.late)

(* shouldContinue, after work units; the catalog counts no work.           *)
GoesOn(work) ==
  \/ ~(page.due /\ page.late)
  \/ Len(page.items) < page.min /\ (subject = "catalog" \/ work < page.min)

(* tryAdd: an item is added, or the page is full.                          *)
Fits(size) ==
  page.max = NoSize \/ Len(page.items) < page.min \/ page.bytes + size <= page.max

Move(at) == page' = [page EXCEPT !.at = at]

Item(size) == <<page.at[1], page.at[2], size>>

Add(at, size) ==
  page' = [page EXCEPT !.at = at, !.items = Append(@, Item(size)), !.bytes = @ + size]

(* finish: the place the next page resumes at, or none.                    *)
Finish(next) ==
  /\ stage' = "idle" /\ page' = NoPage
  /\ cursor' = next
  /\ read' = read \o page.items

Resume(at) == Finish([at |-> at, key |-> Key(page.seen)])

(* The matches of a unit: files, types and schemas are read when they are  *)
(* reached, the others were read with the key.                             *)
Matches(u) ==
  IF page.seen[u].kind \in {"file", "type", "schema"} THEN listing[u].matches
  ELSE page.seen[u].matches

UnitEnds == Unit > Len(page.seen)

(* Catalog and resources: one match in a unit at most; the limit is        *)
(* checked before the next unit.                                           *)
ScanUnit ==
  /\ stage = "unit" /\ subject # "flows"
  /\ \/ UnitEnds /\ Finish(Over)
     \/ /\ ~UnitEnds
        /\ Full \/ ~GoesOn(Unit - page.from[1])
        /\ Resume(page.at)
     \/ /\ ~UnitEnds /\ ~Full /\ GoesOn(Unit - page.from[1])
        /\ LET matches == Matches(Unit) IN
           \/ /\ matches = <<>>
              /\ Move(<<Unit + 1, 1>>)
              /\ UNCHANGED <<stage, cursor, read>>
           \/ /\ matches # <<>> /\ Fits(matches[1])
              /\ Add(<<Unit + 1, 1>>, matches[1])
              /\ UNCHANGED <<stage, cursor, read>>
           \/ /\ matches # <<>> /\ ~Fits(matches[1])
              /\ Resume(page.at)
  /\ UNCHANGED <<subject, listing, base, torn, edits>>

(* Flows: the matches of a unit are searched, then added one by one.       *)
SearchUnit ==
  /\ stage = "unit" /\ subject = "flows"
  /\ \/ UnitEnds /\ Finish(Over)
     \/ /\ ~UnitEnds /\ ~GoesOn(Unit - page.from[1])
        /\ Resume(page.at)
     \/ /\ ~UnitEnds /\ GoesOn(Unit - page.from[1])
        /\ page' = [page EXCEPT !.found = Matches(Unit)]
        /\ stage' = "match"
        /\ UNCHANGED <<cursor, read>>
  /\ UNCHANGED <<subject, listing, base, torn, edits>>

After(at) == <<at[1], at[2] + 1>>

AddMatch ==
  LET item == page.at[2]
      added == Append(page.items, Item(page.found[item])) IN
  /\ stage = "match"
  /\ \/ /\ item > Len(page.found)
        /\ Move(<<Unit + 1, 1>>)
        /\ stage' = "unit" /\ UNCHANGED <<cursor, read>>
     \/ /\ item <= Len(page.found)
        /\ ~GoesOn(Unit - page.from[1] + 1) \/ ~Fits(page.found[item])
        /\ Resume(page.at)
     \/ /\ item <= Len(page.found)
        /\ GoesOn(Unit - page.from[1] + 1) /\ Fits(page.found[item])
        /\ IF Len(added) >= page.limit
           THEN /\ stage' = "idle" /\ page' = NoPage
                /\ cursor' = [at |-> After(page.at), key |-> Key(page.seen)]
                /\ read' = read \o added
           ELSE /\ Add(After(page.at), page.found[item])
                /\ UNCHANGED <<stage, cursor, read>>
  /\ UNCHANGED <<subject, listing, base, torn, edits>>

-----------------------------------------------------------------------------
(* The sources of one unit change, what the key covers of it or not.       *)
Edit(u, unit) ==
  /\ edits < MaxEdits /\ cursor # Over
  /\ edits' = edits + 1
  /\ listing' = [listing EXCEPT ![u] = unit]
  /\ torn' = (\/ torn
              \/ unit.covered = base[u].covered /\ unit # base[u]
              \/ unit.kind = "file" /\ stage # "idle")
  /\ UNCHANGED <<subject, stage, page, cursor, read, base>>

Edits ==
  \E u \in DOMAIN listing : \E l \in Listings[subject] :
    /\ Len(l) = Len(listing) /\ l[u] # listing[u]
    /\ l[u].kind = listing[u].kind
    /\ Edit(u, l[u])

Answer == ScanUnit \/ SearchUnit \/ AddMatch

PagesNext == Ask \/ Mismatch \/ TimePasses \/ Answer \/ Edits

(* The engine answers; the caller asks until there is no cursor.           *)
Fairness == WF_pageVars(Answer) /\ WF_pageVars(Ask \/ Mismatch)

PagesSpec == PagesInit /\ [][PagesNext]_pageVars /\ Fairness

-----------------------------------------------------------------------------
PagesTypeOK ==
  /\ subject \in Subjects
  /\ stage \in {"idle", "unit", "match"}
  /\ stage = "match" => subject = "flows"
  /\ Len(page.items) <= page.limit
  /\ page.at[1] \in 1 .. Len(listing) + 1
  /\ cursor = Over \/ cursor.at[1] \in 1 .. Len(listing) + 1
  /\ torn \in BOOLEAN /\ edits \in 0 .. MaxEdits

Before(at, u, i) == u < at[1] \/ (u = at[1] /\ i < at[2])

(* The places of the items of the listing before the cursor.               *)
Due ==
  LET all == UNION { { <<u, i>> : i \in DOMAIN base[u].matches } : u \in DOMAIN base }
  IN { p \in all : cursor = Over \/ Before(cursor.at, p[1], p[2]) }

(* The pages a caller followed answer every item before the cursor, in     *)
(* order, none twice and none missing, whatever their options and the      *)
(* edits between them: those of the catalog always, for its key tells any  *)
(* descriptor that comes or goes; the others unless a unit changed and not *)
(* its key.                                                                *)
PlacesAddUp ==
  stage = "idle" /\ (subject = "catalog" \/ ~torn) =>
    /\ { <<item[1], item[2]>> : item \in Range(read) } = Due
    /\ \A m, n \in DOMAIN read : m < n => Before(read[n], read[m][1], read[m][2])

(* And the pages are those of one listing: no page mixes what it holds     *)
(* with what another one held, unless a unit changed and not its key.      *)
OneListing ==
  stage = "idle" /\ ~torn =>
    \A n \in DOMAIN read : read[n][3] = base[read[n][1]].matches[read[n][2]]

PagesAddUp == PlacesAddUp /\ OneListing

PageEnds == stage # "idle" /\ stage' = "idle"

Total(items) ==
  LET total[n \in 0 .. Len(items)] ==
        IF n = 0 THEN 0 ELSE total[n - 1] + items[n][3]
  IN total[Len(items)]

(* A page is larger than its budget only for the items minItems promises:  *)
(* what it adds beyond them fits.                                          *)
SizeHeld ==
  stage # "idle" /\ page.max # NoSize /\ Len(page.items) > page.min =>
    Total(page.items) <= page.max

(* The pages hold the listing, each within its budget.                     *)
PagesSound == PagesTypeOK /\ PagesAddUp /\ SizeHeld

(* Every page that must hold an item ends the listing or moves its cursor, *)
(* an item larger than the whole budget too.  Not the empty page of a      *)
(* search in Flows whose time ran out while a unit was searched: its       *)
(* cursor may be the one it was asked with (flow-tree-service.js:7257).    *)
EveryPageMovesOn ==
  [][(/\ PageEnds /\ page.min > 0
      /\ ~(subject = "flows" /\ page.late /\ page.items = <<>>)) =>
       cursor' = Over \/ cursor'.at # page.from]_pageVars

(* A caller that follows the cursors reaches the end of the listing,       *)
(* unless it goes on asking for pages that may hold nothing, or its time   *)
(* goes on running out in a search in Flows.                               *)
EverythingAnswered ==
  \/ <>(cursor = Over)
  \/ []<>(stage # "idle" /\ (page.min = 0 \/ (subject = "flows" /\ page.late)))

(* Each page moves on, so the listing ends.                                *)
PagesEnd == EveryPageMovesOn /\ EverythingAnswered

===============================================================================
