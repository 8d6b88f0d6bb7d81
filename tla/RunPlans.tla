------------------------------- MODULE RunPlans -------------------------------
(***************************************************************************)
(* How a runtime finds the plan a run executes: the hot plans (run plan    *)
(* heads, not probed again for a minute), the hot block catalogs (not      *)
(* probed again for a minute either) and the compiled plans, over sources  *)
(* of blocks that this runtime, another one or an editor changes.          *)
(*                                                                         *)
(* A catalog is what its cache key says: the project, the revision of its  *)
(* sources and the working copies of blocks it was read with.  The cache   *)
(* of the built catalogs is keyed so and never evicts, hence a catalog and *)
(* its identity are one value here.  One request resolves at a time: a     *)
(* runtime serves one thread; the generation a server shares between       *)
(* runtimes (__flowRuntimeApi) is not modelled.                            *)
(***************************************************************************)
EXTENDS BoundedMap, Integers, Sequences

CONSTANTS
  Project,    \* projects whose Flows run here
  Request,    \* the run requests: project, name, flowSource, definition, working copies
  Blank,      \* the flowSource or definition a request does not carry
  None,       \* no request, no answer
  Interval,   \* how long a head is not probed: 60 s in ticks
  HeadLimit, PlanLimit,              \* 256 in the code
  MaxTime, MaxDelay, MaxRuns, MaxWrites  \* bounds of the instance

ASSUME LimitsAssumption == HeadLimit \in Nat \ {0} /\ PlanLimit \in Nat \ {0}

ASSUME TimesAssumption ==
  /\ Interval \in Nat \ {0} /\ MaxTime \in Nat /\ MaxDelay \in Nat
  /\ MaxRuns \in Nat /\ MaxWrites \in Nat

ASSUME RequestsAssumption == \A r \in Request : r.project \in Project

(* The working copies a request carries: none, of Flows, of blocks.        *)
Copies == {"none", "flows", "blocks"}

VARIABLES
  now,
  version,     \* project -> revision of its block sources on disk
  replacedAt,  \* history: project -> revision -> when the next one came
  heads,       \* caches.runPlanHeads
  plans,       \* caches.flowPlans
  hot,         \* caches.blockCatalogHeads: <<project, copies>> -> catalog, checkedAt
  dirty,       \* the data generation moved since this runtime was refreshed
  notified,    \* history: project -> revision of the last notified write
  must,        \* history: project -> oldest revision a run may still use
  run,         \* the request being resolved
  answer,      \* history: the plan this step resolved, or None
  recent,      \* history: keys of heads and plans, least recently used first
  delay,       \* ticks since this request was asked
  runs,        \* runs and clears asked
  writes       \* changes of the sources of blocks

vars == <<now, version, replacedAt, heads, plans, hot, dirty, notified, must,
          run, answer, recent, delay, runs, writes>>
caches == <<heads, plans, hot, recent>>
sources == <<version, replacedAt, notified>>

Idle == [at |-> "idle"]

Init ==
  /\ now = 0
  /\ version = [p \in Project |-> 0]
  /\ replacedAt = [p \in Project |-> <<>>]
  /\ heads = EmptyMap(HeadLimit)
  /\ plans = EmptyMap(PlanLimit)
  /\ hot = [k \in {} |-> None]
  /\ dirty = FALSE
  /\ notified = version /\ must = version
  /\ run = Idle
  /\ answer = None
  /\ recent = [heads |-> <<>>, plans |-> <<>>]
  /\ delay = 0 /\ runs = 0 /\ writes = 0

-----------------------------------------------------------------------------
(* The keys of the caches.                                                 *)

HeadKey(r) == <<r.project, r.name, r.copies>>

(* flowPlanIdentity: what the plan is compiled from.  A definition wins    *)
(* over a flowSource; a request by name has neither, and no plan kept.     *)
Identity(r) ==
  CASE r.definition # Blank                     -> <<"definition", r.definition>>
    [] r.definition = Blank /\ r.source # Blank -> <<"source", r.source>>
    [] OTHER                                    -> Blank

PlanKey(r) == <<r.name, Identity(r)>>

(* The catalog reads no Flow: their working copies stay out of its key.    *)
CatalogCopies(r) == IF r.copies = "blocks" THEN "blocks" ELSE "none"

HotKey(r) == <<r.project, CatalogCopies(r)>>

(* blocksCacheIdentity, and the catalog read under it.                     *)
CatalogOf(r) ==
  [project |-> r.project, version |-> version[r.project], copies |-> CatalogCopies(r)]

Compiled(r, catalog) == [name |-> r.name, text |-> Identity(r), catalog |-> catalog]

WithoutAt(keys, n) == [i \in 1 .. Len(keys) - 1 |-> keys[IF i < n THEN i ELSE i + 1]]

(* The history of the uses of a cache: the keys it should hold.            *)
Recently(keys, key, limit) ==
  LET others == IF \E n \in DOMAIN keys : keys[n] = key
                THEN WithoutAt(keys, CHOOSE n \in DOMAIN keys : keys[n] = key)
                ELSE keys
      used == Append(others, key)
  IN  IF Len(used) > limit THEN Tail(used) ELSE used

-----------------------------------------------------------------------------
(* Mutant: a head is still good at the end of its minute.                  *)
HeadHitAtEnd(r) ==
  /\ r.source # Blank
  /\ Hit(heads, HeadKey(r), r.source)
  /\ now - heads.entries[HeadKey(r)].value.checkedAt <= Interval

(* read of run-plan-head-service.js: the fingerprint of a head is the      *)
(* flowSource alone, whatever definition comes with it.                    *)
HeadHit(r) ==
  /\ r.source # Blank
  /\ Hit(heads, HeadKey(r), r.source)
  /\ now - heads.entries[HeadKey(r)].value.checkedAt < Interval

Answer(r, catalog, plan, least) ==
  answer' = [request |-> r, catalog |-> catalog, plan |-> plan, at |-> now,
             least |-> least]

(* resolveRunPlanUnshared: the hot plan, or the catalog is to be loaded.   *)
Ask(r) ==
  /\ run = Idle /\ runs < MaxRuns
  /\ runs' = runs + 1 /\ delay' = 0
  /\ IF HeadHit(r)
     THEN LET head == heads.entries[HeadKey(r)].value
          IN  /\ heads' = Touch(heads, HeadKey(r))
              /\ recent' = [recent EXCEPT !.heads = Recently(@, HeadKey(r), HeadLimit)]
              /\ Answer(r, head.catalog, head.plan, must[r.project])
              /\ UNCHANGED run
     ELSE /\ run' = [at |-> "load", request |-> r, least |-> must[r.project]]
          /\ UNCHANGED <<heads, recent>> /\ answer' = None
  /\ UNCHANGED <<now, sources, plans, hot, dirty, must, writes>>

HotHit(r) ==
  HotKey(r) \in DOMAIN hot /\ now - hot[HotKey(r)].checkedAt < Interval

With(catalog, at) == [request |-> run.request, least |-> run.least, at |-> at,
                      catalog |-> catalog]

(* loadBlocks(true): the hot catalog, or the files are probed.             *)
Load ==
  /\ run.at = "load"
  /\ run' = IF HotHit(run.request)
            THEN With(hot[HotKey(run.request)].catalog, "compile")
            ELSE With(CatalogOf(run.request), "build")
  /\ answer' = None
  /\ UNCHANGED <<now, sources, caches, dirty, must, delay, runs, writes>>

(* writeHotBlockCatalog, once the catalog is read: the clock is read then. *)
Build ==
  /\ run.at = "build"
  /\ hot' = [k \in DOMAIN hot \cup {HotKey(run.request)} |->
               IF k = HotKey(run.request)
               THEN [catalog |-> run.catalog, checkedAt |-> now] ELSE hot[k]]
  /\ run' = With(run.catalog, "compile")
  /\ answer' = None
  /\ UNCHANGED <<now, sources, heads, plans, recent, dirty, must, delay, runs, writes>>

(* Mutant: a compiled plan is used whatever the catalog it was read with.  *)
PlanReadyAny(r, catalog) ==
  Identity(r) # Blank /\ Hit(plans, PlanKey(r), "compiler")

(* compileFlowPlan: a compiled plan is reused only with its very catalog.  *)
PlanReady(r, catalog) ==
  /\ Identity(r) # Blank
  /\ Hit(plans, PlanKey(r), "compiler")
  /\ plans.entries[PlanKey(r)].value.catalog = catalog

PlansAfter(r, catalog, plan) ==
  IF Identity(r) = Blank THEN plans
  ELSE LET seen == AfterRead(plans, PlanKey(r), "compiler")
       IN  IF PlanReady(r, catalog) THEN seen
           ELSE Write(seen, PlanKey(r), "compiler", plan)

HeadsAfter(r, catalog, plan) ==
  IF r.source = Blank THEN heads
  ELSE Write(heads, HeadKey(r), r.source,
             [catalog |-> catalog, plan |-> plan, checkedAt |-> now])

RecentAfter(r) ==
  [heads |-> IF r.source = Blank THEN recent.heads
             ELSE Recently(recent.heads, HeadKey(r), HeadLimit),
   plans |-> IF Identity(r) = Blank THEN recent.plans
             ELSE Recently(recent.plans, PlanKey(r), PlanLimit)]

(* compileFlowPlan then writeRunPlanHead: a request by name keeps nothing, *)
(* one with a definition alone keeps a plan and no head.                   *)
Compile ==
  /\ run.at = "compile"
  /\ LET r == run.request
         catalog == run.catalog
         plan == IF PlanReady(r, catalog) THEN plans.entries[PlanKey(r)].value
                 ELSE Compiled(r, catalog)
     IN  /\ plans' = PlansAfter(r, catalog, plan)
         /\ heads' = HeadsAfter(r, catalog, plan)
         /\ recent' = RecentAfter(r)
         /\ Answer(r, catalog, plan, run.least)
  /\ run' = Idle /\ delay' = 0
  /\ UNCHANGED <<now, sources, hot, dirty, must, runs, writes>>

-----------------------------------------------------------------------------
(* What makes the runtime forget.                                          *)

(* Mutant: the hot catalogs survive.                                       *)
ForgetPlans ==
  /\ heads' = Cleared(heads) /\ plans' = Cleared(plans)
  /\ recent' = [heads |-> <<>>, plans |-> <<>>]
  /\ UNCHANGED hot

(* invalidateBlockCatalogCaches, and what clear of                         *)
(* runtime-cache-service.js does to these caches, refresh or not.          *)
Forget ==
  /\ heads' = Cleared(heads) /\ plans' = Cleared(plans)
  /\ hot' = [k \in {} |-> None]
  /\ recent' = [heads |-> <<>>, plans |-> <<>>]

(* The bridge takes the runtime for a client, refreshed if data changed.   *)
Begin ==
  /\ run = Idle /\ runs < MaxRuns /\ dirty
  /\ Forget
  /\ dirty' = FALSE
  /\ must' = [p \in Project |-> IF notified[p] > must[p] THEN notified[p] ELSE must[p]]
  /\ answer' = None
  /\ UNCHANGED <<now, sources, run, delay, runs, writes>>

(* clearRuntimeCaches, asked explicitly.                                   *)
ClearCaches ==
  /\ run = Idle
  /\ Forget
  /\ must' = version
  /\ runs < MaxRuns /\ runs' = runs + 1
  /\ answer' = None
  /\ UNCHANGED <<now, sources, dirty, run, delay, writes>>

(* A bound: nothing else happens once the last request is answered.        *)
GoesOn == runs < MaxRuns \/ run # Idle

Edits(p) ==
  /\ GoesOn
  /\ writes < MaxWrites /\ writes' = writes + 1
  /\ answer' = None
  /\ version' = [version EXCEPT ![p] = @ + 1]
  /\ replacedAt' = [replacedAt EXCEPT ![p] = Append(@, now)]

(* An editor changes a block on disk and tells nobody.                     *)
Edit(p) ==
  /\ Edits(p)
  /\ UNCHANGED <<now, notified, caches, dirty, must, run, delay, runs>>

(* Another runtime writes a block: the data generation moves.              *)
WriteElsewhere(p) ==
  /\ Edits(p)
  /\ notified' = [notified EXCEPT ![p] = version'[p]]
  /\ dirty' = TRUE
  /\ UNCHANGED <<now, caches, must, run, delay, runs>>

(* projectBlockWritten: this runtime writes one, and tells the others.     *)
WriteHere(p) ==
  /\ run = Idle
  /\ Edits(p)
  /\ Forget
  /\ notified' = [notified EXCEPT ![p] = version'[p]]
  /\ must' = [must EXCEPT ![p] = version'[p]]
  /\ dirty' = TRUE
  /\ UNCHANGED <<now, run, delay, runs>>

Tick ==
  /\ GoesOn
  /\ now < MaxTime
  /\ run # Idle => delay < MaxDelay
  /\ now' = now + 1
  /\ delay' = IF run = Idle THEN delay ELSE delay + 1
  /\ answer' = None
  /\ UNCHANGED <<sources, caches, dirty, must, run, runs, writes>>

Next ==
  \/ \E r \in Request : Ask(r)
  \/ Load \/ Build \/ Compile
  \/ Begin \/ ClearCaches
  \/ \E p \in Project : Edit(p) \/ WriteElsewhere(p) \/ WriteHere(p)
  \/ Tick

Spec == Init /\ [][Next]_vars

-----------------------------------------------------------------------------
CatalogSet ==
  [project : Project, version : 0..MaxWrites, copies : {"none", "blocks"}]

PlanSet == [name : {r.name : r \in Request}, text : {Identity(r) : r \in Request},
            catalog : CatalogSet]

(* Every cache holds catalogs and plans, the clock of a head is past.      *)
TypeOK ==
  /\ now \in 0..MaxTime /\ delay \in 0..MaxDelay /\ runs \in 0..MaxRuns /\ writes \in 0..MaxWrites
  /\ version \in [Project -> 0..MaxWrites]
  /\ notified \in [Project -> 0..MaxWrites] /\ must \in [Project -> 0..MaxWrites]
  /\ \A p \in Project : Len(replacedAt[p]) = version[p]
  /\ \A k \in Keys(heads) :
       LET head == heads.entries[k].value
       IN  head.catalog \in CatalogSet /\ head.plan \in PlanSet /\ head.checkedAt \in 0..now
  /\ \A k \in Keys(plans) : plans.entries[k].value \in PlanSet
  /\ \A k \in DOMAIN hot : hot[k].catalog \in CatalogSet /\ hot[k].checkedAt \in 0..now
  /\ dirty \in BOOLEAN
  /\ run.at \in {"idle", "load", "build", "compile"}

(* The sizes of the two bounded caches are exact and within their limits,  *)
(* and no two entries claim the same use (cache-utils.js:89-168, with the  *)
(* heads bumped by their own read, run-plan-head-service.js:37).           *)
CachesConsistent == Consistent(heads) /\ Consistent(plans)

(* The caches hold exactly the entries used last, in the order of their    *)
(* uses: an eviction never takes a plan used since another that stays.     *)
KeepsRecent(m, keys) ==
  /\ Keys(m) = {keys[i] : i \in DOMAIN keys}
  /\ \A i, j \in DOMAIN keys :
       i < j => m.entries[keys[i]].usedAt < m.entries[keys[j]].usedAt

RecentKept == KeepsRecent(heads, recent.heads) /\ KeepsRecent(plans, recent.plans)

(* The caches hold what was used last and what their sizes say.            *)
CachesKept == TypeOK /\ CachesConsistent /\ RecentKept

(* The head of d may answer r.                                             *)
SameHead(d, r) == r.source # Blank /\ d.source = r.source /\ HeadKey(d) = HeadKey(r)

(* A run executes the plan of the definition or flowSource it was asked    *)
(* with, compiled with the catalog of its own project and of its own       *)
(* working copies, whatever Flows of the same name and source other        *)
(* projects and drafts run.  When requests carry both a flowSource and a   *)
(* definition, the plan may be that of another one with its flowSource: a  *)
(* head does not know the definition it was compiled from.                 *)
OwnPlan ==
  answer # None =>
    LET r == answer.request
    IN  /\ \E d \in Request : (d = r \/ SameHead(d, r)) /\ answer.plan = Compiled(d, answer.catalog)
        /\ answer.catalog.project = r.project
        /\ answer.catalog.copies = CatalogCopies(r)

(* A block changed behind the back of the runtime is run in its old form   *)
(* for less than two minutes: the minute of a head starts when it is       *)
(* written, with a catalog probed up to a minute before (checkedAt,        *)
(* catalog-loader-service.js:226 and run-plan-head-service.js:49).  The    *)
(* time requests take to read a catalog and to compile adds to that.       *)
StaleAtMostTwice ==
  answer # None =>
    LET c == answer.catalog
        past == replacedAt[c.project]
    IN  c.version < Len(past) =>
          answer.at - past[c.version + 1] <= 2 * (Interval - 1) + 2 * MaxDelay

(* Nothing older than what this runtime wrote, was told of before this     *)
(* request, or found when it was told to clear its caches, is ever run.    *)
ToldIsSeen == answer # None => answer.catalog.version >= answer.least
===============================================================================
