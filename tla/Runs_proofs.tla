----------------------------- MODULE Runs_proofs -----------------------------
(***************************************************************************)
(* Proofs about the runs of Flows, in two parts.                           *)
(*                                                                         *)
(* The caches of run plans, for every limit, every request and every       *)
(* sequence of writes: the bounded caches stay consistent, a run gets a    *)
(* plan of its own, and nothing older than what the runtime was told of.   *)
(*                                                                         *)
(* The control of a run, for every Flow: its frames and its context agree, *)
(* whatever is thrown, and nothing runs after what ends a list.            *)
(***************************************************************************)
EXTENDS RunPlans, FlowControl, FiniteSetTheorems, SequenceTheorems, WellFoundedInduction, TLAPS

-----------------------------------------------------------------------------
(* Lemmas about the bounded map.                                           *)

(* A new cache is consistent.                                              *)
LEMMA EmptyConsistent ==
  ASSUME NEW limit \in Nat \ {0}
  PROVE  Consistent(EmptyMap(limit)) /\ Keys(EmptyMap(limit)) = {}
  BY FS_EmptySet DEF Consistent, Shaped, EmptyMap, Cache, Keys

LEMMA ClearedConsistent ==
  ASSUME NEW m, Consistent(m)
  PROVE  Consistent(Cleared(m)) /\ Keys(Cleared(m)) = {}
  BY EmptyConsistent DEF Cleared, Consistent

(* A use of an entry keeps the cache consistent and its entries as good.   *)
LEMMA TouchConsistent ==
  ASSUME NEW m, Consistent(m), NEW key \in Keys(m)
  PROVE  /\ Consistent(Touch(m, key))
         /\ Keys(Touch(m, key)) = Keys(m)
         /\ \A k \in Keys(m) :
              /\ Touch(m, key).entries[k].value = m.entries[k].value
              /\ Touch(m, key).entries[k].fingerprint = m.entries[k].fingerprint
<1> DEFINE t == Touch(m, key)
           new == Entry(m.entries[key].fingerprint, m.entries[key].value, m.clock + 1)
<1>1. /\ t.entries = [m.entries EXCEPT ![key] = new]
      /\ t.limit = m.limit /\ t.size = m.size /\ t.clock = m.clock + 1
      /\ t = Cache(t.entries, t.limit, t.size, t.clock)
  BY DEF Touch, Cache
<1>2. /\ new.fingerprint = m.entries[key].fingerprint
      /\ new.value = m.entries[key].value
      /\ new.usedAt = m.clock + 1
  BY DEF Entry
<1> HIDE DEF t, new
<1>3. t.entries = [k \in Keys(m) |-> IF k = key THEN new ELSE m.entries[k]]
  BY <1>1 DEF Consistent, Shaped, Keys
<1>4. /\ Keys(t) = Keys(m)
      /\ t.entries[key] = new
      /\ \A k \in Keys(m) : k # key => t.entries[k] = m.entries[k]
  BY <1>3 DEF Keys
<1>5. Shaped(t)
  BY <1>1, <1>3, <1>4 DEF Shaped
<1>6. /\ \A k \in Keys(t) : t.entries[k].usedAt \in 1..t.clock
      /\ \A j, k \in Keys(t) : t.entries[j].usedAt = t.entries[k].usedAt => j = k
  BY <1>1, <1>2, <1>4 DEF Consistent
<1>7. Consistent(t)
  BY <1>1, <1>4, <1>5, <1>6 DEF Consistent
<1> QED BY <1>2, <1>4, <1>7 DEF t

(* Some entry is the least recently used one.                              *)
LEMMA SmallestExists ==
  ASSUME NEW T \in SUBSET Nat, T # {}
  PROVE  \E x \in T : \A y \in T : x <= y
<1> DEFINE less == OpToRel(<, Nat)
<1>1. PICK x \in T : \A y \in T : ~ (<<y, x>> \in less)
  <2>1. IsWellFoundedOn(less, Nat)
    BY NatLessThanWellFounded
  <2> HIDE DEF less
  <2> QED BY <2>1, WFMin
<1>2. \A y \in T : <<y, x>> \in less <=> y < x
  BY DEF OpToRel
<1> HIDE DEF less
<1>3. \A y \in T : ~ (y < x)
  BY <1>1, <1>2
<1>4. \A y \in T : x <= y
  BY <1>3
<1> QED BY <1>4

LEMMA LeastUsedIsThere ==
  ASSUME NEW m, Consistent(m), Keys(m) # {}
  PROVE  LeastUsed(m) \in Keys(m)
<1> DEFINE uses == {m.entries[k].usedAt : k \in Keys(m)}
<1>1. uses \subseteq Nat /\ uses # {}
  BY DEF Consistent
<1>2. PICK u \in uses : \A v \in uses : u <= v
  BY <1>1, SmallestExists
<1>3. \E k \in Keys(m) : \A j \in Keys(m) : m.entries[k].usedAt <= m.entries[j].usedAt
  BY <1>2
<1> QED BY <1>3 DEF LeastUsed

(* Room is made for a new entry: the others stay as they are.              *)
LEMMA RoomConsistent ==
  ASSUME NEW m, Consistent(m), NEW key
  PROVE  /\ Consistent(Room(m, key))
         /\ key \notin Keys(m) => Room(m, key).size < m.limit /\ key \notin Keys(Room(m, key))
         /\ key \in Keys(m) => Room(m, key) = m
         /\ Room(m, key).limit = m.limit
         /\ Keys(Room(m, key)) \subseteq Keys(m)
         /\ \A k \in Keys(Room(m, key)) : Room(m, key).entries[k] = m.entries[k]
<1>1. CASE Room(m, key) = m /\ (key \in Keys(m) \/ m.size < m.limit)
  BY <1>1
<1>2. CASE key \notin Keys(m) /\ m.size >= m.limit
  <2> DEFINE e == EvictOldest(m)
             least == LeastUsed(m)
  <2>1. Room(m, key) = e
    BY <1>2 DEF Room, MakeRoom
  <2>2. least \in Keys(m)
    <3>1. m.size \in Nat
      BY FS_CardinalityType DEF Consistent
    <3>2. m.size # 0
      BY <1>2, <3>1 DEF Consistent
    <3>3. Keys(m) # {}
      BY <3>2, FS_EmptySet DEF Consistent
    <3> QED BY <3>3, LeastUsedIsThere
  <2>3. /\ Keys(e) = Keys(m) \ {least}
        /\ \A k \in Keys(e) : e.entries[k] = m.entries[k]
        /\ e.size = m.size - 1 /\ e.limit = m.limit /\ e.clock = m.clock
        /\ Shaped(e)
    BY DEF EvictOldest, Without, Cache, Keys, Shaped
  <2>4. IsFiniteSet(Keys(e)) /\ Cardinality(Keys(e)) = Cardinality(Keys(m)) - 1
    BY <2>2, <2>3, FS_RemoveElement DEF Consistent
  <2>5. Cardinality(Keys(m)) \in Nat /\ Cardinality(Keys(e)) \in Nat
    BY <2>4, FS_CardinalityType DEF Consistent
  <2> HIDE DEF e, least
  <2>6. Consistent(e) /\ e.size < m.limit
    BY <2>3, <2>4, <2>5 DEF Consistent
  <2> QED BY <1>2, <2>1, <2>3, <2>6
<1>3. m.size \in Nat
  BY FS_CardinalityType DEF Consistent
<1> QED BY <1>1, <1>2, <1>3 DEF Room, MakeRoom, Consistent

(* What is written is kept under its key, and nothing else changes.        *)
LEMMA WriteConsistent ==
  ASSUME NEW m, Consistent(m), NEW key, NEW fingerprint, NEW value
  PROVE  LET w == Write(m, key, fingerprint, value)
         IN  /\ Consistent(w)
             /\ key \in Keys(w) /\ Keys(w) \subseteq Keys(m) \cup {key}
             /\ w.entries[key].value = value /\ w.entries[key].fingerprint = fingerprint
             /\ \A k \in Keys(w) : k # key => k \in Keys(m) /\ w.entries[k] = m.entries[k]
<1> DEFINE room == Room(m, key)
           new == Entry(fingerprint, value, room.clock + 1)
           w == Write(m, key, fingerprint, value)
<1>1. /\ w.entries = [k \in Keys(room) \cup {key} |-> IF k = key THEN new ELSE room.entries[k]]
      /\ w.limit = room.limit /\ w.clock = room.clock + 1
      /\ w.size = IF key \in Keys(m) THEN room.size ELSE room.size + 1
      /\ w = Cache(w.entries, w.limit, w.size, w.clock)
  BY DEF Write, Cache
<1>2. new.fingerprint = fingerprint /\ new.value = value /\ new.usedAt = room.clock + 1
  BY DEF Entry
<1>3. /\ Consistent(room) /\ Keys(room) \subseteq Keys(m) /\ room.limit = m.limit
      /\ \A k \in Keys(room) : room.entries[k] = m.entries[k]
      /\ key \notin Keys(m) => room.size < room.limit /\ key \notin Keys(room)
      /\ key \in Keys(m) => room = m
  BY RoomConsistent
<1> HIDE DEF w, new, room
<1>4. /\ Keys(w) = Keys(room) \cup {key} /\ w.entries[key] = new
      /\ \A k \in Keys(room) : k # key => w.entries[k] = room.entries[k]
      /\ Shaped(w)
  BY <1>1 DEF Keys, Shaped
<1>5. IsFiniteSet(Keys(w)) /\ w.size = Cardinality(Keys(w)) /\ w.size <= w.limit
  <2>1. IsFiniteSet(Keys(room)) /\ room.size = Cardinality(Keys(room)) /\ room.size <= room.limit
        /\ room.limit \in Nat
    BY <1>3 DEF Consistent
  <2>2. Cardinality(Keys(room)) \in Nat
    BY <2>1, FS_CardinalityType
  <2> QED BY <1>1, <1>3, <1>4, <2>1, <2>2, FS_AddElement
<1>6. /\ \A k \in Keys(w) : w.entries[k].usedAt \in 1..w.clock
      /\ \A j, k \in Keys(w) : w.entries[j].usedAt = w.entries[k].usedAt => j = k
  BY <1>1, <1>2, <1>3, <1>4 DEF Consistent
<1>7. w.limit \in Nat \ {0} /\ w.clock \in Nat
  BY <1>1, <1>3 DEF Consistent
<1>8. Consistent(w)
  BY <1>4, <1>5, <1>6, <1>7 DEF Consistent
<1> QED BY <1>2, <1>3, <1>4, <1>8 DEF w

(* Entries removed by a predicate leave a consistent cache.                *)
LEMMA ClearWhereConsistent ==
  ASSUME NEW m, Consistent(m), NEW gone
  PROVE  Consistent(ClearWhere(m, gone)) /\ Keys(ClearWhere(m, gone)) = Keys(m) \ gone
<1> DEFINE c == ClearWhere(m, gone)
<1>1. /\ Keys(c) = Keys(m) \ gone /\ Shaped(c)
      /\ \A k \in Keys(c) : c.entries[k] = m.entries[k]
      /\ c.limit = m.limit /\ c.clock = m.clock
      /\ c.size = m.size - Cardinality(Keys(m) \cap gone)
  BY DEF ClearWhere, Without, Cache, Keys, Shaped
<1>2. IsFiniteSet(Keys(c)) /\ Cardinality(Keys(c)) = c.size
  <2>1. IsFiniteSet(Keys(m)) /\ m.size = Cardinality(Keys(m))
    BY DEF Consistent
  <2>2. /\ IsFiniteSet(Keys(m) \ gone)
        /\ Cardinality(Keys(m) \ gone) = Cardinality(Keys(m)) - Cardinality(Keys(m) \cap gone)
    BY <2>1, FS_Difference
  <2> HIDE DEF c
  <2> QED BY <1>1, <2>1, <2>2
<1>3. c.size <= m.size
  <2>1. Cardinality(Keys(c)) <= Cardinality(Keys(m))
    BY <1>1, FS_Subset DEF Consistent
  <2> QED BY <1>2, <2>1 DEF Consistent
<1>4. Cardinality(Keys(m)) \in Nat /\ Cardinality(Keys(c)) \in Nat
  BY <1>2, FS_CardinalityType DEF Consistent
<1> HIDE DEF c
<1>5. Consistent(c)
  BY <1>1, <1>2, <1>3, <1>4 DEF Consistent
<1> QED BY <1>1, <1>5 DEF c

-----------------------------------------------------------------------------
(* The caches of every reachable state are consistent: their sizes are     *)
(* exact and within their limits.                                          *)
THEOREM CachesStayConsistent == Spec => []CachesConsistent
<1>1. Init => CachesConsistent
  BY EmptyConsistent, LimitsAssumption DEF Init, CachesConsistent
<1>2. CachesConsistent /\ [Next]_vars => CachesConsistent'
  <2> SUFFICES ASSUME CachesConsistent, [Next]_vars PROVE CachesConsistent'
    OBVIOUS
  <2> USE DEF CachesConsistent
  <2>1. ASSUME NEW r \in Request, Ask(r) PROVE CachesConsistent'
    <3>1. CASE HeadHit(r)
      <4>1. HeadKey(r) \in Keys(heads)
        BY <3>1 DEF HeadHit, Hit
      <4>2. Consistent(Touch(heads, HeadKey(r)))
        BY <4>1, TouchConsistent
      <4> QED BY <2>1, <3>1, <4>2 DEF Ask
    <3>2. CASE ~ HeadHit(r)
      BY <2>1, <3>2 DEF Ask
    <3> QED BY <3>1, <3>2
  <2>2. CASE Load \/ Build
    BY <2>2 DEF Load, Build, caches
  <2>3. CASE Compile
    <3>1. PICK plan : /\ heads' = HeadsAfter(run.request, run.catalog, plan)
                      /\ plans' = PlansAfter(run.request, run.catalog, plan)
      BY <2>3 DEF Compile
    <3>2. Consistent(heads')
      BY <3>1, WriteConsistent DEF HeadsAfter
    <3>3. Consistent(AfterRead(plans, PlanKey(run.request), "compiler"))
      BY TouchConsistent DEF AfterRead, Hit
    <3>4. Consistent(plans')
      BY <3>1, <3>3, WriteConsistent DEF PlansAfter
    <3> QED BY <3>2, <3>4
  <2>4. CASE Begin \/ ClearCaches \/ \E p \in Project : WriteHere(p)
    <3>1. heads' = Cleared(heads) /\ plans' = Cleared(plans)
      BY <2>4 DEF Begin, ClearCaches, WriteHere, Forget
    <3> QED BY <3>1, ClearedConsistent
  <2>5. CASE Tick \/ (\E p \in Project : Edit(p) \/ WriteElsewhere(p))
    BY <2>5 DEF Tick, Edit, WriteElsewhere, caches
  <2>6. CASE UNCHANGED vars
    BY <2>6 DEF vars
  <2> QED BY <2>1, <2>2, <2>3, <2>4, <2>5, <2>6 DEF Next
<1> QED BY <1>1, <1>2, PTL DEF Spec

-----------------------------------------------------------------------------
(* What is kept under a key was made for that key.                         *)
MadeFor(catalog, project, copies) ==
  catalog.project = project /\ catalog.copies = copies

(* A head was written for a request of its key and flowSource.             *)
WrittenFor(key, source, value) ==
  \E d \in Request :
    HeadKey(d) = key /\ d.source = source /\ value.plan = Compiled(d, value.catalog)

HeadsOwn ==
  \A k \in Keys(heads) :
    LET e == heads.entries[k]
    IN  /\ WrittenFor(k, e.fingerprint, e.value)
        /\ MadeFor(e.value.catalog, k[1], IF k[3] = "blocks" THEN "blocks" ELSE "none")

PlansOwn ==
  \A k \in Keys(plans) :
    LET plan == plans.entries[k].value
    IN  plan = [name |-> k[1], text |-> k[2], catalog |-> plan.catalog]

HotOwn == \A k \in DOMAIN hot : MadeFor(hot[k].catalog, k[1], k[2])

RunOwn ==
  /\ run.at \in {"load", "build", "compile"} => run.request \in Request
  /\ run.at \in {"build", "compile"} =>
       MadeFor(run.catalog, run.request.project, CatalogCopies(run.request))

OwnInv == HeadsOwn /\ PlansOwn /\ HotOwn /\ RunOwn

(* The caches hold nothing made for another key, and a compiled plan is    *)
(* reused with its own catalog only.                                       *)
LEMMA KeptUnderItsKey == Spec => [](OwnInv /\ OwnPlan)
<1>1. Init => OwnInv /\ OwnPlan
  <2> SUFFICES ASSUME Init PROVE OwnInv /\ OwnPlan
    OBVIOUS
  <2>1. Keys(heads) = {} /\ Keys(plans) = {}
    BY DEF Init, EmptyMap, Cache, Keys
  <2>2. DOMAIN hot = {} /\ run.at = "idle" /\ answer = None
    BY DEF Init, Idle
  <2> QED BY <2>1, <2>2 DEF OwnInv, HeadsOwn, PlansOwn, HotOwn, RunOwn, OwnPlan
<1>2. CachesConsistent /\ OwnInv /\ [Next]_vars /\ OwnPlan => OwnInv' /\ OwnPlan'
  <2> SUFFICES ASSUME CachesConsistent, OwnInv, OwnPlan, [Next]_vars PROVE OwnInv' /\ OwnPlan'
    OBVIOUS
  <2>1. ASSUME NEW r \in Request, Ask(r) PROVE OwnInv' /\ OwnPlan'
    <3> DEFINE k == HeadKey(r)
    <3>1. CASE HeadHit(r)
      <4>1. k \in Keys(heads) /\ heads.entries[k].fingerprint = r.source
        BY <3>1 DEF HeadHit, Hit
      <4>2. heads' = Touch(heads, k) /\ UNCHANGED <<plans, hot, run>>
        BY <2>1, <3>1 DEF Ask
      <4>3. HeadsOwn'
        <5>1. /\ Keys(heads') = Keys(heads)
              /\ \A j \in Keys(heads) :
                   /\ heads'.entries[j].value = heads.entries[j].value
                   /\ heads'.entries[j].fingerprint = heads.entries[j].fingerprint
          BY <4>1, <4>2, TouchConsistent DEF CachesConsistent
        <5> QED BY <5>1 DEF OwnInv, HeadsOwn
      <4>4. answer' = [request |-> r, catalog |-> heads.entries[k].value.catalog,
                       plan |-> heads.entries[k].value.plan, at |-> now,
                       least |-> must[r.project]]
        BY <2>1, <3>1 DEF Ask, Answer
      <4>5. k[1] = r.project /\ k[2] = r.name /\ k[3] = r.copies
        BY DEF HeadKey
      <4>6. r.source # Blank
        BY <3>1 DEF HeadHit
      <4>7. PICK d \in Request : /\ HeadKey(d) = k /\ d.source = r.source
                               /\ heads.entries[k].value.plan =
                                    Compiled(d, heads.entries[k].value.catalog)
        BY <4>1 DEF OwnInv, HeadsOwn, WrittenFor
      <4>8. SameHead(d, r)
        BY <4>6, <4>7 DEF SameHead
      <4> HIDE DEF k
      <4>9. answer'.plan = Compiled(d, answer'.catalog) /\ answer'.request = r
        BY <4>4, <4>7
      <4>10. MadeFor(answer'.catalog, r.project, CatalogCopies(r))
        BY <4>1, <4>4, <4>5 DEF OwnInv, HeadsOwn, CatalogCopies
      <4>11. OwnPlan'
        BY <4>8, <4>9, <4>10 DEF OwnPlan, MadeFor
      <4> QED BY <4>2, <4>3, <4>11 DEF OwnInv, PlansOwn, HotOwn, RunOwn, Keys
    <3>2. CASE ~ HeadHit(r)
      <4>1. /\ answer' = None /\ UNCHANGED <<heads, plans, hot>>
            /\ run'.at = "load" /\ run'.request = r
        BY <2>1, <3>2 DEF Ask
      <4> QED BY <4>1 DEF OwnInv, HeadsOwn, PlansOwn, HotOwn, RunOwn, OwnPlan, Keys
    <3> QED BY <3>1, <3>2
  <2>2. CASE Load
    <3>1. answer' = None /\ UNCHANGED <<heads, plans, hot>>
      BY <2>2 DEF Load, caches
    <3>2. RunOwn'
      BY <2>2 DEF Load, With, OwnInv, RunOwn, HotOwn, HotHit, HotKey, CatalogOf, MadeFor
    <3> QED BY <3>1, <3>2 DEF OwnInv, HeadsOwn, PlansOwn, HotOwn, OwnPlan, Keys
  <2>3. CASE Build
    <3>1. answer' = None /\ UNCHANGED <<heads, plans>>
      BY <2>3 DEF Build
    <3>2. /\ run.request \in Request
          /\ MadeFor(run.catalog, run.request.project, CatalogCopies(run.request))
      BY <2>3 DEF Build, OwnInv, RunOwn
    <3>3. RunOwn'
      BY <2>3, <3>2 DEF Build, With, RunOwn
    <3>4. HotOwn'
      BY <2>3, <3>2 DEF Build, OwnInv, HotOwn, HotKey, MadeFor
    <3> QED BY <3>1, <3>3, <3>4 DEF OwnInv, HeadsOwn, PlansOwn, OwnPlan, Keys
  <2>4. CASE Compile
    <3> DEFINE r == run.request
               catalog == run.catalog
               plan == IF PlanReady(r, catalog) THEN plans.entries[PlanKey(r)].value
                       ELSE Compiled(r, catalog)
    <3>1. /\ plans' = PlansAfter(r, catalog, plan) /\ heads' = HeadsAfter(r, catalog, plan)
          /\ answer' = [request |-> r, catalog |-> catalog, plan |-> plan, at |-> now,
                        least |-> run.least]
          /\ run' = Idle /\ hot' = hot
      BY <2>4 DEF Compile, Answer
    <3>2. MadeFor(catalog, r.project, CatalogCopies(r)) /\ r \in Request
      BY <2>4 DEF Compile, OwnInv, RunOwn
    <3>3. plan = Compiled(r, catalog)
      BY DEF PlanReady, Hit, OwnInv, PlansOwn, PlanKey, Compiled
    <3> HIDE DEF plan
    <3>4. OwnPlan'
      BY <3>1, <3>2, <3>3 DEF OwnPlan, MadeFor
    <3>5. HeadsOwn'
      <4>1. CASE r.source = Blank
        BY <3>1, <4>1 DEF HeadsAfter, OwnInv, HeadsOwn, Keys
      <4>2. CASE r.source # Blank
        <5> DEFINE value == [catalog |-> catalog, plan |-> plan, checkedAt |-> now]
        <5>1. heads' = Write(heads, HeadKey(r), r.source, value)
          BY <3>1, <4>2 DEF HeadsAfter
        <5>2. value.catalog = catalog /\ value.plan = plan
          OBVIOUS
        <5> HIDE DEF value, catalog, r
        <5>3. /\ heads'.entries[HeadKey(r)].value = value
              /\ heads'.entries[HeadKey(r)].fingerprint = r.source
              /\ \A k \in Keys(heads') : k # HeadKey(r) =>
                   k \in Keys(heads) /\ heads'.entries[k] = heads.entries[k]
          BY <5>1, WriteConsistent DEF CachesConsistent
        <5>4. /\ WrittenFor(HeadKey(r), r.source, value)
              /\ MadeFor(value.catalog, HeadKey(r)[1],
                         IF HeadKey(r)[3] = "blocks" THEN "blocks" ELSE "none")
          BY <3>2, <3>3, <5>2 DEF HeadKey, WrittenFor, MadeFor, CatalogCopies
        <5> QED BY <5>3, <5>4 DEF OwnInv, HeadsOwn
      <4> QED BY <4>1, <4>2
    <3>6. PlansOwn'
      <4> DEFINE seen == AfterRead(plans, PlanKey(r), "compiler")
      <4>1. /\ Consistent(seen) /\ Keys(seen) = Keys(plans)
            /\ \A k \in Keys(plans) : seen.entries[k].value = plans.entries[k].value
        BY TouchConsistent DEF AfterRead, Hit, CachesConsistent
      <4>2. \A k \in Keys(seen) : LET known == seen.entries[k].value
                                  IN  known = [name |-> k[1], text |-> k[2], catalog |-> known.catalog]
        BY <4>1 DEF OwnInv, PlansOwn
      <4>3. plan = [name |-> PlanKey(r)[1], text |-> PlanKey(r)[2], catalog |-> plan.catalog]
        BY <3>3 DEF Compiled, PlanKey
      <4>4. \/ plans' = plans \/ plans' = seen
            \/ plans' = Write(seen, PlanKey(r), "compiler", plan)
        BY <3>1 DEF PlansAfter
      <4> HIDE DEF seen, catalog, r
      <4>5. CASE plans' = Write(seen, PlanKey(r), "compiler", plan)
        <5>1. /\ plans'.entries[PlanKey(r)].value = plan
              /\ \A k \in Keys(plans') : k # PlanKey(r) =>
                   k \in Keys(seen) /\ plans'.entries[k] = seen.entries[k]
          BY <4>1, <4>5, WriteConsistent
        <5> QED BY <4>2, <4>3, <5>1 DEF PlansOwn
      <4> QED BY <4>2, <4>4, <4>5 DEF OwnInv, PlansOwn, Keys
    <3>7. HotOwn' /\ RunOwn'
      BY <3>1 DEF OwnInv, HotOwn, RunOwn, Idle
    <3> QED BY <3>4, <3>5, <3>6, <3>7 DEF OwnInv
  <2>5. CASE Begin \/ ClearCaches \/ \E p \in Project : WriteHere(p)
    <3>1. /\ heads' = Cleared(heads) /\ plans' = Cleared(plans)
          /\ DOMAIN hot' = {} /\ answer' = None /\ run' = run
      BY <2>5 DEF Begin, ClearCaches, WriteHere, Edits, Forget
    <3>2. Keys(heads') = {} /\ Keys(plans') = {}
      BY <3>1, ClearedConsistent DEF CachesConsistent
    <3> QED BY <3>1, <3>2 DEF OwnInv, HeadsOwn, PlansOwn, HotOwn, RunOwn, OwnPlan
  <2>6. CASE Tick \/ (\E p \in Project : Edit(p) \/ WriteElsewhere(p))
    <3>1. answer' = None /\ UNCHANGED <<heads, plans, hot, run>>
      BY <2>6 DEF Tick, Edit, WriteElsewhere, Edits, caches
    <3> QED BY <3>1 DEF OwnInv, HeadsOwn, PlansOwn, HotOwn, RunOwn, OwnPlan, Keys
  <2>7. CASE UNCHANGED vars
    BY <2>7 DEF vars, OwnInv, HeadsOwn, PlansOwn, HotOwn, RunOwn, OwnPlan, Keys
  <2> QED BY <2>1, <2>2, <2>3, <2>4, <2>5, <2>6, <2>7 DEF Next
<1> QED BY <1>1, <1>2, CachesStayConsistent, PTL DEF Spec

(* A run gets the plan of what it was asked with, or of another request    *)
(* with its flowSource when one carries a definition besides, in its own   *)
(* project and working copies.                                             *)
THEOREM PlansAreOwn == Spec => []OwnPlan
BY KeptUnderItsKey, PTL

-----------------------------------------------------------------------------
(* Nothing kept is older than what the runtime was told of.                *)
Recent(catalog) ==
  /\ catalog.project \in Project /\ catalog.version \in Nat
  /\ catalog.version >= must[catalog.project]

RevisionsInv ==
  /\ version \in [Project -> Nat] /\ must \in [Project -> Nat] /\ notified \in [Project -> Nat]
  /\ \A p \in Project : must[p] <= version[p] /\ notified[p] <= version[p]

HeadsTold == \A k \in Keys(heads) : Recent(heads.entries[k].value.catalog)

HotTold == \A k \in DOMAIN hot : Recent(hot[k].catalog)

RunTold ==
  /\ run.at # "idle" => run.request.project \in Project /\ run.least = must[run.request.project]
  /\ run.at \in {"build", "compile"} => Recent(run.catalog)

ToldInv == RevisionsInv /\ HeadsTold /\ HotTold /\ RunTold

(* What a project was told of bounds what is kept from below.              *)
LEMMA ToldHolds == Spec => [](ToldInv /\ ToldIsSeen)
<1>1. Init => ToldInv /\ ToldIsSeen
  <2> SUFFICES ASSUME Init PROVE ToldInv /\ ToldIsSeen
    OBVIOUS
  <2>1. Keys(heads) = {}
    BY DEF Init, EmptyMap, Cache, Keys
  <2>2. DOMAIN hot = {} /\ run.at = "idle" /\ answer = None
    BY DEF Init, Idle
  <2>3. RevisionsInv
    BY DEF Init, RevisionsInv
  <2> QED BY <2>1, <2>2, <2>3 DEF ToldInv, HeadsTold, HotTold, RunTold, ToldIsSeen
<1>2. /\ CachesConsistent /\ OwnInv /\ ToldInv /\ ToldIsSeen /\ [Next]_vars
      => ToldInv' /\ ToldIsSeen'
  <2> SUFFICES ASSUME CachesConsistent, OwnInv, ToldInv, ToldIsSeen, [Next]_vars
               PROVE ToldInv' /\ ToldIsSeen'
    OBVIOUS
  <2>1. ASSUME NEW r \in Request, Ask(r) PROVE ToldInv' /\ ToldIsSeen'
    <3> DEFINE k == HeadKey(r)
    <3>0. r.project \in Project /\ UNCHANGED <<version, must, notified>>
      BY <2>1, RequestsAssumption DEF Ask, sources
    <3>1. CASE HeadHit(r)
      <4>1. k \in Keys(heads)
        BY <3>1 DEF HeadHit, Hit
      <4>2. heads' = Touch(heads, k) /\ UNCHANGED <<hot, run>>
        BY <2>1, <3>1 DEF Ask
      <4>3. HeadsTold'
        <5>1. /\ Keys(heads') = Keys(heads)
              /\ \A j \in Keys(heads) : heads'.entries[j].value = heads.entries[j].value
          BY <4>1, <4>2, TouchConsistent DEF CachesConsistent
        <5> QED BY <3>0, <5>1 DEF ToldInv, HeadsTold, Recent
      <4>4. /\ answer'.catalog = heads.entries[k].value.catalog
            /\ answer'.least = must[r.project]
        BY <2>1, <3>1 DEF Ask, Answer
      <4>5. k[1] = r.project
        BY DEF HeadKey
      <4> HIDE DEF k
      <4>6. heads.entries[k].value.catalog.project = r.project
        BY <4>1, <4>5 DEF OwnInv, HeadsOwn, MadeFor
      <4>7. ToldIsSeen'
        BY <4>1, <4>4, <4>6 DEF ToldIsSeen, ToldInv, HeadsTold, Recent
      <4> QED BY <3>0, <4>2, <4>3, <4>7 DEF ToldInv, RevisionsInv, HotTold, RunTold, Recent
    <3>2. CASE ~ HeadHit(r)
      <4>1. /\ answer' = None /\ UNCHANGED <<heads, hot>>
            /\ run' = [at |-> "load", request |-> r, least |-> must[r.project]]
        BY <2>1, <3>2 DEF Ask
      <4> QED BY <3>0, <4>1
            DEF ToldInv, RevisionsInv, HeadsTold, HotTold, RunTold, Recent, ToldIsSeen, Keys
    <3> QED BY <3>1, <3>2
  <2>2. CASE Load
    <3>1. answer' = None /\ UNCHANGED <<heads, hot, version, must, notified>>
      BY <2>2 DEF Load, caches, sources
    <3>2. /\ run.at = "load"
          /\ run'.request = run.request /\ run'.least = run.least
          /\ run'.at \in {"build", "compile"}
      BY <2>2 DEF Load, With
    <3>3. Recent(run'.catalog)
      <4>1. CASE HotHit(run.request)
        BY <2>2, <4>1 DEF Load, With, HotHit, ToldInv, HotTold
      <4>2. CASE ~ HotHit(run.request)
        <5>1. run'.catalog = CatalogOf(run.request)
          BY <2>2, <4>2 DEF Load, With
        <5> QED BY <3>2, <5>1 DEF CatalogOf, ToldInv, RunTold, RevisionsInv, Recent
      <4> QED BY <4>1, <4>2
    <3> QED BY <3>1, <3>2, <3>3
          DEF ToldInv, RevisionsInv, HeadsTold, HotTold, RunTold, Recent, ToldIsSeen, Keys
  <2>3. CASE Build
    <3>1. /\ answer' = None /\ UNCHANGED <<heads, version, must, notified>> /\ run.at = "build"
          /\ run'.request = run.request /\ run'.least = run.least
          /\ run'.at = "compile" /\ run'.catalog = run.catalog
      BY <2>3 DEF Build, With, sources
    <3>2. Recent(run.catalog)
      BY <3>1 DEF ToldInv, RunTold
    <3>3. \A k \in DOMAIN hot' : \/ k \in DOMAIN hot /\ hot'[k].catalog = hot[k].catalog
                                 \/ hot'[k].catalog = run.catalog
      BY <2>3 DEF Build
    <3>4. HotTold'
      BY <3>1, <3>2, <3>3 DEF ToldInv, HotTold, Recent
    <3> QED BY <3>1, <3>2, <3>4
          DEF ToldInv, RevisionsInv, HeadsTold, RunTold, Recent, ToldIsSeen, Keys
  <2>4. CASE Compile
    <3>1. /\ run.at = "compile" /\ run' = Idle /\ UNCHANGED <<hot, version, must, notified>>
          /\ answer'.catalog = run.catalog /\ answer'.least = run.least
      BY <2>4 DEF Compile, Answer, sources
    <3>2. Recent(run.catalog) /\ run.least = must[run.request.project]
          /\ run.catalog.project = run.request.project
      BY <3>1 DEF ToldInv, RunTold, OwnInv, RunOwn, MadeFor
    <3>3. PICK plan : heads' = HeadsAfter(run.request, run.catalog, plan)
      BY <2>4 DEF Compile
    <3>4. HeadsTold'
      <4> DEFINE value == [catalog |-> run.catalog, plan |-> plan, checkedAt |-> now]
                 k0 == HeadKey(run.request)
      <4>1. CASE heads' = heads
        BY <3>1, <4>1 DEF ToldInv, HeadsTold, Recent, Keys
      <4>2. CASE heads' = Write(heads, k0, run.request.source, value)
        <5>1. value.catalog = run.catalog
          OBVIOUS
        <5> HIDE DEF value, k0
        <5>2. /\ heads'.entries[k0].value = value
              /\ \A k \in Keys(heads') : k # k0 =>
                   k \in Keys(heads) /\ heads'.entries[k] = heads.entries[k]
          BY <4>2, WriteConsistent DEF CachesConsistent
        <5> QED BY <3>1, <3>2, <5>1, <5>2 DEF ToldInv, HeadsTold, Recent
      <4> QED BY <3>3, <4>1, <4>2 DEF HeadsAfter
    <3> QED BY <3>1, <3>2, <3>4
          DEF ToldInv, RevisionsInv, HotTold, RunTold, Recent, ToldIsSeen, Idle
  <2>5. CASE Begin \/ ClearCaches \/ \E p \in Project : WriteHere(p)
    <3>1. /\ heads' = Cleared(heads) /\ DOMAIN hot' = {} /\ answer' = None
          /\ run = Idle /\ run' = run
      BY <2>5 DEF Begin, ClearCaches, WriteHere, Edits, Forget
    <3>2. Keys(heads') = {}
      BY <3>1, ClearedConsistent DEF CachesConsistent
    <3>3. RevisionsInv'
      <4>1. CASE Begin
        <5>1. /\ UNCHANGED <<version, notified>>
              /\ must' = [p \in Project |-> IF notified[p] > must[p] THEN notified[p] ELSE must[p]]
          BY <4>1 DEF Begin, sources
        <5> QED BY <5>1 DEF ToldInv, RevisionsInv
      <4>2. CASE ClearCaches
        BY <4>2 DEF ClearCaches, sources, ToldInv, RevisionsInv
      <4>3. ASSUME NEW p \in Project, WriteHere(p) PROVE RevisionsInv'
        <5>1. /\ version' = [version EXCEPT ![p] = @ + 1]
              /\ notified' = [notified EXCEPT ![p] = version'[p]]
              /\ must' = [must EXCEPT ![p] = version'[p]]
          BY <4>3 DEF WriteHere, Edits
        <5>2. version'[p] = version[p] + 1 /\ version'[p] \in Nat
          BY <5>1 DEF ToldInv, RevisionsInv
        <5>3. \A q \in Project : q # p => /\ version'[q] = version[q]
                                         /\ notified'[q] = notified[q] /\ must'[q] = must[q]
          BY <5>1 DEF ToldInv, RevisionsInv
        <5> QED BY <5>1, <5>2, <5>3 DEF ToldInv, RevisionsInv
      <4> QED BY <2>5, <4>1, <4>2, <4>3
    <3> QED BY <3>1, <3>2, <3>3 DEF ToldInv, HeadsTold, HotTold, RunTold, ToldIsSeen, Idle
  <2>6. CASE Tick \/ (\E p \in Project : Edit(p) \/ WriteElsewhere(p))
    <3>1. answer' = None /\ UNCHANGED <<heads, hot, run, must>>
      BY <2>6 DEF Tick, Edit, WriteElsewhere, Edits, caches
    <3>2. RevisionsInv'
      <4>1. CASE Tick
        BY <4>1 DEF Tick, sources, ToldInv, RevisionsInv
      <4>2. ASSUME NEW p \in Project, Edit(p) \/ WriteElsewhere(p) PROVE RevisionsInv'
        <5>1. /\ version' = [version EXCEPT ![p] = @ + 1] /\ must' = must
              /\ \/ notified' = notified
                 \/ notified' = [notified EXCEPT ![p] = version'[p]]
          BY <4>2 DEF Edit, WriteElsewhere, Edits
        <5>2. version'[p] = version[p] + 1 /\ version'[p] \in Nat
          BY <5>1 DEF ToldInv, RevisionsInv
        <5>3. \A q \in Project : q # p => version'[q] = version[q] /\ notified'[q] = notified[q]
          BY <5>1 DEF ToldInv, RevisionsInv
        <5>4. notified'[p] <= version'[p] /\ notified' \in [Project -> Nat]
          BY <5>1, <5>2 DEF ToldInv, RevisionsInv
        <5>5. must'[p] <= version'[p] /\ version' \in [Project -> Nat]
          BY <5>1, <5>2 DEF ToldInv, RevisionsInv
        <5>6. \A q \in Project : q # p => must'[q] <= version'[q] /\ notified'[q] <= version'[q]
          BY <5>1, <5>3 DEF ToldInv, RevisionsInv
        <5>7. \A q \in Project : must'[q] <= version'[q] /\ notified'[q] <= version'[q]
          BY <5>4, <5>5, <5>6
        <5>8. must' \in [Project -> Nat]
          BY <5>1 DEF ToldInv, RevisionsInv
        <5> QED BY <5>4, <5>5, <5>7, <5>8 DEF RevisionsInv
      <4> QED BY <2>6, <4>1, <4>2
    <3> QED BY <3>1, <3>2 DEF ToldInv, HeadsTold, HotTold, RunTold, Recent, ToldIsSeen, Keys
  <2>7. CASE UNCHANGED vars
    BY <2>7 DEF vars, sources, ToldInv, RevisionsInv, HeadsTold, HotTold, RunTold, Recent,
                ToldIsSeen, Keys
  <2> QED BY <2>1, <2>2, <2>3, <2>4, <2>5, <2>6, <2>7 DEF Next
<1> QED BY <1>1, <1>2, CachesStayConsistent, KeptUnderItsKey, PTL DEF Spec

(* No run uses a block older than what its runtime wrote, was told of      *)
(* before the request, or had on disk when its caches were cleared.        *)
THEOREM ToldIsAlwaysSeen == Spec => []ToldIsSeen
BY ToldHolds, PTL

-----------------------------------------------------------------------------
(* How long ago the sources of a catalog may have changed.                 *)

(* At t the sources of catalog c had been replaced for d at most.          *)
Aged(past, c, t, d) ==
  /\ c.project \in Project /\ c.version \in Nat
  /\ c.version < Len(past[c.project]) => t - past[c.project][c.version + 1] <= d

HistoryInv ==
  /\ now \in Nat /\ delay \in Nat /\ delay <= MaxDelay
  /\ replacedAt \in [Project -> Seq(Nat)] /\ version \in [Project -> Nat]
  /\ \A p \in Project : Len(replacedAt[p]) = version[p]

(* A hot catalog was probed at most a request before its minute began.     *)
HotAged ==
  \A k \in DOMAIN hot :
    /\ hot[k].checkedAt \in Nat /\ hot[k].checkedAt <= now
    /\ Aged(replacedAt, hot[k].catalog, hot[k].checkedAt, MaxDelay)

HeadLag == Interval - 1 + 2 * MaxDelay

(* The minute of a head may begin at the end of the one of its catalog.    *)
HeadsAged ==
  \A k \in Keys(heads) :
    LET head == heads.entries[k].value
    IN  /\ head.checkedAt \in Nat /\ head.checkedAt <= now
        /\ Aged(replacedAt, head.catalog, head.checkedAt, HeadLag)

RunAged ==
  /\ run.at # "idle" => run.request.project \in Project
  /\ run.at = "build" => Aged(replacedAt, run.catalog, now, delay)
  /\ run.at = "compile" =>
       Aged(replacedAt, run.catalog, now, Interval - 1 + MaxDelay + delay)

AgesInv == HistoryInv /\ HotAged /\ HeadsAged /\ RunAged

(* Time passes for the sources of a catalog.                               *)
LEMMA AgedLater ==
  ASSUME NEW past \in [Project -> Seq(Nat)], NEW c, NEW t \in Nat, NEW u \in Nat,
         NEW d \in Nat, NEW e \in Nat, Aged(past, c, t, d), u - t + d <= e
  PROVE  Aged(past, c, u, e)
<1> SUFFICES ASSUME c.version < Len(past[c.project])
             PROVE  u - past[c.project][c.version + 1] <= e
  BY DEF Aged
<1>1. c.version + 1 \in 1 .. Len(past[c.project]) /\ past[c.project] \in Seq(Nat)
  BY DEF Aged
<1>2. past[c.project][c.version + 1] \in Nat
  BY <1>1
<1>3. t - past[c.project][c.version + 1] <= d
  BY DEF Aged
<1> DEFINE replaced == past[c.project][c.version + 1]
<1>4. replaced \in Nat /\ t - replaced <= d
  BY <1>2, <1>3
<1> HIDE DEF replaced
<1>5. u - replaced <= e
  BY <1>4
<1> QED BY <1>5 DEF replaced

(* An edit now makes no catalog probed before it older.                    *)
LEMMA AgedOverEdit ==
  ASSUME NEW past \in [Project -> Seq(Nat)], NEW p \in Project, NEW at \in Nat,
         NEW c, NEW t \in Nat, NEW d \in Nat, t <= at, Aged(past, c, t, d)
  PROVE  Aged([past EXCEPT ![p] = Append(@, at)], c, t, d)
<1> DEFINE after == [past EXCEPT ![p] = Append(@, at)]
<1> SUFFICES ASSUME c.version < Len(after[c.project])
             PROVE  t - after[c.project][c.version + 1] <= d
  BY DEF Aged
<1>0. c.project \in Project /\ c.version \in Nat /\ past[c.project] \in Seq(Nat)
  BY DEF Aged
<1>1. CASE c.project # p
  <2>1. after[c.project] = past[c.project]
    BY <1>0, <1>1
  <2> QED BY <2>1 DEF Aged
<1>2. CASE c.project = p
  <2>1. after[c.project] = Append(past[c.project], at)
    BY <1>0, <1>2
  <2>2. /\ Len(after[c.project]) = Len(past[c.project]) + 1
        /\ Len(past[c.project]) \in Nat
        /\ \A i \in 1 .. Len(past[c.project]) : after[c.project][i] = past[c.project][i]
        /\ after[c.project][Len(past[c.project]) + 1] = at
    BY <1>0, <2>1
  <2> HIDE DEF after
  <2>3. CASE c.version < Len(past[c.project])
    <3>1. after[c.project][c.version + 1] = past[c.project][c.version + 1]
      <4>1. c.version + 1 \in 1 .. Len(past[c.project])
        BY <1>0, <2>2, <2>3
      <4> QED BY <2>2, <4>1
    <3> QED BY <2>3, <3>1 DEF Aged
  <2>4. CASE c.version = Len(past[c.project])
    BY <2>2, <2>4
  <2>5. c.version < Len(past[c.project]) + 1
    BY <2>2
  <2>6. c.version < Len(past[c.project]) \/ c.version = Len(past[c.project])
    BY <1>0, <2>2, <2>5
  <2> QED BY <2>3, <2>4, <2>6
<1> QED BY <1>1, <1>2

LEMMA EditKeepsHistory ==
  ASSUME HistoryInv, NEW p \in Project, Edits(p), UNCHANGED <<now, delay>>
  PROVE  HistoryInv'
<1>1. /\ version' = [version EXCEPT ![p] = @ + 1]
      /\ replacedAt' = [replacedAt EXCEPT ![p] = Append(@, now)]
  BY DEF Edits
<1>2. replacedAt' \in [Project -> Seq(Nat)] /\ version' \in [Project -> Nat]
  BY <1>1 DEF HistoryInv
<1>3. ASSUME NEW q \in Project PROVE Len(replacedAt'[q]) = version'[q]
  <2>1. CASE q = p
    <3>1. replacedAt'[q] = Append(replacedAt[q], now) /\ version'[q] = version[q] + 1
      BY <1>1, <2>1 DEF HistoryInv
    <3>2. replacedAt[q] \in Seq(Nat) /\ Len(replacedAt[q]) = version[q]
      BY DEF HistoryInv
    <3> QED BY <3>1, <3>2
  <2>2. CASE q # p
    BY <1>1, <2>2 DEF HistoryInv
  <2> QED BY <2>1, <2>2
<1> QED BY <1>2, <1>3 DEF HistoryInv

USE TimesAssumption DEF HeadLag

LEMMA NextAges ==
  CachesConsistent /\ AgesInv /\ StaleAtMostTwice /\ [Next]_vars
    => AgesInv' /\ StaleAtMostTwice'
<1> SUFFICES ASSUME CachesConsistent, AgesInv, StaleAtMostTwice, [Next]_vars
             PROVE  AgesInv' /\ StaleAtMostTwice'
  OBVIOUS
<1>0. /\ HistoryInv /\ HotAged /\ HeadsAged /\ RunAged
      /\ now \in Nat /\ replacedAt \in [Project -> Seq(Nat)]
      /\ delay \in Nat /\ delay <= MaxDelay /\ HeadLag \in Nat
      /\ Interval - 1 + MaxDelay + delay \in Nat
      /\ 2 * (Interval - 1) + 2 * MaxDelay \in Nat
  BY DEF AgesInv, HistoryInv
<1>1. ASSUME NEW r \in Request, Ask(r) PROVE AgesInv' /\ StaleAtMostTwice'
  <2> DEFINE k == HeadKey(r)
  <2>0. UNCHANGED <<now, version, replacedAt, hot>> /\ delay' = 0
    BY <1>1 DEF Ask, sources
  <2>1. HistoryInv' /\ HotAged'
    BY <1>0, <2>0 DEF HistoryInv, HotAged
  <2>2. CASE HeadHit(r)
    <3>1. k \in Keys(heads) /\ now - heads.entries[k].value.checkedAt < Interval
      BY <2>2 DEF HeadHit, Hit
    <3>2. heads' = Touch(heads, k) /\ run = Idle /\ run' = run
      BY <1>1, <2>2 DEF Ask
    <3>3. answer'.catalog = heads.entries[k].value.catalog /\ answer'.at = now
      BY <1>1, <2>2 DEF Ask, Answer
    <3> HIDE DEF k
    <3>4. HeadsAged'
      <4>1. /\ Keys(heads') = Keys(heads)
            /\ \A j \in Keys(heads) : heads'.entries[j].value = heads.entries[j].value
        BY <3>1, <3>2, TouchConsistent DEF CachesConsistent
      <4> QED BY <1>0, <2>0, <4>1 DEF HeadsAged
    <3> DEFINE c == heads.entries[k].value.catalog
               t == heads.entries[k].value.checkedAt
    <3>5. t \in Nat /\ t <= now /\ now - t < Interval /\ Aged(replacedAt, c, t, HeadLag)
      BY <1>0, <3>1 DEF HeadsAged
    <3> HIDE DEF c, t
    <3>6. now - t + HeadLag <= 2 * (Interval - 1) + 2 * MaxDelay
      BY <1>0, <3>5
    <3>7. Aged(replacedAt, c, now, 2 * (Interval - 1) + 2 * MaxDelay)
      BY <1>0, <3>5, <3>6, AgedLater
    <3>8. answer'.catalog = c
      BY <3>3 DEF c
    <3>9. StaleAtMostTwice'
      BY <2>0, <3>3, <3>7, <3>8 DEF StaleAtMostTwice, Aged
    <3>10. RunAged'
      BY <3>2 DEF RunAged, Idle
    <3> QED BY <2>1, <3>4, <3>9, <3>10 DEF AgesInv
  <2>3. CASE ~ HeadHit(r)
    <3>1. /\ answer' = None /\ heads' = heads
          /\ run' = [at |-> "load", request |-> r, least |-> must[r.project]]
      BY <1>1, <2>3 DEF Ask
    <3>2. HeadsAged'
      BY <1>0, <2>0, <3>1 DEF HeadsAged, Keys
    <3>3. RunAged'
      BY <3>1, RequestsAssumption DEF RunAged
    <3> QED BY <2>1, <3>1, <3>2, <3>3 DEF AgesInv, StaleAtMostTwice
  <2> QED BY <2>2, <2>3
<1>2. CASE Load
  <2>1. /\ answer' = None /\ run.at = "load"
        /\ UNCHANGED <<now, version, replacedAt, heads, hot, delay>>
    BY <1>2 DEF Load, caches, sources
  <2>2. HistoryInv' /\ HotAged' /\ HeadsAged'
    BY <1>0, <2>1 DEF HistoryInv, HotAged, HeadsAged, Keys
  <2>3. CASE HotHit(run.request)
    <3> DEFINE k == HotKey(run.request)
    <3>1. /\ run'.at = "compile" /\ run'.request = run.request
          /\ run'.catalog = hot[k].catalog
      BY <1>2, <2>3 DEF Load, With
    <3>2. k \in DOMAIN hot /\ now - hot[k].checkedAt < Interval
      BY <2>3 DEF HotHit
    <3> HIDE DEF k
    <3>3. /\ hot[k].checkedAt \in Nat /\ hot[k].checkedAt <= now
          /\ Aged(replacedAt, hot[k].catalog, hot[k].checkedAt, MaxDelay)
      BY <1>0, <3>2 DEF HotAged
    <3>4. now - hot[k].checkedAt + MaxDelay <= Interval - 1 + MaxDelay + delay
      <4> DEFINE t == hot[k].checkedAt
      <4>1. t \in Nat /\ now - t < Interval
        BY <3>2, <3>3
      <4> HIDE DEF t
      <4>2. /\ now \in Nat /\ delay \in Nat /\ MaxDelay \in Nat /\ Interval \in Nat
        BY <1>0, TimesAssumption
      <4>3. now - t + MaxDelay <= Interval - 1 + MaxDelay + delay
        BY <4>1, <4>2
      <4> QED BY <4>3 DEF t
    <3>5. Aged(replacedAt, hot[k].catalog, now, Interval - 1 + MaxDelay + delay)
      <4> DEFINE c == hot[k].catalog
                 t == hot[k].checkedAt
      <4>1. /\ t \in Nat /\ now \in Nat /\ t <= now /\ MaxDelay \in Nat
            /\ Aged(replacedAt, c, t, MaxDelay)
            /\ now - t + MaxDelay <= Interval - 1 + MaxDelay + delay
        BY <1>0, <3>3, <3>4, TimesAssumption
      <4> HIDE DEF c, t
      <4>2. Aged(replacedAt, c, now, Interval - 1 + MaxDelay + delay)
        BY <1>0, <4>1, AgedLater
      <4> QED BY <4>2 DEF c
    <3>6. RunAged'
      BY <1>0, <2>1, <3>1, <3>5 DEF RunAged
    <3> QED BY <2>1, <2>2, <3>6 DEF AgesInv, StaleAtMostTwice
  <2>4. CASE ~ HotHit(run.request)
    <3>1. /\ run'.at = "build" /\ run'.request = run.request
          /\ run'.catalog = CatalogOf(run.request)
      BY <1>2, <2>4 DEF Load, With
    <3>2. run.request.project \in Project
      BY <1>0, <2>1 DEF RunAged
    <3>3. Aged(replacedAt, CatalogOf(run.request), now, delay)
      BY <1>0, <3>2 DEF Aged, CatalogOf, HistoryInv
    <3>4. RunAged'
      BY <2>1, <3>1, <3>2, <3>3 DEF RunAged
    <3> QED BY <2>1, <2>2, <3>4 DEF AgesInv, StaleAtMostTwice
  <2> QED BY <2>3, <2>4
<1>3. CASE Build
  <2>1. /\ answer' = None /\ run.at = "build"
        /\ UNCHANGED <<now, version, replacedAt, heads, delay>>
        /\ run'.at = "compile" /\ run'.request = run.request
        /\ run'.catalog = run.catalog
    BY <1>3 DEF Build, With, sources
  <2>2. Aged(replacedAt, run.catalog, now, delay) /\ run.request.project \in Project
    BY <1>0, <2>1 DEF RunAged
  <2>3. /\ Aged(replacedAt, run.catalog, now, MaxDelay)
        /\ Aged(replacedAt, run.catalog, now, Interval - 1 + MaxDelay + delay)
    BY <1>0, <2>2, AgedLater
  <2>4. HotAged'
    <3>1. ASSUME NEW k \in DOMAIN hot'
          PROVE  \/ k \in DOMAIN hot /\ hot'[k] = hot[k]
                 \/ hot'[k].catalog = run.catalog /\ hot'[k].checkedAt = now
      BY <1>3 DEF Build
    <3> QED BY <1>0, <2>1, <2>3, <3>1 DEF HotAged
  <2>5. HistoryInv' /\ HeadsAged' /\ RunAged'
    BY <1>0, <2>1, <2>2, <2>3 DEF HistoryInv, HeadsAged, RunAged, Keys
  <2> QED BY <2>1, <2>4, <2>5 DEF AgesInv, StaleAtMostTwice
<1>4. CASE Compile
  <2>1. /\ run.at = "compile" /\ run' = Idle /\ delay' = 0
        /\ UNCHANGED <<now, version, replacedAt, hot>>
        /\ answer'.catalog = run.catalog /\ answer'.at = now
    BY <1>4 DEF Compile, Answer, sources
  <2>2. Aged(replacedAt, run.catalog, now, Interval - 1 + MaxDelay + delay)
    BY <1>0, <2>1 DEF RunAged
  <2>3. /\ Aged(replacedAt, run.catalog, now, HeadLag)
        /\ Aged(replacedAt, run.catalog, now, 2 * (Interval - 1) + 2 * MaxDelay)
    BY <1>0, <2>2, AgedLater
  <2>4. StaleAtMostTwice'
    BY <2>1, <2>3 DEF StaleAtMostTwice, Aged
  <2>5. HeadsAged'
    <3> DEFINE value(plan) == [catalog |-> run.catalog, plan |-> plan, checkedAt |-> now]
               k0 == HeadKey(run.request)
    <3>1. PICK plan : heads' = HeadsAfter(run.request, run.catalog, plan)
      BY <1>4 DEF Compile
    <3>2. value(plan).catalog = run.catalog /\ value(plan).checkedAt = now
      OBVIOUS
    <3>3. CASE heads' = heads
      BY <1>0, <2>1, <3>3 DEF HeadsAged, Keys
    <3>4. CASE heads' = Write(heads, k0, run.request.source, value(plan))
      <4> HIDE DEF value, k0
      <4>1. /\ heads'.entries[k0].value = value(plan)
            /\ \A k \in Keys(heads') : k # k0 =>
                 k \in Keys(heads) /\ heads'.entries[k] = heads.entries[k]
        BY <3>4, WriteConsistent DEF CachesConsistent
      <4> QED BY <1>0, <2>1, <2>3, <3>2, <4>1 DEF HeadsAged
    <3> QED BY <3>1, <3>3, <3>4 DEF HeadsAfter
  <2>6. HistoryInv' /\ HotAged' /\ RunAged'
    BY <1>0, <2>1 DEF HistoryInv, HotAged, RunAged, Idle
  <2> QED BY <2>4, <2>5, <2>6 DEF AgesInv
<1>5. CASE Begin \/ ClearCaches \/ \E p \in Project : WriteHere(p)
  <2>1. /\ heads' = Cleared(heads) /\ DOMAIN hot' = {} /\ answer' = None
        /\ run = Idle /\ run' = run
    BY <1>5 DEF Begin, ClearCaches, WriteHere, Edits, Forget
  <2>2. Keys(heads') = {}
    BY <2>1, ClearedConsistent DEF CachesConsistent
  <2>3. HistoryInv'
    <3>1. CASE Begin \/ ClearCaches
      BY <1>0, <3>1 DEF Begin, ClearCaches, sources, HistoryInv
    <3>2. ASSUME NEW p \in Project, WriteHere(p) PROVE HistoryInv'
      BY <1>0, <3>2, EditKeepsHistory DEF WriteHere
    <3> QED BY <1>5, <3>1, <3>2
  <2> QED BY <2>1, <2>2, <2>3
        DEF AgesInv, HotAged, HeadsAged, RunAged, Idle, StaleAtMostTwice
<1>6. ASSUME NEW p \in Project, Edit(p) \/ WriteElsewhere(p)
      PROVE  AgesInv' /\ StaleAtMostTwice'
  <2>1. /\ answer' = None /\ UNCHANGED <<heads, hot, run, now, delay>> /\ Edits(p)
        /\ replacedAt' = [replacedAt EXCEPT ![p] = Append(@, now)]
    BY <1>6 DEF Edit, WriteElsewhere, Edits, caches
  <2>2. HistoryInv'
    BY <1>0, <2>1, EditKeepsHistory
  <2>3. HotAged'
    BY <1>0, <2>1, AgedOverEdit DEF HotAged
  <2>4. HeadsAged'
    BY <1>0, <2>1, AgedOverEdit DEF HeadsAged, Keys
  <2>5. RunAged'
    <3>1. ASSUME NEW d \in Nat, Aged(replacedAt, run.catalog, now, d)
          PROVE  Aged(replacedAt', run.catalog, now, d)
      <4>1. Aged([replacedAt EXCEPT ![p] = Append(@, now)], run.catalog, now, d)
        <5>1. now \in Nat /\ now <= now /\ replacedAt \in [Project -> Seq(Nat)]
          BY <1>0
        <5> QED BY <3>1, <5>1, AgedOverEdit
      <4> QED BY <2>1, <4>1
    <3>2. run.at = "build" => Aged(replacedAt', run.catalog, now, delay)
      BY <1>0, <3>1 DEF RunAged
    <3>3. run.at = "compile" =>
            Aged(replacedAt', run.catalog, now, Interval - 1 + MaxDelay + delay)
      BY <1>0, <3>1 DEF RunAged
    <3> QED BY <1>0, <2>1, <3>2, <3>3 DEF RunAged
  <2> QED BY <2>1, <2>2, <2>3, <2>4, <2>5 DEF AgesInv, StaleAtMostTwice
<1>7. CASE Tick
  <2>1. /\ answer' = None /\ UNCHANGED <<heads, hot, run, version, replacedAt>>
        /\ now' = now + 1 /\ (run # Idle => delay < MaxDelay)
        /\ delay' = IF run = Idle THEN delay ELSE delay + 1
    BY <1>7 DEF Tick, caches, sources
  <2>2. HistoryInv' /\ HotAged' /\ HeadsAged'
    <3>1. delay' \in Nat /\ delay' <= MaxDelay
      BY <1>0, <2>1
    <3>2. HistoryInv'
      BY <1>0, <2>1, <3>1 DEF HistoryInv
    <3>3. HotAged'
      BY <1>0, <2>1 DEF HotAged
    <3>4. HeadsAged'
      BY <1>0, <2>1 DEF HeadsAged, Keys
    <3> QED BY <3>2, <3>3, <3>4
  <2>4. run.at # "idle" => delay' = delay + 1
    BY <2>1 DEF Idle
  <2>5. RunAged'
    <3>1. CASE run.at = "build"
      <4>1. Aged(replacedAt, run.catalog, now, delay)
        BY <1>0, <3>1 DEF RunAged
      <4>2. Aged(replacedAt, run.catalog, now + 1, delay + 1)
        BY <1>0, <4>1, AgedLater
      <4>3. now' = now + 1 /\ delay' = delay + 1 /\ run' = run /\ replacedAt' = replacedAt
        BY <2>1, <2>4, <3>1
      <4>4. Aged(replacedAt', run'.catalog, now', delay')
        BY <4>2, <4>3
      <4>5. run'.request.project \in Project
        BY <1>0, <3>1, <4>3 DEF RunAged
      <4> QED BY <3>1, <4>3, <4>4, <4>5 DEF RunAged
    <3>2. CASE run.at = "compile"
      <4>1. Aged(replacedAt, run.catalog, now, Interval - 1 + MaxDelay + delay)
        BY <1>0, <3>2 DEF RunAged
      <4>2. Aged(replacedAt, run.catalog, now + 1, Interval - 1 + MaxDelay + (delay + 1))
        BY <1>0, <4>1, AgedLater
      <4>3. now' = now + 1 /\ delay' = delay + 1 /\ run' = run /\ replacedAt' = replacedAt
        BY <2>1, <2>4, <3>2
      <4>4. Aged(replacedAt', run'.catalog, now', Interval - 1 + MaxDelay + delay')
        BY <4>2, <4>3
      <4>5. run'.request.project \in Project
        BY <1>0, <3>2, <4>3 DEF RunAged
      <4> QED BY <3>2, <4>3, <4>4, <4>5 DEF RunAged
    <3>3. CASE run.at \notin {"build", "compile"}
      BY <1>0, <2>1, <3>3 DEF RunAged
    <3> QED BY <3>1, <3>2, <3>3
  <2> QED BY <2>1, <2>2, <2>5 DEF AgesInv, StaleAtMostTwice
<1>8. CASE UNCHANGED vars
  BY <1>0, <1>8 DEF vars, sources, AgesInv, HistoryInv, HotAged, HeadsAged, RunAged,
                    StaleAtMostTwice, Keys
<1> QED BY <1>1, <1>2, <1>3, <1>4, <1>5, <1>6, <1>7, <1>8 DEF Next

LEMMA AgesHold == Spec => [](AgesInv /\ StaleAtMostTwice)
<1>1. Init => AgesInv /\ StaleAtMostTwice
  <2> SUFFICES ASSUME Init PROVE AgesInv /\ StaleAtMostTwice
    OBVIOUS
  <2>1. Keys(heads) = {}
    BY DEF Init, EmptyMap, Cache, Keys
  <2>2. DOMAIN hot = {} /\ run.at = "idle" /\ answer = None
    BY DEF Init, Idle
  <2>3. HistoryInv
    BY DEF Init, HistoryInv
  <2> QED BY <2>1, <2>2, <2>3 DEF AgesInv, HotAged, HeadsAged, RunAged, StaleAtMostTwice
<1> QED BY <1>1, NextAges, CachesStayConsistent, PTL DEF Spec

(* A run never uses a block for longer than two intervals, and the time    *)
(* two requests take, after it changed, whatever the interval.             *)
THEOREM StaleTwiceAtMost == Spec => []StaleAtMostTwice
BY AgesHold, PTL

-----------------------------------------------------------------------------
(* The caches hold what was used last.                                     *)

(* The keys of cache m, each once, from the least recently used one.       *)
Kept(m, keys) ==
  /\ keys \in Seq(Keys(m)) /\ Len(keys) = m.size
  /\ KeepsRecent(m, keys)

LEMMA KeptOnce ==
  ASSUME NEW m, Consistent(m), NEW keys, Kept(m, keys),
         NEW i \in 1 .. Len(keys), NEW j \in 1 .. Len(keys), keys[i] = keys[j]
  PROVE  i = j
<1>0. DOMAIN keys = 1 .. Len(keys)
  BY DEF Kept
<1>1. \A k, l \in DOMAIN keys :
        k < l => m.entries[keys[k]].usedAt < m.entries[keys[l]].usedAt
  BY DEF Kept, KeepsRecent
<1>2. m.entries[keys[i]].usedAt \in Nat
  <2>1. keys[i] \in Keys(m)
    BY DEF Kept
  <2> QED BY <2>1 DEF Consistent
<1>3. m.entries[keys[i]].usedAt = m.entries[keys[j]].usedAt
  OBVIOUS
<1>4. ~ (i < j) /\ ~ (j < i)
  BY <1>0, <1>1, <1>2, <1>3
<1>5. i \in Nat /\ j \in Nat
  OBVIOUS
<1> QED BY <1>4, <1>5

(* The keys of the other entries stay in their order.                      *)
LEMMA WithoutOne ==
  ASSUME NEW m, Consistent(m), NEW keys, Kept(m, keys), NEW n \in 1 .. Len(keys)
  PROVE  LET o == WithoutAt(keys, n)
         IN  /\ o \in Seq(Keys(m) \ {keys[n]}) /\ Len(o) = Len(keys) - 1
             /\ Keys(m) \ {keys[n]} = {o[i] : i \in DOMAIN o}
             /\ \A i, j \in DOMAIN o :
                  i < j => m.entries[o[i]].usedAt < m.entries[o[j]].usedAt
<1> DEFINE o == WithoutAt(keys, n)
           at(i) == IF i < n THEN i ELSE i + 1
           back(k) == IF k < n THEN k ELSE k - 1
<1>0. Len(keys) \in Nat /\ Len(keys) - 1 \in Nat /\ n \in Nat
  BY DEF Kept
<1>1. /\ DOMAIN o = 1 .. Len(keys) - 1 /\ o = [i \in 1 .. Len(keys) - 1 |-> keys[at(i)]]
      /\ \A i \in DOMAIN o : o[i] = keys[at(i)]
  BY DEF WithoutAt
<1>2. \A i \in 1 .. Len(keys) - 1 : at(i) \in 1 .. Len(keys) /\ at(i) # n
  BY <1>0
<1>3. \A i, j \in 1 .. Len(keys) - 1 : i < j => at(i) < at(j)
  BY <1>0
<1>4. \A k \in 1 .. Len(keys) : k # n => back(k) \in 1 .. Len(keys) - 1 /\ at(back(k)) = k
  BY <1>0
<1> HIDE DEF o, at, back
<1>5. \A i \in 1 .. Len(keys) - 1 : o[i] \in Keys(m) \ {keys[n]}
  <2>1. \A i \in 1 .. Len(keys) : keys[i] \in Keys(m)
    BY DEF Kept
  <2>2. ASSUME NEW i \in 1 .. Len(keys) - 1 PROVE keys[at(i)] # keys[n]
    BY <1>2, KeptOnce
  <2> QED BY <1>1, <1>2, <2>1, <2>2
<1>6. o \in Seq(Keys(m) \ {keys[n]}) /\ Len(o) = Len(keys) - 1
  <2>1. o \in [1 .. Len(keys) - 1 -> Keys(m) \ {keys[n]}]
    BY <1>1, <1>5
  <2> QED BY <1>0, <2>1
<1>7. ASSUME NEW k \in Keys(m) \ {keys[n]} PROVE \E i \in DOMAIN o : o[i] = k
  <2>1. PICK l \in 1 .. Len(keys) : keys[l] = k
    BY DEF Kept, KeepsRecent
  <2>2. l # n
    BY <2>1
  <2>3. back(l) \in DOMAIN o /\ o[back(l)] = k
    BY <1>1, <1>4, <2>1, <2>2
  <2> QED BY <2>3
<1>8. ASSUME NEW i \in DOMAIN o, NEW j \in DOMAIN o, i < j
      PROVE  m.entries[o[i]].usedAt < m.entries[o[j]].usedAt
  <2>1. at(i) < at(j) /\ at(i) \in 1 .. Len(keys) /\ at(j) \in 1 .. Len(keys)
    BY <1>1, <1>2, <1>3, <1>8
  <2>2. DOMAIN keys = 1 .. Len(keys)
    BY DEF Kept
  <2>3. m.entries[keys[at(i)]].usedAt < m.entries[keys[at(j)]].usedAt
    BY <2>1, <2>2 DEF Kept, KeepsRecent
  <2> QED BY <1>1, <2>3
<1>9. Keys(m) \ {keys[n]} = {o[i] : i \in DOMAIN o}
  BY <1>1, <1>5, <1>7
<1> QED BY <1>6, <1>8, <1>9 DEF o

(* The history after a use of an entry that is there.                      *)
LEMMA RecentlyAgain ==
  ASSUME NEW m, Consistent(m), NEW keys, Kept(m, keys), NEW n \in 1 .. Len(keys)
  PROVE  Recently(keys, keys[n], m.limit) = Append(WithoutAt(keys, n), keys[n])
<1> DEFINE o == WithoutAt(keys, n)
<1>1. DOMAIN keys = 1 .. Len(keys)
  BY DEF Kept
<1>2. (CHOOSE l \in DOMAIN keys : keys[l] = keys[n]) = n
  <2>1. ASSUME NEW l \in DOMAIN keys, keys[l] = keys[n] PROVE l = n
    BY <1>1, <2>1, KeptOnce
  <2> QED BY <1>1, <2>1
<1>3. o \in Seq(Keys(m) \ {keys[n]}) /\ Len(o) = Len(keys) - 1 /\ keys[n] \in Keys(m)
  <2>1. keys[n] \in Keys(m)
    BY DEF Kept
  <2> QED BY <2>1, WithoutOne
<1>4. Len(keys) \in Nat /\ m.limit \in Nat /\ Len(keys) <= m.limit
  BY DEF Kept, Consistent
<1> HIDE DEF o
<1>5. o \in Seq(Keys(m))
  BY <1>3
<1>6. Len(Append(o, keys[n])) = Len(keys)
  BY <1>3, <1>4, <1>5
<1>7. Recently(keys, keys[n], m.limit) =
        IF Len(Append(o, keys[n])) > m.limit THEN Tail(Append(o, keys[n])) ELSE Append(o, keys[n])
  BY <1>1, <1>2 DEF Recently, o
<1> QED BY <1>4, <1>6, <1>7 DEF o

(* The newest key comes after keys in the order of their uses.             *)
LEMMA KeptAppended ==
  ASSUME NEW m, Consistent(m), NEW o, NEW key, NEW after,
         o \in Seq(Keys(m)), key \notin {o[i] : i \in DOMAIN o},
         \A i, j \in DOMAIN o : i < j => m.entries[o[i]].usedAt < m.entries[o[j]].usedAt,
         Consistent(after), Keys(after) = {o[i] : i \in DOMAIN o} \cup {key},
         after.size = Len(o) + 1,
         \A k \in Keys(m) : k \in Keys(after) /\ k # key =>
            after.entries[k].usedAt = m.entries[k].usedAt,
         after.entries[key].usedAt > m.clock
  PROVE  Kept(after, Append(o, key))
<1> DEFINE s == Append(o, key)
<1>1. Len(o) \in Nat /\ DOMAIN o = 1 .. Len(o) /\ \A i \in 1 .. Len(o) : o[i] \in Keys(m)
  OBVIOUS
<1>2. o \in Seq(Keys(after)) /\ key \in Keys(after)
  <2>1. o \in [1 .. Len(o) -> Keys(after)]
    BY <1>1
  <2> QED BY <1>1, <2>1
<1>3. /\ s \in Seq(Keys(after)) /\ Len(s) = Len(o) + 1 /\ DOMAIN s = 1 .. Len(o) + 1
      /\ \A i \in 1 .. Len(o) : s[i] = o[i]
      /\ s[Len(o) + 1] = key
  BY <1>2
<1> HIDE DEF s
<1>4. Keys(after) = {s[i] : i \in DOMAIN s}
  <2>1. {s[i] : i \in DOMAIN s} \subseteq Keys(after)
    BY <1>1, <1>3
  <2>2. ASSUME NEW k \in Keys(after) PROVE \E i \in DOMAIN s : s[i] = k
    <3>1. CASE k = key
      BY <1>1, <1>3, <3>1
    <3>2. CASE k # key
      <4>1. PICK i \in DOMAIN o : o[i] = k
        BY <3>2
      <4> QED BY <1>1, <1>3, <4>1
    <3> QED BY <3>1, <3>2
  <2> QED BY <2>1, <2>2
<1>5. ASSUME NEW i \in DOMAIN s, NEW j \in DOMAIN s, i < j
      PROVE  after.entries[s[i]].usedAt < after.entries[s[j]].usedAt
  <2>1. i \in 1 .. Len(o) /\ s[i] = o[i] /\ o[i] \in Keys(m) /\ o[i] # key /\ o[i] \in Keys(after)
    BY <1>1, <1>3, <1>5
  <2>2. after.entries[o[i]].usedAt = m.entries[o[i]].usedAt
    BY <2>1
  <2>3. m.entries[o[i]].usedAt <= m.clock /\ m.entries[o[i]].usedAt \in Nat /\ m.clock \in Nat
    BY <2>1 DEF Consistent
  <2>4. CASE j = Len(o) + 1
    <3>1. after.entries[key].usedAt \in Nat
      BY <1>2 DEF Consistent
    <3> QED BY <1>3, <2>1, <2>2, <2>3, <2>4, <3>1
  <2>5. CASE j \in 1 .. Len(o)
    <3>1. /\ s[j] = o[j] /\ o[j] \in Keys(m) /\ o[j] # key /\ o[j] \in Keys(after)
      BY <1>1, <1>3, <2>5
    <3>2. m.entries[o[i]].usedAt < m.entries[o[j]].usedAt
      BY <1>1, <1>5, <2>1, <2>5
    <3> QED BY <2>1, <2>2, <3>1, <3>2
  <2> QED BY <1>1, <1>3, <2>4, <2>5
<1>6. Len(s) = after.size
  BY <1>3
<1> QED BY <1>3, <1>4, <1>5, <1>6 DEF Kept, KeepsRecent, s

(* A use of an entry that is there moves its key to the end.               *)
LEMMA KeptUse ==
  ASSUME NEW m, Consistent(m), NEW keys, Kept(m, keys), NEW key \in Keys(m),
         NEW after, Consistent(after), Keys(after) = Keys(m),
         \A k \in Keys(m) : k # key => after.entries[k].usedAt = m.entries[k].usedAt,
         after.entries[key].usedAt > m.clock
  PROVE  Kept(after, Recently(keys, key, m.limit))
<1>1. PICK n \in 1 .. Len(keys) : keys[n] = key
  BY DEF Kept, KeepsRecent
<1> DEFINE o == WithoutAt(keys, n)
<1>2. /\ o \in Seq(Keys(m) \ {key}) /\ Len(o) = Len(keys) - 1
      /\ Keys(m) \ {key} = {o[i] : i \in DOMAIN o}
      /\ \A i, j \in DOMAIN o : i < j => m.entries[o[i]].usedAt < m.entries[o[j]].usedAt
  <2>1. /\ o \in Seq(Keys(m) \ {keys[n]}) /\ Len(o) = Len(keys) - 1
        /\ Keys(m) \ {keys[n]} = {o[i] : i \in DOMAIN o}
        /\ \A i, j \in DOMAIN o : i < j => m.entries[o[i]].usedAt < m.entries[o[j]].usedAt
    BY WithoutOne
  <2> HIDE DEF o
  <2> QED BY <1>1, <2>1
<1>3. Recently(keys, key, m.limit) = Append(o, key)
  BY <1>1, RecentlyAgain
<1> HIDE DEF o
<1>4. o \in Seq(Keys(m)) /\ key \notin {o[i] : i \in DOMAIN o}
  BY <1>2
<1>5. Keys(after) = {o[i] : i \in DOMAIN o} \cup {key}
  BY <1>2
<1>6. after.size = Len(o) + 1
  <2>1. after.size = m.size /\ Len(keys) = m.size /\ Len(keys) \in Nat
    BY DEF Consistent, Kept
  <2> QED BY <1>2, <2>1
<1>7. Kept(after, Append(o, key))
  BY <1>2, <1>4, <1>5, <1>6, KeptAppended
<1> QED BY <1>3, <1>7

LEMMA KeptTouch ==
  ASSUME NEW m, Consistent(m), NEW keys, Kept(m, keys), NEW key \in Keys(m)
  PROVE  Kept(Touch(m, key), Recently(keys, key, m.limit))
<1> DEFINE t == Touch(m, key)
           new == Entry(m.entries[key].fingerprint, m.entries[key].value, m.clock + 1)
<1>1. t.entries = [m.entries EXCEPT ![key] = new] /\ new.usedAt = m.clock + 1
  BY DEF Touch, Cache, Entry
<1>2. Consistent(t) /\ Keys(t) = Keys(m)
  BY TouchConsistent
<1> HIDE DEF t, new
<1>3. /\ \A k \in Keys(m) : k # key => t.entries[k].usedAt = m.entries[k].usedAt
      /\ t.entries[key].usedAt > m.clock
  BY <1>1 DEF Keys, Consistent
<1>4. Kept(t, Recently(keys, key, m.limit))
  BY <1>2, <1>3, KeptUse
<1> QED BY <1>4 DEF t

(* A key that is not there comes at the end, and the first one leaves when *)
(* there is no room: it is the one of the least recently used entry.       *)
LEMMA KeptRoom ==
  ASSUME NEW m, Consistent(m), NEW keys, Kept(m, keys), NEW key, key \notin Keys(m)
  PROVE  \E o : /\ Kept(Room(m, key), o)
                /\ Recently(keys, key, m.limit) = Append(o, key)
                /\ Room(m, key).clock = m.clock
<1> DEFINE room == Room(m, key)
<1>0. /\ DOMAIN keys = 1 .. Len(keys) /\ Len(keys) \in Nat /\ Len(keys) = m.size
      /\ m.limit \in Nat \ {0} /\ m.size <= m.limit
      /\ keys \in Seq(Keys(m)) /\ keys \in Seq(Keys(m) \cup {key})
  BY DEF Kept, Consistent
<1>1. /\ Len(Append(keys, key)) = Len(keys) + 1
      /\ Recently(keys, key, m.limit) =
           IF Len(Append(keys, key)) > m.limit THEN Tail(Append(keys, key)) ELSE Append(keys, key)
  <2>1. ~ \E n \in DOMAIN keys : keys[n] = key
    BY <1>0
  <2> QED BY <1>0, <2>1 DEF Recently
<1>2. CASE m.size < m.limit
  <2>1. room = m
    BY <1>0, <1>2 DEF Room, MakeRoom
  <2> QED BY <1>0, <1>1, <1>2, <2>1
<1>3. CASE m.size >= m.limit
  <2> DEFINE least == LeastUsed(m)
             o == Tail(keys)
  <2>1. room = EvictOldest(m)
    BY <1>3 DEF Room, MakeRoom
  <2>2. /\ Keys(room) = Keys(m) \ {least} /\ room.size = m.size - 1 /\ room.clock = m.clock
        /\ \A k \in Keys(room) : room.entries[k] = m.entries[k]
    BY <2>1 DEF EvictOldest, Without, Cache, Keys
  <2>3. Len(keys) >= 1 /\ 1 \in DOMAIN keys
    BY <1>0, <1>3
  <2>4. keys[1] = least
    <3>1. Keys(m) = {keys[i] : i \in DOMAIN keys}
      BY DEF Kept, KeepsRecent
    <3>2. \A k \in Keys(m) : m.entries[k].usedAt \in Nat
      BY DEF Consistent
    <3>3. ASSUME NEW i \in DOMAIN keys
          PROVE  m.entries[keys[1]].usedAt <= m.entries[keys[i]].usedAt
      <4>1. CASE i = 1
        BY <1>0, <2>3, <3>2, <4>1
      <4>2. CASE 1 < i
        <5>1. m.entries[keys[1]].usedAt < m.entries[keys[i]].usedAt
          BY <2>3, <4>2 DEF Kept, KeepsRecent
        <5>2. keys[1] \in Keys(m) /\ keys[i] \in Keys(m)
          BY <2>3, <3>1
        <5> QED BY <3>2, <5>1, <5>2
      <4> QED BY <1>0, <4>1, <4>2
    <3>4. keys[1] \in Keys(m) /\ \A j \in Keys(m) : m.entries[keys[1]].usedAt <= m.entries[j].usedAt
      BY <2>3, <3>1, <3>3
    <3>5. /\ least \in Keys(m)
          /\ \A j \in Keys(m) : m.entries[least].usedAt <= m.entries[j].usedAt
      BY <3>4 DEF LeastUsed
    <3>6. m.entries[keys[1]].usedAt = m.entries[least].usedAt
      BY <3>2, <3>4, <3>5
    <3> HIDE DEF least
    <3> QED BY <3>4, <3>5, <3>6 DEF Consistent
  <2> HIDE DEF least, room
  <2>5. /\ o \in Seq(Keys(m)) /\ Len(o) = Len(keys) - 1 /\ DOMAIN o = 1 .. Len(keys) - 1
        /\ \A i \in 1 .. Len(keys) - 1 : o[i] = keys[i + 1]
    BY <1>0, <2>3
  <2>6. Tail(Append(keys, key)) = Append(o, key)
    <3>1. keys # <<>>
      BY <1>0, <2>3
    <3> QED BY <1>0, <3>1, HeadTailAppend
  <2> HIDE DEF o
  <2>7. /\ \A i \in 1 .. Len(keys) - 1 : o[i] \in Keys(room)
        /\ \A k \in Keys(room) : \E i \in DOMAIN o : o[i] = k
    <3>1. ASSUME NEW i \in 1 .. Len(keys) - 1 PROVE o[i] \in Keys(room)
      <4>1. i + 1 \in 1 .. Len(keys) /\ 1 \in 1 .. Len(keys) /\ i + 1 # 1
        BY <1>0, <2>3
      <4>2. keys[i + 1] # keys[1]
        BY <4>1, KeptOnce
      <4>3. keys[i + 1] \in Keys(m)
        BY <1>0, <4>1
      <4> QED BY <2>2, <2>4, <2>5, <4>2, <4>3
    <3>2. ASSUME NEW k \in Keys(room) PROVE \E i \in DOMAIN o : o[i] = k
      <4>1. PICK j \in DOMAIN keys : keys[j] = k
        BY <2>2 DEF Kept, KeepsRecent
      <4>2. j # 1
        BY <2>2, <2>4, <4>1
      <4>3. j - 1 \in 1 .. Len(keys) - 1 /\ (j - 1) + 1 = j
        BY <1>0, <4>1, <4>2
      <4> QED BY <2>5, <4>1, <4>3
    <3> QED BY <3>1, <3>2
  <2>8. ASSUME NEW i \in DOMAIN o, NEW j \in DOMAIN o, i < j
        PROVE  room.entries[o[i]].usedAt < room.entries[o[j]].usedAt
    <3>1. i + 1 \in DOMAIN keys /\ j + 1 \in DOMAIN keys /\ i + 1 < j + 1
      BY <1>0, <2>5, <2>8
    <3>2. m.entries[keys[i + 1]].usedAt < m.entries[keys[j + 1]].usedAt
      BY <3>1 DEF Kept, KeepsRecent
    <3>3. room.entries[o[i]] = m.entries[o[i]] /\ room.entries[o[j]] = m.entries[o[j]]
      BY <2>2, <2>5, <2>7
    <3> QED BY <2>5, <3>2, <3>3
  <2>9. o \in Seq(Keys(room))
    <3>1. o \in [1 .. Len(keys) - 1 -> Keys(room)]
      BY <2>5, <2>7
    <3> QED BY <1>0, <2>3, <3>1
  <2>10. Keys(room) = {o[i] : i \in DOMAIN o}
    BY <2>5, <2>7
  <2>11. Kept(room, o)
    BY <1>0, <2>2, <2>5, <2>8, <2>9, <2>10 DEF Kept, KeepsRecent
  <2>12. Recently(keys, key, m.limit) = Append(o, key)
    BY <1>0, <1>1, <1>3, <2>6
  <2> QED BY <2>2, <2>11, <2>12 DEF room
<1>4. m.size \in Nat /\ m.limit \in Nat
  BY <1>0
<1> QED BY <1>2, <1>3, <1>4

LEMMA KeptWrite ==
  ASSUME NEW m, Consistent(m), NEW keys, Kept(m, keys), NEW key, NEW fingerprint, NEW value
  PROVE  Kept(Write(m, key, fingerprint, value), Recently(keys, key, m.limit))
<1> DEFINE room == Room(m, key)
           new == Entry(fingerprint, value, room.clock + 1)
           w == Write(m, key, fingerprint, value)
<1>1. /\ w.entries = [k \in Keys(room) \cup {key} |-> IF k = key THEN new ELSE room.entries[k]]
      /\ w.size = IF key \in Keys(m) THEN room.size ELSE room.size + 1
      /\ new.usedAt = room.clock + 1
  BY DEF Write, Cache, Entry
<1>2. Consistent(w)
  BY WriteConsistent
<1>3. /\ Consistent(room)
      /\ key \in Keys(m) => room = m
      /\ key \notin Keys(m) => key \notin Keys(room)
  BY RoomConsistent
<1>4. CASE key \in Keys(m)
  <2> HIDE DEF w, new, room
  <2>1. /\ Keys(w) = Keys(m)
        /\ \A k \in Keys(m) : k # key => w.entries[k].usedAt = m.entries[k].usedAt
        /\ w.entries[key].usedAt > m.clock
    BY <1>1, <1>3, <1>4 DEF Keys, Consistent
  <2>2. Kept(w, Recently(keys, key, m.limit))
    BY <1>2, <1>4, <2>1, KeptUse
  <2> QED BY <2>2 DEF w
<1>5. CASE key \notin Keys(m)
  <2>1. PICK o : /\ Kept(room, o) /\ Recently(keys, key, m.limit) = Append(o, key)
                 /\ room.clock = m.clock
    BY <1>5, KeptRoom
  <2> HIDE DEF w, new, room
  <2>2. /\ o \in Seq(Keys(room)) /\ Keys(room) = {o[i] : i \in DOMAIN o} /\ Len(o) = room.size
        /\ \A i, j \in DOMAIN o :
             i < j => room.entries[o[i]].usedAt < room.entries[o[j]].usedAt
    BY <2>1 DEF Kept, KeepsRecent
  <2>3. /\ Keys(w) = {o[i] : i \in DOMAIN o} \cup {key} /\ w.size = Len(o) + 1
        /\ \A k \in Keys(room) : k \in Keys(w) /\ k # key =>
              w.entries[k].usedAt = room.entries[k].usedAt
        /\ w.entries[key].usedAt > room.clock
    <3>1. /\ Keys(w) = Keys(room) \cup {key} /\ w.size = room.size + 1
          /\ w.entries[key] = new
          /\ \A k \in Keys(room) : k # key => w.entries[k] = room.entries[k]
      BY <1>1, <1>5 DEF Keys
    <3>2. room.clock \in Nat
      BY <1>3 DEF Consistent
    <3>3. w.entries[key].usedAt > room.clock
      BY <1>1, <3>1, <3>2
    <3> QED BY <2>2, <3>1, <3>3
  <2>4. Kept(w, Append(o, key))
    <3>1. key \notin {o[i] : i \in DOMAIN o}
      BY <1>3, <1>5, <2>2
    <3> QED BY <1>2, <1>3, <2>2, <2>3, <3>1, KeptAppended
  <2> QED BY <2>1, <2>4 DEF w
<1> QED BY <1>4, <1>5

(* Both caches, with the history of their uses.                            *)
KeptInv ==
  /\ recent = [heads |-> recent.heads, plans |-> recent.plans]
  /\ heads.limit = HeadLimit /\ plans.limit = PlanLimit
  /\ Kept(heads, recent.heads) /\ Kept(plans, recent.plans)

LEMMA KeptEmpty ==
  ASSUME NEW limit \in Nat \ {0}
  PROVE  Kept(EmptyMap(limit), <<>>)
<1>1. /\ Keys(EmptyMap(limit)) = {} /\ EmptyMap(limit).size = 0
  BY EmptyConsistent DEF EmptyMap, Cache
<1> QED BY <1>1 DEF Kept, KeepsRecent

LEMMA WriteLimit ==
  ASSUME NEW m, Consistent(m), NEW key, NEW fingerprint, NEW value
  PROVE  Write(m, key, fingerprint, value).limit = m.limit
BY RoomConsistent DEF Write, Cache

(* A compiled plan read and then written again was used once in a row.     *)
LEMMA KeptRewrite ==
  ASSUME NEW m, Consistent(m), NEW keys, Kept(m, keys), NEW key \in Keys(m),
         NEW fingerprint, NEW value
  PROVE  Kept(Write(Touch(m, key), key, fingerprint, value), Recently(keys, key, m.limit))
<1> DEFINE t == Touch(m, key)
           w == Write(t, key, fingerprint, value)
           used == Entry(m.entries[key].fingerprint, m.entries[key].value, m.clock + 1)
           new == Entry(fingerprint, value, t.clock + 1)
<1>1. /\ t.entries = [m.entries EXCEPT ![key] = used] /\ t.clock = m.clock + 1
      /\ new.usedAt = t.clock + 1
  BY DEF Touch, Cache, Entry
<1>2. Consistent(t) /\ Keys(t) = Keys(m)
  BY TouchConsistent
<1>3. Consistent(w)
  BY <1>2, WriteConsistent
<1>4. w.entries = [k \in Keys(t) \cup {key} |-> IF k = key THEN new ELSE t.entries[k]]
  BY <1>2 DEF Write, Room, Cache
<1> HIDE DEF w, t, new, used
<1>5. /\ Keys(w) = Keys(m) /\ w.entries[key] = new
      /\ \A k \in Keys(m) : k # key => w.entries[k] = m.entries[k]
  BY <1>1, <1>2, <1>4 DEF Keys
<1>6. m.clock \in Nat
  BY DEF Consistent
<1>7. w.entries[key].usedAt > m.clock
  BY <1>1, <1>5, <1>6
<1>8. Kept(w, Recently(keys, key, m.limit))
  BY <1>3, <1>5, <1>7, KeptUse
<1> QED BY <1>8 DEF w, t

LEMMA PlansAfterKept ==
  ASSUME NEW m, Consistent(m), NEW keys, Kept(m, keys), NEW key, NEW value
  PROVE  LET seen == AfterRead(m, key, "compiler")
             after == Write(seen, key, "compiler", value)
         IN  /\ Kept(after, Recently(keys, key, m.limit))
             /\ Hit(m, key, "compiler") => Kept(seen, Recently(keys, key, m.limit))
             /\ seen.limit = m.limit /\ after.limit = m.limit
<1> DEFINE seen == AfterRead(m, key, "compiler")
           after == Write(seen, key, "compiler", value)
<1>1. CASE Hit(m, key, "compiler")
  <2>1. key \in Keys(m) /\ seen = Touch(m, key)
    BY <1>1 DEF Hit, AfterRead
  <2>2. Consistent(seen) /\ seen.limit = m.limit
    BY <2>1, TouchConsistent DEF Touch, Cache
  <2>3. after.limit = m.limit
    BY <2>2, WriteLimit
  <2>4. Kept(seen, Recently(keys, key, m.limit))
    BY <2>1, KeptTouch
  <2>5. Kept(after, Recently(keys, key, m.limit))
    BY <2>1, KeptRewrite
  <2> QED BY <2>2, <2>3, <2>4, <2>5
<1>2. CASE ~ Hit(m, key, "compiler")
  <2>1. seen = m
    BY <1>2 DEF AfterRead
  <2> QED BY <1>2, <2>1, KeptWrite, WriteLimit
<1> QED BY <1>1, <1>2

LEMMA NextKept == CachesConsistent /\ KeptInv /\ [Next]_vars => KeptInv'
<1> SUFFICES ASSUME CachesConsistent, KeptInv, [Next]_vars PROVE KeptInv'
  OBVIOUS
<1>0. Consistent(heads) /\ Consistent(plans) /\ Kept(heads, recent.heads)
      /\ Kept(plans, recent.plans) /\ heads.limit = HeadLimit /\ plans.limit = PlanLimit
      /\ recent = [heads |-> recent.heads, plans |-> recent.plans]
  BY DEF CachesConsistent, KeptInv
<1>1. ASSUME NEW r \in Request, Ask(r) PROVE KeptInv'
  <2>1. CASE HeadHit(r)
    <3> DEFINE key == HeadKey(r)
    <3>1. key \in Keys(heads)
      BY <2>1 DEF HeadHit, Hit
    <3>2. /\ heads' = Touch(heads, key) /\ plans' = plans
          /\ recent' = [recent EXCEPT !.heads = Recently(@, key, HeadLimit)]
      BY <1>1, <2>1 DEF Ask
    <3>3. /\ recent'.heads = Recently(recent.heads, key, HeadLimit)
          /\ recent'.plans = recent.plans
          /\ recent' = [heads |-> recent'.heads, plans |-> recent'.plans]
      BY <1>0, <3>2
    <3>4. Kept(Touch(heads, key), Recently(recent.heads, key, HeadLimit))
      BY <1>0, <3>1, KeptTouch
    <3>5. heads'.limit = heads.limit
      BY <3>2 DEF Touch, Cache
    <3> HIDE DEF key
    <3>6. Kept(heads', recent'.heads) /\ Kept(plans', recent'.plans)
      BY <1>0, <3>2, <3>3, <3>4
    <3> QED BY <1>0, <3>2, <3>3, <3>5, <3>6 DEF KeptInv
  <2>2. CASE ~ HeadHit(r)
    <3>1. UNCHANGED <<heads, plans, recent>>
      BY <1>1, <2>2 DEF Ask
    <3> QED BY <1>0, <3>1 DEF KeptInv
  <2> QED BY <2>1, <2>2
<1>2. CASE Compile
  <2> DEFINE r == run.request
             catalog == run.catalog
  <2>1. PICK plan : /\ heads' = HeadsAfter(r, catalog, plan)
                    /\ plans' = PlansAfter(r, catalog, plan)
                    /\ recent' = RecentAfter(r)
    BY <1>2 DEF Compile
  <2> HIDE DEF r, catalog
  <2>2. /\ recent'.heads = IF r.source = Blank THEN recent.heads
                           ELSE Recently(recent.heads, HeadKey(r), HeadLimit)
        /\ recent'.plans = IF Identity(r) = Blank THEN recent.plans
                           ELSE Recently(recent.plans, PlanKey(r), PlanLimit)
        /\ recent' = [heads |-> recent'.heads, plans |-> recent'.plans]
    BY <2>1 DEF RecentAfter
  <2>3. Kept(heads', recent'.heads) /\ heads'.limit = HeadLimit
    <3>1. CASE r.source = Blank
      BY <1>0, <2>1, <2>2, <3>1 DEF HeadsAfter, KeptInv
    <3>2. CASE r.source # Blank
      <4>1. PICK value : heads' = Write(heads, HeadKey(r), r.source, value)
        BY <2>1, <3>2 DEF HeadsAfter
      <4>2. Kept(Write(heads, HeadKey(r), r.source, value),
                 Recently(recent.heads, HeadKey(r), HeadLimit))
        BY <1>0, KeptWrite
      <4>3. Write(heads, HeadKey(r), r.source, value).limit = HeadLimit
        BY <1>0, WriteLimit
      <4> QED BY <2>2, <3>2, <4>1, <4>2, <4>3
    <3> QED BY <3>1, <3>2
  <2>4. Kept(plans', recent'.plans) /\ plans'.limit = PlanLimit
    <3>1. CASE Identity(r) = Blank
      BY <1>0, <2>1, <2>2, <3>1 DEF PlansAfter, KeptInv
    <3>2. CASE Identity(r) # Blank
      <4> DEFINE seen == AfterRead(plans, PlanKey(r), "compiler")
      <4>1. plans' = IF PlanReady(r, catalog) THEN seen
                     ELSE Write(seen, PlanKey(r), "compiler", plan)
        BY <2>1, <3>2 DEF PlansAfter
      <4>2. PlanReady(r, catalog) => Hit(plans, PlanKey(r), "compiler")
        BY DEF PlanReady
      <4>3. /\ Kept(Write(seen, PlanKey(r), "compiler", plan),
                    Recently(recent.plans, PlanKey(r), PlanLimit))
            /\ Hit(plans, PlanKey(r), "compiler") =>
                 Kept(seen, Recently(recent.plans, PlanKey(r), PlanLimit))
            /\ seen.limit = PlanLimit
            /\ Write(seen, PlanKey(r), "compiler", plan).limit = PlanLimit
        BY <1>0, PlansAfterKept
      <4> HIDE DEF seen
      <4> QED BY <2>2, <3>2, <4>1, <4>2, <4>3
    <3> QED BY <3>1, <3>2
  <2> QED BY <2>2, <2>3, <2>4 DEF KeptInv
<1>3. CASE Begin \/ ClearCaches \/ \E p \in Project : WriteHere(p)
  <2>1. /\ heads' = EmptyMap(HeadLimit) /\ plans' = EmptyMap(PlanLimit)
        /\ recent' = [heads |-> <<>>, plans |-> <<>>]
    BY <1>0, <1>3 DEF Begin, ClearCaches, WriteHere, Forget, Cleared
  <2>2. heads'.limit = HeadLimit /\ plans'.limit = PlanLimit
    BY <2>1 DEF EmptyMap, Cache
  <2>3. Kept(EmptyMap(HeadLimit), <<>>) /\ Kept(EmptyMap(PlanLimit), <<>>)
    BY LimitsAssumption, KeptEmpty
  <2>4. recent'.heads = <<>> /\ recent'.plans = <<>>
    BY <2>1
  <2>5. Kept(heads', recent'.heads) /\ Kept(plans', recent'.plans)
    BY <2>1, <2>3, <2>4
  <2> QED BY <2>1, <2>2, <2>4, <2>5 DEF KeptInv
<1>4. CASE Load \/ Build \/ Tick \/ (\E p \in Project : Edit(p) \/ WriteElsewhere(p)) \/ UNCHANGED vars
  <2>1. UNCHANGED <<heads, plans, recent>>
    BY <1>4 DEF Load, Build, Tick, Edit, WriteElsewhere, caches, vars
  <2> QED BY <1>0, <2>1 DEF KeptInv
<1> QED BY <1>1, <1>2, <1>3, <1>4 DEF Next

-----------------------------------------------------------------------------
(* What the caches and the request hold, and how far the clocks go.        *)
BoundsInv ==
  /\ now \in 0..MaxTime /\ runs \in 0..MaxRuns /\ writes \in 0..MaxWrites
  /\ \A p \in Project : version[p] <= writes
  /\ dirty \in BOOLEAN
  /\ run.at \in {"idle", "load", "build", "compile"}
  /\ run.at # "idle" => run.request \in Request
  /\ run.at \in {"build", "compile"} => run.catalog \in CatalogSet

Holds(head) == head.catalog \in CatalogSet /\ head.plan \in PlanSet

HeldInv ==
  /\ \A k \in Keys(heads) : Holds(heads.entries[k].value)
  /\ \A k \in Keys(plans) : plans.entries[k].value \in PlanSet
  /\ \A k \in DOMAIN hot : hot[k].catalog \in CatalogSet

LEMMA CatalogIsOne ==
  ASSUME RevisionsInv, BoundsInv, NEW r \in Request
  PROVE  CatalogOf(r) \in CatalogSet
<1>1. r.project \in Project
  BY RequestsAssumption
<1>2. version[r.project] \in 0..MaxWrites
  BY <1>1, TimesAssumption DEF RevisionsInv, BoundsInv
<1>3. CatalogCopies(r) \in {"none", "blocks"}
  BY DEF CatalogCopies
<1> QED BY <1>1, <1>2, <1>3 DEF CatalogOf, CatalogSet

LEMMA CompiledIsOne ==
  ASSUME NEW r \in Request, NEW catalog \in CatalogSet
  PROVE  Compiled(r, catalog) \in PlanSet
BY DEF Compiled, PlanSet

(* Every revision counts a write.                                          *)
LEMMA EditsCount ==
  ASSUME RevisionsInv, BoundsInv, NEW p \in Project, Edits(p)
  PROVE  writes' \in 0..MaxWrites /\ \A r \in Project : version'[r] <= writes'
<1>1. /\ writes < MaxWrites /\ writes' = writes + 1
      /\ version' = [version EXCEPT ![p] = @ + 1]
  BY DEF Edits
<1>2. writes \in Nat /\ MaxWrites \in Nat /\ writes <= MaxWrites
  BY TimesAssumption DEF BoundsInv
<1>3. ASSUME NEW r \in Project PROVE version'[r] <= writes'
  <2>1. version[r] \in Nat /\ version[r] <= writes
    BY DEF RevisionsInv, BoundsInv
  <2>2. version'[r] = IF r = p THEN version[r] + 1 ELSE version[r]
    BY <1>1 DEF RevisionsInv
  <2> QED BY <1>1, <1>2, <2>1, <2>2
<1> QED BY <1>1, <1>2, <1>3

LEMMA NextBounds == RevisionsInv /\ BoundsInv /\ HeldInv /\ [Next]_vars => BoundsInv'
<1> SUFFICES ASSUME RevisionsInv, BoundsInv, HeldInv, [Next]_vars PROVE BoundsInv'
  OBVIOUS
<1>0. /\ now \in Nat /\ now <= MaxTime /\ runs \in Nat /\ runs <= MaxRuns
      /\ MaxTime \in Nat /\ MaxRuns \in Nat
  BY TimesAssumption DEF BoundsInv
<1>1. ASSUME NEW r \in Request, Ask(r) PROVE BoundsInv'
  <2>1. /\ runs < MaxRuns /\ runs' = runs + 1 /\ UNCHANGED <<now, writes, version, dirty>>
        /\ \/ run' = run
           \/ run' = [at |-> "load", request |-> r, least |-> must[r.project]]
    BY <1>1 DEF Ask, sources
  <2>2. runs' \in 0..MaxRuns
    BY <1>0, <2>1
  <2> QED BY <2>1, <2>2 DEF BoundsInv
<1>2. CASE Load
  <2>1. UNCHANGED <<now, writes, version, dirty, runs>> /\ run.at = "load"
    BY <1>2 DEF Load, sources
  <2>2. run.request \in Request
    BY <2>1 DEF BoundsInv
  <2>3. PICK catalog \in CatalogSet, at \in {"build", "compile"} : run' = With(catalog, at)
    <3>1. CASE HotHit(run.request)
      <4>1. HotKey(run.request) \in DOMAIN hot
        BY <3>1 DEF HotHit
      <4>2. hot[HotKey(run.request)].catalog \in CatalogSet
        BY <4>1 DEF HeldInv
      <4> QED BY <1>2, <3>1, <4>2 DEF Load
    <3>2. CASE ~ HotHit(run.request)
      <4>1. CatalogOf(run.request) \in CatalogSet
        BY <2>2, CatalogIsOne
      <4> QED BY <1>2, <3>2, <4>1 DEF Load
    <3> QED BY <3>1, <3>2
  <2>4. run'.at = at /\ run'.request = run.request /\ run'.catalog = catalog
    BY <2>3 DEF With
  <2> QED BY <2>1, <2>2, <2>3, <2>4 DEF BoundsInv
<1>3. CASE Build
  <2>1. UNCHANGED <<now, writes, version, dirty, runs>> /\ run.at = "build"
    BY <1>3 DEF Build, sources
  <2>2. run'.at = "compile" /\ run'.request = run.request /\ run'.catalog = run.catalog
    BY <1>3 DEF Build, With
  <2> QED BY <2>1, <2>2 DEF BoundsInv
<1>4. CASE Compile
  <2>1. UNCHANGED <<now, writes, version, dirty, runs>> /\ run'.at = "idle"
    BY <1>4 DEF Compile, sources, Idle
  <2> QED BY <2>1 DEF BoundsInv
<1>5. CASE Begin
  <2>1. UNCHANGED <<now, writes, version, runs, run>> /\ dirty' = FALSE
    BY <1>5 DEF Begin, sources
  <2> QED BY <2>1 DEF BoundsInv
<1>6. CASE ClearCaches
  <2>1. UNCHANGED <<now, writes, version, dirty, run>> /\ runs < MaxRuns /\ runs' = runs + 1
    BY <1>6 DEF ClearCaches, sources
  <2>2. runs' \in 0..MaxRuns
    BY <1>0, <2>1
  <2> QED BY <2>1, <2>2 DEF BoundsInv
<1>7. ASSUME NEW p \in Project, Edit(p) \/ WriteElsewhere(p) \/ WriteHere(p) PROVE BoundsInv'
  <2>1. /\ Edits(p) /\ UNCHANGED <<now, runs, run>>
        /\ dirty' = dirty \/ dirty' = TRUE
    BY <1>7 DEF Edit, WriteElsewhere, WriteHere
  <2>2. writes' \in 0..MaxWrites /\ \A r \in Project : version'[r] <= writes'
    BY <2>1, EditsCount
  <2>3. dirty' \in BOOLEAN
    BY <2>1 DEF BoundsInv
  <2> QED BY <2>1, <2>2, <2>3 DEF BoundsInv
<1>8. CASE Tick
  <2>1. /\ UNCHANGED <<writes, version, dirty, runs, run>>
        /\ now < MaxTime /\ now' = now + 1
    BY <1>8 DEF Tick, sources
  <2>2. now' \in 0..MaxTime
    BY <1>0, <2>1
  <2> QED BY <2>1, <2>2 DEF BoundsInv
<1>9. CASE UNCHANGED vars
  BY <1>9 DEF vars, BoundsInv
<1> QED BY <1>1, <1>2, <1>3, <1>4, <1>5, <1>6, <1>7, <1>8, <1>9 DEF Next

LEMMA NextHeld == CachesConsistent /\ BoundsInv /\ HeldInv /\ [Next]_vars => HeldInv'
<1> SUFFICES ASSUME CachesConsistent, BoundsInv, HeldInv, [Next]_vars PROVE HeldInv'
  OBVIOUS
<1>0. Consistent(heads) /\ Consistent(plans)
  BY DEF CachesConsistent
<1>1. ASSUME NEW r \in Request, Ask(r) PROVE HeldInv'
  <2>1. CASE HeadHit(r)
    <3>1. HeadKey(r) \in Keys(heads) /\ heads' = Touch(heads, HeadKey(r))
          /\ UNCHANGED <<plans, hot>>
      BY <1>1, <2>1 DEF Ask, HeadHit, Hit
    <3>2. \A k \in Keys(heads') : Holds(heads'.entries[k].value)
      BY <1>0, <3>1, TouchConsistent DEF HeldInv
    <3> QED BY <3>1, <3>2 DEF HeldInv
  <2>2. CASE ~ HeadHit(r)
    <3>1. UNCHANGED <<heads, plans, hot>>
      BY <1>1, <2>2 DEF Ask
    <3> QED BY <3>1 DEF HeldInv
  <2> QED BY <2>1, <2>2
<1>2. CASE Build
  <2>1. UNCHANGED <<heads, plans>> /\ run.catalog \in CatalogSet
    BY <1>2 DEF Build, BoundsInv
  <2>2. \A k \in DOMAIN hot' : hot'[k].catalog \in CatalogSet
    BY <1>2, <2>1 DEF Build, HeldInv
  <2> QED BY <2>1, <2>2 DEF HeldInv
<1>3. CASE Compile
  <2> DEFINE r == run.request
             catalog == run.catalog
             plan == IF PlanReady(r, catalog) THEN plans.entries[PlanKey(r)].value
                     ELSE Compiled(r, catalog)
             value == [catalog |-> catalog, plan |-> plan, checkedAt |-> now]
             seen == AfterRead(plans, PlanKey(r), "compiler")
  <2>1. /\ plans' = PlansAfter(r, catalog, plan) /\ heads' = HeadsAfter(r, catalog, plan)
        /\ hot' = hot /\ r \in Request /\ catalog \in CatalogSet
    BY <1>3 DEF Compile, BoundsInv
  <2>2. plan \in PlanSet
    <3>1. PlanReady(r, catalog) => PlanKey(r) \in Keys(plans)
      BY DEF PlanReady, Hit
    <3>2. Compiled(r, catalog) \in PlanSet
      BY <2>1, CompiledIsOne
    <3> QED BY <3>1, <3>2 DEF HeldInv
  <2>3. Holds(value)
    BY <2>1, <2>2 DEF Holds
  <2>4. /\ Consistent(seen)
        /\ \A k \in Keys(seen) : seen.entries[k].value \in PlanSet
    BY <1>0, TouchConsistent DEF AfterRead, Hit, HeldInv
  <2>5. plans' = plans \/ plans' = seen \/ plans' = Write(seen, PlanKey(r), "compiler", plan)
    BY <2>1 DEF PlansAfter
  <2>6. heads' = heads \/ heads' = Write(heads, HeadKey(r), r.source, value)
    BY <2>1 DEF HeadsAfter
  <2> HIDE DEF r, catalog, plan, value, seen
  <2>7. \A k \in Keys(Write(seen, PlanKey(r), "compiler", plan)) :
          Write(seen, PlanKey(r), "compiler", plan).entries[k].value \in PlanSet
    BY <2>2, <2>4, WriteConsistent
  <2>8. \A k \in Keys(Write(heads, HeadKey(r), r.source, value)) :
          Holds(Write(heads, HeadKey(r), r.source, value).entries[k].value)
    BY <1>0, <2>3, WriteConsistent DEF HeldInv
  <2>9. \A k \in Keys(plans') : plans'.entries[k].value \in PlanSet
    BY <2>4, <2>5, <2>7 DEF HeldInv
  <2>10. \A k \in Keys(heads') : Holds(heads'.entries[k].value)
    BY <2>6, <2>8 DEF HeldInv
  <2> QED BY <2>1, <2>9, <2>10 DEF HeldInv
<1>4. CASE Begin \/ ClearCaches \/ \E p \in Project : WriteHere(p)
  <2>1. heads' = Cleared(heads) /\ plans' = Cleared(plans) /\ DOMAIN hot' = {}
    BY <1>4 DEF Begin, ClearCaches, WriteHere, Forget
  <2>2. Keys(heads') = {} /\ Keys(plans') = {}
    BY <1>0, <2>1, ClearedConsistent
  <2> QED BY <2>1, <2>2 DEF HeldInv
<1>5. CASE Load \/ Tick \/ (\E p \in Project : Edit(p) \/ WriteElsewhere(p)) \/ UNCHANGED vars
  <2>1. UNCHANGED <<heads, plans, hot>>
    BY <1>5 DEF Load, Tick, Edit, WriteElsewhere, caches, vars
  <2> QED BY <2>1 DEF HeldInv
<1> QED BY <1>1, <1>2, <1>3, <1>4, <1>5 DEF Next

(* The invariants of the sections above give the types.                    *)
LEMMA KeptTypes ==
  RevisionsInv /\ AgesInv /\ BoundsInv /\ HeldInv => TypeOK
<1> SUFFICES ASSUME RevisionsInv, AgesInv, BoundsInv, HeldInv PROVE TypeOK
  OBVIOUS
<1>0. HistoryInv /\ HotAged /\ HeadsAged
  BY DEF AgesInv
<1>1. ASSUME NEW p \in Project
      PROVE  /\ version[p] \in 0..MaxWrites /\ notified[p] \in 0..MaxWrites
             /\ must[p] \in 0..MaxWrites
  <2>1. /\ version[p] \in Nat /\ notified[p] \in Nat /\ must[p] \in Nat
        /\ notified[p] <= version[p] /\ must[p] <= version[p]
    BY DEF RevisionsInv
  <2>2. version[p] <= writes /\ writes <= MaxWrites /\ writes \in Nat /\ MaxWrites \in Nat
    BY TimesAssumption DEF BoundsInv
  <2> QED BY <2>1, <2>2
<1>2. /\ version \in [Project -> 0..MaxWrites] /\ notified \in [Project -> 0..MaxWrites]
      /\ must \in [Project -> 0..MaxWrites]
  BY <1>1 DEF RevisionsInv
<1>3. delay \in 0..MaxDelay /\ now \in Nat
  BY <1>0, TimesAssumption DEF HistoryInv
<1>4. \A k \in Keys(heads) :
        LET head == heads.entries[k].value
        IN  head.catalog \in CatalogSet /\ head.plan \in PlanSet /\ head.checkedAt \in 0..now
  BY <1>0, <1>3 DEF HeldInv, Holds, HeadsAged
<1>5. \A k \in DOMAIN hot : hot[k].catalog \in CatalogSet /\ hot[k].checkedAt \in 0..now
  BY <1>0, <1>3 DEF HeldInv, HotAged
<1>6. /\ now \in 0..MaxTime /\ runs \in 0..MaxRuns /\ writes \in 0..MaxWrites
      /\ dirty \in BOOLEAN /\ run.at \in {"idle", "load", "build", "compile"}
  BY DEF BoundsInv
<1>7. /\ \A k \in Keys(plans) : plans.entries[k].value \in PlanSet
      /\ \A p \in Project : Len(replacedAt[p]) = version[p]
  BY <1>0 DEF HeldInv, HistoryInv
<1> QED BY <1>2, <1>3, <1>4, <1>5, <1>6, <1>7 DEF TypeOK

(* The caches of every reachable state hold what was used last, in the     *)
(* order of the uses, and what their sizes say, whatever their limits: an  *)
(* eviction takes the entry used the longest ago and no other.             *)
THEOREM CachesHoldRecent == Spec => []CachesKept
<1>1. Init => KeptInv /\ BoundsInv /\ HeldInv
  <2> SUFFICES ASSUME Init PROVE KeptInv /\ BoundsInv /\ HeldInv
    OBVIOUS
  <2>1. /\ heads = EmptyMap(HeadLimit) /\ plans = EmptyMap(PlanLimit) /\ DOMAIN hot = {}
        /\ recent = [heads |-> <<>>, plans |-> <<>>]
    BY DEF Init
  <2>2. /\ Keys(heads) = {} /\ heads.limit = HeadLimit
        /\ Keys(plans) = {} /\ plans.limit = PlanLimit
    BY <2>1, LimitsAssumption, EmptyConsistent DEF EmptyMap, Cache
  <2>3. KeptInv
    BY <2>1, <2>2, LimitsAssumption, KeptEmpty DEF KeptInv
  <2>4. BoundsInv
    <3>1. now = 0 /\ runs = 0 /\ writes = 0 /\ run.at = "idle"
      BY DEF Init, Idle
    <3>4. dirty \in BOOLEAN
      BY DEF Init
    <3>2. \A p \in Project : version[p] = 0
      BY DEF Init
    <3>3. 0 \in 0..MaxTime /\ 0 \in 0..MaxRuns /\ 0 \in 0..MaxWrites
      BY TimesAssumption
    <3>5. \A p \in Project : version[p] <= writes
      BY <3>1, <3>2
    <3> QED BY <3>1, <3>3, <3>4, <3>5 DEF BoundsInv
  <2> QED BY <2>1, <2>2, <2>3, <2>4 DEF HeldInv
<1>2. /\ CachesConsistent /\ RevisionsInv /\ KeptInv /\ BoundsInv /\ HeldInv /\ [Next]_vars
      => KeptInv' /\ BoundsInv' /\ HeldInv'
  BY NextKept, NextBounds, NextHeld
<1>3. ToldInv => RevisionsInv
  BY DEF ToldInv
<1>4. /\ CachesConsistent /\ RevisionsInv /\ AgesInv /\ KeptInv /\ BoundsInv /\ HeldInv
      => CachesKept
  BY KeptTypes DEF CachesKept, RecentKept, KeptInv, Kept
<1> QED BY <1>1, <1>2, <1>3, <1>4, CachesStayConsistent, ToldHolds, AgesHold, PTL DEF Spec

-----------------------------------------------------------------------------
(* The control of a run: its inductive invariant.  zs gives the zone each  *)
(* frame runs in, and the context of a level is what the frame above it    *)
(* saved, or ctx.                                                          *)

LoopKinds == {"forEach", "while", "endless"}
CallKinds == {"call", "relay"}
Written == UNION {Nodes[z] : z \in Zones}
Contexts == [stopped : BOOLEAN, skipping : BOOLEAN, returned : BOOLEAN,
             loopDepth : Nat, local : Nat, current : Nat, depth : Nat]
Frames == [kind : Kinds, rest : Seq(Written), left : Nat, body : Seq(Written), saved : Contexts]

Level(s, c, i) == IF i < Len(s) THEN s[i + 1].saved ELSE c

(* What a frame may be above one of kind u, and how the stack is built.    *)
Above(u, f) ==
  /\ f.kind # "flow"
  /\ f.kind \in LoopKinds \cup {"chunks"} => f.rest = <<>>
  /\ f.kind = "item" <=> u \in LoopKinds
  /\ f.kind = "slot" <=> u = "chunks"

Framed(s) ==
  /\ s \in Seq(Frames) /\ s # <<>>
  /\ s[1].kind = "flow" /\ s[1].saved = Ctx0
  /\ \A i \in 1 .. Len(s) : i > 1 => Above(s[i - 1].kind, s[i])

(* The zone of the body a frame of kind k in zone z keeps, of the next     *)
(* turn or of the catch; y is the zone below.                              *)
BodyZone(k, z, y) ==
  CASE k \in LoopKinds -> Inside("item", z)
    [] k = "chunks"    -> Inside("slot", z)
    [] k = "try"       -> y
    [] OTHER           -> z

Below1(zs, i) == IF i = 1 THEN Outside ELSE zs[i - 1]

InZone(f, z, y) ==
  /\ f.rest \in Seq(Nodes[z])
  /\ f.body \in Seq(Nodes[BodyZone(f.kind, z, y)])

Zoned(s, zs) ==
  /\ zs \in Seq(Zones) /\ Len(zs) = Len(s) /\ zs[1] = Outside
  /\ \A i \in 1 .. Len(s) :
       /\ i > 1 => zs[i] = Inside(s[i].kind, zs[i - 1])
       /\ InZone(s[i], zs[i], Below1(zs, i))

(* The context c of a frame of kind k, entered with b from one of kind u:  *)
(* a block stops for a reason, and only an item may be skipped.            *)
Counted(k) == IF k \in CallKinds THEN 1 ELSE 0
Fresh(k) == IF k \in CallKinds \cup {"slot"} THEN 1 ELSE 0

(* When the Flow is well written, a flag set is a flag obeyed.             *)
Flags(z, c) ==
  /\ c.stopped <=> c.returned \/ c.skipping
  /\ ~(c.returned /\ c.skipping)
  /\ ~z.loop \/ z.chunk => ~c.skipping

Loose(u, k) == k = "forEach" \/ (k = "item" /\ u = "forEach")

KeptBy(u, k, z, b, c) ==
  /\ c.local = b.local + Fresh(k)
  /\ ~Loose(u, k) => c.current = b.current
  /\ c.loopDepth = CASE k = "item" -> b.loopDepth + 1
                     [] k \in CallKinds -> 0
                     [] OTHER -> b.loopDepth
  /\ c.depth >= b.depth + Counted(k)
  /\ c.skipping => c.loopDepth > 0
  /\ c.stopped => c.returned \/ c.skipping
  /\ k = "chunks" => ~c.stopped
  /\ k # "catch" => ~b.stopped
  /\ z.loop <=> c.loopDepth > 0
  /\ WellWritten => Flags(z, c)

Under(s, i) == IF i = 1 THEN "none" ELSE s[i - 1].kind

(* The items of the innermost call, and the calls.                         *)
Items(s, call, i) == {j \in call .. i : s[j].kind = "item"}
CallsTo(s, i) == {j \in 1 .. i : s[j].kind \in CallKinds}

LoopCounted(s, i, n) ==
  \E call \in 1 .. i :
    /\ s[call].kind \in CallKinds \cup {"flow"}
    /\ \A j \in call + 1 .. i : s[j].kind \notin CallKinds \cup {"flow"}
    /\ n = Cardinality(Items(s, call, i))

(* The depth of calls counts the calls, but for one whose properties threw *)
(* out of every try.                                                       *)
Exact(s, zs, c, t) ==
  \A i \in 1 .. Len(s) :
    i < Len(s) \/ t = "none" \/ zs[i].caught =>
      /\ Level(s, c, i).depth = s[i].saved.depth + Counted(s[i].kind)
      /\ Level(s, c, i).depth = Cardinality(CallsTo(s, i))

Agree(s, zs, c, t) ==
  /\ Framed(s) /\ Zoned(s, zs) /\ c \in Contexts
  /\ \A i \in 1 .. Len(s) :
       /\ KeptBy(Under(s, i), s[i].kind, zs[i], s[i].saved, Level(s, c, i))
       /\ LoopCounted(s, i, Level(s, c, i).loopDepth)
  /\ WellWritten => Exact(s, zs, c, t)

Errors == {"user", "cancelled", "timeout", "outside", "depth", "limit"}

Ended ==
  verdict # "running" =>
    /\ Len(stack) = 1
    /\ verdict = "completed" => ~ctx.stopped

FlowInv ==
  /\ \E zs : Agree(stack, zs, ctx, thrown)
  /\ asked \in BOOLEAN /\ late \in BOOLEAN /\ thrown \in {"none"} \cup Errors
  /\ Ended

-----------------------------------------------------------------------------
(* Zones and nodes.                                                        *)

LEMMA InsideZone ==
  ASSUME NEW z \in Zones, NEW k
  PROVE  /\ Inside(k, z) \in Zones
         /\ Inside(k, z).loop = IF k = "item" THEN TRUE
                                ELSE IF k \in CallKinds THEN FALSE ELSE z.loop
         /\ Inside(k, z).chunk = IF k = "slot" THEN z.loop
                                 ELSE IF k = "item" \/ k \in CallKinds THEN FALSE ELSE z.chunk
         /\ z.caught => Inside(k, z).caught
         /\ Inside("try", z).caught
         /\ k \notin CallKinds \cup {"item", "slot", "try"} => Inside(k, z) = z
BY DEF Zones, Inside, CallKinds

LEMMA NodeFacts ==
  ASSUME NEW z \in Zones, NEW n \in Nodes[z]
  PROVE  /\ n \in Written
         /\ n.count \in Nat
         /\ n.body \in Seq(Nodes[Inside(BodyKind(n.op), z)])
         /\ n.other \in Seq(Nodes[z])
<1>1. n.body \in Bodies(BodyKind(n.op), z)
  BY DEF Bodies
<1>2. n.other \in {m.other : m \in Nodes[z]}
  OBVIOUS
<1>3. BodyKind(n.op) \in {BodyKind(m.op) : m \in Nodes[z]}
  OBVIOUS
<1> QED
  BY <1>1, <1>2, <1>3, NodesAssumption DEF Written

(* Lists of nodes of a zone.                                               *)
LEMMA ListFacts ==
  ASSUME NEW z \in Zones, NEW q \in Seq(Nodes[z])
  PROVE  /\ q \in Seq(Written)
         /\ q # <<>> => Head(q) \in Nodes[z] /\ Tail(q) \in Seq(Nodes[z])
         /\ <<>> \in Seq(Nodes[z])
<1>1. Nodes[z] \subseteq Written
  BY DEF Written
<1> QED
  BY <1>1

-----------------------------------------------------------------------------
(* Sequences that differ at their end.                                     *)

LEMMA AppendFacts ==
  ASSUME NEW S, NEW q \in Seq(S), NEW e \in S
  PROVE  /\ Append(q, e) \in Seq(S) /\ Append(q, e) # <<>>
         /\ Len(q) \in Nat /\ Len(Append(q, e)) = Len(q) + 1
         /\ \A i \in 1 .. Len(q) : Append(q, e)[i] = q[i]
         /\ Append(q, e)[Len(q) + 1] = e
OBVIOUS

LEMMA PrefixFacts ==
  ASSUME NEW S, NEW q \in Seq(S), Len(q) > 1
  PROVE  /\ SubSeq(q, 1, Len(q) - 1) \in Seq(S) /\ SubSeq(q, 1, Len(q) - 1) # <<>>
         /\ Len(q) - 1 \in Nat /\ Len(SubSeq(q, 1, Len(q) - 1)) = Len(q) - 1
         /\ \A i \in 1 .. Len(q) - 1 : SubSeq(q, 1, Len(q) - 1)[i] = q[i]
<1>1. Len(q) \in Nat /\ Len(q) - 1 \in Nat /\ Len(q) - 1 > 0 /\ 1 \in Int /\ Len(q) - 1 <= Len(q)
  OBVIOUS
<1>2. \A i \in 1 .. Len(q) - 1 : q[i] \in S
  BY <1>1
<1>3. /\ SubSeq(q, 1, Len(q) - 1) \in Seq(S) /\ SubSeq(q, 1, Len(q) - 1) # <<>>
      /\ Len(SubSeq(q, 1, Len(q) - 1)) = Len(q) - 1
      /\ \A i \in 1 .. Len(q) - 1 : SubSeq(q, 1, Len(q) - 1)[i] = q[i]
  <2> DEFINE n == Len(q) - 1
             p == SubSeq(q, 1, n)
  <2>1. n \in Int /\ n >= 1 /\ \A i \in 1 .. n : q[i] \in S
    BY <1>1, <1>2
  <2> HIDE DEF n
  <2>2. /\ p \in Seq(S) /\ Len(p) = IF 1 <= n THEN n - 1 + 1 ELSE 0
        /\ \A i \in 1 .. n - 1 + 1 : p[i] = q[1 + i - 1]
    BY <2>1, SubSeqProperties
  <2> HIDE DEF p
  <2>3. Len(p) = n /\ n - 1 + 1 = n
    BY <2>1, <2>2
  <2>4. ASSUME NEW i \in 1 .. n PROVE p[i] = q[i]
    <3>1. i \in 1 .. n - 1 + 1 /\ 1 + i - 1 = i
      BY <2>1, <2>3
    <3> QED
      BY <2>2, <3>1
  <2>5. Len(p) = Len(q) - 1
    BY <2>3 DEF n
  <2>6. \A i \in 1 .. Len(q) - 1 : p[i] = q[i]
    BY <2>4 DEF n
  <2>7. p # <<>>
    BY <2>1, <2>2, <2>3
  <2> QED
    BY <2>2, <2>5, <2>6, <2>7 DEF n, p
<1> QED
  BY <1>1, <1>3

LEMMA ReplaceFacts ==
  ASSUME NEW S, NEW q \in Seq(S), q # <<>>, NEW e \in S
  PROVE  /\ [q EXCEPT ![Len(q)] = e] \in Seq(S) /\ [q EXCEPT ![Len(q)] = e] # <<>>
         /\ Len(q) \in Nat \ {0} /\ Len([q EXCEPT ![Len(q)] = e]) = Len(q)
         /\ \A i \in 1 .. Len(q) - 1 : [q EXCEPT ![Len(q)] = e][i] = q[i]
         /\ [q EXCEPT ![Len(q)] = e][Len(q)] = e
OBVIOUS

-----------------------------------------------------------------------------
(* Counting frames.                                                        *)

SameKinds(r, s, i) == \A j \in 1 .. i : r[j].kind = s[j].kind

LEMMA CountsFinite ==
  ASSUME NEW s, NEW call \in Nat, NEW i \in Nat
  PROVE  /\ IsFiniteSet(Items(s, call, i)) /\ IsFiniteSet(CallsTo(s, i))
         /\ Cardinality(Items(s, call, i)) \in Nat /\ Cardinality(CallsTo(s, i)) \in Nat
<1>1. Items(s, call, i) \subseteq call .. i /\ CallsTo(s, i) \subseteq 1 .. i
  BY DEF Items, CallsTo
<1>2. IsFiniteSet(call .. i) /\ IsFiniteSet(1 .. i)
  BY FS_Interval
<1>3. IsFiniteSet(Items(s, call, i)) /\ IsFiniteSet(CallsTo(s, i))
  BY <1>1, <1>2, FS_Subset
<1> QED
  BY <1>3, FS_CardinalityType

LEMMA SameCounts ==
  ASSUME NEW r, NEW s, NEW i \in Nat, NEW k \in 1 .. i, SameKinds(r, s, i), NEW n, LoopCounted(s, k, n)
  PROVE  LoopCounted(r, k, n) /\ CallsTo(r, k) = CallsTo(s, k)
<1>1. PICK call \in 1 .. k :
        /\ s[call].kind \in CallKinds \cup {"flow"}
        /\ \A j \in call + 1 .. k : s[j].kind \notin CallKinds \cup {"flow"}
        /\ n = Cardinality(Items(s, call, k))
  BY DEF LoopCounted
<1>2. Items(r, call, k) = Items(s, call, k) /\ CallsTo(r, k) = CallsTo(s, k)
  BY DEF Items, CallsTo, SameKinds
<1>3. /\ r[call].kind \in CallKinds \cup {"flow"}
      /\ \A j \in call + 1 .. k : r[j].kind \notin CallKinds \cup {"flow"}
  BY <1>1 DEF SameKinds
<1> QED
  BY <1>1, <1>2, <1>3 DEF LoopCounted

LEMMA LoopPushed ==
  ASSUME NEW r, NEW s, NEW i \in Nat \ {0}, SameKinds(r, s, i), NEW n \in Nat, LoopCounted(s, i, n),
         r[i + 1].kind # "flow"
  PROVE  LoopCounted(r, i + 1, IF r[i + 1].kind = "item" THEN n + 1
                               ELSE IF r[i + 1].kind \in CallKinds THEN 0 ELSE n)
<1>1. PICK call \in 1 .. i :
        /\ s[call].kind \in CallKinds \cup {"flow"}
        /\ \A j \in call + 1 .. i : s[j].kind \notin CallKinds \cup {"flow"}
        /\ n = Cardinality(Items(s, call, i))
  BY DEF LoopCounted
<1>2. /\ r[call].kind \in CallKinds \cup {"flow"}
      /\ \A j \in call + 1 .. i : r[j].kind \notin CallKinds \cup {"flow"}
  BY <1>1 DEF SameKinds
<1>3. CASE r[i + 1].kind \in CallKinds
  <2>1. Items(r, i + 1, i + 1) = {}
    BY <1>3 DEF Items, CallKinds
  <2>2. Cardinality(Items(r, i + 1, i + 1)) = 0
    BY <2>1, FS_EmptySet
  <2>3. i + 1 \in 1 .. i + 1 /\ \A j \in (i + 1) + 1 .. i + 1 : FALSE
    OBVIOUS
  <2> QED
    BY <1>3, <2>2, <2>3 DEF LoopCounted, CallKinds
<1>4. CASE r[i + 1].kind \notin CallKinds
  <2>1. /\ call \in 1 .. i + 1
        /\ \A j \in call + 1 .. i + 1 : r[j].kind \notin CallKinds \cup {"flow"}
    BY <1>2, <1>4
  <2>2. CASE r[i + 1].kind = "item"
    <3>1. Items(r, call, i + 1) = Items(s, call, i) \cup {i + 1} /\ i + 1 \notin Items(s, call, i)
      BY <2>2 DEF Items, SameKinds
    <3>2. Cardinality(Items(r, call, i + 1)) = n + 1
      BY <3>1, <1>1, CountsFinite, FS_AddElement
    <3> QED
      BY <1>2, <2>1, <2>2, <3>2, <1>4 DEF LoopCounted
  <2>3. CASE r[i + 1].kind # "item"
    <3>1. Items(r, call, i + 1) = Items(s, call, i)
      BY <2>3 DEF Items, SameKinds
    <3> QED
      BY <1>1, <1>2, <2>1, <2>3, <3>1, <1>4 DEF LoopCounted
  <2> QED
    BY <2>2, <2>3
<1> QED
  BY <1>3, <1>4

LEMMA CallPushed ==
  ASSUME NEW r, NEW s, NEW i \in Nat \ {0}, SameKinds(r, s, i)
  PROVE  Cardinality(CallsTo(r, i + 1)) = Cardinality(CallsTo(s, i)) + Counted(r[i + 1].kind)
<1>1. CASE r[i + 1].kind \in CallKinds
  <2>1. CallsTo(r, i + 1) = CallsTo(s, i) \cup {i + 1} /\ i + 1 \notin CallsTo(s, i)
    BY <1>1 DEF CallsTo, SameKinds
  <2> QED
    BY <2>1, <1>1, CountsFinite, FS_AddElement DEF Counted
<1>2. CASE r[i + 1].kind \notin CallKinds
  <2>1. CallsTo(r, i + 1) = CallsTo(s, i)
    BY <1>2 DEF CallsTo, SameKinds
  <2>2. Cardinality(CallsTo(s, i)) \in Nat
    BY CountsFinite
  <2> QED
    BY <2>1, <2>2, <1>2 DEF Counted
<1> QED
  BY <1>1, <1>2

-----------------------------------------------------------------------------
(* A frame f is entered from the innermost one, whose context is c: it     *)
(* runs in zone z, with the context d.                                     *)
Enters(s, zs, c, f, z, d) ==
  LET u == s[Len(s)].kind
      y == zs[Len(s)]
  IN
  /\ f \in Frames /\ d \in Contexts /\ z = Inside(f.kind, y) /\ f.saved = c
  /\ Above(u, f) /\ InZone(f, z, y)
  /\ KeptBy(u, f.kind, z, c, d)
  /\ WellWritten => d.depth = c.depth + Counted(f.kind)

LEMMA Pushed ==
  ASSUME NEW s, NEW zs, NEW c, Agree(s, zs, c, "none"), NEW t, NEW f, NEW z, NEW d,
         Enters(s, zs, c, f, z, d)
  PROVE  Agree(Append(s, f), Append(zs, z), d, t)
<1> DEFINE r == Append(s, f)
           ys == Append(zs, z)
           n == Len(s)
<1>0. n = Len(s)
  OBVIOUS
<1>1. /\ s \in Seq(Frames) /\ s # <<>> /\ s[1].kind = "flow" /\ s[1].saved = Ctx0
      /\ \A i \in 1 .. n : i > 1 => Above(s[i - 1].kind, s[i])
      /\ zs \in Seq(Zones) /\ Len(zs) = n /\ zs[1] = Outside
  BY DEF Agree, Framed, Zoned
<1>z. \A i \in 1 .. n : /\ i > 1 => zs[i] = Inside(s[i].kind, zs[i - 1])
                        /\ InZone(s[i], zs[i], Below1(zs, i))
  BY DEF Agree, Zoned
<1>2. n \in Nat \ {0} /\ zs[n] \in Zones
  BY <1>1
<1>3. z \in Zones /\ f \in Frames
  BY <1>0, <1>2, InsideZone DEF Enters
<1>4. /\ r \in Seq(Frames) /\ r # <<>> /\ Len(r) = n + 1
      /\ \A i \in 1 .. n : r[i] = s[i]
      /\ r[n + 1] = f
  BY <1>1, <1>3, AppendFacts
<1>5. /\ ys \in Seq(Zones) /\ Len(ys) = n + 1
      /\ \A i \in 1 .. n : ys[i] = zs[i]
      /\ ys[n + 1] = z
  BY <1>1, <1>3, AppendFacts
<1> HIDE DEF r, ys, n
<1>6. Framed(r)
  <2>1. ASSUME NEW i \in 1 .. n + 1, i > 1 PROVE Above(r[i - 1].kind, r[i])
    <3>1. CASE i \in 1 .. n
      <4>1. i - 1 \in 1 .. n
        BY <1>2, <3>1, <2>1
      <4> QED
        BY <1>1, <1>4, <3>1, <4>1, <2>1
    <3>2. CASE i = n + 1
      <4>1. i - 1 = n
        BY <1>2, <3>2
      <4> QED
        BY <1>0, <1>2, <1>4, <3>2, <4>1 DEF Enters
    <3> QED
      BY <1>2, <3>1, <3>2
  <2>2. 1 \in 1 .. n
    BY <1>2
  <2> QED
    BY <1>1, <1>4, <2>1, <2>2 DEF Framed
<1>7. Zoned(r, ys)
  <2>1. ASSUME NEW i \in 1 .. n + 1
        PROVE  /\ i > 1 => ys[i] = Inside(r[i].kind, ys[i - 1])
               /\ InZone(r[i], ys[i], Below1(ys, i))
    <3>1. CASE i \in 1 .. n
      <4>1. i > 1 => i - 1 \in 1 .. n
        BY <1>2, <3>1
      <4>2. Below1(ys, i) = Below1(zs, i)
        BY <4>1, <3>1, <1>5 DEF Below1
      <4>3. r[i] = s[i] /\ ys[i] = zs[i] /\ (i > 1 => ys[i - 1] = zs[i - 1])
        BY <1>4, <1>5, <3>1, <4>1
      <4>4. (i > 1 => zs[i] = Inside(s[i].kind, zs[i - 1])) /\ InZone(s[i], zs[i], Below1(zs, i))
        BY <1>z, <3>1
      <4> QED
        BY <4>2, <4>3, <4>4
    <3>2. CASE i = n + 1
      <4>1. i - 1 = n /\ i # 1
        BY <1>2, <3>2
      <4>2. Below1(ys, i) = zs[n] /\ ys[i - 1] = zs[n] /\ r[i] = f /\ ys[i] = z
        BY <4>1, <3>2, <1>2, <1>4, <1>5 DEF Below1
      <4> QED
        BY <1>0, <4>2 DEF Enters
    <3> QED
      BY <1>2, <3>1, <3>2
  <2>2. ys[1] = Outside
    <3>1. 1 \in 1 .. n
      BY <1>2
    <3> QED
      BY <3>1, <1>1, <1>5
  <2> QED
    BY <1>4, <1>5, <2>1, <2>2 DEF Zoned
<1>8. SameKinds(r, s, n)
  BY <1>4 DEF SameKinds
<1>9. \A i \in 1 .. n : Level(r, d, i) = Level(s, c, i) /\ Under(r, i) = Under(s, i)
  <2> SUFFICES ASSUME NEW i \in 1 .. n
               PROVE  Level(r, d, i) = Level(s, c, i) /\ Under(r, i) = Under(s, i)
    OBVIOUS
  <2>1. i < n + 1 /\ i + 1 \in 1 .. n + 1 /\ (i > 1 => i - 1 \in 1 .. n) /\ i >= 1
    BY <1>2
  <2>2. CASE i < n
    <3>1. i + 1 \in 1 .. n
      BY <2>2, <1>2
    <3> QED
      BY <1>4, <2>1, <2>2, <3>1, <1>0 DEF Level, Under
  <2>3. CASE i = n
    <3>1. r[i + 1].saved = c
      BY <1>4, <2>3 DEF Enters
    <3>2. Level(r, d, i) = c /\ Level(s, c, i) = c
      BY <1>0, <1>4, <2>1, <2>3, <3>1 DEF Level
    <3> QED
      BY <1>4, <2>1, <3>2 DEF Under
  <2> QED
    BY <1>2, <2>2, <2>3
<1>10. /\ Level(r, d, n + 1) = d /\ Under(r, n + 1) = s[n].kind
       /\ Level(s, c, n) = c
  <2>1. n + 1 # 1 /\ n + 1 - 1 = n /\ ~(n + 1 < n + 1) /\ ~(n < n)
    BY <1>2
  <2> QED
    BY <2>1, <1>0, <1>2, <1>4 DEF Level, Under
<1>11. ASSUME NEW i \in 1 .. n + 1
       PROVE  /\ KeptBy(Under(r, i), r[i].kind, ys[i], r[i].saved, Level(r, d, i))
              /\ LoopCounted(r, i, Level(r, d, i).loopDepth)
  <2>1. CASE i \in 1 .. n
    <3>1. /\ KeptBy(Under(s, i), s[i].kind, zs[i], s[i].saved, Level(s, c, i))
          /\ LoopCounted(s, i, Level(s, c, i).loopDepth)
      BY <1>0, <2>1 DEF Agree
    <3> QED
      BY <3>1, <2>1, <1>2, <1>4, <1>5, <1>8, <1>9, SameCounts
  <2>2. CASE i = n + 1
    <3>1. LoopCounted(s, n, c.loopDepth) /\ c.loopDepth \in Nat
      BY <1>0, <1>2, <1>10 DEF Agree, Contexts
    <3>2. LoopCounted(r, n + 1, IF f.kind = "item" THEN c.loopDepth + 1
                                ELSE IF f.kind \in CallKinds THEN 0 ELSE c.loopDepth)
      BY <3>1, <1>2, <1>4, <1>8, LoopPushed, <1>0 DEF Above, Enters
    <3>3. d.loopDepth = IF f.kind = "item" THEN c.loopDepth + 1
                        ELSE IF f.kind \in CallKinds THEN 0 ELSE c.loopDepth
      BY DEF KeptBy, Enters, CallKinds
    <3>4. LoopCounted(r, n + 1, d.loopDepth)
      BY <3>2, <3>3
    <3> QED
      BY <2>2, <3>4, <1>0, <1>4, <1>5, <1>10 DEF Enters
  <2> QED
    BY <1>2, <2>1, <2>2
<1>12. WellWritten => Exact(r, ys, d, t)
  <2> SUFFICES ASSUME WellWritten, NEW i \in 1 .. n + 1
               PROVE  /\ Level(r, d, i).depth = r[i].saved.depth + Counted(r[i].kind)
                      /\ Level(r, d, i).depth = Cardinality(CallsTo(r, i))
    BY <1>4 DEF Exact
  <2>1. \A j \in 1 .. n : /\ Level(s, c, j).depth = s[j].saved.depth + Counted(s[j].kind)
                          /\ Level(s, c, j).depth = Cardinality(CallsTo(s, j))
    <3> SUFFICES ASSUME NEW j \in 1 .. n
                 PROVE  /\ Level(s, c, j).depth = s[j].saved.depth + Counted(s[j].kind)
                        /\ Level(s, c, j).depth = Cardinality(CallsTo(s, j))
      OBVIOUS
    <3>1. Exact(s, zs, c, "none")
      BY DEF Agree
    <3> QED
      BY <3>1, <1>0 DEF Exact
  <2>2. CASE i \in 1 .. n
    <3>1. CallsTo(r, i) = CallsTo(s, i)
      BY <2>2, <1>2, <1>8 DEF CallsTo, SameKinds
    <3>2. r[i] = s[i] /\ Level(r, d, i) = Level(s, c, i)
      BY <2>2, <1>4, <1>9
    <3>3. /\ Level(s, c, i).depth = s[i].saved.depth + Counted(s[i].kind)
          /\ Level(s, c, i).depth = Cardinality(CallsTo(s, i))
      BY <2>1, <2>2
    <3> QED
      BY <3>1, <3>2, <3>3
  <2>3. CASE i = n + 1
    <3>1. Cardinality(CallsTo(r, n + 1)) = Cardinality(CallsTo(s, n)) + Counted(f.kind)
      BY <1>2, <1>4, <1>8, CallPushed
    <3> QED
      BY <2>1, <2>3, <1>2, <1>4, <1>10, <3>1 DEF Enters
  <2> QED
    BY <1>2, <2>2, <2>3
<1> QED
  BY <1>4, <1>6, <1>7, <1>11, <1>12 DEF Agree, Enters, r, ys

(* The innermost frame becomes the one at m, perhaps with other nodes, and *)
(* its context d.                                                          *)
Retops(s, zs, c, t0, r, m, d, t) ==
  /\ m \in 1 .. Len(s) /\ r \in Seq(Frames) /\ r # <<>> /\ Len(r) = m /\ d \in Contexts
  /\ \A i \in 1 .. m - 1 : r[i] = s[i]
  /\ r[m].kind = s[m].kind /\ r[m].saved = s[m].saved
  /\ r[m].kind \in LoopKinds \cup {"chunks"} => r[m].rest = <<>>
  /\ InZone(r[m], zs[m], Below1(zs, m))
  /\ KeptBy(Under(s, m), s[m].kind, zs[m], s[m].saved, d)
  /\ d.loopDepth = Level(s, c, m).loopDepth
  /\ WellWritten /\ (t = "none" \/ zs[m].caught) =>
       /\ d.depth = Level(s, c, m).depth
       /\ m < Len(s) \/ t0 = "none" \/ zs[m].caught

LEMMA Retopped ==
  ASSUME NEW s, NEW zs, NEW c, NEW t0, Agree(s, zs, c, t0),
         NEW r, NEW m, NEW d, NEW t, Retops(s, zs, c, t0, r, m, d, t),
         NEW ys, ys \in Seq(Zones), Len(ys) = m, \A i \in 1 .. m : ys[i] = zs[i]
  PROVE  Agree(r, ys, d, t)
<1>1. /\ s \in Seq(Frames) /\ s # <<>> /\ s[1].kind = "flow" /\ s[1].saved = Ctx0
      /\ zs \in Seq(Zones) /\ Len(zs) = Len(s) /\ zs[1] = Outside
  BY DEF Agree, Framed, Zoned
<1>z. \A i \in 1 .. Len(s) : /\ i > 1 => zs[i] = Inside(s[i].kind, zs[i - 1])
                             /\ InZone(s[i], zs[i], Below1(zs, i))
  BY DEF Agree, Zoned
<1>2. /\ Len(s) \in Nat \ {0} /\ m \in 1 .. Len(s) /\ m \in Nat \ {0}
      /\ r \in Seq(Frames) /\ r # <<>> /\ Len(r) = m
  BY <1>1 DEF Retops
<1>3. /\ \A i \in 1 .. m - 1 : r[i] = s[i]
      /\ r[m].kind = s[m].kind /\ r[m].saved = s[m].saved
  BY DEF Retops
<1>4. \A i \in 1 .. m : /\ r[i].kind = s[i].kind /\ r[i].saved = s[i].saved
                        /\ i \in 1 .. Len(s) /\ (i < m => i \in 1 .. m - 1)
                        /\ (i > 1 => i - 1 \in 1 .. m - 1 /\ i - 1 \in 1 .. m)
  <2> SUFFICES ASSUME NEW i \in 1 .. m
               PROVE  /\ r[i].kind = s[i].kind /\ r[i].saved = s[i].saved
                      /\ i \in 1 .. Len(s) /\ (i < m => i \in 1 .. m - 1)
                      /\ (i > 1 => i - 1 \in 1 .. m - 1 /\ i - 1 \in 1 .. m)
    OBVIOUS
  <2>1. /\ i \in 1 .. Len(s) /\ (i < m => i \in 1 .. m - 1)
        /\ (i > 1 => i - 1 \in 1 .. m - 1 /\ i - 1 \in 1 .. m)
        /\ (i = m \/ i < m)
    BY <1>2
  <2> QED
    BY <2>1, <1>3
<1>5. Framed(r)
  <2>1. ASSUME NEW i \in 1 .. m, i > 1 PROVE Above(r[i - 1].kind, r[i])
    <3>1. Above(s[i - 1].kind, s[i])
      BY <2>1, <1>4 DEF Agree, Framed
    <3>2. r[i - 1].kind = s[i - 1].kind /\ r[i].kind = s[i].kind
      BY <2>1, <1>4
    <3>3. CASE i < m
      BY <3>1, <3>2, <3>3, <1>3, <1>4
    <3>4. CASE i = m
      <4>1. r[m].kind \in LoopKinds \cup {"chunks"} => r[m].rest = <<>>
        BY DEF Retops
      <4> QED
        BY <3>1, <3>2, <3>4, <4>1 DEF Above
    <3> QED
      BY <1>2, <3>3, <3>4
  <2>2. 1 \in 1 .. m
    BY <1>2
  <2>3. r[1].kind = "flow" /\ r[1].saved = Ctx0
    BY <1>1, <1>4, <2>2
  <2> QED
    BY <1>2, <2>1, <2>3 DEF Framed
<1>6. Zoned(r, ys)
  <2>1. ASSUME NEW i \in 1 .. m
        PROVE  /\ i > 1 => ys[i] = Inside(r[i].kind, ys[i - 1])
               /\ InZone(r[i], ys[i], Below1(ys, i))
    <3>1. ys[i] = zs[i] /\ r[i].kind = s[i].kind /\ (i > 1 => ys[i - 1] = zs[i - 1])
      BY <1>4
    <3>2. Below1(ys, i) = Below1(zs, i)
      BY <3>1, <1>2 DEF Below1
    <3>3. /\ i > 1 => zs[i] = Inside(s[i].kind, zs[i - 1])
          /\ InZone(s[i], zs[i], Below1(zs, i))
      BY <1>4, <1>z
    <3>4. InZone(r[i], zs[i], Below1(zs, i))
      <4>1. CASE i < m
        <5>1. r[i] = s[i]
          BY <4>1, <1>3, <1>4
        <5> QED
          BY <5>1, <3>3
      <4>2. CASE i = m
        BY <4>2 DEF Retops
      <4> QED
        BY <1>2, <4>1, <4>2
    <3> QED
      BY <3>1, <3>2, <3>3, <3>4
  <2>2. ys[1] = Outside
    BY <1>1, <1>2
  <2> QED
    BY <1>2, <2>1, <2>2 DEF Zoned
<1>7. SameKinds(r, s, m)
  BY <1>4 DEF SameKinds
<1>8. /\ \A i \in 1 .. m : Under(r, i) = Under(s, i)
      /\ \A i \in 1 .. m - 1 : Level(r, d, i) = Level(s, c, i)
      /\ Level(r, d, m) = d
  <2>1. ASSUME NEW i \in 1 .. m PROVE Under(r, i) = Under(s, i)
    <3>1. i # 1 => r[i - 1].kind = s[i - 1].kind
      <4>1. i # 1 => i > 1
        BY <1>2
      <4> QED
        BY <4>1, <1>4
    <3> QED
      BY <3>1 DEF Under
  <2>2. ASSUME NEW i \in 1 .. m - 1 PROVE Level(r, d, i) = Level(s, c, i)
    <3>1. i + 1 \in 1 .. m /\ i < m /\ i < Len(s)
      BY <1>2
    <3>2. r[i + 1].saved = s[i + 1].saved
      BY <3>1, <1>4
    <3> QED
      BY <3>1, <3>2, <1>2 DEF Level
  <2>3. Level(r, d, m) = d
    BY <1>2 DEF Level
  <2> QED
    BY <2>1, <2>2, <2>3
<1>9. ASSUME NEW i \in 1 .. m
      PROVE  /\ KeptBy(Under(r, i), r[i].kind, ys[i], r[i].saved, Level(r, d, i))
             /\ LoopCounted(r, i, Level(r, d, i).loopDepth)
  <2>1. /\ KeptBy(Under(s, i), s[i].kind, zs[i], s[i].saved, Level(s, c, i))
        /\ LoopCounted(s, i, Level(s, c, i).loopDepth)
    BY <1>4 DEF Agree
  <2>2. LoopCounted(r, i, Level(s, c, i).loopDepth)
    BY <2>1, <1>2, <1>7, SameCounts
  <2>3. Under(r, i) = Under(s, i) /\ ys[i] = zs[i] /\ r[i].kind = s[i].kind
        /\ r[i].saved = s[i].saved
    BY <1>4, <1>8
  <2>4. CASE i < m
    <3>1. Level(r, d, i) = Level(s, c, i)
      BY <2>4, <1>4, <1>8
    <3> QED
      BY <2>1, <2>2, <2>3, <3>1
  <2>5. CASE i = m
    <3>1. /\ KeptBy(Under(s, m), s[m].kind, zs[m], s[m].saved, d)
          /\ d.loopDepth = Level(s, c, m).loopDepth
      BY DEF Retops
    <3> QED
      BY <2>2, <2>3, <2>5, <3>1, <1>8
  <2> QED
    BY <1>2, <2>4, <2>5
<1>10. WellWritten => Exact(r, ys, d, t)
  <2> SUFFICES ASSUME WellWritten, NEW i \in 1 .. m, i < m \/ t = "none" \/ zs[i].caught
               PROVE  /\ Level(r, d, i).depth = r[i].saved.depth + Counted(r[i].kind)
                      /\ Level(r, d, i).depth = Cardinality(CallsTo(r, i))
    BY <1>2 DEF Exact
  <2>1. i < Len(s) \/ t0 = "none" \/ zs[i].caught
    BY <1>2 DEF Retops
  <2>2. /\ Level(s, c, i).depth = s[i].saved.depth + Counted(s[i].kind)
        /\ Level(s, c, i).depth = Cardinality(CallsTo(s, i))
    <3>1. Exact(s, zs, c, t0)
      BY DEF Agree
    <3> QED
      BY <3>1, <2>1, <1>4 DEF Exact
  <2>3. CallsTo(r, i) = CallsTo(s, i)
    BY <1>2, <1>7 DEF CallsTo, SameKinds
  <2>4. Level(r, d, i).depth = Level(s, c, i).depth
    <3>1. CASE i < m
      BY <3>1, <1>4, <1>8
    <3>2. CASE i = m
      BY <3>2, <1>8 DEF Retops
    <3> QED
      BY <1>2, <3>1, <3>2
  <2>5. r[i].saved = s[i].saved /\ r[i].kind = s[i].kind
    BY <1>4
  <2> QED
    BY <2>2, <2>3, <2>4, <2>5
<1> QED
  BY <1>2, <1>5, <1>6, <1>9, <1>10 DEF Agree, Retops

-----------------------------------------------------------------------------
(* What the finally clause of a frame f makes of the context c.            *)
LEMMA FinallyFields ==
  ASSUME NEW f \in Frames, NEW c \in Contexts
  PROVE  LET r == Finally(f, c)
             b == f.saved
         IN  /\ f.kind = "item" =>
                  /\ r = [c EXCEPT !.loopDepth = c.loopDepth - 1, !.skipping = FALSE,
                                   !.stopped = IF c.skipping THEN FALSE ELSE c.stopped]
             /\ f.kind = "forEach" => r = [c EXCEPT !.current = b.current]
             /\ f.kind \in CallKinds => r = [b EXCEPT !.depth = c.depth - 1]
             /\ f.kind = "slot" =>
                  r = [c EXCEPT !.local = b.local, !.returned = b.returned, !.stopped = b.stopped]
             /\ f.kind \notin {"item", "forEach", "slot"} \cup CallKinds => r = c
<1>1. c \in Contexts /\ f.saved \in Contexts
  BY DEF Frames
<1>2. CASE f.kind = "item"
  <2>1. Finally(f, c) = ItemEnd(c)
    BY <1>2 DEF Finally
  <2>2. ItemEnd(c) = [c EXCEPT !.loopDepth = c.loopDepth - 1, !.skipping = FALSE,
                               !.stopped = IF c.skipping THEN FALSE ELSE c.stopped]
    <3>1. CASE c.skipping
      BY <3>1, <1>1 DEF ItemEnd, Contexts
    <3>2. CASE ~c.skipping
      <4>1. c.skipping = FALSE
        BY <3>2, <1>1 DEF Contexts
      <4> QED
        BY <4>1, <1>1 DEF ItemEnd, Contexts
    <3> QED
      BY <3>1, <3>2
  <2> QED
    BY <1>2, <2>1, <2>2 DEF CallKinds
<1>3. CASE f.kind = "forEach"
  BY <1>3 DEF Finally, CallKinds
<1>4. CASE f.kind \in CallKinds
  BY <1>4 DEF Finally, CallEnd, CallKinds
<1>5. CASE f.kind = "slot"
  BY <1>5 DEF Finally, SlotEnd, CallKinds
<1>6. CASE f.kind \notin {"item", "forEach", "slot"} \cup CallKinds
  BY <1>6 DEF Finally, CallKinds
<1> QED
  BY <1>2, <1>3, <1>4, <1>5, <1>6

(* A frame f is left: its finally clause gives back, to the frame of kind  *)
(* u below it, what that frame relies on.                                  *)
Leaves(v, u, y, bb, f, c) ==
  /\ f \in Frames /\ c \in Contexts /\ y \in Zones /\ bb \in Contexts /\ Above(u, f)
  /\ KeptBy(u, f.kind, Inside(f.kind, y), f.saved, c)
  /\ KeptBy(v, u, y, bb, f.saved)

LEMMA Left ==
  ASSUME NEW v, NEW u, NEW y, NEW bb, NEW f, NEW c, Leaves(v, u, y, bb, f, c)
  PROVE  LET r == Finally(f, c)
         IN  /\ r \in Contexts /\ KeptBy(v, u, y, bb, r) /\ r.loopDepth = f.saved.loopDepth
             /\ c.depth = f.saved.depth + Counted(f.kind) => r.depth = f.saved.depth
<1> DEFINE r == Finally(f, c)
           b == f.saved
           z == Inside(f.kind, y)
<1>1. f \in Frames /\ c \in Contexts /\ b \in Contexts /\ y \in Zones /\ bb \in Contexts
  BY DEF Leaves, Frames
<1>2. /\ z.loop = IF f.kind = "item" THEN TRUE ELSE IF f.kind \in CallKinds THEN FALSE ELSE y.loop
      /\ z.chunk = IF f.kind = "slot" THEN y.loop
                   ELSE IF f.kind = "item" \/ f.kind \in CallKinds THEN FALSE ELSE y.chunk
      /\ y.loop \in BOOLEAN /\ y.chunk \in BOOLEAN
  <2>1. y \in Zones
    BY <1>1
  <2>2. y.loop \in BOOLEAN /\ y.chunk \in BOOLEAN
    BY <2>1 DEF Zones
  <2>3. z.loop = IF f.kind = "item" THEN TRUE ELSE IF f.kind \in CallKinds THEN FALSE ELSE y.loop
    BY <2>1, InsideZone
  <2>4. z.chunk = IF f.kind = "slot" THEN y.loop
                  ELSE IF f.kind = "item" \/ f.kind \in CallKinds THEN FALSE ELSE y.chunk
    BY <2>1, InsideZone
  <2> QED
    BY <2>2, <2>3, <2>4
<1>3. /\ f.kind = "item" <=> u \in LoopKinds
      /\ f.kind = "slot" <=> u = "chunks"
      /\ f.kind # "flow"
  BY DEF Leaves, Above
<1>4. KeptBy(u, f.kind, z, b, c) /\ KeptBy(v, u, y, bb, b)
  BY DEF Leaves
<1>5. /\ f.kind = "item" =>
             r = [c EXCEPT !.loopDepth = c.loopDepth - 1, !.skipping = FALSE,
                           !.stopped = IF c.skipping THEN FALSE ELSE c.stopped]
      /\ f.kind = "forEach" => r = [c EXCEPT !.current = b.current]
      /\ f.kind \in CallKinds => r = [b EXCEPT !.depth = c.depth - 1]
      /\ f.kind = "slot" =>
             r = [c EXCEPT !.local = b.local, !.returned = b.returned, !.stopped = b.stopped]
      /\ f.kind \notin {"item", "forEach", "slot"} \cup CallKinds => r = c
  BY <1>1, FinallyFields
<1> HIDE DEF r, b, z
<1>6. /\ c.depth >= b.depth + Counted(f.kind) /\ c.local = b.local + Fresh(f.kind)
      /\ ~Loose(u, f.kind) => c.current = b.current
      /\ c.loopDepth = CASE f.kind = "item" -> b.loopDepth + 1
                         [] f.kind \in CallKinds -> 0
                         [] OTHER -> b.loopDepth
      /\ c.skipping => c.loopDepth > 0
      /\ c.stopped => c.returned \/ c.skipping
      /\ f.kind = "chunks" => ~c.stopped
      /\ f.kind # "catch" => ~b.stopped
      /\ WellWritten => Flags(z, c)
  BY <1>4 DEF KeptBy
<1>7. /\ b.depth >= bb.depth + Counted(u) /\ b.local = bb.local + Fresh(u)
      /\ ~Loose(v, u) => b.current = bb.current
      /\ b.loopDepth = CASE u = "item" -> bb.loopDepth + 1
                         [] u \in CallKinds -> 0
                         [] OTHER -> bb.loopDepth
      /\ b.skipping => b.loopDepth > 0
      /\ b.stopped => b.returned \/ b.skipping
      /\ u = "chunks" => ~b.stopped
      /\ u # "catch" => ~bb.stopped
      /\ y.loop <=> b.loopDepth > 0
      /\ WellWritten => Flags(y, b)
  BY <1>4 DEF KeptBy
<1>8. /\ c.depth \in Nat /\ b.depth \in Nat /\ c.loopDepth \in Nat /\ b.loopDepth \in Nat
      /\ bb.depth \in Nat /\ c.local \in Nat /\ b.local \in Nat /\ Counted(f.kind) \in Nat
      /\ Counted(u) \in Nat
      /\ c.skipping \in BOOLEAN /\ c.stopped \in BOOLEAN /\ c.returned \in BOOLEAN
      /\ b.skipping \in BOOLEAN /\ b.stopped \in BOOLEAN /\ b.returned \in BOOLEAN
  BY <1>1 DEF Contexts, Counted
(* It is enough that r agrees with b where the frame below relies on it.   *)
<1>9. ASSUME r \in Contexts, r.local = b.local, r.loopDepth = b.loopDepth, r.depth >= b.depth,
             ~Loose(v, u) => r.current = b.current,
             r.skipping => r.loopDepth > 0,
             r.stopped => r.returned \/ r.skipping,
             u = "chunks" => ~r.stopped,
             WellWritten => Flags(y, r)
      PROVE  KeptBy(v, u, y, bb, r)
  <2>1. r.depth >= bb.depth + Counted(u)
    <3>1. r.depth \in Nat
      BY <1>9 DEF Contexts
    <3> QED
      BY <1>7, <1>8, <1>9, <3>1
  <2> QED
    BY <1>7, <1>9, <2>1 DEF KeptBy
<1>10. CASE f.kind = "item"
  <2>1. r = [c EXCEPT !.loopDepth = c.loopDepth - 1, !.skipping = FALSE,
                      !.stopped = IF c.skipping THEN FALSE ELSE c.stopped]
    BY <1>5, <1>10
  <2>2. c.loopDepth = b.loopDepth + 1
    BY <1>6, <1>10 DEF CallKinds
  <2>3. /\ r \in Contexts /\ r.local = c.local /\ r.loopDepth = b.loopDepth /\ r.depth = c.depth
        /\ r.current = c.current /\ r.skipping = FALSE /\ r.returned = c.returned
        /\ r.stopped = IF c.skipping THEN FALSE ELSE c.stopped
    <3> DEFINE w == IF c.skipping THEN FALSE ELSE c.stopped
               m == c.loopDepth - 1
    <3>1. w \in BOOLEAN /\ m \in Nat /\ m = b.loopDepth
      <4>1. w \in BOOLEAN
        <5>1. c.stopped \in BOOLEAN
          BY <1>8
        <5>2. CASE c.skipping
          BY <5>2
        <5>3. CASE ~c.skipping
          BY <5>1, <5>3
        <5> QED
          BY <5>2, <5>3
      <4>2. m \in Nat /\ m = b.loopDepth
        BY <1>8, <2>2
      <4> QED
        BY <4>1, <4>2
    <3>2. r = [c EXCEPT !.loopDepth = m, !.skipping = FALSE, !.stopped = w]
      BY <2>1
    <3> HIDE DEF w, m
    <3>3. /\ r \in Contexts /\ r.local = c.local /\ r.loopDepth = m /\ r.depth = c.depth
          /\ r.current = c.current /\ r.skipping = FALSE /\ r.returned = c.returned
          /\ r.stopped = w
      BY <1>1, <3>1, <3>2 DEF Contexts
    <3> QED
      BY <3>1, <3>3 DEF w
  <2>4. r.stopped => c.stopped /\ ~c.skipping
    BY <2>3
  <2>5. Counted(f.kind) = 0 /\ Fresh(f.kind) = 0
    BY <1>10 DEF Counted, Fresh, CallKinds
  <2>6. ~Loose(v, u) => r.current = b.current
    BY <1>3, <1>6, <1>10, <2>3 DEF Loose
  <2>7. WellWritten => Flags(y, r)
    <3> SUFFICES ASSUME WellWritten PROVE Flags(y, r)
      OBVIOUS
    <3>1. (c.stopped <=> c.returned \/ c.skipping) /\ ~(c.returned /\ c.skipping)
      BY <1>6 DEF Flags
    <3>2. r.stopped <=> r.returned
      BY <3>1, <2>3, <1>8
    <3> QED
      BY <3>2, <2>3 DEF Flags
  <2>8. u # "chunks"
    BY <1>3, <1>10 DEF LoopKinds
  <2>9. KeptBy(v, u, y, bb, r)
    <3>1. r.local = b.local /\ r.depth >= b.depth
      BY <1>6, <1>8, <2>3, <2>5
    <3>2. r.stopped => r.returned \/ r.skipping
      BY <1>6, <2>3, <2>4
    <3> QED
      BY <1>9, <2>3, <2>6, <2>7, <2>8, <3>1, <3>2
  <2> QED
    BY <1>8, <2>3, <2>5, <2>9 DEF r, b
<1>11. CASE f.kind = "forEach"
  <2>1. r = [c EXCEPT !.current = b.current]
    BY <1>5, <1>11
  <2>2. c.loopDepth = b.loopDepth
    BY <1>6, <1>11 DEF CallKinds
  <2>3. /\ r \in Contexts /\ r.local = c.local /\ r.loopDepth = b.loopDepth /\ r.depth = c.depth
        /\ r.current = b.current /\ r.skipping = c.skipping /\ r.returned = c.returned
        /\ r.stopped = c.stopped
    BY <1>1, <1>8, <2>1, <2>2 DEF Contexts
  <2>4. Counted(f.kind) = 0 /\ Fresh(f.kind) = 0 /\ u # "chunks" /\ z.loop = y.loop /\ z.chunk = y.chunk
    BY <1>2, <1>3, <1>11 DEF Counted, Fresh, CallKinds
  <2>5. WellWritten => Flags(y, r)
    BY <1>6, <2>3, <2>4 DEF Flags
  <2>6. KeptBy(v, u, y, bb, r)
    <3>1. r.local = b.local /\ r.depth >= b.depth
      BY <1>6, <1>8, <2>3, <2>4
    <3>2. (r.stopped => r.returned \/ r.skipping) /\ (r.skipping => r.loopDepth > 0)
      BY <1>6, <2>2, <2>3
    <3> QED
      BY <1>9, <2>3, <2>4, <2>5, <3>1, <3>2
  <2> QED
    BY <1>8, <2>3, <2>4, <2>6 DEF r, b
<1>12. CASE f.kind \in CallKinds
  <2>1. r = [b EXCEPT !.depth = c.depth - 1]
    BY <1>5, <1>12
  <2>2. Counted(f.kind) = 1 /\ u # "chunks"
    BY <1>3, <1>12 DEF Counted, CallKinds
  <2> DEFINE n == c.depth - 1
  <2>3. n \in Nat /\ n >= b.depth /\ (c.depth = b.depth + Counted(f.kind) => n = b.depth)
    BY <1>6, <1>8, <2>2
  <2> HIDE DEF n
  <2>4. /\ r \in Contexts /\ r.local = b.local /\ r.loopDepth = b.loopDepth /\ r.depth = n
        /\ r.current = b.current /\ r.skipping = b.skipping /\ r.returned = b.returned
        /\ r.stopped = b.stopped
    <3>1. r = [b EXCEPT !.depth = n]
      BY <2>1 DEF n
    <3> QED
      BY <1>1, <2>3, <3>1 DEF Contexts
  <2>5. WellWritten => Flags(y, r)
    BY <1>7, <2>4 DEF Flags
  <2>6. KeptBy(v, u, y, bb, r)
    <3>1. (r.stopped => r.returned \/ r.skipping) /\ (r.skipping => r.loopDepth > 0)
      BY <1>7, <2>4
    <3> QED
      BY <1>9, <2>2, <2>3, <2>4, <2>5, <3>1
  <2> QED
    BY <2>3, <2>4, <2>6 DEF r, b
<1>13. CASE f.kind = "slot"
  <2>1. r = [c EXCEPT !.local = b.local, !.returned = b.returned, !.stopped = b.stopped]
    BY <1>5, <1>13
  <2>2. c.loopDepth = b.loopDepth /\ ~b.stopped /\ c.current = b.current
    BY <1>6, <1>13 DEF CallKinds, Loose
  <2>3. /\ r \in Contexts /\ r.local = b.local /\ r.loopDepth = b.loopDepth /\ r.depth = c.depth
        /\ r.current = b.current /\ r.skipping = c.skipping /\ r.returned = b.returned
        /\ r.stopped = b.stopped
    BY <1>1, <1>8, <2>1, <2>2 DEF Contexts
  <2>4. Counted(f.kind) = 0
    BY <1>13 DEF Counted, CallKinds
  <2>5. WellWritten => Flags(y, r)
    <3> SUFFICES ASSUME WellWritten PROVE Flags(y, r)
      OBVIOUS
    <3>1. z.loop = y.loop /\ z.chunk = y.loop
      BY <1>2, <1>13 DEF CallKinds
    <3>2. ~c.skipping
      BY <1>2, <1>6, <3>1 DEF Flags
    <3>3. ~b.returned
      BY <1>7, <2>2 DEF Flags
    <3> QED
      BY <2>2, <2>3, <3>2, <3>3 DEF Flags
  <2>6. KeptBy(v, u, y, bb, r)
    <3>1. r.depth >= b.depth
      BY <1>6, <1>8, <2>3, <2>4
    <3>2. ~r.stopped /\ (r.skipping => r.loopDepth > 0)
      BY <1>6, <2>2, <2>3
    <3> QED
      BY <1>9, <2>3, <2>5, <3>1, <3>2
  <2> QED
    BY <1>8, <2>3, <2>4, <2>6 DEF r, b
<1>14. CASE f.kind \notin {"item", "forEach", "slot"} \cup CallKinds
  <2>1. r = c
    BY <1>5, <1>14
  <2>2. /\ c.loopDepth = b.loopDepth /\ c.current = b.current /\ Counted(f.kind) = 0
        /\ Fresh(f.kind) = 0 /\ u # "chunks" /\ z.loop = y.loop /\ z.chunk = y.chunk
    BY <1>2, <1>3, <1>6, <1>14 DEF Counted, Fresh, CallKinds, Loose
  <2>3. WellWritten => Flags(y, r)
    BY <1>6, <2>1, <2>2 DEF Flags
  <2>4. KeptBy(v, u, y, bb, r)
    <3>1. r.local = b.local /\ r.depth >= b.depth
      BY <1>6, <1>8, <2>1, <2>2
    <3>2. (r.stopped => r.returned \/ r.skipping) /\ (r.skipping => r.loopDepth > 0)
      BY <1>6, <2>1
    <3> QED
      BY <1>1, <1>9, <2>1, <2>2, <2>3, <3>1, <3>2
  <2> QED
    BY <1>1, <1>8, <2>1, <2>2, <2>4 DEF r, b
<1> QED
  BY <1>10, <1>11, <1>12, <1>13, <1>14

-----------------------------------------------------------------------------
(* The innermost frame.                                                    *)

LEMMA TopFacts ==
  ASSUME NEW s, NEW zs, NEW c, NEW t, Agree(s, zs, c, t)
  PROVE  LET n == Len(s)
         IN  /\ n \in Nat \ {0} /\ s[n] \in Frames /\ zs[n] \in Zones /\ c \in Contexts
             /\ InZone(s[n], zs[n], Below1(zs, n))
             /\ KeptBy(Under(s, n), s[n].kind, zs[n], s[n].saved, c)
             /\ s[n].kind \in LoopKinds \cup {"chunks"} => s[n].rest = <<>>
             /\ s[n].kind = "flow" <=> n = 1
<1> DEFINE n == Len(s)
<1>1. s \in Seq(Frames) /\ s # <<>> /\ s[1].kind = "flow" /\ zs \in Seq(Zones) /\ Len(zs) = n
  BY DEF Agree, Framed, Zoned
<1>2. n \in Nat \ {0} /\ n \in 1 .. n
  BY <1>1
<1>3. s[n] \in Frames /\ zs[n] \in Zones
  BY <1>1, <1>2
<1>4. InZone(s[n], zs[n], Below1(zs, n))
  BY <1>2 DEF Agree, Zoned
<1>5. Level(s, c, n) = c
  BY <1>2 DEF Level
<1>6. KeptBy(Under(s, n), s[n].kind, zs[n], s[n].saved, Level(s, c, n))
  BY <1>2 DEF Agree
<1>7. n > 1 => Above(s[n - 1].kind, s[n])
  BY <1>2 DEF Agree, Framed
<1>8. CASE n = 1
  BY <1>1, <1>2, <1>3, <1>4, <1>5, <1>6, <1>8 DEF LoopKinds, Agree
<1>9. CASE n > 1
  BY <1>2, <1>3, <1>4, <1>5, <1>6, <1>7, <1>9 DEF Above, Agree
<1>10. n = 1 \/ n > 1
  <2> HIDE DEF n
  <2> QED
    BY <1>2
<1> QED
  BY <1>8, <1>9, <1>10

(* The innermost frame becomes e, with the context d.                      *)
Replaces(s, zs, c, e, d) ==
  LET n == Len(s)
  IN  /\ e \in Frames /\ d \in Contexts /\ e.kind = s[n].kind /\ e.saved = s[n].saved
      /\ e.kind \in LoopKinds \cup {"chunks"} => e.rest = <<>>
      /\ InZone(e, zs[n], Below1(zs, n))
      /\ KeptBy(Under(s, n), s[n].kind, zs[n], s[n].saved, d)
      /\ d.loopDepth = c.loopDepth
      /\ d.depth = c.depth

LEMMA Replaced ==
  ASSUME NEW s, NEW zs, NEW c, Agree(s, zs, c, "none"), NEW e, NEW d, Replaces(s, zs, c, e, d)
  PROVE  Agree([s EXCEPT ![Len(s)] = e], zs, d, "none")
<1> DEFINE r == [s EXCEPT ![Len(s)] = e]
           n == Len(s)
<1>1. s \in Seq(Frames) /\ s # <<>> /\ zs \in Seq(Zones) /\ Len(zs) = n
  BY DEF Agree, Framed, Zoned
<1>2. e \in Frames
  BY DEF Replaces
<1>3. /\ r \in Seq(Frames) /\ r # <<>> /\ n \in Nat \ {0} /\ Len(r) = n
      /\ \A i \in 1 .. n - 1 : r[i] = s[i]
      /\ r[n] = e
  BY <1>1, <1>2, ReplaceFacts
<1>4. Level(s, c, n) = c /\ n \in 1 .. n
  BY <1>3 DEF Level
<1> HIDE DEF r
<1>5. Retops(s, zs, c, "none", r, n, d, "none")
  BY <1>3, <1>4 DEF Retops, Replaces
<1>6. Agree(r, zs, d, "none")
  BY <1>1, <1>5, Retopped
<1> QED
  BY <1>6 DEF r

(* The innermost list is past its first node.                              *)
LEMMA Advancing ==
  ASSUME NEW s, NEW zs, NEW c, Agree(s, zs, c, "none"), s[Len(s)].rest # <<>>,
         NEW d \in Contexts, d.loopDepth = c.loopDepth, d.depth = c.depth,
         KeptBy(Under(s, Len(s)), s[Len(s)].kind, zs[Len(s)], s[Len(s)].saved, d)
  PROVE  Agree([s EXCEPT ![Len(s)].rest = Tail(@)], zs, d, "none")
<1> DEFINE n == Len(s)
           e == [s[n] EXCEPT !.rest = Tail(s[n].rest)]
<1>1. /\ s[n] \in Frames /\ zs[n] \in Zones /\ InZone(s[n], zs[n], Below1(zs, n))
      /\ s[n].kind \in LoopKinds \cup {"chunks"} => s[n].rest = <<>>
  BY TopFacts
<1>2. s[n].rest \in Seq(Nodes[zs[n]]) /\ s[n].body \in Seq(Nodes[BodyZone(s[n].kind, zs[n], Below1(zs, n))])
  BY <1>1 DEF InZone
<1>3. Tail(s[n].rest) \in Seq(Nodes[zs[n]]) /\ Tail(s[n].rest) \in Seq(Written)
  BY <1>1, <1>2, ListFacts
<1>4. /\ e \in Frames /\ e.kind = s[n].kind /\ e.saved = s[n].saved /\ e.body = s[n].body
      /\ e.rest = Tail(s[n].rest)
  BY <1>1, <1>3 DEF Frames
<1> HIDE DEF e
<1>5. InZone(e, zs[n], Below1(zs, n))
  BY <1>2, <1>3, <1>4 DEF InZone
<1>6. Replaces(s, zs, c, e, d)
  BY <1>1, <1>4, <1>5 DEF Replaces
<1>7. Agree([s EXCEPT ![n] = e], zs, d, "none")
  BY <1>6, Replaced
<1>8. [s EXCEPT ![n] = e] = [s EXCEPT ![n].rest = Tail(@)]
  BY DEF e
<1> QED
  BY <1>7, <1>8

(* A loop starts one more turn.                                            *)
LEMMA Turning ==
  ASSUME NEW s, NEW zs, NEW c, Agree(s, zs, c, "none"), s[Len(s)].left > 0
  PROVE  Agree([s EXCEPT ![Len(s)].left = @ - 1], zs, c, "none")
<1> DEFINE n == Len(s)
           e == [s[n] EXCEPT !.left = s[n].left - 1]
<1>1. /\ s[n] \in Frames /\ zs[n] \in Zones /\ InZone(s[n], zs[n], Below1(zs, n))
      /\ s[n].kind \in LoopKinds \cup {"chunks"} => s[n].rest = <<>>
      /\ c \in Contexts
      /\ KeptBy(Under(s, n), s[n].kind, zs[n], s[n].saved, c)
  BY TopFacts
<1>2. s[n].left \in Nat
  BY <1>1 DEF Frames
<1>3. s[n].left - 1 \in Nat
  BY <1>2
<1>4. /\ e \in Frames /\ e.kind = s[n].kind /\ e.saved = s[n].saved /\ e.body = s[n].body
      /\ e.rest = s[n].rest
  BY <1>1, <1>3 DEF Frames
<1> HIDE DEF e
<1>5. InZone(e, zs[n], Below1(zs, n))
  BY <1>1, <1>4 DEF InZone
<1>6. Replaces(s, zs, c, e, c)
  BY <1>1, <1>4, <1>5 DEF Replaces
<1>7. Agree([s EXCEPT ![n] = e], zs, c, "none")
  BY <1>6, Replaced
<1>8. [s EXCEPT ![n] = e] = [s EXCEPT ![n].left = @ - 1]
  BY DEF e
<1> QED
  BY <1>7, <1>8

(* The innermost frame is left, for the one below.                         *)
LEMMA Popped ==
  ASSUME NEW s, NEW zs, NEW c, NEW t0, Agree(s, zs, c, t0), s[Len(s)].kind # "flow",
         NEW t, t = "none" => t0 = "none" \/ zs[Len(s)].caught
  PROVE  /\ Agree(SubSeq(s, 1, Len(s) - 1), SubSeq(zs, 1, Len(s) - 1), Finally(s[Len(s)], c), t)
         /\ Len(s) > 1
         /\ zs[Len(s)] = Inside(s[Len(s)].kind, zs[Len(s) - 1])
         /\ Above(s[Len(s) - 1].kind, s[Len(s)])
<1> DEFINE n == Len(s)
           m == n - 1
           d == Finally(s[n], c)
           r == SubSeq(s, 1, n - 1)
           ys == SubSeq(zs, 1, n - 1)
<1>0. n = Len(s)
  OBVIOUS
<1>1. s \in Seq(Frames) /\ s # <<>> /\ zs \in Seq(Zones) /\ Len(zs) = n
  BY DEF Agree, Framed, Zoned
<1>2. n \in Nat \ {0} /\ n # 1 /\ s[n] \in Frames /\ c \in Contexts
      /\ KeptBy(Under(s, n), s[n].kind, zs[n], s[n].saved, c)
  BY TopFacts
<1>3. n > 1 /\ n \in 1 .. n /\ m \in 1 .. n /\ m \in Nat /\ m < n /\ m + 1 = n /\ n # 1
  <2>1. n \in Nat /\ n # 0 /\ n # 1
    BY <1>2
  <2> HIDE DEF n
  <2> QED
    BY <2>1
<1>4. /\ r \in Seq(Frames) /\ r # <<>> /\ Len(r) = n - 1
      /\ \A i \in 1 .. n - 1 : r[i] = s[i]
  BY <1>1, <1>3, PrefixFacts
<1>5. /\ ys \in Seq(Zones) /\ Len(ys) = n - 1
      /\ \A i \in 1 .. n - 1 : ys[i] = zs[i]
  BY <1>1, <1>3, PrefixFacts
<1> HIDE DEF n, r, ys, d
<1>6. zs[n] = Inside(s[n].kind, zs[m]) /\ InZone(s[m], zs[m], Below1(zs, m))
  <2>1. n > 1 => zs[n] = Inside(s[n].kind, zs[n - 1])
    BY <1>0, <1>3 DEF Agree, Zoned
  <2>2. InZone(s[m], zs[m], Below1(zs, m))
    BY <1>0, <1>3 DEF Agree, Zoned
  <2> QED
    BY <1>3, <2>1, <2>2
<1>7. Above(s[m].kind, s[n])
  <2>1. n > 1 => Above(s[n - 1].kind, s[n])
    BY <1>0, <1>3 DEF Agree, Framed
  <2> QED
    BY <1>3, <2>1
<1>8. m > 1 => Above(s[m - 1].kind, s[m])
  BY <1>0, <1>3 DEF Agree, Framed
<1>9. Under(s, n) = s[m].kind /\ Level(s, c, m) = s[n].saved /\ Level(s, c, n) = c
  BY <1>0, <1>3 DEF Under, Level
<1>10. KeptBy(Under(s, m), s[m].kind, zs[m], s[m].saved, s[n].saved)
  BY <1>0, <1>3, <1>9 DEF Agree
<1>11. s[m] \in Frames /\ zs[m] \in Zones /\ s[m].saved \in Contexts
  <2>1. s[m] \in Frames /\ zs[m] \in Zones
    BY <1>0, <1>1, <1>3
  <2> QED
    BY <2>1 DEF Frames
<1>12. Leaves(Under(s, m), s[m].kind, zs[m], s[m].saved, s[n], c)
  BY <1>0, <1>2, <1>6, <1>7, <1>9, <1>10, <1>11 DEF Leaves
<1>13. /\ d \in Contexts /\ KeptBy(Under(s, m), s[m].kind, zs[m], s[m].saved, d)
       /\ d.loopDepth = s[n].saved.loopDepth
       /\ c.depth = s[n].saved.depth + Counted(s[n].kind) => d.depth = s[n].saved.depth
  BY <1>12, Left DEF d
<1>14. zs[m].caught => zs[n].caught
  <2>1. zs[m].caught => Inside(s[n].kind, zs[m]).caught
    BY <1>11, InsideZone
  <2> QED
    BY <1>6, <2>1
<1>15. WellWritten /\ (t = "none" \/ zs[m].caught) => d.depth = s[n].saved.depth
  <2> SUFFICES ASSUME WellWritten, t = "none" \/ zs[m].caught
               PROVE  d.depth = s[n].saved.depth
    OBVIOUS
  <2>1. Exact(s, zs, c, t0)
    BY DEF Agree
  <2>2. t0 = "none" \/ zs[n].caught
    BY <1>0, <1>14
  <2>3. Level(s, c, n).depth = s[n].saved.depth + Counted(s[n].kind)
    BY <1>0, <1>3, <2>1, <2>2 DEF Exact
  <2> QED
    BY <2>3, <1>9, <1>13
<1>16. m \in 1 .. m
  BY <1>3
<1>17. r[m] = s[m]
  BY <1>4, <1>16
<1>18. r[m].kind \in LoopKinds \cup {"chunks"} => r[m].rest = <<>>
  <2>1. CASE m = 1
    <3>1. s[1].kind = "flow"
      BY DEF Agree, Framed
    <3> QED
      BY <2>1, <3>1, <1>17 DEF LoopKinds
  <2>2. CASE m > 1
    BY <2>2, <1>8, <1>17 DEF Above
  <2> QED
    BY <1>3, <2>1, <2>2
<1>19. Retops(s, zs, c, t0, r, m, d, t)
  <2>1. \A i \in 1 .. m - 1 : r[i] = s[i]
    BY <1>3, <1>4
  <2> QED
    BY <2>1, <1>0, <1>3, <1>4, <1>6, <1>9, <1>13, <1>15, <1>17, <1>18 DEF Retops
<1>20. Agree(r, ys, d, t)
  BY <1>5, <1>19, Retopped
<1> QED
  BY <1>0, <1>3, <1>6, <1>7, <1>20 DEF r, ys, d

-----------------------------------------------------------------------------
(* The contexts frames are entered with.                                   *)

LEMMA SameKept ==
  ASSUME NEW v, NEW u, NEW y \in Zones, NEW bb, NEW c \in Contexts, KeptBy(v, u, y, bb, c),
         NEW k, k \notin {"item", "slot"} \cup CallKinds, k = "catch" \/ ~c.stopped
  PROVE  KeptBy(u, k, Inside(k, y), c, c)
<1>1. Inside(k, y).loop = y.loop /\ Inside(k, y).chunk = y.chunk
  <2>1. Inside(k, y).loop = y.loop
    BY InsideZone
  <2>2. Inside(k, y).chunk = y.chunk
    BY InsideZone
  <2> QED
    BY <2>1, <2>2
<1>2. c.local \in Nat /\ c.depth \in Nat /\ c.loopDepth \in Nat
  BY DEF Contexts
<1>3. Counted(k) = 0 /\ Fresh(k) = 0
  BY DEF Counted, Fresh, CallKinds
<1>4. c.local = c.local + Fresh(k) /\ c.depth >= c.depth + Counted(k)
  BY <1>2, <1>3
<1>5. c.loopDepth = CASE k = "item" -> c.loopDepth + 1 [] k \in CallKinds -> 0 [] OTHER -> c.loopDepth
  OBVIOUS
<1>6. /\ c.skipping => c.loopDepth > 0
      /\ c.stopped => c.returned \/ c.skipping
      /\ y.loop <=> c.loopDepth > 0
      /\ WellWritten => Flags(y, c)
  BY DEF KeptBy
<1>7. WellWritten => Flags(Inside(k, y), c)
  BY <1>1, <1>6 DEF Flags
<1>8. (k = "chunks" => ~c.stopped) /\ (k # "catch" => ~c.stopped)
  OBVIOUS
<1>9. Inside(k, y).loop <=> c.loopDepth > 0
  BY <1>1, <1>6
<1> QED
  BY <1>4, <1>5, <1>6, <1>7, <1>8, <1>9 DEF KeptBy

LEMMA ItemKept ==
  ASSUME NEW v, NEW u, NEW y \in Zones, NEW bb, NEW c \in Contexts, KeptBy(v, u, y, bb, c), ~c.stopped,
         NEW d \in Contexts, d.loopDepth = c.loopDepth + 1, d.local = c.local, d.depth = c.depth,
         d.stopped = c.stopped, d.skipping = c.skipping, d.returned = c.returned,
         u # "forEach" => d.current = c.current
  PROVE  KeptBy(u, "item", Inside("item", y), c, d)
<1>1. Inside("item", y).loop
  BY InsideZone
<1>2. c.local \in Nat /\ c.depth \in Nat /\ c.loopDepth \in Nat
  BY DEF Contexts
<1>3. Counted("item") = 0 /\ Fresh("item") = 0
  BY DEF Counted, Fresh, CallKinds
<1>4. d.local = c.local + Fresh("item") /\ d.depth >= c.depth + Counted("item") /\ d.loopDepth > 0
  BY <1>2, <1>3
<1>5. d.loopDepth = CASE "item" = "item" -> c.loopDepth + 1
                      [] "item" \in CallKinds -> 0
                      [] OTHER -> c.loopDepth
  BY DEF CallKinds
<1>6. ~Loose(u, "item") => d.current = c.current
  BY DEF Loose
<1>7. WellWritten => Flags(Inside("item", y), d)
  <2> SUFFICES ASSUME WellWritten PROVE Flags(Inside("item", y), d)
    OBVIOUS
  <2>1. Flags(y, c)
    BY DEF KeptBy
  <2>2. ~d.returned /\ ~d.skipping /\ ~d.stopped
    BY <2>1 DEF Flags
  <2> QED
    BY <2>2 DEF Flags
<1> QED
  BY <1>1, <1>4, <1>5, <1>6, <1>7 DEF KeptBy

LEMMA SlotKept ==
  ASSUME NEW v, NEW y \in Zones, NEW bb, NEW c \in Contexts, KeptBy(v, "chunks", y, bb, c),
         NEW d \in Contexts, d.loopDepth = c.loopDepth, d.local = c.local + 1, d.depth = c.depth,
         d.stopped = FALSE, d.skipping = c.skipping, d.returned = FALSE, d.current = c.current
  PROVE  KeptBy("chunks", "slot", Inside("slot", y), c, d)
<1>1. Inside("slot", y).loop = y.loop
  BY InsideZone DEF CallKinds
<1>2. c.local \in Nat /\ c.depth \in Nat /\ c.loopDepth \in Nat
  BY DEF Contexts
<1>3. Counted("slot") = 0 /\ Fresh("slot") = 1
  BY DEF Counted, Fresh, CallKinds
<1>4. d.local = c.local + Fresh("slot") /\ d.depth >= c.depth + Counted("slot")
  BY <1>2, <1>3
<1>5. d.loopDepth = CASE "slot" = "item" -> c.loopDepth + 1
                      [] "slot" \in CallKinds -> 0
                      [] OTHER -> c.loopDepth
  BY DEF CallKinds
<1>6. /\ c.skipping => c.loopDepth > 0
      /\ ~c.stopped
      /\ y.loop <=> c.loopDepth > 0
  BY DEF KeptBy
<1>7. WellWritten => Flags(Inside("slot", y), d)
  <2> SUFFICES ASSUME WellWritten PROVE Flags(Inside("slot", y), d)
    OBVIOUS
  <2>1. Flags(y, c)
    BY DEF KeptBy
  <2>2. ~d.skipping
    BY <1>6, <2>1 DEF Flags
  <2> QED
    BY <2>2 DEF Flags
<1>8. Inside("slot", y).loop <=> d.loopDepth > 0
  BY <1>1, <1>6
<1> QED
  BY <1>4, <1>5, <1>6, <1>7, <1>8 DEF KeptBy

LEMMA CallKept ==
  ASSUME NEW v, NEW u, NEW y \in Zones, NEW bb, NEW c \in Contexts, KeptBy(v, u, y, bb, c), ~c.stopped,
         NEW k \in CallKinds,
         NEW d \in Contexts, d.loopDepth = 0, d.local = c.local + 1,
         d.depth = c.depth + Counted(k), d.stopped = FALSE, d.skipping = FALSE,
         d.returned = FALSE, d.current = c.current
  PROVE  KeptBy(u, k, Inside(k, y), c, d)
<1>1. Inside(k, y).loop = FALSE
  BY InsideZone DEF CallKinds
<1>2. c.depth \in Nat /\ Counted(k) \in Nat
  BY DEF Contexts, Counted
<1>3. Fresh(k) = 1 /\ k # "item" /\ k # "chunks"
  BY DEF Fresh, CallKinds
<1>4. d.local = c.local + Fresh(k) /\ d.depth >= c.depth + Counted(k)
  BY <1>2, <1>3
<1>5. d.loopDepth = CASE k = "item" -> c.loopDepth + 1 [] k \in CallKinds -> 0 [] OTHER -> c.loopDepth
  BY <1>3
<1>6. WellWritten => Flags(Inside(k, y), d)
  BY DEF Flags
<1> QED
  BY <1>1, <1>3, <1>4, <1>5, <1>6 DEF KeptBy

-----------------------------------------------------------------------------
(* The node of the innermost list, and the frames blocks enter.            *)

Here(zs) == zs[Len(stack)]

LEMMA NodeHere ==
  ASSUME NEW zs, Agree(stack, zs, ctx, "none"), AtNode
  PROVE  /\ Node \in Nodes[Here(zs)] /\ Here(zs) \in Zones /\ ctx \in Contexts /\ ~ctx.stopped
         /\ Top.kind \notin LoopKinds \cup {"chunks"}
         /\ KeptBy(Under(stack, Len(stack)), Top.kind, Here(zs), Top.saved, ctx)
<1>1. /\ Top \in Frames /\ Here(zs) \in Zones /\ ctx \in Contexts
      /\ InZone(Top, Here(zs), Below1(zs, Len(stack)))
      /\ KeptBy(Under(stack, Len(stack)), Top.kind, Here(zs), Top.saved, ctx)
      /\ Top.kind \in LoopKinds \cup {"chunks"} => Top.rest = <<>>
  BY TopFacts DEF Top, Here
<1>2. Top.rest \in Seq(Nodes[Here(zs)])
  BY <1>1 DEF InZone
<1>3. Top.rest # <<>> /\ ~ctx.stopped
  BY DEF AtNode
<1>4. Node \in Nodes[Here(zs)]
  BY <1>1, <1>2, <1>3, ListFacts DEF Node
<1> QED
  BY <1>1, <1>3, <1>4

LEMMA NodeEnters ==
  ASSUME NEW zs, Agree(stack, zs, ctx, "none"), AtNode, NEW f, NEW d, NEW t,
         Enters(stack, zs, ctx, f, Inside(f.kind, Here(zs)), d)
  PROVE  \E ys : Agree(Entering(f), ys, d, t)
<1> DEFINE n == Len(stack)
           z == Inside(f.kind, Here(zs))
<1>1. KeptBy(Under(stack, n), stack[n].kind, zs[n], stack[n].saved, ctx) /\ ctx \in Contexts
  BY TopFacts
<1>2. stack[n].rest # <<>>
  BY DEF AtNode, Top
<1>3. Agree(Advanced, zs, ctx, "none")
  BY <1>1, <1>2, Advancing DEF Advanced
<1>4. stack \in Seq(Frames) /\ n \in Nat \ {0} /\ stack[n] \in Frames
  BY TopFacts DEF Agree, Framed
<1>5. Len(Advanced) = n /\ Advanced[n].kind = stack[n].kind
  BY <1>4 DEF Advanced, Frames
<1>6. Enters(Advanced, zs, ctx, f, z, d)
  BY <1>5 DEF Enters
<1>7. Agree(Append(Advanced, f), Append(zs, z), d, t)
  BY <1>3, <1>6, Pushed
<1> QED
  BY <1>7 DEF Entering

LEMMA TurnEnters ==
  ASSUME NEW zs, Agree(stack, zs, ctx, "none"), Top.left > 0, NEW f, NEW d, NEW t,
         Enters(stack, zs, ctx, f, Inside(f.kind, Here(zs)), d)
  PROVE  \E ys : Agree(Append([stack EXCEPT ![Len(stack)].left = @ - 1], f), ys, d, t)
<1> DEFINE n == Len(stack)
           z == Inside(f.kind, Here(zs))
           r == [stack EXCEPT ![Len(stack)].left = @ - 1]
<1>1. stack[n].left > 0
  BY DEF Top
<1>2. Agree(r, zs, ctx, "none")
  BY <1>1, Turning
<1>3. stack \in Seq(Frames) /\ n \in Nat \ {0} /\ stack[n] \in Frames
  BY TopFacts DEF Agree, Framed
<1>4. Len(r) = n /\ r[n].kind = stack[n].kind
  BY <1>3 DEF Frames
<1> HIDE DEF r
<1>5. Enters(r, zs, ctx, f, z, d)
  BY <1>4 DEF Enters
<1>6. Agree(Append(r, f), Append(zs, z), d, t)
  BY <1>2, <1>5, Pushed
<1> QED
  BY <1>6 DEF r

(* The frames that keep the context: branches, tries and loops.            *)
LEMMA SameEnters ==
  ASSUME NEW zs, Agree(stack, zs, ctx, "none"), AtNode,
         NEW k \in Kinds \ ({"flow", "item", "slot", "catch"} \cup CallKinds),
         NEW rest, NEW left \in Nat, NEW body,
         k \in LoopKinds \cup {"chunks"} => rest = <<>>,
         rest \in Seq(Nodes[Inside(k, Here(zs))]),
         body \in Seq(Nodes[BodyZone(k, Inside(k, Here(zs)), Here(zs))])
  PROVE  \E ys : Agree(Entering(Frame(k, rest, left, body, ctx)), ys, ctx, "none")
<1> DEFINE f == Frame(k, rest, left, body, ctx)
           y == Here(zs)
           z == Inside(k, y)
<1>1. /\ y \in Zones /\ ctx \in Contexts /\ ~ctx.stopped /\ Top.kind \notin LoopKinds \cup {"chunks"}
      /\ KeptBy(Under(stack, Len(stack)), Top.kind, y, Top.saved, ctx)
  BY NodeHere
<1>2. z \in Zones /\ Inside("item", z) \in Zones /\ Inside("slot", z) \in Zones
  BY <1>1, InsideZone
<1>3. BodyZone(k, z, y) \in Zones
  BY <1>1, <1>2 DEF BodyZone
<1>4. rest \in Seq(Written)
  BY <1>2, ListFacts
<1>5. body \in Seq(Written)
  BY <1>3, ListFacts
<1>6. /\ f \in Frames /\ f.kind = k /\ f.rest = rest /\ f.body = body /\ f.saved = ctx
  BY <1>1, <1>4, <1>5 DEF Frame, Frames
<1> HIDE DEF f
<1>7. KeptBy(Top.kind, k, z, ctx, ctx)
  BY <1>1, SameKept
<1>8. Above(Top.kind, f)
  BY <1>1, <1>6 DEF Above, LoopKinds
<1>9. InZone(f, z, y)
  BY <1>6 DEF InZone
<1>10. ctx.depth = ctx.depth + Counted(k)
  <2>1. ctx.depth \in Nat /\ Counted(k) = 0
    BY <1>1 DEF Contexts, Counted, CallKinds
  <2> QED
    BY <2>1
<1>11. Enters(stack, zs, ctx, f, Inside(f.kind, Here(zs)), ctx)
  BY <1>1, <1>6, <1>7, <1>8, <1>9, <1>10 DEF Enters, Top, Here
<1>12. \E ys : Agree(Entering(f), ys, ctx, "none")
  BY <1>11, NodeEnters
<1> QED
  BY <1>12 DEF f

(* Calls and relays.                                                       *)
LEMMA CallEnters ==
  ASSUME NEW zs, Agree(stack, zs, ctx, "none"), AtNode, NEW k \in CallKinds, Node.op = k,
         NEW d \in Contexts, d.loopDepth = 0, d.local = ctx.local + 1,
         d.depth = ctx.depth + Counted(k), d.stopped = FALSE, d.skipping = FALSE,
         d.returned = FALSE, d.current = ctx.current
  PROVE  \E ys : Agree(Entering(Frame(k, Node.body, 0, <<>>, ctx)), ys, d, "none")
<1> DEFINE f == Frame(k, Node.body, 0, <<>>, ctx)
           y == Here(zs)
           z == Inside(k, y)
<1>1. /\ Node \in Nodes[y]
      /\ y \in Zones /\ ctx \in Contexts /\ ~ctx.stopped /\ Top.kind \notin LoopKinds \cup {"chunks"}
      /\ KeptBy(Under(stack, Len(stack)), Top.kind, y, Top.saved, ctx)
  BY NodeHere
<1>2. z \in Zones
  BY <1>1, InsideZone
<1>3. BodyKind(Node.op) = k /\ BodyZone(k, z, y) = z
  BY DEF BodyKind, BodyZone, CallKinds, LoopKinds
<1>4. Node.body \in Seq(Nodes[z]) /\ <<>> \in Seq(Nodes[z])
  <2>1. Node.body \in Seq(Nodes[Inside(BodyKind(Node.op), y)])
    BY <1>1, NodeFacts
  <2> QED
    BY <2>1, <1>3
<1>5. Node.body \in Seq(Written) /\ <<>> \in Seq(Written) /\ k \in Kinds /\ 0 \in Nat
  BY <1>2, <1>4, ListFacts DEF CallKinds, Kinds
<1>6. /\ f \in Frames /\ f.kind = k /\ f.rest = Node.body /\ f.body = <<>> /\ f.saved = ctx
  BY <1>1, <1>5 DEF Frame, Frames
<1> HIDE DEF f
<1>7. KeptBy(Top.kind, k, z, ctx, d)
  BY <1>1, CallKept
<1>8. Above(Top.kind, f)
  BY <1>1, <1>6 DEF Above, LoopKinds, CallKinds
<1>9. InZone(f, z, y)
  BY <1>3, <1>4, <1>6 DEF InZone
<1>10. Enters(stack, zs, ctx, f, Inside(f.kind, Here(zs)), d)
  BY <1>1, <1>6, <1>7, <1>8, <1>9 DEF Enters, Top, Here
<1>11. \E ys : Agree(Entering(f), ys, d, "none")
  BY <1>10, NodeEnters
<1> QED
  BY <1>11 DEF f

(* The turns of a loop.                                                    *)
Turn(k) == Append([stack EXCEPT ![Len(stack)].left = @ - 1], Frame(k, Top.body, 0, <<>>, ctx))

LEMMA BodyEnters ==
  ASSUME NEW zs, Agree(stack, zs, ctx, "none"), Top.left > 0,
         NEW k, \/ k = "item" /\ Top.kind \in LoopKinds
                \/ k = "slot" /\ Top.kind = "chunks",
         NEW d \in Contexts, d.depth = ctx.depth,
         KeptBy(Top.kind, k, Inside(k, Here(zs)), ctx, d)
  PROVE  \E ys : Agree(Turn(k), ys, d, "none")
<1> DEFINE f == Frame(k, Top.body, 0, <<>>, ctx)
           y == Here(zs)
           z == Inside(k, y)
<1>1. Top \in Frames /\ y \in Zones /\ ctx \in Contexts /\ InZone(Top, y, Below1(zs, Len(stack)))
  BY TopFacts DEF Top, Here
<1>2. z \in Zones
  BY <1>1, InsideZone
<1>3. BodyZone(Top.kind, y, Below1(zs, Len(stack))) = z /\ BodyZone(k, z, y) = z /\ k \in Kinds
      /\ k # "call" /\ k # "flow" /\ k \notin LoopKinds \cup {"chunks"}
  BY DEF BodyZone, LoopKinds, Kinds
<1>4. Top.body \in Seq(Nodes[z]) /\ <<>> \in Seq(Nodes[z])
  BY <1>1, <1>3 DEF InZone
<1>5. Top.body \in Seq(Written) /\ <<>> \in Seq(Written) /\ 0 \in Nat
  BY <1>2, <1>4, ListFacts
<1>6. /\ f \in Frames /\ f.kind = k /\ f.rest = Top.body /\ f.body = <<>> /\ f.saved = ctx
  BY <1>1, <1>3, <1>5 DEF Frame, Frames
<1> HIDE DEF f
<1>7. Above(Top.kind, f)
  BY <1>3, <1>6 DEF Above, LoopKinds
<1>8. InZone(f, z, y)
  BY <1>3, <1>4, <1>6 DEF InZone
<1>9. d.depth = ctx.depth + Counted(k)
  <2>1. ctx.depth \in Nat /\ Counted(k) = 0
    BY <1>1, <1>3 DEF Contexts, Counted, CallKinds
  <2> QED
    BY <2>1
<1>10. Enters(stack, zs, ctx, f, Inside(f.kind, Here(zs)), d)
  BY <1>6, <1>7, <1>8, <1>9 DEF Enters, Top, Here
<1>11. \E ys : Agree(Append([stack EXCEPT ![Len(stack)].left = @ - 1], f), ys, d, "none")
  BY <1>10, TurnEnters
<1> QED
  BY <1>11 DEF f, Turn

-----------------------------------------------------------------------------
(* The steps of a run.                                                     *)

LEMMA InitAgrees == FlowInit => FlowInv
<1> SUFFICES ASSUME FlowInit PROVE FlowInv
  OBVIOUS
<1> DEFINE f == Frame("flow", program, 0, <<>>, Ctx0)
           zs == <<Outside>>
<1>1. /\ program \in Programs /\ ctx = Ctx0 /\ stack = <<f>> /\ thrown = "none"
      /\ asked = FALSE /\ late = FALSE /\ verdict = "running"
  BY DEF FlowInit
<1>2. Outside \in Zones /\ Outside.loop = FALSE
  BY DEF Outside, Zones
<1>3. program \in Seq(Nodes[Outside]) /\ <<>> \in Seq(Nodes[Outside])
  BY <1>1, NodesAssumption
<1>4. program \in Seq(Written) /\ <<>> \in Seq(Written)
  BY <1>2, <1>3, ListFacts
<1>5. Ctx0 \in Contexts
  BY DEF Ctx0, Contexts
<1>6. /\ f \in Frames /\ f.kind = "flow" /\ f.rest = program /\ f.body = <<>> /\ f.saved = Ctx0
  BY <1>4, <1>5 DEF Frame, Frames, Kinds
<1> HIDE DEF f
<1>7. Len(stack) = 1 /\ stack[1] = f /\ stack \in Seq(Frames) /\ stack # <<>>
  BY <1>1, <1>6
<1>8. zs \in Seq(Zones) /\ Len(zs) = 1 /\ zs[1] = Outside
  BY <1>2
<1> HIDE DEF zs
<1>9. Framed(stack)
  BY <1>6, <1>7 DEF Framed
<1>10. Zoned(stack, zs)
  <2>1. InZone(f, Outside, Below1(zs, 1))
    BY <1>3, <1>6 DEF InZone, BodyZone, LoopKinds
  <2> QED
    BY <2>1, <1>7, <1>8 DEF Zoned
<1>11. KeptBy("none", "flow", Outside, Ctx0, Ctx0)
  BY <1>2 DEF KeptBy, Ctx0, Counted, Fresh, CallKinds, Flags
<1>12. LoopCounted(stack, 1, 0)
  <2>1. Items(stack, 1, 1) = {}
    BY <1>6, <1>7 DEF Items
  <2>2. Cardinality(Items(stack, 1, 1)) = 0
    BY <2>1, FS_EmptySet
  <2>3. 1 \in 1 .. 1 /\ \A j \in 1 + 1 .. 1 : FALSE
    OBVIOUS
  <2> QED
    BY <2>2, <2>3, <1>6, <1>7 DEF LoopCounted
<1>13. Level(stack, ctx, 1) = Ctx0 /\ Under(stack, 1) = "none"
  BY <1>1, <1>7 DEF Level, Under
<1>14. Cardinality(CallsTo(stack, 1)) = 0
  <2>1. CallsTo(stack, 1) = {}
    BY <1>6, <1>7 DEF CallsTo, CallKinds
  <2> QED
    BY <2>1, FS_EmptySet
<1>15. Exact(stack, zs, ctx, thrown)
  <2>1. Ctx0.depth = 0 /\ Counted("flow") = 0
    BY DEF Ctx0, Counted, CallKinds
  <2>2. /\ Level(stack, ctx, 1).depth = stack[1].saved.depth + Counted(stack[1].kind)
        /\ Level(stack, ctx, 1).depth = Cardinality(CallsTo(stack, 1))
    BY <2>1, <1>6, <1>7, <1>13, <1>14
  <2>3. ASSUME NEW i \in 1 .. Len(stack)
        PROVE  /\ Level(stack, ctx, i).depth = stack[i].saved.depth + Counted(stack[i].kind)
               /\ Level(stack, ctx, i).depth = Cardinality(CallsTo(stack, i))
    <3>1. i = 1
      BY <1>7
    <3> QED
      BY <2>2, <3>1
  <2> QED
    BY <2>3 DEF Exact
<1>16. Ctx0.loopDepth = 0
  BY DEF Ctx0
<1>17. Agree(stack, zs, ctx, thrown)
  <2>1. ASSUME NEW i \in 1 .. Len(stack)
        PROVE  /\ KeptBy(Under(stack, i), stack[i].kind, zs[i], stack[i].saved, Level(stack, ctx, i))
               /\ LoopCounted(stack, i, Level(stack, ctx, i).loopDepth)
    <3>1. i = 1
      BY <1>7
    <3>2. KeptBy(Under(stack, 1), stack[1].kind, zs[1], stack[1].saved, Level(stack, ctx, 1))
      BY <1>6, <1>7, <1>8, <1>11, <1>13
    <3> QED
      BY <3>1, <3>2, <1>12, <1>13, <1>16
  <2>2. ctx \in Contexts
    BY <1>1, <1>5
  <2> QED
    BY <2>1, <2>2, <1>9, <1>10, <1>15 DEF Agree
<1> QED
  BY <1>1, <1>17 DEF FlowInv, Ended

(* A step of a run that goes on.                                           *)
LEMMA StillRuns ==
  ASSUME FlowInv, NEW ys, Agree(stack', ys, ctx', thrown'), thrown' \in {"none"} \cup Errors,
         asked' \in BOOLEAN, late' \in BOOLEAN, verdict' = "running"
  PROVE  FlowInv'
BY DEF FlowInv, Ended

(* An error is thrown where the run is: the frames stay as they are.       *)
LEMMA Throws ==
  ASSUME NEW s, NEW zs, NEW c, Agree(s, zs, c, "none"), NEW t
  PROVE  Agree(s, zs, c, t)
<1>1. WellWritten => Exact(s, zs, c, t)
  <2> SUFFICES ASSUME WellWritten PROVE Exact(s, zs, c, t)
    OBVIOUS
  <2>1. Exact(s, zs, c, "none")
    BY DEF Agree
  <2> QED
    BY <2>1 DEF Exact
<1> QED
  BY <1>1 DEF Agree

LEMMA Refused ==
  ASSUME FlowInv, Running, NEW error \in Errors, Refuse(error)
  PROVE  FlowInv'
<1>1. PICK zs : Agree(stack, zs, ctx, "none")
  BY DEF FlowInv, Running
<1>2. Agree(stack, zs, ctx, error)
  BY <1>1, Throws
<1>3. /\ stack' = stack /\ ctx' = ctx /\ thrown' = error /\ asked' = asked /\ late' = late
      /\ verdict' = "running"
  BY DEF Refuse, Running
<1>4. Agree(stack', zs, ctx', thrown')
  BY <1>2, <1>3
<1>5. asked' \in BOOLEAN /\ late' \in BOOLEAN
  BY <1>3 DEF FlowInv
<1>6. thrown' \in {"none"} \cup Errors
  BY <1>3
<1> QED
  BY <1>3, <1>4, <1>5, <1>6, StillRuns

(* Leaf blocks, return and next: the list goes on, with the context d.     *)
LEMMA Listed ==
  ASSUME FlowInv, AtNode,
         \E zs, d : /\ Agree(stack, zs, ctx, "none") /\ ctx' = d /\ d \in Contexts
                    /\ d.loopDepth = ctx.loopDepth /\ d.depth = ctx.depth
                    /\ KeptBy(Under(stack, Len(stack)), Top.kind, Here(zs), Top.saved, d),
         stack' = Advanced, UNCHANGED <<thrown, asked, late, verdict>>
  PROVE  FlowInv'
<1>1. PICK zs, d : /\ Agree(stack, zs, ctx, "none") /\ ctx' = d /\ d \in Contexts
                   /\ d.loopDepth = ctx.loopDepth /\ d.depth = ctx.depth
                   /\ KeptBy(Under(stack, Len(stack)), Top.kind, Here(zs), Top.saved, d)
  OBVIOUS
<1>2. stack[Len(stack)].rest # <<>>
  BY DEF AtNode, Top
<1>3. KeptBy(Under(stack, Len(stack)), stack[Len(stack)].kind, zs[Len(stack)],
           stack[Len(stack)].saved, d)
  BY <1>1 DEF Top, Here
<1>4. Agree(Advanced, zs, d, "none")
  BY <1>1, <1>2, <1>3, Advancing DEF Advanced
<1>5. thrown' = "none" /\ verdict' = "running" /\ asked' \in BOOLEAN /\ late' \in BOOLEAN
  BY DEF AtNode, Running, FlowInv
<1>6. Agree(stack', zs, ctx', thrown')
  BY <1>1, <1>4, <1>5
<1>7. thrown' \in {"none"} \cup Errors
  BY <1>5
<1> QED
  BY <1>5, <1>6, <1>7, StillRuns

LEMMA AtAgrees ==
  ASSUME FlowInv, Running
  PROVE  \E zs : Agree(stack, zs, ctx, "none")
BY DEF FlowInv, Running

LEMMA LeafStep == FlowInv /\ Leaf => FlowInv'
<1> SUFFICES ASSUME FlowInv, Leaf PROVE FlowInv'
  OBVIOUS
<1>1. AtNode /\ Running /\ stack' = Advanced /\ ctx' = ctx /\ UNCHANGED <<thrown, asked, late, verdict>>
  BY DEF Leaf, At, AtNode
<1>2. PICK zs : Agree(stack, zs, ctx, "none")
  BY <1>1, AtAgrees
<1>3. ctx \in Contexts /\ KeptBy(Under(stack, Len(stack)), Top.kind, Here(zs), Top.saved, ctx)
  BY <1>1, <1>2, NodeHere
<1> QED
  BY <1>1, <1>2, <1>3, Listed

LEMMA ReturnStep == FlowInv /\ ReturnNode => FlowInv'
<1> SUFFICES ASSUME FlowInv, ReturnNode PROVE FlowInv'
  OBVIOUS
<1> DEFINE d == [ctx EXCEPT !.returned = TRUE, !.stopped = TRUE]
<1>1. AtNode /\ Running /\ stack' = Advanced /\ ctx' = d /\ UNCHANGED <<thrown, asked, late, verdict>>
  BY DEF ReturnNode, At, AtNode
<1>2. PICK zs : Agree(stack, zs, ctx, "none")
  BY <1>1, AtAgrees
<1> DEFINE u == Under(stack, Len(stack))
           z == Here(zs)
           b == Top.saved
<1>3. ctx \in Contexts /\ ~ctx.stopped /\ Top.kind # "chunks" /\ KeptBy(u, Top.kind, z, b, ctx)
  BY <1>1, <1>2, NodeHere
<1>4. /\ d \in Contexts /\ d.loopDepth = ctx.loopDepth /\ d.depth = ctx.depth
      /\ d.local = ctx.local /\ d.current = ctx.current /\ d.skipping = ctx.skipping
      /\ d.returned = TRUE /\ d.stopped = TRUE
  BY <1>3 DEF Contexts
<1> HIDE DEF d, u, z, b
<1>5. WellWritten => Flags(z, d)
  <2> SUFFICES ASSUME WellWritten PROVE Flags(z, d)
    OBVIOUS
  <2>1. Flags(z, ctx)
    BY <1>3 DEF KeptBy
  <2>2. ~ctx.skipping
    BY <2>1, <1>3 DEF Flags
  <2> QED
    BY <2>2, <1>4 DEF Flags
<1>6. KeptBy(u, Top.kind, z, b, d)
  BY <1>3, <1>4, <1>5 DEF KeptBy
<1> QED
  BY <1>1, <1>2, <1>4, <1>6, Listed DEF u, z, b

LEMMA NextStep == FlowInv /\ NextNode => FlowInv'
<1> SUFFICES ASSUME FlowInv, NextNode PROVE FlowInv'
  OBVIOUS
<1> DEFINE d == [ctx EXCEPT !.skipping = TRUE, !.stopped = TRUE]
<1>1. /\ AtNode /\ Running /\ stack' = Advanced /\ ctx' = d /\ UNCHANGED <<thrown, asked, late, verdict>>
      /\ Node.op = "next" /\ ctx.loopDepth > 0
  BY DEF NextNode, At, AtNode
<1>2. PICK zs : Agree(stack, zs, ctx, "none")
  BY <1>1, AtAgrees
<1> DEFINE u == Under(stack, Len(stack))
           z == Here(zs)
           b == Top.saved
<1>3. /\ Node \in Nodes[z] /\ z \in Zones
      /\ ctx \in Contexts /\ ~ctx.stopped /\ Top.kind # "chunks" /\ KeptBy(u, Top.kind, z, b, ctx)
  BY <1>1, <1>2, NodeHere
<1>4. /\ d \in Contexts /\ d.loopDepth = ctx.loopDepth /\ d.depth = ctx.depth
      /\ d.local = ctx.local /\ d.current = ctx.current /\ d.returned = ctx.returned
      /\ d.skipping = TRUE /\ d.stopped = TRUE
  BY <1>3 DEF Contexts
<1> HIDE DEF d, u, z, b
<1>5. WellWritten => Flags(z, d)
  <2> SUFFICES ASSUME WellWritten PROVE Flags(z, d)
    OBVIOUS
  <2>1. Flags(z, ctx) /\ z.loop
    BY <1>1, <1>3 DEF KeptBy
  <2>2. ~ctx.returned
    BY <2>1, <1>3 DEF Flags
  <2>3. ~z.chunk
    BY <1>1, <1>3 DEF WellWritten
  <2> QED
    BY <2>1, <2>2, <2>3, <1>4 DEF Flags
<1>6. KeptBy(u, Top.kind, z, b, d)
  BY <1>1, <1>3, <1>4, <1>5 DEF KeptBy
<1> QED
  BY <1>1, <1>2, <1>4, <1>6, Listed DEF u, z, b

(* A step that enters a frame.                                             *)
LEMMA Entered ==
  ASSUME FlowInv, Running, \E ys : Agree(stack', ys, ctx', "none"),
         UNCHANGED <<thrown, asked, late, verdict>>
  PROVE  FlowInv'
<1>1. PICK ys : Agree(stack', ys, ctx', "none")
  OBVIOUS
<1>2. thrown' = "none" /\ verdict' = "running" /\ asked' \in BOOLEAN /\ late' \in BOOLEAN
  BY DEF Running, FlowInv
<1>3. Agree(stack', ys, ctx', thrown') /\ thrown' \in {"none"} \cup Errors
  BY <1>1, <1>2
<1> QED
  BY <1>2, <1>3, StillRuns

LEMMA IfStep == FlowInv /\ IfNode => FlowInv'
<1> SUFFICES ASSUME FlowInv, IfNode PROVE FlowInv'
  OBVIOUS
<1> DEFINE rest == IF Node.cond THEN Node.body ELSE Node.other
<1>1. /\ AtNode /\ Running /\ ctx' = ctx /\ UNCHANGED <<thrown, asked, late, verdict>>
      /\ Node.op = "if" /\ stack' = Entering(Frame("branch", rest, 0, <<>>, ctx))
  BY DEF IfNode, At, AtNode
<1>2. PICK zs : Agree(stack, zs, ctx, "none")
  BY <1>1, AtAgrees
<1> DEFINE y == Here(zs)
<1>3. Node \in Nodes[y] /\ y \in Zones
  BY <1>1, <1>2, NodeHere
<1>4. /\ Inside("branch", y) = y /\ BodyKind("if") = "if" /\ Inside("if", y) = y
      /\ BodyZone("branch", y, y) = y
  BY DEF Inside, BodyKind, BodyZone, LoopKinds
<1>5. Node.body \in Seq(Nodes[y]) /\ Node.other \in Seq(Nodes[y]) /\ <<>> \in Seq(Nodes[y])
  BY <1>1, <1>3, <1>4, NodeFacts
<1>6. rest \in Seq(Nodes[y])
  BY <1>5
<1> HIDE DEF rest
<1>7. "branch" \in Kinds \ ({"flow", "item", "slot", "catch"} \cup CallKinds)
      /\ "branch" \notin LoopKinds \cup {"chunks"} /\ 0 \in Nat
  BY DEF Kinds, CallKinds, LoopKinds
<1>8. \E ys : Agree(Entering(Frame("branch", rest, 0, <<>>, ctx)), ys, ctx, "none")
  BY <1>1, <1>2, <1>4, <1>5, <1>6, <1>7, SameEnters
<1> QED
  BY <1>1, <1>8, Entered

LEMMA TryStep == FlowInv /\ TryNode => FlowInv'
<1> SUFFICES ASSUME FlowInv, TryNode PROVE FlowInv'
  OBVIOUS
<1>1. /\ AtNode /\ Running /\ ctx' = ctx /\ UNCHANGED <<thrown, asked, late, verdict>>
      /\ Node.op = "try" /\ stack' = Entering(Frame("try", Node.body, 0, Node.other, ctx))
  BY DEF TryNode, At, AtNode
<1>2. PICK zs : Agree(stack, zs, ctx, "none")
  BY <1>1, AtAgrees
<1> DEFINE y == Here(zs)
<1>3. Node \in Nodes[y] /\ y \in Zones
  BY <1>1, <1>2, NodeHere
<1>4. BodyKind("try") = "try" /\ BodyZone("try", Inside("try", y), y) = y
  BY DEF BodyKind, BodyZone, LoopKinds
<1>5. Node.body \in Seq(Nodes[Inside("try", y)]) /\ Node.other \in Seq(Nodes[y])
  BY <1>1, <1>3, <1>4, NodeFacts
<1>6. "try" \in Kinds \ ({"flow", "item", "slot", "catch"} \cup CallKinds)
      /\ "try" \notin LoopKinds \cup {"chunks"} /\ 0 \in Nat
  BY DEF Kinds, CallKinds, LoopKinds
<1>7. \E ys : Agree(Entering(Frame("try", Node.body, 0, Node.other, ctx)), ys, ctx, "none")
  BY <1>1, <1>2, <1>4, <1>5, <1>6, SameEnters
<1> QED
  BY <1>1, <1>7, Entered

LEMMA LoopStep == FlowInv /\ LoopNode => FlowInv'
<1> SUFFICES ASSUME FlowInv, LoopNode PROVE FlowInv'
  OBVIOUS
<1> DEFINE k == Node.op
<1>1. /\ AtNode /\ Running /\ ctx' = ctx /\ UNCHANGED <<thrown, asked, late, verdict>>
      /\ k \in {"forEach", "while", "endless", "chunks"}
      /\ stack' = Entering(Frame(k, <<>>, Node.count, Node.body, ctx))
  BY DEF LoopNode, At, AtNode
<1>2. PICK zs : Agree(stack, zs, ctx, "none")
  BY <1>1, AtAgrees
<1> DEFINE y == Here(zs)
<1>3. Node \in Nodes[y] /\ y \in Zones
  BY <1>1, <1>2, NodeHere
<1>4. Node.body \in Seq(Nodes[Inside(BodyKind(k), y)]) /\ Node.count \in Nat
  BY <1>3, NodeFacts
<1> HIDE DEF k
<1>5. Inside(k, y) = y /\ BodyZone(k, y, y) = Inside(BodyKind(k), y)
  BY <1>1 DEF BodyKind, BodyZone, LoopKinds, Inside
<1>6. <<>> \in Seq(Nodes[Inside(k, y)])
  BY <1>3, <1>5, ListFacts
<1>7. k \in Kinds \ ({"flow", "item", "slot", "catch"} \cup CallKinds)
  BY <1>1 DEF Kinds, CallKinds
<1>8. \E ys : Agree(Entering(Frame(k, <<>>, Node.count, Node.body, ctx)), ys, ctx, "none")
  BY <1>1, <1>2, <1>4, <1>5, <1>6, <1>7, SameEnters
<1> QED
  BY <1>1, <1>8, Entered

(* Contexts with another depth, and those of slots and calls.              *)
LEMMA DepthFields ==
  ASSUME NEW c \in Contexts, NEW m \in Nat
  PROVE  LET d == [c EXCEPT !.depth = m]
         IN  /\ d \in Contexts /\ d.depth = m /\ d.loopDepth = c.loopDepth
             /\ d.local = c.local /\ d.stopped = c.stopped /\ d.skipping = c.skipping
             /\ d.returned = c.returned /\ d.current = c.current
BY DEF Contexts

LEMMA SlotFields ==
  ASSUME NEW c \in Contexts, NEW m \in Nat
  PROVE  LET d == [c EXCEPT !.local = m, !.returned = FALSE, !.stopped = FALSE]
         IN  /\ d \in Contexts /\ d.loopDepth = c.loopDepth /\ d.local = m
             /\ d.depth = c.depth /\ d.stopped = FALSE /\ d.skipping = c.skipping
             /\ d.returned = FALSE /\ d.current = c.current
BY DEF Contexts

LEMMA CalledFacts ==
  ASSUME ctx \in Contexts
  PROVE  /\ Called \in Contexts /\ Called.loopDepth = 0 /\ Called.local = ctx.local + 1
         /\ Called.depth = ctx.depth /\ Called.stopped = FALSE /\ Called.skipping = FALSE
         /\ Called.returned = FALSE /\ Called.current = ctx.current
<1> DEFINE m == ctx.local + 1
<1>1. m \in Nat
  BY DEF Contexts
<1>2. Called = [ctx EXCEPT !.local = m, !.returned = FALSE, !.stopped = FALSE,
                           !.skipping = FALSE, !.loopDepth = 0]
  BY DEF Called
<1> HIDE DEF m
<1>3. /\ Called \in Contexts /\ Called.loopDepth = 0 /\ Called.local = m
      /\ Called.depth = ctx.depth /\ Called.stopped = FALSE /\ Called.skipping = FALSE
      /\ Called.returned = FALSE /\ Called.current = ctx.current
  BY <1>1, <1>2 DEF Contexts
<1> QED
  BY <1>3 DEF m

LEMMA CallStep == FlowInv /\ (CallNode \/ RelayNode) => FlowInv'
<1> SUFFICES ASSUME FlowInv, NEW k \in CallKinds, (k = "call" /\ CallNode) \/ (k = "relay" /\ RelayNode)
             PROVE  FlowInv'
  BY DEF CallKinds
<1> DEFINE d == [Called EXCEPT !.depth = @ + 1]
<1>1. /\ AtNode /\ Running /\ ctx' = d /\ UNCHANGED <<thrown, asked, late, verdict>>
      /\ Node.op = k /\ stack' = Entering(Frame(k, Node.body, 0, <<>>, ctx))
  BY DEF CallNode, RelayNode, At, AtNode
<1>2. PICK zs : Agree(stack, zs, ctx, "none")
  BY <1>1, AtAgrees
<1>3. ctx \in Contexts
  BY <1>1, <1>2, NodeHere
<1>4. Counted(k) = 1
  BY DEF Counted
<1>5. /\ d \in Contexts /\ d.loopDepth = 0 /\ d.local = ctx.local + 1
      /\ d.depth = ctx.depth + Counted(k) /\ d.stopped = FALSE /\ d.skipping = FALSE
      /\ d.returned = FALSE /\ d.current = ctx.current
  <2>2. /\ Called \in Contexts /\ Called.loopDepth = 0 /\ Called.local = ctx.local + 1
        /\ Called.depth = ctx.depth /\ Called.stopped = FALSE /\ Called.skipping = FALSE
        /\ Called.returned = FALSE /\ Called.current = ctx.current
    BY <1>3, CalledFacts
  <2>3. Called.depth + 1 \in Nat
    BY <2>2 DEF Contexts
  <2>4. /\ d \in Contexts /\ d.depth = Called.depth + 1 /\ d.loopDepth = Called.loopDepth
        /\ d.local = Called.local /\ d.stopped = Called.stopped /\ d.skipping = Called.skipping
        /\ d.returned = Called.returned /\ d.current = Called.current
    <3> DEFINE e == Called
               m == e.depth + 1
    <3>1. e \in Contexts /\ m \in Nat
      BY <2>2, <2>3
    <3> HIDE DEF e, m
    <3>2. /\ [e EXCEPT !.depth = m] \in Contexts /\ [e EXCEPT !.depth = m].depth = m
          /\ [e EXCEPT !.depth = m].loopDepth = e.loopDepth
          /\ [e EXCEPT !.depth = m].local = e.local
          /\ [e EXCEPT !.depth = m].stopped = e.stopped
          /\ [e EXCEPT !.depth = m].skipping = e.skipping
          /\ [e EXCEPT !.depth = m].returned = e.returned
          /\ [e EXCEPT !.depth = m].current = e.current
      BY <3>1, DepthFields
    <3> QED
      BY <3>2 DEF e, m
  <2> QED
    BY <2>2, <2>4, <1>4
<1> HIDE DEF d
<1>6. \E ys : Agree(Entering(Frame(k, Node.body, 0, <<>>, ctx)), ys, d, "none")
  BY <1>1, <1>2, <1>4, <1>5, CallEnters
<1> QED
  BY <1>1, <1>6, Entered

(* The call that throws before it runs stays counted: nothing that goes on *)
(* sees it, when no try catches it.                                        *)
LEMMA PropsStep == FlowInv /\ CallPropsThrow => FlowInv'
<1> SUFFICES ASSUME FlowInv, CallPropsThrow PROVE FlowInv'
  OBVIOUS
<1> DEFINE d == [ctx EXCEPT !.depth = @ + 1]
           n == Len(stack)
<1>1. /\ AtNode /\ Running /\ ctx' = d /\ UNCHANGED <<stack, asked, late, verdict>>
      /\ thrown' = "user" /\ Node.op = "call" /\ Node.cond
  BY DEF CallPropsThrow, At, AtNode
<1>2. PICK zs : Agree(stack, zs, ctx, "none")
  BY <1>1, AtAgrees
<1>3. Node \in Nodes[zs[n]]
  BY <1>1, <1>2, NodeHere DEF Here
<1>4. /\ n \in Nat \ {0} /\ stack[n] \in Frames /\ zs[n] \in Zones /\ ctx \in Contexts
      /\ InZone(stack[n], zs[n], Below1(zs, n))
      /\ KeptBy(Under(stack, n), stack[n].kind, zs[n], stack[n].saved, ctx)
      /\ stack[n].kind \in LoopKinds \cup {"chunks"} => stack[n].rest = <<>>
  BY <1>2, TopFacts
<1>5. /\ d \in Contexts /\ d.loopDepth = ctx.loopDepth /\ d.depth = ctx.depth + 1
      /\ d.local = ctx.local /\ d.current = ctx.current /\ d.returned = ctx.returned
      /\ d.skipping = ctx.skipping /\ d.stopped = ctx.stopped
  <2> DEFINE m == ctx.depth + 1
  <2>1. m \in Nat
    BY <1>4 DEF Contexts
  <2>2. d = [ctx EXCEPT !.depth = m]
    OBVIOUS
  <2> HIDE DEF m, d
  <2>3. /\ d \in Contexts /\ d.loopDepth = ctx.loopDepth /\ d.depth = m
        /\ d.local = ctx.local /\ d.current = ctx.current /\ d.returned = ctx.returned
        /\ d.skipping = ctx.skipping /\ d.stopped = ctx.stopped
    BY <1>4, <2>1, <2>2 DEF Contexts
  <2> QED
    BY <2>3 DEF m
<1> HIDE DEF d
<1>6. KeptBy(Under(stack, n), stack[n].kind, zs[n], stack[n].saved, d)
  <2>1. ctx.depth \in Nat /\ stack[n].saved.depth \in Nat /\ Counted(stack[n].kind) \in Nat
    BY <1>4 DEF Contexts, Frames, Counted
  <2>2. ctx.depth >= stack[n].saved.depth + Counted(stack[n].kind)
    BY <1>4 DEF KeptBy
  <2>3. d.depth >= stack[n].saved.depth + Counted(stack[n].kind)
    BY <2>1, <2>2, <1>5
  <2>4. WellWritten => Flags(zs[n], d)
    BY <1>4, <1>5 DEF KeptBy, Flags
  <2> QED
    BY <2>3, <2>4, <1>4, <1>5 DEF KeptBy
<1>7. WellWritten => ~zs[n].caught
  BY <1>1, <1>3, <1>4 DEF WellWritten
<1>8. stack \in Seq(Frames) /\ stack # <<>> /\ zs \in Seq(Zones) /\ Len(zs) = n
  BY <1>2 DEF Agree, Framed, Zoned
<1>9. Level(stack, ctx, n) = ctx /\ n \in 1 .. n
  BY <1>4 DEF Level
<1>10. Retops(stack, zs, ctx, "none", stack, n, d, "user")
  BY <1>4, <1>5, <1>6, <1>7, <1>8, <1>9 DEF Retops
<1>11. Agree(stack, zs, d, "user")
  BY <1>2, <1>8, <1>10, Retopped
<1>12. Agree(stack', zs, ctx', thrown') /\ thrown' \in {"none"} \cup Errors
  BY <1>1, <1>11 DEF Errors
<1>13. verdict' = "running" /\ asked' \in BOOLEAN /\ late' \in BOOLEAN
  BY <1>1 DEF Running, FlowInv
<1> QED
  BY <1>12, <1>13, StillRuns

LEMMA RefuseSteps ==
  FlowInv /\ (\/ Cancelled \/ ThrowNode \/ NextOutsideLoop
              \/ CallTooDeep \/ RelayPropsThrow \/ RelayTooDeep
              \/ WhileRefused \/ WhileLimit \/ ChunksRefused) => FlowInv'
<1>1. "cancelled" \in Errors /\ "user" \in Errors /\ "outside" \in Errors /\ "depth" \in Errors
      /\ "timeout" \in Errors /\ "limit" \in Errors
  BY DEF Errors
<1>2. ASSUME FlowInv, Cancelled PROVE FlowInv'
  BY <1>1, <1>2, Refused DEF Cancelled, AtNode
<1>3. ASSUME FlowInv, ThrowNode PROVE FlowInv'
  BY <1>1, <1>3, Refused DEF ThrowNode, At, AtNode
<1>4. ASSUME FlowInv, NextOutsideLoop PROVE FlowInv'
  BY <1>1, <1>4, Refused DEF NextOutsideLoop, At, AtNode
<1>5. ASSUME FlowInv, CallTooDeep PROVE FlowInv'
  BY <1>1, <1>5, Refused DEF CallTooDeep, At, AtNode
<1>9. ASSUME FlowInv, RelayPropsThrow PROVE FlowInv'
  BY <1>1, <1>9, Refused DEF RelayPropsThrow, At, AtNode
<1>10. ASSUME FlowInv, RelayTooDeep PROVE FlowInv'
  BY <1>1, <1>10, Refused DEF RelayTooDeep, At, AtNode
<1>6. ASSUME FlowInv, WhileRefused PROVE FlowInv'
  <2>1. Running /\ Refuse(IF asked THEN "cancelled" ELSE "timeout")
    BY <1>6 DEF WhileRefused, AtWhile, AtLoop
  <2>2. (IF asked THEN "cancelled" ELSE "timeout") \in Errors
    BY <1>1
  <2> QED
    BY <2>1, <2>2, <1>6, Refused
<1>7. ASSUME FlowInv, WhileLimit PROVE FlowInv'
  BY <1>1, <1>7, Refused DEF WhileLimit, AtLoop
<1>8. ASSUME FlowInv, ChunksRefused PROVE FlowInv'
  BY <1>1, <1>8, Refused DEF ChunksRefused, AtLoop
<1> QED
  BY <1>2, <1>3, <1>4, <1>5, <1>6, <1>7, <1>8, <1>9, <1>10

(* The turns of the loops.                                                 *)
LEMMA ForEachStep == FlowInv /\ ForEachItem => FlowInv'
<1> SUFFICES ASSUME FlowInv, ForEachItem PROVE FlowInv'
  OBVIOUS
<1> DEFINE d == [[ctx EXCEPT !.current = Top.left] EXCEPT !.loopDepth = ctx.loopDepth + 1]
<1>1. /\ Running /\ Top.kind = "forEach" /\ Top.left > 0 /\ ~ctx.stopped
      /\ stack' = Turn("item") /\ ctx' = d /\ UNCHANGED <<thrown, asked, late, verdict>>
  BY DEF ForEachItem, AtLoop, Item, Enter, Turn
<1>2. PICK zs : Agree(stack, zs, ctx, "none")
  BY <1>1, AtAgrees
<1>3. /\ Top \in Frames /\ Here(zs) \in Zones /\ ctx \in Contexts
      /\ KeptBy(Under(stack, Len(stack)), Top.kind, Here(zs), Top.saved, ctx)
  BY <1>2, TopFacts DEF Top, Here
<1>4. Top.left \in Nat
  BY <1>3 DEF Frames
<1>5. /\ d \in Contexts /\ d.loopDepth = ctx.loopDepth + 1 /\ d.local = ctx.local
      /\ d.depth = ctx.depth /\ d.stopped = ctx.stopped /\ d.skipping = ctx.skipping
      /\ d.returned = ctx.returned
  <2>1. ctx.loopDepth + 1 \in Nat
    BY <1>3 DEF Contexts
  <2> DEFINE m == Top.left
             k == ctx.loopDepth + 1
  <2>2. ctx \in Contexts /\ m \in Nat /\ k \in Nat
    BY <1>3, <1>4, <2>1
  <2>3. d = [[ctx EXCEPT !.current = m] EXCEPT !.loopDepth = k]
    OBVIOUS
  <2> HIDE DEF m, k, d
  <2>4. /\ d \in Contexts /\ d.loopDepth = k /\ d.local = ctx.local /\ d.depth = ctx.depth
        /\ d.stopped = ctx.stopped /\ d.skipping = ctx.skipping
        /\ d.returned = ctx.returned
    BY <2>2, <2>3 DEF Contexts
  <2> QED
    BY <2>4 DEF k
<1> HIDE DEF d
<1>6. KeptBy("forEach", "item", Inside("item", Here(zs)), ctx, d)
  BY <1>1, <1>3, <1>5, ItemKept
<1>7. \E ys : Agree(Turn("item"), ys, d, "none")
  BY <1>1, <1>2, <1>5, <1>6, BodyEnters DEF LoopKinds
<1> QED
  BY <1>1, <1>7, Entered

LEMMA WhileStep == FlowInv /\ WhileTurn => FlowInv'
<1> SUFFICES ASSUME FlowInv, WhileTurn PROVE FlowInv'
  OBVIOUS
<1> DEFINE d == [ctx EXCEPT !.loopDepth = @ + 1]
<1>1. /\ Running /\ Top.kind \in {"while", "endless"} /\ Top.left > 0 /\ ~ctx.stopped
      /\ stack' = Turn("item") /\ ctx' = d /\ UNCHANGED <<thrown, asked, late, verdict>>
  BY DEF WhileTurn, AtWhile, AtLoop, Item, Enter, Turn
<1>2. PICK zs : Agree(stack, zs, ctx, "none")
  BY <1>1, AtAgrees
<1>3. /\ Here(zs) \in Zones /\ ctx \in Contexts
      /\ KeptBy(Under(stack, Len(stack)), Top.kind, Here(zs), Top.saved, ctx)
  BY <1>2, TopFacts DEF Top, Here
<1>4. /\ d \in Contexts /\ d.loopDepth = ctx.loopDepth + 1 /\ d.local = ctx.local
      /\ d.depth = ctx.depth /\ d.stopped = ctx.stopped /\ d.skipping = ctx.skipping
      /\ d.returned = ctx.returned /\ d.current = ctx.current
  BY <1>3 DEF Contexts
<1> HIDE DEF d
<1>5. KeptBy(Top.kind, "item", Inside("item", Here(zs)), ctx, d)
  BY <1>1, <1>3, <1>4, ItemKept
<1>6. Top.kind \in LoopKinds
  BY <1>1 DEF LoopKinds
<1>7. \E ys : Agree(Turn("item"), ys, d, "none")
  BY <1>1, <1>2, <1>4, <1>5, <1>6, BodyEnters
<1> QED
  BY <1>1, <1>7, Entered

LEMMA SlotStep == FlowInv /\ ChunkSlot => FlowInv'
<1> SUFFICES ASSUME FlowInv, ChunkSlot PROVE FlowInv'
  OBVIOUS
<1> DEFINE d == [ctx EXCEPT !.local = @ + 1, !.returned = FALSE, !.stopped = FALSE]
<1>1. /\ Running /\ Top.kind = "chunks" /\ Top.left > 0
      /\ stack' = Turn("slot") /\ ctx' = d /\ UNCHANGED <<thrown, asked, late, verdict>>
  BY DEF ChunkSlot, AtLoop, Enter, Turn
<1>2. PICK zs : Agree(stack, zs, ctx, "none")
  BY <1>1, AtAgrees
<1>3. /\ Here(zs) \in Zones /\ ctx \in Contexts
      /\ KeptBy(Under(stack, Len(stack)), Top.kind, Here(zs), Top.saved, ctx)
  BY <1>2, TopFacts DEF Top, Here
<1>4. /\ d \in Contexts /\ d.loopDepth = ctx.loopDepth /\ d.local = ctx.local + 1
      /\ d.depth = ctx.depth /\ d.stopped = FALSE /\ d.skipping = ctx.skipping
      /\ d.returned = FALSE /\ d.current = ctx.current
  <2>1. ctx.local + 1 \in Nat
    BY <1>3 DEF Contexts
  <2> QED
    BY <1>3, <2>1, SlotFields
<1> HIDE DEF d
<1>5. KeptBy("chunks", "slot", Inside("slot", Here(zs)), ctx, d)
  BY <1>1, <1>3, <1>4, SlotKept
<1>6. \E ys : Agree(Turn("slot"), ys, d, "none")
  BY <1>1, <1>2, <1>4, <1>5, BodyEnters
<1> QED
  BY <1>1, <1>6, Entered

(* A frame ends, or an error leaves it.                                    *)
LEMMA LeaveStep == FlowInv /\ Leave => FlowInv'
<1> SUFFICES ASSUME FlowInv, Leave PROVE FlowInv'
  OBVIOUS
<1>1. /\ Running /\ Top.kind # "flow" /\ stack' = Below /\ ctx' = Finally(Top, ctx)
      /\ thrown' \in {"none", "cancelled"} /\ UNCHANGED <<asked, late, verdict>>
  BY DEF Leave
<1>2. PICK zs : Agree(stack, zs, ctx, "none")
  BY <1>1, AtAgrees
<1>3. stack[Len(stack)].kind # "flow"
  BY <1>1 DEF Top
<1>4. Agree(SubSeq(stack, 1, Len(stack) - 1), SubSeq(zs, 1, Len(stack) - 1),
            Finally(stack[Len(stack)], ctx), thrown')
  BY <1>2, <1>3, Popped
<1>5. Agree(stack', SubSeq(zs, 1, Len(stack) - 1), ctx', thrown')
  BY <1>1, <1>4 DEF Below, Top
<1>6. thrown' \in {"none"} \cup Errors /\ verdict' = "running" /\ asked' \in BOOLEAN /\ late' \in BOOLEAN
  BY <1>1 DEF Running, FlowInv, Errors
<1> QED
  BY <1>5, <1>6, StillRuns

LEMMA UnwindStep == FlowInv /\ Unwind => FlowInv'
<1> SUFFICES ASSUME FlowInv, Unwind PROVE FlowInv'
  OBVIOUS
<1>1. /\ Top.kind # "flow" /\ stack' = Below /\ ctx' = Finally(Top, ctx) /\ thrown # "none"
      /\ UNCHANGED <<thrown, asked, late, verdict>> /\ verdict = "running"
  BY DEF Unwind
<1>2. PICK zs : Agree(stack, zs, ctx, thrown)
  BY DEF FlowInv
<1>3. stack[Len(stack)].kind # "flow"
  BY <1>1 DEF Top
<1>4. Agree(SubSeq(stack, 1, Len(stack) - 1), SubSeq(zs, 1, Len(stack) - 1),
            Finally(stack[Len(stack)], ctx), thrown)
  BY <1>1, <1>2, <1>3, Popped
<1>5. Agree(stack', SubSeq(zs, 1, Len(stack) - 1), ctx', thrown')
  BY <1>1, <1>4 DEF Below, Top
<1>6. thrown' \in {"none"} \cup Errors /\ verdict' = "running" /\ asked' \in BOOLEAN /\ late' \in BOOLEAN
  BY <1>1 DEF FlowInv
<1> QED
  BY <1>5, <1>6, StillRuns

(* A try is left for its catch nodes, which run in the zone of the try.    *)
LEMMA CatchStep == FlowInv /\ Catch => FlowInv'
<1> SUFFICES ASSUME FlowInv, Catch PROVE FlowInv'
  OBVIOUS
<1> DEFINE f == Frame("catch", Top.body, 0, <<>>, ctx)
           n == Len(stack)
<1>1. /\ Top.kind = "try" /\ stack' = Append(Below, f) /\ ctx' = ctx
      /\ thrown' = "none" /\ UNCHANGED <<asked, late, verdict>> /\ verdict = "running"
  BY DEF Catch
<1>2. PICK zs : Agree(stack, zs, ctx, thrown)
  BY DEF FlowInv
<1> DEFINE m == n - 1
           u == stack[m].kind
           y == zs[m]
           ys == SubSeq(zs, 1, n - 1)
<1>3. /\ n \in Nat \ {0} /\ Top \in Frames /\ zs[n] \in Zones /\ ctx \in Contexts
      /\ InZone(Top, zs[n], Below1(zs, n))
      /\ KeptBy(Under(stack, n), "try", zs[n], Top.saved, ctx)
  BY <1>1, <1>2, TopFacts DEF Top
<1>4. n # 1 /\ n > 1
  <2>1. Top.kind = "flow" <=> n = 1
    BY <1>2, TopFacts DEF Top
  <2>2. n # 1 /\ n \in Nat /\ n # 0
    BY <2>1, <1>1, <1>3
  <2> HIDE DEF n
  <2> QED
    BY <2>2
<1>5. zs \in Seq(Zones) /\ Len(zs) = n /\ m \in 1 .. n /\ stack \in Seq(Frames)
  BY <1>2, <1>3, <1>4 DEF Agree, Framed, Zoned
<1>6. y \in Zones /\ zs[n] = Inside("try", y) /\ Above(u, Top)
  <2>1. y \in Zones
    BY <1>5
  <2>2. zs[n] = Inside("try", y) /\ Above(u, Top)
    BY <1>1, <1>2, Popped DEF Top
  <2> QED
    BY <2>1, <2>2
<1>7. zs[n].caught
  <2>1. Inside("try", y).caught
    BY <1>6, InsideZone
  <2> QED
    BY <2>1, <1>6
<1>8. Finally(Top, ctx) = ctx
  BY <1>1 DEF Finally
<1>9. Agree(Below, ys, ctx, "none")
  <2>1. Agree(SubSeq(stack, 1, n - 1), ys, Finally(stack[n], ctx), "none")
    BY <1>1, <1>2, <1>7, Popped DEF Top
  <2> QED
    BY <2>1, <1>8 DEF Below, Top
<1>10. Len(Below) = m /\ Below[m] = stack[m] /\ ys[m] = y
  <2>1. /\ Len(Below) = m /\ \A i \in 1 .. m : Below[i] = stack[i]
    BY <1>4, <1>5, PrefixFacts DEF Below
  <2>2. \A i \in 1 .. m : ys[i] = zs[i]
    BY <1>4, <1>5, PrefixFacts
  <2>3. m \in 1 .. m
    BY <1>3, <1>4
  <2> QED
    BY <2>1, <2>2, <2>3
<1>11. InZone(f, y, y) /\ f \in Frames /\ f.kind = "catch" /\ f.rest = Top.body /\ f.saved = ctx
  <2>1. BodyZone("try", zs[n], Below1(zs, n)) = y /\ BodyZone("catch", y, y) = y
    BY <1>4 DEF BodyZone, LoopKinds, Below1
  <2>2. Top.body \in Seq(Nodes[y])
    BY <1>1, <1>3, <2>1 DEF InZone
  <2>3. <<>> \in Seq(Nodes[y]) /\ Top.body \in Seq(Written) /\ <<>> \in Seq(Written)
    BY <1>6, <2>2, ListFacts
  <2>4. /\ f \in Frames /\ f.kind = "catch" /\ f.rest = Top.body /\ f.body = <<>> /\ f.saved = ctx
    BY <1>3, <2>3 DEF Frame, Frames, Kinds
  <2> HIDE DEF f
  <2> QED
    BY <2>1, <2>2, <2>3, <2>4 DEF InZone
<1> HIDE DEF f, ys, y, u, m
<1>12. Inside("catch", y) = y
  BY DEF Inside
<1>13. KeptBy(u, "catch", Inside("catch", y), ctx, ctx)
  <2>1. Inside("try", y).loop = y.loop /\ Inside("try", y).chunk = y.chunk
    <3>1. Inside("try", y).loop = y.loop
      BY <1>6, InsideZone DEF CallKinds
    <3>2. Inside("try", y).chunk = y.chunk
      <4>1. Inside("try", y).chunk = IF "try" = "slot" THEN y.loop
                                     ELSE IF "try" = "item" \/ "try" \in CallKinds THEN FALSE
                                     ELSE y.chunk
        BY <1>6, InsideZone
      <4> QED
        BY <4>1 DEF CallKinds
    <3> QED
      BY <3>1, <3>2
  <2>2. /\ ctx.skipping => ctx.loopDepth > 0
        /\ ctx.stopped => ctx.returned \/ ctx.skipping
        /\ Inside("try", y).loop <=> ctx.loopDepth > 0
        /\ WellWritten => Flags(Inside("try", y), ctx)
    BY <1>3, <1>6 DEF KeptBy
  <2>3. WellWritten => Flags(y, ctx)
    BY <2>1, <2>2 DEF Flags
  <2>4. ctx.local = ctx.local + Fresh("catch") /\ ctx.depth >= ctx.depth + Counted("catch")
    <3>1. ctx.local \in Nat /\ ctx.depth \in Nat /\ Fresh("catch") = 0 /\ Counted("catch") = 0
      BY <1>3 DEF Contexts, Fresh, Counted, CallKinds
    <3> QED
      BY <3>1
  <2>5. ctx.loopDepth = CASE "catch" = "item" -> ctx.loopDepth + 1
                          [] "catch" \in CallKinds -> 0
                          [] OTHER -> ctx.loopDepth
    BY DEF CallKinds
  <2> QED
    BY <2>1, <2>2, <2>3, <2>4, <2>5, <1>12 DEF KeptBy
<1>14. Above(u, f)
  BY <1>1, <1>6, <1>11 DEF Above, LoopKinds
<1>15. ctx.depth = ctx.depth + Counted("catch")
  BY <1>3 DEF Contexts, Counted, CallKinds
<1>16. Enters(Below, ys, ctx, f, y, ctx)
  BY <1>3, <1>10, <1>11, <1>12, <1>13, <1>14, <1>15 DEF Enters, u
<1>17. Agree(Append(Below, f), Append(ys, y), ctx, "none")
  BY <1>9, <1>16, Pushed
<1>18. Agree(stack', Append(ys, y), ctx', thrown')
  BY <1>1, <1>17
<1>19. thrown' \in {"none"} \cup Errors /\ verdict' = "running" /\ asked' \in BOOLEAN /\ late' \in BOOLEAN
  BY <1>1 DEF FlowInv
<1> QED
  BY <1>18, <1>19, StillRuns

(* The frame of the Flow itself.                                           *)
LEMMA FlowFrame ==
  ASSUME NEW zs, NEW t, Agree(stack, zs, ctx, t), Len(stack) = 1
  PROVE  /\ ctx.local = 0 /\ ctx.current = 0 /\ ctx.loopDepth = 0 /\ ~ctx.skipping
         /\ ctx.stopped => ctx.returned
<1>1. stack[1].kind = "flow" /\ stack[1].saved = Ctx0
  BY DEF Agree, Framed
<1>2. KeptBy(Under(stack, 1), "flow", zs[1], Ctx0, ctx)
  BY <1>1, TopFacts
<1>3. Fresh("flow") = 0 /\ ~Loose(Under(stack, 1), "flow")
  BY DEF Fresh, CallKinds, Loose
<1>4. ctx.local = Ctx0.local + 0 /\ ctx.current = Ctx0.current
  BY <1>2, <1>3 DEF KeptBy
<1>5. ctx.loopDepth = Ctx0.loopDepth
  BY <1>2 DEF KeptBy, CallKinds
<1>6. Ctx0.local = 0 /\ Ctx0.current = 0 /\ Ctx0.loopDepth = 0
  BY DEF Ctx0
<1>7. (ctx.skipping => ctx.loopDepth > 0) /\ (ctx.stopped => ctx.returned \/ ctx.skipping)
  BY <1>2 DEF KeptBy
<1> QED
  BY <1>4, <1>5, <1>6, <1>7

LEMMA EndSteps == FlowInv /\ (Complete \/ Fail) => FlowInv'
<1> SUFFICES ASSUME FlowInv, Complete \/ Fail PROVE FlowInv'
  OBVIOUS
<1>1. /\ Top.kind = "flow" /\ UNCHANGED <<stack, ctx, thrown, asked, late>>
      /\ verdict' = "completed" => ~ctx.returned \/ thrown = "completed"
  BY DEF Complete, Fail
<1>2. PICK zs : Agree(stack, zs, ctx, thrown)
  BY DEF FlowInv
<1>3. Len(stack) = 1
  BY <1>1, <1>2, TopFacts DEF Top
<1>4. ctx.stopped => ctx.returned
  BY <1>2, <1>3, FlowFrame
<1>5. thrown # "completed"
  BY DEF FlowInv, Errors
<1>6. Ended'
  BY <1>1, <1>3, <1>4, <1>5 DEF Ended
<1>7. Agree(stack', zs, ctx', thrown')
  BY <1>1, <1>2
<1> QED
  BY <1>1, <1>6, <1>7 DEF FlowInv

LEMMA OtherSteps == FlowInv /\ (AskToStop \/ TimePasses \/ UNCHANGED flowVars) => FlowInv'
<1> SUFFICES ASSUME FlowInv, AskToStop \/ TimePasses \/ UNCHANGED flowVars PROVE FlowInv'
  OBVIOUS
<1>1. UNCHANGED <<stack, ctx, thrown, verdict>> /\ asked' \in BOOLEAN /\ late' \in BOOLEAN
  BY DEF FlowInv, AskToStop, TimePasses, flowVars
<1>2. PICK zs : Agree(stack, zs, ctx, thrown)
  BY DEF FlowInv
<1>3. Agree(stack', zs, ctx', thrown') /\ Ended'
  BY <1>1, <1>2 DEF FlowInv, Ended
<1>4. thrown' \in {"none"} \cup Errors
  BY <1>1 DEF FlowInv
<1> QED
  BY <1>1, <1>3, <1>4 DEF FlowInv

LEMMA FlowStep == FlowInv /\ [FlowNext]_flowVars => FlowInv'
<1> SUFFICES ASSUME FlowInv, [FlowNext]_flowVars PROVE FlowInv'
  OBVIOUS
<1>1. CASE Leaf
  BY <1>1, LeafStep
<1>2. CASE ReturnNode
  BY <1>2, ReturnStep
<1>3. CASE NextNode
  BY <1>3, NextStep
<1>4. CASE IfNode
  BY <1>4, IfStep
<1>5. CASE TryNode
  BY <1>5, TryStep
<1>6. CASE LoopNode
  BY <1>6, LoopStep
<1>7. CASE CallNode \/ RelayNode
  BY <1>7, CallStep
<1>8. CASE CallPropsThrow
  BY <1>8, PropsStep
<1>9. CASE Cancelled \/ ThrowNode \/ NextOutsideLoop
  BY <1>9, RefuseSteps
<1>10. CASE CallTooDeep \/ RelayPropsThrow \/ RelayTooDeep
  BY <1>10, RefuseSteps
<1>11. CASE WhileRefused \/ WhileLimit \/ ChunksRefused
  BY <1>11, RefuseSteps
<1>12. CASE ForEachItem
  BY <1>12, ForEachStep
<1>13. CASE WhileTurn
  BY <1>13, WhileStep
<1>14. CASE ChunkSlot
  BY <1>14, SlotStep
<1>15. CASE Leave
  BY <1>15, LeaveStep
<1>16. CASE Catch
  BY <1>16, CatchStep
<1>17. CASE Unwind
  BY <1>17, UnwindStep
<1>18. CASE Complete \/ Fail
  BY <1>18, EndSteps
<1>19. CASE AskToStop \/ TimePasses \/ UNCHANGED flowVars
  BY <1>19, OtherSteps
<1> QED
  BY <1>1, <1>2, <1>3, <1>4, <1>5, <1>6, <1>7, <1>8, <1>9, <1>10, <1>11, <1>12, <1>13, <1>14,
     <1>15, <1>16, <1>17, <1>18, <1>19 DEF FlowNext, Run, Blocks, Loops

LEMMA FlowAlways == FlowSpec => []FlowInv
<1> QED
  BY InitAgrees, FlowStep, PTL DEF FlowSpec

-----------------------------------------------------------------------------
(* What the invariant says of the frames and of the context.               *)

LEMMA FlowTyped == FlowInv => FlowTypeOK
<1> SUFFICES ASSUME FlowInv PROVE FlowTypeOK
  OBVIOUS
<1>1. PICK zs : Agree(stack, zs, ctx, thrown)
  BY DEF FlowInv
<1>2. stack \in Seq(Frames) /\ ctx \in Contexts
  BY <1>1 DEF Agree, Framed
<1>3. \A i \in 1 .. Len(stack) : stack[i].kind \in Kinds /\ stack[i].left \in Nat
  <2> SUFFICES ASSUME NEW i \in 1 .. Len(stack) PROVE stack[i].kind \in Kinds /\ stack[i].left \in Nat
    OBVIOUS
  <2>1. stack[i] \in Frames
    BY <1>2
  <2> QED
    BY <2>1 DEF Frames
<1>4. \A flag \in {"stopped", "skipping", "returned"} : ctx[flag] \in BOOLEAN
  BY <1>2 DEF Contexts
<1>5. \A n \in {"loopDepth", "local", "current", "depth"} : ctx[n] \in Nat
  BY <1>2 DEF Contexts
<1>6. asked \in BOOLEAN /\ late \in BOOLEAN
      /\ thrown \in {"none", "user", "cancelled", "timeout", "outside", "depth", "limit"}
  BY DEF FlowInv, Errors
<1> QED
  BY <1>3, <1>4, <1>5, <1>6 DEF FlowTypeOK

LEMMA LoopsCounted == FlowInv => LoopDepthExact
<1> SUFFICES ASSUME FlowInv PROVE LoopDepthExact
  OBVIOUS
<1> DEFINE n == Len(stack)
           P(i) == \A j \in CallFrames : j <= i
           call == CHOOSE i \in CallFrames : P(i)
<1>1. PICK zs : Agree(stack, zs, ctx, thrown)
  BY DEF FlowInv
<1>2. n \in Nat \ {0}
  BY <1>1, TopFacts
<1>3. Level(stack, ctx, n) = ctx /\ n \in 1 .. n
  BY <1>2 DEF Level
<1>4. LoopCounted(stack, n, ctx.loopDepth)
  BY <1>1, <1>3 DEF Agree
<1>5. PICK c \in 1 .. n :
        /\ stack[c].kind \in CallKinds \cup {"flow"}
        /\ \A j \in c + 1 .. n : stack[j].kind \notin CallKinds \cup {"flow"}
        /\ ctx.loopDepth = Cardinality(Items(stack, c, n))
  BY <1>4 DEF LoopCounted
<1>6. c \in CallFrames /\ P(c)
  <2>1. c \in CallFrames
    BY <1>5 DEF CallFrames, CallKinds
  <2>2. ASSUME NEW j \in CallFrames PROVE j <= c
    <3>1. j \in 1 .. n /\ stack[j].kind \in CallKinds \cup {"flow"}
      BY DEF CallFrames, CallKinds
    <3>2. j \notin c + 1 .. n
      BY <1>5, <3>1
    <3> QED
      BY <1>2, <3>1, <3>2
  <2> QED
    BY <2>1, <2>2
<1>7. \A i \in CallFrames : P(i) => i = c
  <2> SUFFICES ASSUME NEW i \in CallFrames, P(i) PROVE i = c
    OBVIOUS
  <2>1. i <= c /\ c <= i /\ i \in Int /\ c \in Int
    BY <1>2, <1>6 DEF CallFrames
  <2> QED
    BY <2>1
<1> HIDE DEF P
<1>8. call = c
  BY <1>6, <1>7
<1>9. Items(stack, c, n) = {i \in c .. Len(stack) : stack[i].kind = "item"}
  BY DEF Items
<1>10. ctx.loopDepth = Cardinality({i \in call .. Len(stack) : stack[i].kind = "item"})
  BY <1>5, <1>8, <1>9
<1> QED
  BY <1>10 DEF LoopDepthExact, P

LEMMA FramesLeft == FlowInv => FramesRestored
<1> SUFFICES ASSUME FlowInv, verdict # "running"
             PROVE  /\ ctx.local = 0 /\ ctx.current = 0 /\ ctx.loopDepth = 0
                    /\ ~ctx.skipping
                    /\ verdict = "completed" => ~ctx.stopped
  BY DEF FramesRestored
<1>1. PICK zs : Agree(stack, zs, ctx, thrown)
  BY DEF FlowInv
<1>2. Len(stack) = 1 /\ (verdict = "completed" => ~ctx.stopped)
  BY DEF FlowInv, Ended
<1> QED
  BY <1>1, <1>2, FlowFrame

LEMMA CallsCounted == WellWritten /\ FlowInv => CallStackExact
<1> SUFFICES ASSUME WellWritten, FlowInv, Running
             PROVE  ctx.depth = Cardinality({i \in CallFrames : stack[i].kind # "flow"})
  BY DEF CallStackExact
<1> DEFINE n == Len(stack)
<1>1. PICK zs : Agree(stack, zs, ctx, "none")
  BY AtAgrees
<1>2. n \in Nat \ {0}
  BY <1>1, TopFacts
<1>3. Level(stack, ctx, n) = ctx /\ n \in 1 .. n
  BY <1>2 DEF Level
<1>4. Exact(stack, zs, ctx, "none")
  BY <1>1 DEF Agree
<1>5. Level(stack, ctx, n).depth = Cardinality(CallsTo(stack, n))
  BY <1>3, <1>4 DEF Exact
<1>6. CallsTo(stack, n) = {i \in CallFrames : stack[i].kind # "flow"}
  BY DEF CallsTo, CallFrames, CallKinds
<1> QED
  BY <1>3, <1>5, <1>6

(* For every Flow: the loop depth counts the item bodies of the innermost  *)
(* call, and a run that ends left every frame it entered, whatever was     *)
(* thrown, by finally clauses that each put back what their frame saved.   *)
THEOREM FramesAreLeft == FlowSpec => [](FlowTypeOK /\ LoopDepthExact /\ FramesRestored)
<1>1. FlowInv => FlowTypeOK /\ LoopDepthExact /\ FramesRestored
  BY FlowTyped, LoopsCounted, FramesLeft
<1> QED
  BY <1>1, FlowAlways, PTL

(* For the Flows without the two divergences of WellWritten, the depth     *)
(* maxGraphBlockDepth is compared with also counts the composite blocks    *)
(* that run, called or relayed.                                            *)
THEOREM FramesAgree == ASSUME WellWritten PROVE FlowSpec => []FramesExact
<1>1. FlowInv => FramesExact
  BY FlowTyped, LoopsCounted, FramesLeft, CallsCounted DEF FramesExact
<1> QED
  BY <1>1, FlowAlways, PTL

-----------------------------------------------------------------------------
(* What runs after a return or a cancellation.                             *)

Seen == {n.id : n \in Written} \X Nat \X Nat

LEMMA LeafLogs ==
  ASSUME FlowInv, Leaf
  PROVE  /\ \E entry \in Seen : log' = Append(log, entry)
         /\ ~asked /\ (WellWritten => ~ctx.returned)
<1>1. AtNode /\ Running /\ ~asked /\ log' = Append(log, <<Node.id, ctx.current, ctx.local>>)
  BY DEF Leaf, At, AtNode
<1>2. PICK zs : Agree(stack, zs, ctx, "none")
  BY <1>1, AtAgrees
<1>3. /\ Node \in Nodes[Here(zs)] /\ Here(zs) \in Zones /\ ctx \in Contexts /\ ~ctx.stopped
      /\ KeptBy(Under(stack, Len(stack)), Top.kind, Here(zs), Top.saved, ctx)
  BY <1>1, <1>2, NodeHere
<1>4. Node.id \in {n.id : n \in Written} /\ ctx.current \in Nat /\ ctx.local \in Nat
  BY <1>3 DEF Written, Contexts
<1>5. <<Node.id, ctx.current, ctx.local>> \in Seen
  BY <1>4 DEF Seen
<1>6. WellWritten => ~ctx.returned
  BY <1>3 DEF KeptBy, Flags
<1> QED
  BY <1>1, <1>5, <1>6

LEMMA OthersKeepLog == [FlowNext]_flowVars /\ ~Leaf => log' = log
BY DEF FlowNext, AskToStop, TimePasses, Run, Blocks, Loops, Cancelled, ThrowNode, ReturnNode,
       NextNode, NextOutsideLoop, IfNode, TryNode, LoopNode, CallNode, CallPropsThrow, CallTooDeep,
       RelayNode, RelayPropsThrow, RelayTooDeep, ForEachItem, WhileRefused, WhileLimit, WhileTurn,
       ChunksRefused, ChunkSlot, Leave, Complete, Catch, Unwind, Fail, Refuse, Item, Enter, flowVars

(* Whatever the Flow: no block runs once the run is cancelled, in the      *)
(* catch of a try that caught the cancellation neither.                    *)
LEMMA CancelEndsAll == FlowSpec => NothingAfterCancel
<1>1. FlowInv /\ [FlowNext]_flowVars => [asked => log' = log]_flowVars
  <2> SUFFICES ASSUME FlowInv, [FlowNext]_flowVars, asked PROVE log' = log
    OBVIOUS
  <2>1. ~Leaf
    BY LeafLogs
  <2> QED
    BY <2>1, OthersKeepLog
<1> QED
  BY <1>1, FlowAlways, PTL DEF FlowSpec, NothingAfterCancel

LEMMA LogTyped == FlowSpec => [](log \in Seq(Seen))
<1>1. FlowInit => log \in Seq(Seen)
  BY DEF FlowInit
<1>2. log \in Seq(Seen) /\ FlowInv /\ [FlowNext]_flowVars => (log \in Seq(Seen))'
  <2> SUFFICES ASSUME log \in Seq(Seen), FlowInv, [FlowNext]_flowVars PROVE log' \in Seq(Seen)
    OBVIOUS
  <2>1. CASE Leaf
    <3>1. PICK entry \in Seen : log' = Append(log, entry)
      BY <2>1, LeafLogs
    <3> QED
      BY <3>1, AppendFacts
  <2>2. CASE ~Leaf
    BY <2>2, OthersKeepLog
  <2> QED
    BY <2>1, <2>2
<1> QED
  BY <1>1, <1>2, FlowAlways, PTL DEF FlowSpec

(* A well written Flow ends what it is told to end at once: a return its   *)
(* scope, as no block of the scope starts after it; a cancellation the run.*)
THEOREM EndsAtOnce == ASSUME WellWritten PROVE FlowSpec => StopsAtOnce
<1>1. log \in Seq(Seen) /\ FlowInv /\ [FlowNext]_flowVars
        => [Len(log') > Len(log) => ~ctx.returned]_flowVars
  <2> SUFFICES ASSUME log \in Seq(Seen), FlowInv, [FlowNext]_flowVars, Len(log') > Len(log)
               PROVE  ~ctx.returned
    OBVIOUS
  <2>1. Leaf
    <3>1. log' # log
      BY AppendFacts
    <3> QED
      BY <3>1, OthersKeepLog
  <2> QED
    BY <2>1, LeafLogs
<1>2. FlowSpec => ReturnLeaves
  BY <1>1, LogTyped, FlowAlways, PTL DEF FlowSpec, ReturnLeaves
<1> QED
  BY <1>2, CancelEndsAll DEF StopsAtOnce
=============================================================================
