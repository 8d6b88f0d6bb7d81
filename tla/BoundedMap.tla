------------------------------ MODULE BoundedMap ------------------------------
(***************************************************************************)
(* The bounded caches of a runtime (cache-utils.js): entries under a key,  *)
(* valid under a fingerprint, a size kept beside them, and a clock that    *)
(* orders their uses so that the least recently used one makes room.  The  *)
(* statistics and labels of a cache are left out.                          *)
(***************************************************************************)
EXTENDS Naturals, FiniteSets

Cache(entries, limit, size, clock) ==
  [entries |-> entries, limit |-> limit, size |-> size, clock |-> clock]

Entry(fingerprint, value, usedAt) ==
  [fingerprint |-> fingerprint, value |-> value, usedAt |-> usedAt]

(* An empty cache: createBoundedMapState, and what a clear leaves.         *)
EmptyMap(limit) == Cache([k \in {} |-> k], limit, 0, 0)

Cleared(m) == EmptyMap(m.limit)

Keys(m) == DOMAIN m.entries

(* readBoundedMap: a hit is a use of the entry, a miss changes nothing.    *)
Hit(m, key, fingerprint) ==
  key \in Keys(m) /\ m.entries[key].fingerprint = fingerprint

(* Mutant: a read is no use of the entry.                                  *)
TouchNothing(m, key) == m

Touch(m, key) ==
  LET was == m.entries[key]
      used == Entry(was.fingerprint, was.value, m.clock + 1)
  IN  Cache([m.entries EXCEPT ![key] = used], m.limit, m.size, m.clock + 1)

AfterRead(m, key, fingerprint) ==
  IF Hit(m, key, fingerprint) THEN Touch(m, key) ELSE m

Without(m, gone) == [k \in Keys(m) \ gone |-> m.entries[k]]

LeastUsed(m) ==
  CHOOSE k \in Keys(m) : \A j \in Keys(m) : m.entries[k].usedAt <= m.entries[j].usedAt

EvictOldest(m) == Cache(Without(m, {LeastUsed(m)}), m.limit, m.size - 1, m.clock)

(* The loop of writeBoundedMap goes round once: the size passes the limit  *)
(* in no reachable cache (Consistent).                                     *)
MakeRoom(m) == IF m.size >= m.limit THEN EvictOldest(m) ELSE m

(* Where a new entry goes, and one that is written again.                  *)
Room(m, key) == IF key \in Keys(m) THEN m ELSE MakeRoom(m)

Write(m, key, fingerprint, value) ==
  LET room == Room(m, key)
      entry == Entry(fingerprint, value, room.clock + 1)
  IN  Cache([k \in Keys(room) \cup {key} |-> IF k = key THEN entry ELSE room.entries[k]],
            room.limit,
            IF key \in Keys(m) THEN room.size ELSE room.size + 1,
            room.clock + 1)

(* clearMapWhere on a bounded cache.                                       *)
ClearWhere(m, gone) ==
  Cache(Without(m, gone), m.limit, m.size - Cardinality(Keys(m) \cap gone), m.clock)

Shaped(m) ==
  /\ m = Cache(m.entries, m.limit, m.size, m.clock)
  /\ m.entries = [k \in Keys(m) |-> m.entries[k]]

(* What its users rely on: the size is the number of entries and within    *)
(* the limit, and the entries are ordered by their uses.                   *)
Consistent(m) ==
  /\ Shaped(m)
  /\ m.limit \in Nat \ {0} /\ m.clock \in Nat
  /\ IsFiniteSet(Keys(m))
  /\ m.size = Cardinality(Keys(m)) /\ m.size <= m.limit
  /\ \A k \in Keys(m) : m.entries[k].usedAt \in 1..m.clock
  /\ \A j, k \in Keys(m) : m.entries[j].usedAt = m.entries[k].usedAt => j = k
===============================================================================
