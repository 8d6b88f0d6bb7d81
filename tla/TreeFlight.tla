----------------------------- MODULE TreeFlight -----------------------------
(***************************************************************************)
(* describeTreeRequest for one engine tree (one key and fingerprint) asked *)
(* by several scopes of the server: the shared trees, and the flight that  *)
(* makes a scope wait for the one that describes it.  A flight is a Java   *)
(* ReentrantLock kept in a concurrent map while it is of use.              *)
(***************************************************************************)
EXTENDS Naturals, FiniteSets

CONSTANTS
  Scope,      \* threads asking the tree
  None,       \* no lock, or nobody
  Timeouts,   \* whether the bounded wait may pass
  Transient,  \* whether a description may hold a transient error
  Evictions   \* whether other trees may push this one out of the shared map

ASSUME SwitchesAssumption ==
  Timeouts \in BOOLEAN /\ Transient \in BOOLEAN /\ Evictions \in BOOLEAN

ASSUME NoneAssumption == None \notin Scope

(* A scope creates one lock at most: a lock is named by its creator.       *)
Lock == Scope

VARIABLES
  pc,        \* where each scope is in describeTreeRequest
  shared,    \* whether the shared trees hold the tree
  flight,    \* the lock the map of flights holds, None without one
  got,       \* the lock each scope took from the map
  owner,     \* lock -> the scope that holds it, or None
  queue,     \* lock -> the scopes queued for it
  waited,    \* scopes whose flight was acquired by waiting
  gaveUp,    \* history: scopes whose wait passed 120 s
  answer,    \* what each scope answers
  evicted    \* history: whether the shared map dropped the tree

flightVars == <<pc, shared, flight, got, owner, queue, waited, gaveUp, answer, evicted>>

FlightInit ==
  /\ pc = [s \in Scope |-> "read"]
  /\ shared = FALSE
  /\ flight = None
  /\ got = [s \in Scope |-> None]
  /\ owner = [k \in Lock |-> None]
  /\ queue = [k \in Lock |-> {}]
  /\ waited = {} /\ gaveUp = {} /\ evicted = FALSE
  /\ answer = [s \in Scope |-> "none"]

Goto(s, where) == pc' = [pc EXCEPT ![s] = where]

-----------------------------------------------------------------------------
(* readSharedEngineTree, before any flight.                                *)
Read(s) ==
  /\ pc[s] = "read"
  /\ IF shared THEN Goto(s, "done") /\ answer' = [answer EXCEPT ![s] = "shared"]
     ELSE Goto(s, "get") /\ UNCHANGED answer
  /\ UNCHANGED <<shared, flight, got, owner, queue, waited, gaveUp, evicted>>

(* acquireSharedEngineTreeFlight: flights.get, then putIfAbsent.           *)
GetFlight(s) ==
  /\ pc[s] = "get"
  /\ IF flight = None THEN Goto(s, "put") /\ UNCHANGED got
     ELSE Goto(s, "tryLock") /\ got' = [got EXCEPT ![s] = flight]
  /\ UNCHANGED <<shared, flight, owner, queue, waited, gaveUp, answer, evicted>>

(* Mutant: put instead of putIfAbsent.                                     *)
PutFlightAlways(s) ==
  /\ pc[s] = "put"
  /\ flight' = s
  /\ got' = [got EXCEPT ![s] = s]
  /\ Goto(s, "tryLock")
  /\ UNCHANGED <<shared, owner, queue, waited, gaveUp, answer, evicted>>

PutFlight(s) ==
  /\ pc[s] = "put"
  /\ IF flight = None
     THEN flight' = s /\ got' = [got EXCEPT ![s] = s]
     ELSE got' = [got EXCEPT ![s] = flight] /\ UNCHANGED flight
  /\ Goto(s, "tryLock")
  /\ UNCHANGED <<shared, owner, queue, waited, gaveUp, answer, evicted>>

(* tryLock() at once, or a place in the queue of the lock.                 *)
TryLock(s) ==
  /\ pc[s] = "tryLock"
  /\ IF owner[got[s]] = None
     THEN /\ owner' = [owner EXCEPT ![got[s]] = s]
          /\ Goto(s, "describe")
          /\ UNCHANGED queue
     ELSE /\ queue' = [queue EXCEPT ![got[s]] = @ \cup {s}]
          /\ Goto(s, "wait")
          /\ UNCHANGED owner
  /\ UNCHANGED <<shared, flight, got, waited, gaveUp, answer, evicted>>

Acquire(s) ==
  /\ pc[s] = "wait"
  /\ owner[got[s]] = None
  /\ owner' = [owner EXCEPT ![got[s]] = s]
  /\ queue' = [queue EXCEPT ![got[s]] = @ \ {s}]
  /\ waited' = waited \cup {s}
  /\ Goto(s, "reread")
  /\ UNCHANGED <<shared, flight, got, answer, gaveUp, evicted>>

(* 120 s passed: the scope describes the tree without a flight.            *)
GiveUp(s) ==
  /\ Timeouts
  /\ pc[s] = "wait"
  /\ gaveUp' = gaveUp \cup {s}
  /\ queue' = [queue EXCEPT ![got[s]] = @ \ {s}]
  /\ got' = [got EXCEPT ![s] = None]
  /\ Goto(s, "describe")
  /\ UNCHANGED <<shared, flight, owner, waited, answer, evicted>>

(* A scope that waited reads the tree shared meanwhile.                    *)
Reread(s) ==
  /\ pc[s] = "reread"
  /\ IF shared THEN Goto(s, "release") /\ answer' = [answer EXCEPT ![s] = "shared"]
     ELSE Goto(s, "describe") /\ UNCHANGED answer
  /\ UNCHANGED <<shared, flight, got, owner, queue, waited, gaveUp, evicted>>

(* The description ends; "transient" is one that is not shared: it threw,  *)
(* it answered an error, or the tree shows a transient error.              *)
Describe(s) ==
  /\ pc[s] = "describe"
  /\ \E failed \in {FALSE, Transient} :
       /\ answer' = [answer EXCEPT ![s] = IF failed THEN "transient" ELSE "described"]
       /\ Goto(s, IF failed THEN "release" ELSE "share")
  /\ UNCHANGED <<shared, flight, got, owner, queue, waited, gaveUp, evicted>>

(* Mutant: the tree is shared once its flight is released.                 *)
ShareAfterRelease(s) ==
  \/ /\ pc[s] = "share"
     /\ Goto(s, "release")
     /\ UNCHANGED <<shared, flight, got, owner, queue, waited, gaveUp, answer, evicted>>
  \/ /\ pc[s] = "done" /\ answer[s] = "described" /\ ~shared
     /\ shared' = TRUE
     /\ UNCHANGED <<pc, flight, got, owner, queue, waited, gaveUp, answer, evicted>>

(* writeSharedEngineTree, before the flight is released.                   *)
Share(s) ==
  /\ pc[s] = "share"
  /\ shared' = TRUE
  /\ Goto(s, "release")
  /\ UNCHANGED <<flight, got, owner, queue, waited, gaveUp, answer, evicted>>

(* Mutant: the map never forgets a lock.                                   *)
ReleaseKeeps(s) ==
  /\ pc[s] = "release"
  /\ Goto(s, IF got[s] = None THEN "done" ELSE "unlock")
  /\ UNCHANGED <<shared, flight, got, owner, queue, waited, gaveUp, answer, evicted>>

(* releaseSharedEngineTreeFlight: nobody queued, the map forgets the lock. *)
Release(s) ==
  /\ pc[s] = "release"
  /\ Goto(s, CASE got[s] = None -> "done"
               [] got[s] # None /\ queue[got[s]] = {} -> "forget"
               [] OTHER -> "unlock")
  /\ UNCHANGED <<shared, flight, got, owner, queue, waited, gaveUp, answer, evicted>>

(* Mutant: a lock the map forgot is not unlocked.                          *)
ForgetKeepsLock(s) ==
  /\ pc[s] = "forget"
  /\ flight' = IF flight = got[s] THEN None ELSE flight
  /\ Goto(s, "done")
  /\ UNCHANGED <<shared, got, owner, queue, waited, gaveUp, answer, evicted>>

Forget(s) ==
  /\ pc[s] = "forget"
  /\ flight' = IF flight = got[s] THEN None ELSE flight
  /\ Goto(s, "unlock")
  /\ UNCHANGED <<shared, got, owner, queue, waited, gaveUp, answer, evicted>>

Unlock(s) ==
  /\ pc[s] = "unlock"
  /\ owner' = [owner EXCEPT ![got[s]] = None]
  /\ got' = [got EXCEPT ![s] = None]
  /\ Goto(s, "done")
  /\ UNCHANGED <<shared, flight, queue, waited, gaveUp, answer, evicted>>

(* writeSharedEngineTree of other trees drops the least recently used one. *)
Evict ==
  /\ Evictions
  /\ shared
  /\ shared' = FALSE /\ evicted' = TRUE
  /\ UNCHANGED <<pc, flight, got, owner, queue, waited, gaveUp, answer>>

Progress(s) ==
  \/ Read(s) \/ GetFlight(s) \/ PutFlight(s) \/ TryLock(s) \/ Acquire(s)
  \/ Reread(s) \/ Describe(s) \/ Share(s)
  \/ Release(s) \/ Forget(s) \/ Unlock(s)

Step(s) == Progress(s) \/ GiveUp(s)

FlightNext == Evict \/ \E s \in Scope : Step(s)

FlightSpec == FlightInit /\ [][FlightNext]_flightVars

(* The threads are scheduled; the lock is given to a queued scope once it  *)
(* is free.  No wait has to last 120 s.                                    *)
FlightFairSpec == FlightSpec /\ \A s \in Scope : WF_flightVars(Progress(s))

-----------------------------------------------------------------------------
FlightTypeOK ==
  /\ pc \in [Scope -> {"read", "get", "put", "tryLock", "wait", "reread", "describe",
                       "share", "release", "forget", "unlock", "done"}]
  /\ shared \in BOOLEAN
  /\ flight \in Lock \cup {None} /\ got \in [Scope -> Lock \cup {None}]
  /\ owner \in [Lock -> Scope \cup {None}] /\ queue \in [Lock -> SUBSET Scope]
  /\ \A k \in Lock :
       /\ owner[k] \in {None} \cup {s \in Scope : got[s] = k}
       /\ queue[k] = {s \in Scope : pc[s] = "wait" /\ got[s] = k}
  /\ waited \subseteq Scope /\ gaveUp \subseteq Scope /\ evicted \in BOOLEAN
  /\ answer \in [Scope -> {"none", "shared", "described", "transient"}]

InFlight == {"reread", "describe", "share", "release", "forget", "unlock"}

(* A flight has one scope at a time, whatever became of the map.           *)
OnePerFlight ==
  \A s, t \in Scope :
    s # t /\ pc[s] \in InFlight /\ pc[t] \in InFlight /\ got[s] # None =>
      got[s] # got[t]

(* Scopes that ask the tree together are described once: two descriptions  *)
(* overlap only after a flight was released or a wait given up.            *)
OneUntilReleased ==
  (\A s \in Scope : pc[s] \notin {"unlock", "done"} /\ (pc[s] = "describe" => got[s] # None)) =>
    Cardinality({s \in Scope : pc[s] = "describe"}) <= 1

(* A tree is not described twice at once: never in one flight, and in no   *)
(* two flights until one was released or a wait given up.                  *)
DescribedOnce == OnePerFlight /\ OneUntilReleased

(* What the wait is for: a scope that waited for a flight describes the    *)
(* tree itself only after a description that could not be shared or after  *)
(* an eviction, whoever shared, barged in or gave up meanwhile.            *)
WaitersServed ==
  ~evicted /\ (\A t \in Scope : answer[t] # "transient") =>
    \A s \in waited : pc[s] \notin {"describe", "share"}

(* The map of flights, a server-wide one, is left empty: no wait given up. *)
FlightsForgotten ==
  gaveUp = {} /\ (\A s \in Scope : pc[s] = "done") => flight = None

(* Every scope gets its tree: nobody waits for a flight nobody will end.   *)
EveryoneAnswers == <>(\A s \in Scope : pc[s] = "done" /\ answer[s] # "none")
=============================================================================
