----------------------------- MODULE Answers_proofs -----------------------------
(***************************************************************************)
(* What the engine answers its callers.                                    *)
(*                                                                         *)
(* The generated schemas: for any number of requests and of updates, the   *)
(* fingerprint kept for a generation is the one of the directory, and the  *)
(* answers are current.                                                    *)
(*                                                                         *)
(* The listings answered in pages: for any listing, any options and any    *)
(* edits, the pages add up to the listing, and each moves its cursor.      *)
(***************************************************************************)
EXTENDS GeneratedSchemas, PagedSearch, FiniteSetTheorems, WellFoundedInduction, TLAPS

-----------------------------------------------------------------------------
(* The generated schemas.                                                  *)

(* What the proof needs of the types.                                      *)
Typed ==
  /\ kind \in [Updaters -> Kinds]
  /\ upc \in [Updaters -> {"idle", "write", "fill", "bump", "forget", "done"}]
  /\ epoch \in Nat
  /\ gen \in [Readers -> Int] /\ \A r \in Readers : gen[r] <= epoch
  /\ print \in [Readers -> Int] /\ stamp \in Int /\ stamps \in Int
  /\ memo \in [gen : Int, print : Int] /\ memo.gen <= epoch
  /\ pc \in [Readers -> {"idle", "memo", "lock", "again", "keep", "put", "unlock",
                         "lookup", "hit", "build", "built", "write", "done"}]

(* A request to clear the caches writes nothing.                           *)
Writers ==
  \A u \in Updaters : upc[u] \in {"write", "fill"} => kind[u] # "clear"

(* A reader about to keep its fingerprint took it after the last update of *)
(* its generation.                                                         *)
PrintCurrent ==
  \A r \in Readers :
    pc[r] \in {"keep", "put"} /\ gen[r] = epoch /\ ~Updating => print[r] = stamp

IInv == Typed /\ Writers /\ PrintCurrent /\ MemoCurrent

LEMMA InitIInv == Init => IInv
  BY MixesAssumption DEF Init, IInv, Typed, Writers, PrintCurrent, MemoCurrent, NoMemo,
     Absent, Updating, Kinds

(* A step of a reader changes neither the file nor the epoch.              *)
LEMMA ReaderIInv ==
  ASSUME IInv, NEW r \in Readers, Read(r)
  PROVE  IInv'
<1> USE DEF IInv, Goto
<1>0. UNCHANGED <<kind, stamp, stamps, epoch, upc>> /\ (Updating' <=> Updating)
  BY DEF Read, Begin, MemoHit, MemoMiss, Lock, MemoAgain, Fingerprint, Keep, PutMemo,
     Unlock, Lookup, Hit, Build, Publish, Write, UseMemo, Updating
<1>w. Writers'
  BY <1>0 DEF Writers
<1>1. CASE Begin(r)
  <2>1. Typed'
    BY <1>0, <1>1 DEF Begin, Typed
  <2>2. PrintCurrent' /\ MemoCurrent'
    BY <1>0, <1>1 DEF Begin, Typed, PrintCurrent, MemoCurrent
  <2> QED
    BY <1>w, <2>1, <2>2
<1>2. CASE MemoHit(r)
  <2>1. Typed'
    BY <1>0, <1>2 DEF MemoHit, UseMemo, Typed
  <2>2. PrintCurrent' /\ MemoCurrent'
    BY <1>0, <1>2 DEF MemoHit, UseMemo, Typed, PrintCurrent, MemoCurrent
  <2> QED
    BY <1>w, <2>1, <2>2
<1>3. CASE MemoMiss(r)
  <2>1. Typed'
    BY <1>0, <1>3 DEF MemoMiss, Typed
  <2>2. PrintCurrent' /\ MemoCurrent'
    BY <1>0, <1>3 DEF MemoMiss, Typed, PrintCurrent, MemoCurrent
  <2> QED
    BY <1>w, <2>1, <2>2
<1>4. CASE Lock(r)
  <2>1. Typed'
    BY <1>0, <1>4 DEF Lock, Typed
  <2>2. PrintCurrent' /\ MemoCurrent'
    BY <1>0, <1>4 DEF Lock, Typed, PrintCurrent, MemoCurrent
  <2> QED
    BY <1>w, <2>1, <2>2
<1>5. CASE MemoAgain(r)
  <2>1. Typed'
    BY <1>0, <1>5 DEF MemoAgain, UseMemo, Typed
  <2>2. PrintCurrent' /\ MemoCurrent'
    BY <1>0, <1>5 DEF MemoAgain, UseMemo, Typed, PrintCurrent, MemoCurrent
  <2> QED
    BY <1>w, <2>1, <2>2
<1>6. CASE Fingerprint(r)
  <2>1. Typed'
    BY <1>0, <1>6 DEF Fingerprint, Typed
  <2>2. PrintCurrent' /\ MemoCurrent'
    BY <1>0, <1>6 DEF Fingerprint, Typed, PrintCurrent, MemoCurrent
  <2> QED
    BY <1>w, <2>1, <2>2
<1>7. CASE Keep(r)
  <2>1. Typed'
    BY <1>0, <1>7 DEF Keep, Typed
  <2>2. PrintCurrent' /\ MemoCurrent'
    BY <1>0, <1>7 DEF Keep, Typed, PrintCurrent, MemoCurrent
  <2> QED
    BY <1>w, <2>1, <2>2
<1>8. CASE PutMemo(r)
  <2>1. Typed'
    BY <1>0, <1>8 DEF PutMemo, Typed
  <2>2. PrintCurrent' /\ MemoCurrent'
    BY <1>0, <1>8 DEF PutMemo, Typed, PrintCurrent, MemoCurrent
  <2> QED
    BY <1>w, <2>1, <2>2
<1>9. CASE Unlock(r)
  <2>1. Typed'
    BY <1>0, <1>9 DEF Unlock, Typed
  <2>2. PrintCurrent' /\ MemoCurrent'
    BY <1>0, <1>9 DEF Unlock, Typed, PrintCurrent, MemoCurrent
  <2> QED
    BY <1>w, <2>1, <2>2
<1>10. CASE Lookup(r)
  <2>1. Typed'
    BY <1>0, <1>10 DEF Lookup, Typed
  <2>2. PrintCurrent' /\ MemoCurrent'
    BY <1>0, <1>10 DEF Lookup, Typed, PrintCurrent, MemoCurrent
  <2> QED
    BY <1>w, <2>1, <2>2
<1>11. CASE Hit(r)
  <2>1. Typed'
    BY <1>0, <1>11 DEF Hit, Typed
  <2>2. PrintCurrent' /\ MemoCurrent'
    BY <1>0, <1>11 DEF Hit, Typed, PrintCurrent, MemoCurrent
  <2> QED
    BY <1>w, <2>1, <2>2
<1>12. CASE Build(r)
  <2>1. Typed'
    BY <1>0, <1>12 DEF Build, Typed
  <2>2. PrintCurrent' /\ MemoCurrent'
    BY <1>0, <1>12 DEF Build, Typed, PrintCurrent, MemoCurrent
  <2> QED
    BY <1>w, <2>1, <2>2
<1>13. CASE Publish(r)
  <2>1. Typed'
    BY <1>0, <1>13 DEF Publish, Typed
  <2>2. PrintCurrent' /\ MemoCurrent'
    BY <1>0, <1>13 DEF Publish, Typed, PrintCurrent, MemoCurrent
  <2> QED
    BY <1>w, <2>1, <2>2
<1>14. CASE Write(r)
  <2>1. Typed'
    BY <1>0, <1>14 DEF Write, Typed
  <2>2. PrintCurrent' /\ MemoCurrent'
    BY <1>0, <1>14 DEF Write, Typed, PrintCurrent, MemoCurrent
  <2> QED
    BY <1>w, <2>1, <2>2
<1> QED
  BY <1>1, <1>2, <1>3, <1>4, <1>5, <1>6, <1>7, <1>8, <1>9, <1>10, <1>11, <1>12, <1>13,
     <1>14 DEF Read

(* An update is on until it bumps the epoch, and the bump ends every       *)
(* generation a fingerprint was taken for.                                 *)
LEMMA UpdaterIInv ==
  ASSUME IInv, NEW u \in Updaters, Update(u)
  PROVE  IInv'
<1> USE DEF IInv, UGoto
<1>0. UNCHANGED <<kind, pc, gen, print>>
  BY DEF Update, LearnCheck, AdoptCheck, StartWrite, EndWrite, Remove, Reset, Clear,
     Bump, Forget, Becomes, readerVars
<1>1. CASE LearnCheck(u)
  <2>1. Typed'
    BY <1>0, <1>1 DEF LearnCheck, Typed
  <2>2. Writers'
    BY <1>0, <1>1 DEF LearnCheck, Typed, Writers
  <2>3. PrintCurrent' /\ MemoCurrent'
    BY <1>0, <1>1 DEF LearnCheck, Typed, Writers, Updating, PrintCurrent, MemoCurrent
  <2> QED
    BY <2>1, <2>2, <2>3
<1>2. CASE AdoptCheck(u)
  <2>1. Typed'
    BY <1>0, <1>2 DEF AdoptCheck, Typed
  <2>2. Writers'
    BY <1>0, <1>2 DEF AdoptCheck, Typed, Writers
  <2>3. PrintCurrent' /\ MemoCurrent'
    BY <1>0, <1>2 DEF AdoptCheck, Typed, Writers, Updating, PrintCurrent, MemoCurrent
  <2> QED
    BY <2>1, <2>2, <2>3
<1>3. CASE StartWrite(u)
  <2>1. Typed'
    BY <1>0, <1>3 DEF StartWrite, Becomes, Touch, Typed
  <2>2. Writers'
    BY <1>0, <1>3 DEF StartWrite, Typed, Writers
  <2>3. PrintCurrent' /\ MemoCurrent'
    BY <1>0, <1>3 DEF StartWrite, Becomes, Touch, Typed, Writers, Updating,
       PrintCurrent, MemoCurrent
  <2> QED
    BY <2>1, <2>2, <2>3
<1>4. CASE EndWrite(u)
  <2>1. Typed'
    BY <1>0, <1>4 DEF EndWrite, Becomes, Touch, Typed
  <2>2. Writers'
    BY <1>0, <1>4 DEF EndWrite, Typed, Writers
  <2>3. PrintCurrent' /\ MemoCurrent'
    BY <1>0, <1>4 DEF EndWrite, Becomes, Touch, Typed, Writers, Updating, PrintCurrent, MemoCurrent
  <2> QED
    BY <2>1, <2>2, <2>3
<1>5. CASE Remove(u)
  <2>1. Typed'
    BY <1>0, <1>5 DEF Remove, Becomes, Touch, Typed
  <2>2. Writers'
    BY <1>0, <1>5 DEF Remove, Typed, Writers
  <2>3. PrintCurrent' /\ MemoCurrent'
    BY <1>0, <1>5 DEF Remove, Becomes, Touch, Typed, Writers, Updating, PrintCurrent, MemoCurrent
  <2> QED
    BY <2>1, <2>2, <2>3
<1>6. CASE Reset(u)
  <2>1. Typed'
    BY <1>0, <1>6 DEF Reset, Becomes, Absent, Typed
  <2>2. Writers'
    BY <1>0, <1>6 DEF Reset, Typed, Writers
  <2>3. PrintCurrent' /\ MemoCurrent'
    BY <1>0, <1>6 DEF Reset, Becomes, Absent, Typed, Writers, Updating, PrintCurrent, MemoCurrent
  <2> QED
    BY <2>1, <2>2, <2>3
<1>7. CASE Clear(u)
  <2>1. Typed'
    BY <1>0, <1>7 DEF Clear, Typed
  <2>2. Writers'
    BY <1>0, <1>7 DEF Clear, Typed, Writers
  <2>3. PrintCurrent' /\ MemoCurrent'
    BY <1>0, <1>7 DEF Clear, Typed, Writers, Updating, PrintCurrent, MemoCurrent
  <2> QED
    BY <2>1, <2>2, <2>3
<1>8. CASE Bump(u)
  <2>1. Typed'
    BY <1>0, <1>8 DEF Bump, Typed
  <2>2. Writers'
    BY <1>0, <1>8 DEF Bump, Typed, Writers
  <2>3. PrintCurrent' /\ MemoCurrent'
    BY <1>0, <1>8 DEF Bump, Typed, Writers, Updating, PrintCurrent, MemoCurrent
  <2> QED
    BY <2>1, <2>2, <2>3
<1>9. CASE Forget(u)
  <2>1. Typed'
    BY <1>0, <1>9 DEF Forget, NoMemo, Absent, Typed
  <2>2. Writers'
    BY <1>0, <1>9 DEF Forget, Typed, Writers
  <2>3. PrintCurrent' /\ MemoCurrent'
    BY <1>0, <1>9 DEF Forget, NoMemo, Typed, Writers, Updating, PrintCurrent, MemoCurrent
  <2> QED
    BY <2>1, <2>2, <2>3
<1> QED
  BY <1>1, <1>2, <1>3, <1>4, <1>5, <1>6, <1>7, <1>8, <1>9 DEF Update

LEMMA NextIInv == IInv /\ [Next]_vars => IInv'
<1> SUFFICES ASSUME IInv, [Next]_vars PROVE IInv'
  OBVIOUS
<1>1. CASE UNCHANGED vars
  BY <1>1 DEF vars, readerVars, IInv, Typed, Writers, PrintCurrent, MemoCurrent, Updating
<1>2. CASE Expire
  BY <1>2 DEF Expire, readerVars, NoMemo, Absent, IInv, Typed, Writers, PrintCurrent,
     MemoCurrent, Updating
<1> QED
  BY <1>1, <1>2, ReaderIInv, UpdaterIInv DEF Next

(* No fingerprint taken before an update serves the generation after it.   *)
THEOREM MemoIsCurrent == Spec => []MemoCurrent
<1>1. Init => IInv
  BY InitIInv
<1>2. IInv /\ [Next]_vars => IInv'
  BY NextIInv
<1>3. IInv => MemoCurrent
  BY DEF IInv
<1> QED
  BY <1>1, <1>2, <1>3, PTL DEF Spec
-----------------------------------------------------------------------------
(* The types.  An update gives a stamp when it starts and when it ends, at *)
(* most, and bumps the epoch once.                                         *)
Started == {u \in Updaters : upc[u] \notin {"idle", "write"}}
Ended == {u \in Updaters : upc[u] \notin {"idle", "write", "fill"}}
Bumped == {u \in Updaters : upc[u] \in {"forget", "done"}}

Counts ==
  /\ stamps <= Cardinality(Started) + Cardinality(Ended)
  /\ epoch <= Cardinality(Bumped)

(* The sets of updaters are counted, and grow by one at most.              *)
LEMMA Counting ==
  ASSUME NEW S \in SUBSET Updaters, NEW T \in SUBSET Updaters, S \subseteq T
  PROVE  /\ Cardinality(S) \in Nat /\ Cardinality(T) \in Nat
         /\ Cardinality(S) <= Cardinality(T)
         /\ Cardinality(T) <= Cardinality(Updaters) /\ Cardinality(Updaters) \in Nat
         /\ \A u \in T \ S : Cardinality(S) + 1 <= Cardinality(T)
  <1>1. IsFiniteSet(S) /\ IsFiniteSet(T)
    BY UpdatersAssumption, FS_Subset
  <1>2. ASSUME NEW u \in T \ S PROVE Cardinality(S) + 1 <= Cardinality(T)
    <2>1. IsFiniteSet(S \cup {u}) /\ Cardinality(S \cup {u}) = Cardinality(S) + 1
      BY <1>1, FS_AddElement
    <2>2. S \cup {u} \subseteq T
      OBVIOUS
    <2> QED
      BY <1>1, <2>1, <2>2, FS_Subset
  <1> QED
    BY <1>1, <1>2, UpdatersAssumption, FS_Subset, FS_CardinalityType

(* What is counted grows, and bounds stamps and epoch by their types.      *)
LEMMA CountsBound ==
  ASSUME NEW S \in SUBSET Updaters, NEW T \in SUBSET Updaters, NEW B \in SUBSET Updaters,
         NEW s \in Nat, NEW e \in Nat,
         s <= Cardinality(S) + Cardinality(T), e <= Cardinality(B)
  PROVE  /\ s \in 0 .. 2 * Cardinality(Updaters)
         /\ e \in 0 .. Cardinality(Updaters)
  <1>1. /\ Cardinality(S) \in Nat /\ Cardinality(T) \in Nat
        /\ Cardinality(B) \in Nat /\ Cardinality(Updaters) \in Nat
        /\ Cardinality(S) <= Cardinality(Updaters)
        /\ Cardinality(T) <= Cardinality(Updaters)
        /\ Cardinality(B) <= Cardinality(Updaters)
    BY Counting
  <1> QED
    BY <1>1

(* One updater moves: the sets gain it or not, and lose nobody.            *)
LEMMA CountsMove ==
  ASSUME Counts, stamps \in Nat, epoch \in Nat, NEW u \in Updaters, NEW next,
         upc \in [Updaters -> {"idle", "write", "fill", "bump", "forget", "done"}],
         upc' = [upc EXCEPT ![u] = next],
         \/ upc[u] = "idle" /\ next \in {"write", "done", "bump"}
         \/ upc[u] = "write" /\ next = "fill"
         \/ upc[u] = "fill" /\ next = "bump"
         \/ upc[u] = "bump" /\ next \in {"forget", "done"}
         \/ upc[u] = "forget" /\ next = "done",
         stamps' \in {stamps, stamps + 1}, epoch' \in {epoch, epoch + 1},
         stamps' = stamps + 1 => \/ upc[u] \in {"idle", "write"} /\ next \in {"fill", "bump"}
                                 \/ upc[u] = "fill" /\ next = "bump",
         epoch' = epoch + 1 => upc[u] = "bump"
  PROVE  Counts'
  <1>1. /\ Started \in SUBSET Updaters /\ Ended \in SUBSET Updaters /\ Bumped \in SUBSET Updaters
        /\ Started' \in SUBSET Updaters /\ Ended' \in SUBSET Updaters
        /\ Bumped' \in SUBSET Updaters
    BY DEF Started, Ended, Bumped
  <1>2. Started \subseteq Started' /\ Ended \subseteq Ended' /\ Bumped \subseteq Bumped'
    BY DEF Started, Ended, Bumped
  <1>3. stamps' = stamps + 1 => u \in Started' \ Started \/ u \in Ended' \ Ended
    BY DEF Started, Ended
  <1>4. epoch' = epoch + 1 => u \in Bumped' \ Bumped
    BY DEF Bumped
  <1>5. /\ Cardinality(Started) \in Nat /\ Cardinality(Started') \in Nat
        /\ Cardinality(Ended) \in Nat /\ Cardinality(Ended') \in Nat
        /\ Cardinality(Bumped) \in Nat /\ Cardinality(Bumped') \in Nat
        /\ Cardinality(Started) <= Cardinality(Started')
        /\ Cardinality(Ended) <= Cardinality(Ended')
        /\ Cardinality(Bumped) <= Cardinality(Bumped')
    BY <1>1, <1>2, Counting
  <1>6. /\ u \in Started' \ Started => Cardinality(Started) + 1 <= Cardinality(Started')
        /\ u \in Ended' \ Ended => Cardinality(Ended) + 1 <= Cardinality(Ended')
        /\ u \in Bumped' \ Bumped => Cardinality(Bumped) + 1 <= Cardinality(Bumped')
    BY <1>1, <1>2, Counting
  <1>7. stamps' <= Cardinality(Started') + Cardinality(Ended')
    <2>1. stamps <= Cardinality(Started) + Cardinality(Ended)
      BY DEF Counts
    <2> QED
      BY <1>3, <1>5, <1>6, <2>1
  <1>8. epoch' <= Cardinality(Bumped')
    <2>1. epoch <= Cardinality(Bumped)
      BY DEF Counts
    <2> QED
      BY <1>4, <1>5, <1>6, <2>1
  <1> QED
    BY <1>7, <1>8 DEF Counts

(* What the types say of the numbers and of the lock.                      *)
LEMMA TypeFacts ==
  ASSUME TypeOK
  PROVE  /\ stamp \in 0 .. stamps /\ stamps \in Nat /\ epoch \in Nat
         /\ memo.gen \in -1 .. epoch /\ memo.print \in 0 .. stamps
         /\ lock \in {Free} \cup Readers
         /\ \A r \in Readers : lock = r <=> pc[r] \in {"again", "keep", "put", "unlock"}
         /\ pc \in [Readers -> {"idle", "memo", "lock", "again", "keep", "put", "unlock",
                                "lookup", "hit", "build", "built", "write", "done"}]
         /\ gen \in [Readers -> 0 .. epoch] /\ print \in [Readers -> 0 .. stamps]
         /\ resp \in [Readers -> Contents] /\ file \in Contents
         /\ upc \in [Updaters -> {"idle", "write", "fill", "bump", "forget", "done"}]
         /\ current \in [Readers -> SUBSET Contents] /\ kind \in [Updaters -> Kinds]
         /\ entry \in [print : -1 .. stamps, resp : Contents]
  <1>1. stamps \in 0 .. 2 * Cardinality(Updaters) /\ epoch \in 0 .. Cardinality(Updaters)
    BY DEF TypeOK
  <1>2. stamps \in Nat /\ epoch \in Nat
    BY <1>1, UpdatersAssumption, FS_CardinalityType
  <1> QED
    BY <1>2, MixesAssumption DEF TypeOK

(* A reader keeps the types, and only the one that holds the lock gives it *)
(* back.                                                                   *)
LEMMA ReaderTypes ==
  ASSUME TypeOK, NEW r \in Readers, Read(r)
  PROVE  TypeOK'
  <1>0. UNCHANGED <<kind, file, stamp, stamps, epoch, upc>>
    BY DEF Read, Begin, MemoHit, MemoMiss, Lock, MemoAgain, Fingerprint, Keep, PutMemo,
           Unlock, Lookup, Hit, Build, Publish, Write, UseMemo
  <1>1. /\ gen' \in [Readers -> 0 .. epoch] /\ print' \in [Readers -> 0 .. stamps]
        /\ resp' \in [Readers -> Contents] /\ current' \in [Readers -> SUBSET Contents]
        /\ memo' \in [gen : -1 .. epoch, print : 0 .. stamps]
        /\ entry' \in [print : -1 .. stamps, resp : Contents]
    <2>0. /\ gen \in [Readers -> 0 .. epoch] /\ print \in [Readers -> 0 .. stamps]
          /\ resp \in [Readers -> Contents] /\ current \in [Readers -> SUBSET Contents]
          /\ memo \in [gen : -1 .. epoch, print : 0 .. stamps]
          /\ entry \in [print : -1 .. stamps, resp : Contents]
          /\ epoch \in Nat /\ stamp \in 0 .. stamps /\ stamps \in Nat /\ file \in Contents
      BY TypeFacts DEF TypeOK
    <2>1. CASE Begin(r)
      BY <2>0, <2>1 DEF Begin, Goto
    <2>2. CASE MemoHit(r)
      BY <2>0, <2>2 DEF MemoHit, UseMemo
    <2>3. CASE MemoMiss(r)
      BY <2>0, <2>3 DEF MemoMiss, Goto
    <2>4. CASE Lock(r)
      BY <2>0, <2>4 DEF Lock, Goto
    <2>5. CASE MemoAgain(r)
      BY <2>0, <2>5 DEF MemoAgain, UseMemo
    <2>6. CASE Fingerprint(r)
      BY <2>0, <2>6 DEF Fingerprint, Goto
    <2>7. CASE Keep(r)
      BY <2>0, <2>7 DEF Keep, Goto
    <2>8. CASE PutMemo(r)
      BY <2>0, <2>8 DEF PutMemo, Goto
    <2>9. CASE Unlock(r)
      BY <2>0, <2>9 DEF Unlock, Goto
    <2>10. CASE Lookup(r)
      BY <2>0, <2>10 DEF Lookup, Goto
    <2>11. CASE Hit(r)
      BY <2>0, <2>11 DEF Hit, Goto
    <2>12. CASE Build(r)
      BY <2>0, <2>12 DEF Build, Goto
    <2>13. CASE Publish(r)
      BY <2>0, <2>13 DEF Publish, Goto
    <2>14. CASE Write(r)
      BY <2>0, <2>14 DEF Write, Goto
    <2> QED
      BY <2>1, <2>2, <2>3, <2>4, <2>5, <2>6, <2>7, <2>8, <2>9, <2>10, <2>11, <2>12,
         <2>13, <2>14 DEF Read
  <1>2. /\ pc' \in [Readers -> {"idle", "memo", "lock", "again", "keep", "put", "unlock",
                               "lookup", "hit", "build", "built", "write", "done"}]
        /\ lock' \in {Free} \cup Readers
        /\ \A q \in Readers : lock' = q <=> pc'[q] \in {"again", "keep", "put", "unlock"}
    <2>0. /\ pc \in [Readers -> {"idle", "memo", "lock", "again", "keep", "put", "unlock",
                                 "lookup", "hit", "build", "built", "write", "done"}]
          /\ lock \in {Free} \cup Readers
          /\ \A q \in Readers : lock = q <=> pc[q] \in {"again", "keep", "put", "unlock"}
      BY DEF TypeOK
    <2>1. CASE Begin(r)
      BY <2>0, ReadersAssumption, <2>1 DEF Begin, Goto
    <2>2. CASE MemoHit(r)
      BY <2>0, ReadersAssumption, <2>2 DEF MemoHit, UseMemo, Goto
    <2>3. CASE MemoMiss(r)
      BY <2>0, ReadersAssumption, <2>3 DEF MemoMiss, Goto
    <2>4. CASE Lock(r)
      BY <2>0, ReadersAssumption, <2>4 DEF Lock, Goto
    <2>5. CASE MemoAgain(r)
      BY <2>0, ReadersAssumption, <2>5 DEF MemoAgain, UseMemo, Goto
    <2>6. CASE Fingerprint(r)
      BY <2>0, ReadersAssumption, <2>6 DEF Fingerprint, Goto
    <2>7. CASE Keep(r)
      BY <2>0, ReadersAssumption, <2>7 DEF Keep, Goto
    <2>8. CASE PutMemo(r)
      BY <2>0, ReadersAssumption, <2>8 DEF PutMemo, Goto
    <2>9. CASE Unlock(r)
      BY <2>0, ReadersAssumption, <2>9 DEF Unlock, Goto
    <2>10. CASE Lookup(r)
      BY <2>0, ReadersAssumption, <2>10 DEF Lookup, Goto
    <2>11. CASE Hit(r)
      BY <2>0, ReadersAssumption, <2>11 DEF Hit, Goto
    <2>12. CASE Build(r)
      BY <2>0, ReadersAssumption, <2>12 DEF Build, Goto
    <2>13. CASE Publish(r)
      BY <2>0, ReadersAssumption, <2>13 DEF Publish, Goto
    <2>14. CASE Write(r)
      BY <2>0, ReadersAssumption, <2>14 DEF Write, Goto
    <2> QED
      BY <2>1, <2>2, <2>3, <2>4, <2>5, <2>6, <2>7, <2>8, <2>9, <2>10, <2>11, <2>12,
         <2>13, <2>14 DEF Read
  <1> QED
    BY <1>0, <1>1, <1>2 DEF TypeOK

(* An update moves as CountsMove says.                                     *)
LEMMA UpdaterTypes ==
  ASSUME TypeOK, Counts, NEW u \in Updaters, Update(u)
  PROVE  TypeOK' /\ Counts'
  <1>0. /\ UNCHANGED <<kind, pc, gen, print, resp, lock, entry>>
        /\ \E next \in {"write", "fill", "bump", "forget", "done"} :
             /\ upc' = [upc EXCEPT ![u] = next]
             /\ \/ upc[u] = "idle" /\ next \in {"write", "done", "bump"}
                \/ upc[u] = "write" /\ next = "fill"
                \/ upc[u] = "fill" /\ next = "bump"
                \/ upc[u] = "bump" /\ next \in {"forget", "done"}
                \/ upc[u] = "forget" /\ next = "done"
             /\ stamps' \in {stamps, stamps + 1} /\ epoch' \in {epoch, epoch + 1}
             /\ (stamps' = stamps + 1 => \/ /\ upc[u] \in {"idle", "write"}
                                            /\ next \in {"fill", "bump"}
                                         \/ upc[u] = "fill" /\ next = "bump")
             /\ (epoch' = epoch + 1 => upc[u] = "bump")
    <2>0. stamps \in Nat /\ epoch \in Nat /\ stamps # stamps + 1 /\ epoch # epoch + 1
      BY TypeFacts
    <2>1. CASE LearnCheck(u)
      BY <2>0, <2>1 DEF LearnCheck, UGoto, Touch, Becomes, readerVars
    <2>2. CASE AdoptCheck(u)
      BY <2>0, <2>2 DEF AdoptCheck, UGoto, Touch, Becomes, readerVars
    <2>3. CASE StartWrite(u)
      BY <2>0, <2>3 DEF StartWrite, UGoto, Touch, Becomes, readerVars
    <2>4. CASE EndWrite(u)
      BY <2>0, <2>4 DEF EndWrite, UGoto, Touch, Becomes, readerVars
    <2>5. CASE Remove(u)
      BY <2>0, <2>5 DEF Remove, UGoto, Touch, Becomes, readerVars
    <2>6. CASE Reset(u)
      BY <2>0, <2>6 DEF Reset, UGoto, Touch, Becomes, readerVars
    <2>7. CASE Clear(u)
      BY <2>0, <2>7 DEF Clear, UGoto, Touch, Becomes, readerVars
    <2>8. CASE Bump(u)
      BY <2>0, <2>8 DEF Bump, UGoto, Touch, Becomes, readerVars
    <2>9. CASE Forget(u)
      BY <2>0, <2>9 DEF Forget, UGoto, Touch, Becomes, readerVars
    <2> QED
      BY <2>1, <2>2, <2>3, <2>4, <2>5, <2>6, <2>7, <2>8, <2>9 DEF Update
  <1>1. Counts' /\ upc' \in [Updaters -> {"idle", "write", "fill", "bump", "forget", "done"}]
    BY <1>0, TypeFacts, CountsMove
  <1>2. /\ file' \in Contents /\ stamp' \in 0 .. stamps' /\ memo' \in {memo, NoMemo}
        /\ current' \in [Readers -> SUBSET Contents]
    <2>0. /\ file \in Contents /\ stamp \in 0 .. stamps /\ stamps \in Nat
          /\ current \in [Readers -> SUBSET Contents]
          /\ u \in Contents /\ "none" \in Contents /\ "partial" \in Contents
      BY TypeFacts DEF Contents
    <2>1. CASE LearnCheck(u)
      BY <2>0, <2>1 DEF LearnCheck, Touch, Becomes, Absent, readerVars
    <2>2. CASE AdoptCheck(u)
      BY <2>0, <2>2 DEF AdoptCheck, Touch, Becomes, Absent, readerVars
    <2>3. CASE StartWrite(u)
      BY <2>0, <2>3 DEF StartWrite, Touch, Becomes, Absent, readerVars
    <2>4. CASE EndWrite(u)
      BY <2>0, <2>4 DEF EndWrite, Touch, Becomes, Absent, readerVars
    <2>5. CASE Remove(u)
      BY <2>0, <2>5 DEF Remove, Touch, Becomes, Absent, readerVars
    <2>6. CASE Reset(u)
      BY <2>0, <2>6 DEF Reset, Touch, Becomes, Absent, readerVars
    <2>7. CASE Clear(u)
      BY <2>0, <2>7 DEF Clear, Touch, Becomes, Absent, readerVars
    <2>8. CASE Bump(u)
      BY <2>0, <2>8 DEF Bump, Touch, Becomes, Absent, readerVars
    <2>9. CASE Forget(u)
      BY <2>0, <2>9 DEF Forget, Touch, Becomes, Absent, readerVars
    <2> QED
      BY <2>1, <2>2, <2>3, <2>4, <2>5, <2>6, <2>7, <2>8, <2>9 DEF Update
  <1>3. /\ stamps' \in Nat /\ epoch' \in Nat /\ stamps <= stamps' /\ epoch <= epoch'
    BY <1>0, TypeFacts
  <1>4. stamps' \in 0 .. 2 * Cardinality(Updaters) /\ epoch' \in 0 .. Cardinality(Updaters)
    <2>1. /\ Started' \in SUBSET Updaters /\ Ended' \in SUBSET Updaters
          /\ Bumped' \in SUBSET Updaters
      BY DEF Started, Ended, Bumped
    <2> QED
      BY <1>1, <1>3, <2>1, CountsBound DEF Counts
  <1>5. /\ memo' \in [gen : -1 .. epoch', print : 0 .. stamps']
        /\ entry' \in [print : -1 .. stamps', resp : Contents]
        /\ gen' \in [Readers -> 0 .. epoch'] /\ print' \in [Readers -> 0 .. stamps']
    <2>1. 0 .. epoch \subseteq 0 .. epoch' /\ 0 .. stamps \subseteq 0 .. stamps'
      BY <1>3, TypeFacts
    <2>2. -1 .. epoch \subseteq -1 .. epoch' /\ -1 .. stamps \subseteq -1 .. stamps'
      BY <1>3, TypeFacts
    <2>3. memo' \in [gen : -1 .. epoch, print : 0 .. stamps]
      BY <1>2, TypeFacts DEF TypeOK, NoMemo, Absent
    <2> QED
      BY <1>0, <2>1, <2>2, <2>3, TypeFacts
  <1> QED
    BY <1>0, <1>1, <1>2, <1>4, <1>5 DEF TypeOK

LEMMA NextTypes ==
  ASSUME TypeOK, Counts, [Next]_vars
  PROVE  TypeOK' /\ Counts'
  <1>1. CASE UNCHANGED vars
    BY <1>1 DEF vars, readerVars, TypeOK, Counts, Started, Ended, Bumped
  <1>2. CASE Expire
    <2>1. UNCHANGED <<kind, file, stamp, stamps, epoch, entry, lock, pc, gen, print, resp,
                      current, upc>> /\ memo' = NoMemo
      BY <1>2 DEF Expire, readerVars
    <2>2. NoMemo \in [gen : -1 .. epoch, print : 0 .. stamps]
      BY TypeFacts DEF NoMemo, Absent
    <2> QED
      BY <2>1, <2>2 DEF TypeOK, Counts, Started, Ended, Bumped
  <1>3. ASSUME NEW r \in Readers, Read(r) PROVE TypeOK' /\ Counts'
    <2>1. UNCHANGED <<stamps, epoch, upc>>
      BY <1>3
      DEF Read, Begin, MemoHit, MemoMiss, Lock, MemoAgain, Fingerprint, Keep, PutMemo,
          Unlock, Lookup, Hit, Build, Publish, Write, UseMemo
    <2> QED
      BY <1>3, <2>1, ReaderTypes DEF Counts, Started, Ended, Bumped
  <1> QED
    BY <1>1, <1>2, <1>3, UpdaterTypes DEF Next

LEMMA InitTypes == Init => TypeOK /\ Counts
  <1> SUFFICES ASSUME Init PROVE TypeOK /\ Counts
    OBVIOUS
  <1>1. /\ Cardinality(Started) \in Nat /\ Cardinality(Ended) \in Nat
        /\ Cardinality(Bumped) \in Nat
    BY Counting DEF Started, Ended, Bumped
  <1>2. Counts
    BY <1>1 DEF Init, Counts
  <1>3. stamps \in 0 .. 2 * Cardinality(Updaters) /\ epoch \in 0 .. Cardinality(Updaters)
    BY UpdatersAssumption, FS_CardinalityType DEF Init
  <1>4. kind \in Mixes /\ file = "none" /\ stamp = 0 /\ stamps = 0 /\ epoch = 0
    BY DEF Init, Absent
  <1>5. /\ memo \in [gen : -1 .. epoch, print : 0 .. stamps]
        /\ entry \in [print : -1 .. stamps, resp : Contents]
        /\ gen \in [Readers -> 0 .. epoch] /\ print \in [Readers -> 0 .. stamps]
        /\ resp \in [Readers -> Contents] /\ file \in Contents /\ stamp \in 0 .. stamps
    BY <1>4 DEF Init, NoMemo, NoEntry, Absent, Contents
  <1>6. /\ lock \in {Free} \cup Readers
        /\ \A r \in Readers : lock = r <=> pc[r] \in {"again", "keep", "put", "unlock"}
        /\ pc \in [Readers -> {"idle", "memo", "lock", "again", "keep", "put", "unlock",
                               "lookup", "hit", "build", "built", "write", "done"}]
        /\ upc \in [Updaters -> {"idle", "write", "fill", "bump", "forget", "done"}]
        /\ current \in [Readers -> SUBSET Contents]
    BY ReadersAssumption DEF Init
  <1> QED
    BY <1>2, <1>3, <1>4, <1>5, <1>6 DEF TypeOK

-----------------------------------------------------------------------------
(* The answers.  A response travels with the fingerprint its reader had    *)
(* when it was built; a fingerprint serves the readers of its generation.  *)

NoReset == \A u \in Updaters : kind[u] # "reset"

Active(r) == pc[r] \notin {"idle", "done"}

(* What the file holds is a correct answer for every request at work.      *)
SeesFile == \A r \in Readers : Active(r) => file \in current[r]

AnswerSeen ==
  \A r \in Readers :
    pc[r] \in {"built", "write", "done"} \/ (pc[r] = "hit" /\ gen[r] = epoch) =>
      resp[r] \in current[r]

(* Response x may be found, now or once written, under fingerprint p.      *)
Pair(p, x) ==
  \/ entry.print = p /\ entry.resp = x
  \/ \E w \in Readers : pc[w] \in {"built", "write"} /\ print[w] = p /\ resp[w] = x

(* Fingerprint p may be given to the readers of the current generation.    *)
PrintOf(p) ==
  \/ memo.gen = epoch /\ memo.print = p
  \/ \E w \in Readers : pc[w] \in {"keep", "put"} /\ gen[w] = epoch /\ print[w] = p

Has(r, p) == pc[r] \in {"keep", "put", "unlock", "lookup"} /\ print[r] = p

(* A response under the fingerprint of now holds what the file holds now.  *)
StampTells == \A x \in Contents : Pair(stamp, x) => x = file

(* Whatever a valid reader may find under the fingerprint it has, or may   *)
(* be given, the file held while it was at work.                           *)
Seen ==
  \A r \in Readers : \A p \in Nat : \A x \in Contents :
    /\ Active(r) /\ gen[r] = epoch /\ Pair(p, x)
    /\ PrintOf(p) \/ Has(r, p)
    => x \in current[r]

Fresh == SeesFile /\ (NoReset => AnswerSeen /\ StampTells /\ Seen)

FInv == TypeOK /\ Counts /\ IInv /\ Fresh

(* A step of a reader: what it changes to the fingerprints and responses.  *)
LEMMA ReaderMoves ==
  ASSUME TypeOK, IInv, NEW r \in Readers, Read(r)
  PROVE  /\ UNCHANGED <<kind, file, stamp, stamps, epoch, upc>>
         /\ \A q \in Readers \ {r} :
              /\ pc'[q] = pc[q] /\ gen'[q] = gen[q] /\ print'[q] = print[q]
              /\ resp'[q] = resp[q] /\ current'[q] = current[q]
         /\ \/ /\ pc[r] = "idle" /\ pc'[r] = "memo"
               /\ current'[r] = IF Updating THEN Contents ELSE {file}
            \/ pc[r] \notin {"idle", "done"} /\ gen'[r] = gen[r] /\ current'[r] = current[r]
  <1>0. /\ pc \in [Readers -> {"idle", "memo", "lock", "again", "keep", "put", "unlock",
                               "lookup", "hit", "build", "built", "write", "done"}]
        /\ gen \in [Readers -> 0 .. epoch] /\ print \in [Readers -> 0 .. stamps]
        /\ resp \in [Readers -> Contents] /\ current \in [Readers -> SUBSET Contents]
    BY TypeFacts
  <1>1. CASE Begin(r)
    BY <1>0, <1>1 DEF Begin, Goto
  <1>2. CASE MemoHit(r) \/ MemoMiss(r) \/ Lock(r) \/ MemoAgain(r) \/ Fingerprint(r)
    BY <1>0, <1>2 DEF MemoHit, MemoMiss, Lock, MemoAgain, Fingerprint, UseMemo, Goto
  <1>3. CASE Keep(r) \/ PutMemo(r) \/ Unlock(r) \/ Lookup(r) \/ Hit(r)
    BY <1>0, <1>3 DEF Keep, PutMemo, Unlock, Lookup, Hit, Goto
  <1>4. CASE Build(r) \/ Publish(r) \/ Write(r)
    BY <1>0, <1>4 DEF Build, Publish, Write, Goto
  <1> QED
    BY <1>1, <1>2, <1>3, <1>4 DEF Read

(* A response is built from the file, or was there.                        *)
LEMMA PairStep ==
  ASSUME TypeOK, IInv, NEW r \in Readers, Read(r), NEW p \in Nat, NEW x \in Contents,
         Pair(p, x)'
  PROVE  Pair(p, x) \/ x = file
  <1>0. /\ pc \in [Readers -> {"idle", "memo", "lock", "again", "keep", "put", "unlock",
                               "lookup", "hit", "build", "built", "write", "done"}]
        /\ print \in [Readers -> 0 .. stamps] /\ resp \in [Readers -> Contents]
    BY TypeFacts
  <1>1. CASE Begin(r) \/ MemoMiss(r) \/ Lock(r) \/ Keep(r) \/ PutMemo(r) \/ Unlock(r) \/ Hit(r)
    BY <1>0, <1>1 DEF Begin, MemoMiss, Lock, Keep, PutMemo, Unlock, Hit, Goto, Pair
  <1>2. CASE MemoHit(r) \/ MemoAgain(r) \/ Fingerprint(r) \/ Lookup(r)
    BY <1>0, <1>2 DEF MemoHit, MemoAgain, Fingerprint, Lookup, UseMemo, Goto, Pair
  <1>3. CASE Build(r)
    BY <1>0, <1>3 DEF Build, Goto, Pair
  <1>4. CASE Publish(r)
    BY <1>0, <1>4 DEF Publish, Goto, Pair
  <1>5. CASE Write(r)
    BY <1>0, <1>5 DEF Write, Goto, Pair
  <1> QED
    BY <1>1, <1>2, <1>3, <1>4, <1>5 DEF Read

(* A fingerprint is taken from the directory, or was there.                *)
LEMMA PrintStep ==
  ASSUME TypeOK, IInv, NEW r \in Readers, Read(r), NEW p \in Nat
  PROVE  /\ PrintOf(p)' => PrintOf(p) \/ p = stamp
         /\ \A q \in Readers :
              Has(q, p)' /\ gen'[q] = epoch => \/ Has(q, p)
                                               \/ p = stamp
                                               \/ PrintOf(p)
  <1>0. /\ pc \in [Readers -> {"idle", "memo", "lock", "again", "keep", "put", "unlock",
                               "lookup", "hit", "build", "built", "write", "done"}]
        /\ print \in [Readers -> 0 .. stamps] /\ gen \in [Readers -> 0 .. epoch]
    BY TypeFacts
  <1>1. CASE Begin(r) \/ MemoMiss(r) \/ Lock(r) \/ Unlock(r) \/ Hit(r)
    BY <1>0, <1>1 DEF Begin, MemoMiss, Lock, Unlock, Hit, Goto, PrintOf, Has
  <1>2. CASE MemoHit(r) \/ MemoAgain(r)
    BY <1>0, <1>2 DEF MemoHit, MemoAgain, UseMemo, Goto, PrintOf, Has
  <1>3. CASE Fingerprint(r)
    BY <1>0, <1>3 DEF Fingerprint, Goto, PrintOf, Has
  <1>4. CASE Keep(r) \/ Lookup(r) \/ Build(r) \/ Publish(r) \/ Write(r)
    BY <1>0, <1>4 DEF Keep, Lookup, Build, Publish, Write, Goto, PrintOf, Has
  <1>5. CASE PutMemo(r)
    BY <1>0, <1>5 DEF PutMemo, Goto, PrintOf, Has
  <1> QED
    BY <1>1, <1>2, <1>3, <1>4, <1>5 DEF Read

LEMMA ReaderFresh ==
  ASSUME FInv, NEW r \in Readers, Read(r)
  PROVE  Fresh'
  <1>0. TypeOK /\ IInv /\ SeesFile
    BY DEF FInv, Fresh
  <1>1. /\ UNCHANGED <<kind, file, stamp, stamps, epoch, upc>>
        /\ \A q \in Readers \ {r} :
             /\ pc'[q] = pc[q] /\ gen'[q] = gen[q] /\ print'[q] = print[q]
             /\ resp'[q] = resp[q] /\ current'[q] = current[q]
        /\ \/ /\ pc[r] = "idle" /\ pc'[r] = "memo"
              /\ current'[r] = IF Updating THEN Contents ELSE {file}
           \/ pc[r] \notin {"idle", "done"} /\ gen'[r] = gen[r] /\ current'[r] = current[r]
    BY <1>0, ReaderMoves
  <1>2. file \in Contents /\ stamp \in Nat
    BY <1>0, TypeFacts
  <1>3. SeesFile'
    BY <1>0, <1>1, <1>2 DEF SeesFile, Active
  <1>4. ASSUME NoReset PROVE AnswerSeen' /\ StampTells' /\ Seen'
    <2>0. AnswerSeen /\ StampTells /\ Seen
      BY <1>4 DEF FInv, Fresh
    <2>1. StampTells'
      BY <1>0, <1>1, <1>2, <2>0, PairStep DEF StampTells
    <2>2. Seen'
      <3> SUFFICES ASSUME NEW q \in Readers, NEW p \in Nat, NEW x \in Contents,
                          Active(q)', gen'[q] = epoch, Pair(p, x)',
                          PrintOf(p)' \/ Has(q, p)'
                   PROVE  x \in current'[q]
        BY <1>1 DEF Seen
      <3>1. CASE x = file
        BY <1>1, <1>3, <3>1 DEF SeesFile
      <3>2. CASE p = stamp
        BY <1>0, <1>1, <1>3, <2>0, <3>1, <3>2, PairStep DEF StampTells
      <3>3. CASE x # file /\ p # stamp
        <4>1. Pair(p, x)
          BY <1>0, <3>3, PairStep
        <4>2. PrintOf(p) \/ Has(q, p)
          BY <1>0, <3>3, PrintStep
        <4>3. CASE q = r /\ pc[r] = "idle"
          <5>1. PrintOf(p)
            BY <4>2, <4>3 DEF Has
          <5>2. CASE Updating
            BY <1>1, <4>3, <5>2
          <5>3. CASE ~Updating
            BY <1>0, <3>3, <5>1, <5>3 DEF IInv, PrintOf, MemoCurrent, PrintCurrent
          <5> QED
            BY <5>2, <5>3
        <4>4. CASE ~(q = r /\ pc[r] = "idle")
          <5>1. gen'[q] = gen[q] /\ current'[q] = current[q] /\ Active(q)
            BY <1>1, <4>4 DEF Active
          <5> QED
            BY <2>0, <4>1, <4>2, <5>1 DEF Seen
        <4> QED
          BY <4>3, <4>4
      <3> QED
        BY <3>1, <3>2, <3>3
    <2>3. AnswerSeen'
      <3> SUFFICES ASSUME pc'[r] \in {"built", "write", "done"}
                            \/ (pc'[r] = "hit" /\ gen'[r] = epoch)
                   PROVE  resp'[r] \in current'[r]
        BY <1>1, <2>0 DEF AnswerSeen
      <3>0. /\ pc \in [Readers -> {"idle", "memo", "lock", "again", "keep", "put", "unlock",
                                   "lookup", "hit", "build", "built", "write", "done"}]
            /\ resp \in [Readers -> Contents] /\ print \in [Readers -> 0 .. stamps]
            /\ entry.resp \in Contents
        BY <1>0, TypeFacts
      <3>1. CASE Begin(r) \/ MemoHit(r) \/ MemoMiss(r) \/ Lock(r) \/ MemoAgain(r)
                 \/ Fingerprint(r) \/ Keep(r) \/ PutMemo(r) \/ Unlock(r)
        BY <3>0, <3>1
        DEF Begin, MemoHit, MemoMiss, Lock, MemoAgain, Fingerprint, Keep, PutMemo, Unlock,
            UseMemo, Goto
      <3>2. CASE Lookup(r)
        <4>1. /\ pc[r] = "lookup" /\ entry.print = print[r] /\ resp'[r] = entry.resp
              /\ gen[r] = epoch /\ current'[r] = current[r]
          BY <3>0, <3>2 DEF Lookup, Goto
        <4>2. print[r] \in Nat
          BY <1>0, TypeFacts
        <4>3. Pair(print[r], entry.resp) /\ Has(r, print[r]) /\ Active(r)
          BY <4>1 DEF Pair, Has, Active
        <4> QED
          BY <2>0, <3>0, <4>1, <4>2, <4>3 DEF Seen
      <3>3. CASE Hit(r)
        BY <2>0, <3>0, <3>3 DEF Hit, Goto, Valid, AnswerSeen
      <3>4. CASE Build(r)
        BY <1>0, <3>0, <3>4 DEF Build, Goto, SeesFile, Active
      <3>5. CASE Publish(r) \/ Write(r)
        BY <2>0, <3>0, <3>5 DEF Publish, Write, Goto, AnswerSeen
      <3> QED
        BY <3>1, <3>2, <3>3, <3>4, <3>5 DEF Read
    <2> QED
      BY <2>1, <2>2, <2>3
  <1>5. NoReset' => NoReset
    BY <1>1 DEF NoReset
  <1> QED
    BY <1>3, <1>4, <1>5 DEF Fresh

(* What an update does, unless it resets: a new stamp with a new content,  *)
(* a new generation, or nothing the readers see.                           *)
LEMMA UpdaterMoves ==
  ASSUME TypeOK, NEW u \in Updaters, Update(u)
  PROVE  /\ UNCHANGED <<kind, pc, gen, print, resp, entry>>
         /\ memo' \in {memo, NoMemo}
         /\ epoch' \in {epoch, epoch + 1}
         /\ \/ UNCHANGED <<file, current>> /\ (stamp' = stamp \/ kind[u] = "reset")
            \/ /\ kind[u] # "reset" => stamp' = stamps + 1
               /\ \A r \in Readers :
                    current'[r] = IF pc[r] \in {"idle", "done"} THEN current[r]
                                  ELSE current[r] \cup {file'}
  <1>0. current \in [Readers -> SUBSET Contents]
    BY TypeFacts
  <1>1. CASE LearnCheck(u) \/ AdoptCheck(u) \/ Clear(u) \/ Bump(u) \/ Forget(u)
    BY <1>1 DEF LearnCheck, AdoptCheck, Clear, Bump, Forget, readerVars
  <1>2. CASE StartWrite(u) \/ EndWrite(u)
    BY <1>0, <1>2 DEF StartWrite, EndWrite, Becomes, Touch
  <1>3. CASE Remove(u)
    BY <1>0, <1>3 DEF Remove, Becomes, Touch
  <1>4. CASE Reset(u)
    BY <1>0, <1>4 DEF Reset, Becomes
  <1> QED
    BY <1>1, <1>2, <1>3, <1>4 DEF Update

LEMMA UpdaterFresh ==
  ASSUME FInv, NEW u \in Updaters, Update(u)
  PROVE  Fresh'
  <1>0. TypeOK /\ SeesFile
    BY DEF FInv, Fresh
  <1>1. /\ UNCHANGED <<kind, pc, gen, print, resp, entry>>
        /\ memo' \in {memo, NoMemo} /\ epoch' \in {epoch, epoch + 1}
        /\ \/ UNCHANGED <<file, current>> /\ (stamp' = stamp \/ kind[u] = "reset")
           \/ /\ kind[u] # "reset" => stamp' = stamps + 1
              /\ \A r \in Readers :
                   current'[r] = IF pc[r] \in {"idle", "done"} THEN current[r]
                                 ELSE current[r] \cup {file'}
    BY <1>0, UpdaterMoves
  <1>2. \A r \in Readers : current[r] \subseteq current'[r]
    BY <1>1
  <1>3. SeesFile'
    BY <1>0, <1>1 DEF SeesFile, Active
  <1>4. /\ epoch \in Nat /\ stamps \in Nat /\ entry.print \in -1 .. stamps
        /\ \A r \in Readers : gen[r] \in 0 .. epoch /\ print[r] \in 0 .. stamps
    BY <1>0, TypeFacts
  <1>5. ASSUME NoReset PROVE AnswerSeen' /\ StampTells' /\ Seen'
    <2>0. AnswerSeen /\ StampTells /\ Seen /\ kind[u] # "reset"
      BY <1>5 DEF FInv, Fresh, NoReset
    <2>1. \A r \in Readers : gen[r] = epoch' => epoch' = epoch
      BY <1>1, <1>4
    <2>2. AnswerSeen'
      BY <1>1, <1>2, <2>0, <2>1 DEF AnswerSeen
    <2>3. \A p, x : Pair(p, x)' => Pair(p, x)
      BY <1>1 DEF Pair
    <2>4. StampTells'
      <3>1. CASE UNCHANGED <<file, stamp>>
        BY <2>0, <2>3, <3>1 DEF StampTells
      <3>2. CASE stamp' = stamps + 1
        <4>1. \A x : ~Pair(stamps + 1, x)
          BY <1>4 DEF Pair
        <4> QED
          BY <2>3, <3>2, <4>1 DEF StampTells
      <3> QED
        BY <1>1, <2>0, <3>1, <3>2
    <2>5. Seen'
      <3> SUFFICES ASSUME NEW r \in Readers, NEW p \in Nat, NEW x \in Contents,
                          Active(r)', gen'[r] = epoch', Pair(p, x)',
                          PrintOf(p)' \/ Has(r, p)'
                   PROVE  x \in current'[r]
        BY DEF Seen
      <3>1. epoch' = epoch /\ Active(r) /\ gen[r] = epoch /\ Pair(p, x)
        BY <1>1, <2>1, <2>3 DEF Active
      <3>2. PrintOf(p) \/ Has(r, p)
        <4>1. memo'.gen = epoch => memo' = memo
          BY <1>1, <1>4 DEF NoMemo
        <4> QED
          BY <1>1, <3>1, <4>1 DEF PrintOf, Has
      <3> QED
        BY <1>2, <2>0, <3>1, <3>2 DEF Seen
    <2> QED
      BY <2>2, <2>4, <2>5
  <1>6. NoReset' => NoReset
    BY <1>1 DEF NoReset
  <1> QED
    BY <1>3, <1>5, <1>6 DEF Fresh

LEMMA NextFInv ==
  ASSUME FInv, [Next]_vars
  PROVE  FInv'
  <1>0. TypeOK /\ Counts /\ IInv /\ Fresh
    BY DEF FInv
  <1>1. TypeOK' /\ Counts' /\ IInv'
    BY <1>0, NextTypes, NextIInv
  <1>2. CASE UNCHANGED vars
    <2>1. UNCHANGED <<kind, file, stamp, epoch, memo, entry, pc, gen, print, resp, current>>
      BY <1>2 DEF vars, readerVars
    <2>2. /\ \A p, x : Pair(p, x)' <=> Pair(p, x)
          /\ \A p : PrintOf(p)' <=> PrintOf(p)
          /\ \A r \in Readers : \A p : Has(r, p)' <=> Has(r, p)
      BY <2>1 DEF Pair, PrintOf, Has
    <2>3. Fresh'
      BY <1>0, <2>1, <2>2
      DEF Fresh, SeesFile, NoReset, AnswerSeen, StampTells, Seen, Active
    <2> QED
      BY <1>1, <2>3 DEF FInv
  <1>3. CASE Expire
    <2>1. /\ UNCHANGED <<kind, file, stamp, epoch, entry, pc, gen, print, resp, current>>
          /\ memo' = NoMemo
      BY <1>3 DEF Expire, readerVars
    <2>2. \A p \in Nat : PrintOf(p)' => PrintOf(p)
      <3>1. epoch \in Nat
        BY <1>0, TypeFacts
      <3> QED
        BY <2>1, <3>1 DEF PrintOf, NoMemo
    <2>3. /\ \A p, x : Pair(p, x)' <=> Pair(p, x)
          /\ \A r \in Readers : \A p : Has(r, p)' <=> Has(r, p)
      BY <2>1 DEF Pair, Has
    <2>4. Fresh'
      BY <1>0, <2>1, <2>2, <2>3
      DEF Fresh, SeesFile, NoReset, AnswerSeen, StampTells, Seen, Active
    <2> QED
      BY <1>1, <2>4 DEF FInv
  <1> QED
    BY <1>1, <1>2, <1>3, ReaderFresh, UpdaterFresh DEF Next, FInv

LEMMA InitFInv == Init => FInv
  <1> SUFFICES ASSUME Init PROVE FInv
    OBVIOUS
  <1>1. \A r \in Readers : pc[r] = "idle"
    BY DEF Init
  <1>2. \A x : ~Pair(stamp, x)
    BY <1>1 DEF Init, Pair, NoEntry, Absent
  <1>3. Fresh
    BY <1>1, <1>2 DEF Fresh, SeesFile, AnswerSeen, StampTells, Seen, Active
  <1> QED
    BY <1>3, InitTypes, InitIInv DEF FInv

(* Every answer is well formed and current, but after a reset: what it     *)
(* says, the file held while the request was at work, for any number of    *)
(* requests and of updates.                                                *)
THEOREM AnswersAreCurrent == Spec => []AnswersCurrent
  <1>1. FInv /\ [Next]_vars => FInv'
    BY NextFInv
  <1>2. FInv => AnswersCurrent
    BY DEF FInv, Fresh, NoReset, AnswerSeen, AnswersCurrent, FreshUnlessReset, FreshAnswer
  <1> QED
    BY <1>1, <1>2, InitFInv, PTL DEF Spec

-----------------------------------------------------------------------------
(* The listings in pages.                                                  *)

(* The smallest of some naturals: what holds of a recursive function whose *)
(* values follow from smaller ones is proved of the first exception.       *)
LEMMA Smallest ==
  ASSUME NEW S \in SUBSET Nat, S # {}
  PROVE  \E x \in S : \A y \in S : x <= y
<1> DEFINE R == OpToRel(<, Nat)
<1>1. IsWellFoundedOn(R, Nat)
  BY NatLessThanWellFounded
<1>2. \E x \in S : \A y \in S : ~ (<<y, x>> \in R)
  <2> HIDE DEF R
  <2> QED
    BY <1>1, WFMin
<1>3. ASSUME NEW x \in Nat, NEW y \in Nat, ~ (<<y, x>> \in R) PROVE x <= y
  BY <1>3 DEF OpToRel
<1> QED
  BY <1>2, <1>3

(* An item: its unit, its match and its size.                              *)
Items == Nat \X Nat \X Nat

(* The sizes of the first items of a sequence.                             *)
Sums(items, sum) ==
  sum = [n \in 0 .. Len(items) |-> IF n = 0 THEN 0 ELSE sum[n - 1] + items[n][3]]

(* There is one sum, and Total is it.                                      *)
LEMMA SumsAgree ==
  ASSUME NEW items \in Seq(Items), NEW f, NEW g, Sums(items, f), Sums(items, g)
  PROVE  f = g
<1>0. Len(items) \in Nat
  OBVIOUS
<1> DEFINE S == {n \in 0 .. Len(items) : f[n] # g[n]}
<1>1. ASSUME S # {} PROVE FALSE
  <2>1. PICK n \in S : \A m \in S : n <= m
    <3>1. S \in SUBSET Nat
      BY <1>0
    <3> HIDE DEF S
    <3> QED BY <1>1, <3>1, Smallest
  <2>2. n # 0
    BY <1>0 DEF Sums
  <2>3. n - 1 \in 0 .. Len(items) /\ n - 1 \notin S
    BY <1>0, <2>1, <2>2
  <2>4. f[n] = f[n - 1] + items[n][3] /\ g[n] = g[n - 1] + items[n][3]
    BY <1>0, <2>2 DEF Sums
  <2> QED BY <2>3, <2>4
<1>2. \A n \in 0 .. Len(items) : f[n] = g[n]
  BY <1>1
<1> QED BY <1>2 DEF Sums

LEMMA TotalIsSum ==
  ASSUME NEW items \in Seq(Items), NEW f, Sums(items, f)
  PROVE  Total(items) = f[Len(items)]
<1> DEFINE total == CHOOSE g : Sums(items, g)
<1>1. Sums(items, total)
  OBVIOUS
<1>2. total = f
  <2> HIDE DEF total
  <2> QED BY <1>1, SumsAgree
<1>3. Total(items) = total[Len(items)]
  BY DEF Total, Sums
<1> QED BY <1>2, <1>3

-----------------------------------------------------------------------------
(* The items answered before a place of the listing, in order.             *)

Positive == Nat \ {0}

(* The items of a listing, and what an answer holds of them.               *)
All(l) == {p \in Positive \X Positive : p[1] <= Len(l) /\ p[2] <= Len(l[p[1]].matches)}

Listed(l, s, at) ==
  {<<item[1], item[2]>> : item \in Range(s)} = {p \in All(l) : Before(at, p[1], p[2])}
InOrder(s) == \A m, n \in DOMAIN s : m < n => Before(s[n], s[m][1], s[m][2])
Actual(l, s) == \A n \in DOMAIN s : s[n][3] = l[s[n][1]].matches[s[n][2]]

Placed(l, s, at) == Listed(l, s, at) /\ InOrder(s)

-----------------------------------------------------------------------------
(* The inductive invariant.                                                *)

AllUnits == [kind : {"descriptor", "file", "flow", "block", "type", "schema"},
             covered : Covers, matches : Seq(Nat)]

Pages ==
  [limit : Positive, min : Nat, max : Nat \cup {NoSize}, due : BOOLEAN, late : BOOLEAN,
   seen : Seq(AllUnits), from : Nat \X Nat, at : Positive \X Positive,
   items : Seq(Items), bytes : Nat, found : Seq(Nat)]

PagesTyped ==
  /\ subject \in Subjects /\ WellFormed(subject, listing) /\ WellFormed(subject, base)
  /\ Len(base) = Len(listing) /\ \A u \in DOMAIN base : listing[u].kind = base[u].kind
  /\ stage \in {"idle", "unit", "match"} /\ (stage = "match" => subject = "flows")
  /\ (stage = "idle" => page = NoPage)
  /\ page \in Pages /\ read \in Seq(Items)
  /\ torn \in BOOLEAN /\ edits \in 0 .. MaxEdits

(* A place of a listing; one of the catalog or of the resources is the     *)
(* start of a unit.                                                        *)
IsPlace(at) ==
  /\ at \in Positive \X Positive /\ at[1] <= Len(listing) + 1
  /\ subject # "flows" => at[2] = 1

(* The request of a page, where it is and what it weighs.                  *)
PageInv ==
  stage # "idle" =>
    /\ WellFormed(subject, page.seen) /\ Len(page.seen) = Len(listing)
    /\ IsPlace(page.at) /\ (stage = "match" => page.at[1] <= Len(listing))
    /\ cursor # Over
    /\ Len(page.items) <= page.limit
    /\ page.max # NoSize /\ Len(page.items) > page.min => page.bytes <= page.max

(* The bytes counted are those of the items of the page.                   *)
Weighed == stage # "idle" => \E sum : Sums(page.items, sum) /\ sum[Len(page.items)] = page.bytes

CursorInv == cursor # Over => IsPlace(cursor.at)

(* Nothing is answered of a listing not begun.                             *)
NothingBefore ==
  /\ stage # "idle" /\ page.at = <<1, 1>> => read = <<>> /\ page.items = <<>>
  /\ stage = "idle" /\ cursor # Over /\ cursor.at = <<1, 1>> => read = <<>>

Begun == stage # "idle" \/ cursor \notin {Start, Over}

(* A unit whose key is the one it had is the one it was.                   *)
Told == \A u \in DOMAIN base : listing[u].covered = base[u].covered => listing[u] = base[u]

(* Unless torn, what a page reads is the listing the caller began with.    *)
Agrees ==
  ~torn =>
    /\ stage # "idle" => page.seen = base
    /\ stage # "idle" /\ subject = "resources" => listing = base
    /\ stage = "match" => page.found = base[page.at[1]].matches
    /\ stage = "idle" /\ cursor \notin {Start, Over} => cursor.key = Key(base)
    /\ Begun => Told

End == <<Len(base) + 1, 1>>

(* What is answered is what comes before the place of the page, or of the  *)
(* cursor: the places always in the catalog, the rest unless torn.         *)
Sure == subject = "catalog" \/ ~torn
Reached == IF cursor = Over THEN End ELSE cursor.at

Answered ==
  /\ stage # "idle" /\ Sure => Placed(base, read \o page.items, page.at)
  /\ stage # "idle" /\ ~torn => Actual(base, read \o page.items)
  /\ stage = "idle" /\ Sure => Placed(base, read, Reached)
  /\ stage = "idle" /\ ~torn => Actual(base, read)

PagesInv ==
  /\ PagesTyped /\ PageInv /\ Weighed /\ CursorInv /\ NothingBefore /\ Agrees /\ Answered


-----------------------------------------------------------------------------
(* Lemmas on the items answered.                                           *)

(* Nothing is before the first place.                                      *)
LEMMA HoldsNothing ==
  ASSUME NEW l
  PROVE  Placed(l, <<>>, <<1, 1>>) /\ Actual(l, <<>>)
<1>1. Range(<<>>) = {}
  BY DEF Range
<1>2. \A p \in All(l) : ~Before(<<1, 1>>, p[1], p[2])
  BY DEF All, Before, Positive
<1>3. Listed(l, <<>>, <<1, 1>>)
  BY <1>1, <1>2 DEF Listed
<1> QED
  BY <1>3 DEF Placed, InOrder, Actual

(* A place is moved over what is no item, or over one that is answered.    *)
LEMMA HoldsMoved ==
  ASSUME NEW l, NEW s, NEW at, NEW next, Placed(l, s, at),
         \A p \in All(l) : Before(next, p[1], p[2]) <=> Before(at, p[1], p[2])
  PROVE  Placed(l, s, next)
BY DEF Placed, Listed

LEMMA RangeGrows ==
  ASSUME NEW s, NEW t, NEW last, NEW x, DOMAIN t = DOMAIN s \cup {last}, t[last] = x,
         \A m \in DOMAIN s : t[m] = s[m]
  PROVE  Range(t) = Range(s) \cup {x}
BY DEF Range

LEMMA RangeAppend ==
  ASSUME NEW T, NEW s \in Seq(T), NEW x
  PROVE  Range(Append(s, x)) = Range(s) \cup {x}
<1> DEFINE t == Append(s, x)
           last == Len(s) + 1
<1>1. DOMAIN s = 1 .. Len(s) /\ Len(s) \in Nat
  OBVIOUS
<1>2. DOMAIN t = 1 .. last
  OBVIOUS
<1>3. DOMAIN t = DOMAIN s \cup {last}
  BY <1>1, <1>2
<1>4. t[last] = x /\ \A m \in DOMAIN s : t[m] = s[m]
  BY <1>1
<1> HIDE DEF t, last
<1>5. Range(t) = Range(s) \cup {x}
  BY <1>3, <1>4, RangeGrows
<1> QED BY <1>5 DEF t

LEMMA HoldsAppend ==
  ASSUME NEW l, NEW s \in Seq(Items), NEW at \in All(l), NEW next, NEW size,
         Placed(l, s, at),
         \A p \in All(l) : Before(next, p[1], p[2]) <=> Before(at, p[1], p[2]) \/ p = at
  PROVE  Placed(l, Append(s, <<at[1], at[2], size>>), next)
<1> DEFINE item == <<at[1], at[2], size>>
           t == Append(s, item)
           n == Len(s)
<1>0. n \in Nat /\ DOMAIN s = 1 .. n /\ at \in Nat \X Nat
  BY DEF All, Positive
<1>1. DOMAIN t = 1 .. n + 1 /\ t[n + 1] = item /\ \A m \in 1 .. n : t[m] = s[m]
  BY <1>0
<1>2. item[1] = at[1] /\ item[2] = at[2]
  OBVIOUS
<1>3. at = <<at[1], at[2]>>
  BY <1>0
<1>4. Range(t) = Range(s) \cup {item}
  BY RangeAppend
<1>5. Listed(l, t, next)
  <2> HIDE DEF t, item
  <2>1. {<<x[1], x[2]>> : x \in Range(t)} = {<<x[1], x[2]>> : x \in Range(s)} \cup {at}
    BY <1>2, <1>3, <1>4
  <2>2. {p \in All(l) : Before(next, p[1], p[2])}
          = {p \in All(l) : Before(at, p[1], p[2])} \cup {at}
    OBVIOUS
  <2> QED
    BY <2>1, <2>2 DEF Listed, Placed
<1>6. \A m \in DOMAIN s : Before(at, s[m][1], s[m][2])
  <2> SUFFICES ASSUME NEW m \in DOMAIN s PROVE Before(at, s[m][1], s[m][2])
    OBVIOUS
  <2> DEFINE x == <<s[m][1], s[m][2]>>
  <2>1. s[m] \in Range(s)
    BY DEF Range
  <2>2. x \in {p \in All(l) : Before(at, p[1], p[2])}
    BY <2>1 DEF Placed, Listed
  <2> QED
    BY <2>2
<1>7. InOrder(t)
  <2> SUFFICES ASSUME NEW k \in 1 .. n + 1, NEW m \in 1 .. n + 1, k < m
               PROVE  Before(t[m], t[k][1], t[k][2])
    BY <1>1 DEF InOrder
  <2>1. k \in 1 .. n /\ t[k] = s[k]
    BY <1>0, <1>1
  <2>2. CASE m = n + 1
    <3>1. Before(at, s[k][1], s[k][2])
      BY <1>0, <1>6, <2>1
    <3> QED
      BY <1>1, <1>2, <2>1, <2>2, <3>1 DEF Before
  <2>3. CASE m # n + 1
    <3>1. m \in 1 .. n /\ t[m] = s[m]
      BY <1>0, <1>1, <2>3
    <3> QED
      BY <1>0, <2>1, <3>1 DEF Placed, InOrder
  <2> QED
    BY <2>2, <2>3
<1> QED
  BY <1>5, <1>7 DEF Placed

LEMMA ActualAppend ==
  ASSUME NEW l, NEW s \in Seq(Items), NEW at \in Nat \X Nat, Actual(l, s)
  PROVE  Actual(l, Append(s, <<at[1], at[2], l[at[1]].matches[at[2]]>>))
<1> DEFINE item == <<at[1], at[2], l[at[1]].matches[at[2]]>>
           t == Append(s, item)
           n == Len(s)
<1>0. n \in Nat /\ DOMAIN s = 1 .. n
  OBVIOUS
<1>1. DOMAIN t = 1 .. n + 1 /\ t[n + 1] = item /\ \A m \in 1 .. n : t[m] = s[m]
  BY <1>0
<1>2. item[1] = at[1] /\ item[2] = at[2] /\ item[3] = l[at[1]].matches[at[2]]
  OBVIOUS
<1> HIDE DEF t, item, n
<1>3. ASSUME NEW m \in 1 .. n + 1 PROVE t[m][3] = l[t[m][1]].matches[t[m][2]]
  <2>1. CASE m = n + 1
    BY <1>1, <1>2, <2>1
  <2>2. CASE m # n + 1
    <3>1. m \in 1 .. n /\ t[m] = s[m]
      BY <1>0, <1>1, <2>2
    <3> QED
      BY <1>0, <3>1 DEF Actual
  <2> QED
    BY <2>1, <2>2
<1>4. Actual(l, t)
  BY <1>1, <1>3 DEF Actual
<1> QED
  BY <1>4 DEF t, item

LEMMA SameSequence ==
  ASSUME NEW T, NEW s \in Seq(T), NEW t \in Seq(T), Len(s) = Len(t),
         \A n \in 1 .. Len(s) : s[n] = t[n]
  PROVE  s = t
<1>1. s = [n \in 1 .. Len(s) |-> s[n]] /\ t = [n \in 1 .. Len(t) |-> t[n]]
  OBVIOUS
<1> QED
  BY <1>1

LEMMA ConcatAppend ==
  ASSUME NEW s \in Seq(Items), NEW t \in Seq(Items), NEW x \in Items
  PROVE  s \o Append(t, x) = Append(s \o t, x)
OBVIOUS

LEMMA SumsAppend ==
  ASSUME NEW items \in Seq(Items), NEW x \in Items, NEW sum, Sums(items, sum)
  PROVE  \E g : /\ Sums(Append(items, x), g)
                /\ g[Len(Append(items, x))] = sum[Len(items)] + x[3]
<1> DEFINE n == Len(items)
           more == Append(items, x)
           g == [m \in 0 .. n + 1 |-> IF m <= n THEN sum[m] ELSE sum[n] + x[3]]
<1>0. n \in Nat /\ Len(more) = n + 1 /\ more[n + 1] = x /\ \A m \in 1 .. n : more[m] = items[m]
  OBVIOUS
<1>1. g = [m \in 0 .. n + 1 |-> IF m = 0 THEN 0 ELSE g[m - 1] + more[m][3]]
  <2> SUFFICES ASSUME NEW m \in 0 .. n + 1
               PROVE  g[m] = IF m = 0 THEN 0 ELSE g[m - 1] + more[m][3]
    OBVIOUS
  <2> HIDE DEF more
  <2>1. CASE m = 0
    <3>1. sum[0] = 0
      BY <1>0 DEF Sums
    <3> QED
      BY <1>0, <2>1, <3>1
  <2>2. CASE m \in 1 .. n
    <3>1. sum[m] = sum[m - 1] + items[m][3]
      BY <1>0, <2>2 DEF Sums
    <3>2. g[m] = sum[m] /\ g[m - 1] = sum[m - 1] /\ more[m] = items[m]
      BY <1>0, <2>2
    <3> QED
      BY <2>2, <3>1, <3>2
  <2>3. CASE m = n + 1
    <3>1. g[m] = sum[n] + x[3] /\ g[m - 1] = sum[n] /\ more[m] = x
      BY <1>0, <2>3
    <3> QED
      BY <1>0, <2>3, <3>1
  <2> QED
    BY <1>0, <2>1, <2>2, <2>3
<1>2. g[n + 1] = sum[n] + x[3]
  BY <1>0
<1>3. Sums(more, g)
  <2> HIDE DEF more, g
  <2> QED
    BY <1>0, <1>1 DEF Sums
<1> QED
  BY <1>0, <1>2, <1>3

-----------------------------------------------------------------------------
(* What the parts of a step keep.                                          *)

LEMMA WellFormedTyped ==
  ASSUME NEW of \in Subjects, NEW l, WellFormed(of, l)
  PROVE  /\ l \in Seq(AllUnits)
         /\ \A u \in DOMAIN l :
              /\ l[u].kind \in UnitKinds[of]
              /\ Len(l[u].matches) \in Nat /\ DOMAIN l[u].matches = 1 .. Len(l[u].matches)
<1>1. Units(of) \subseteq AllUnits
  BY PagesAssumption DEF Units, AllUnits, UnitKinds
<1>2. l \in Seq(Units(of))
  BY DEF WellFormed
<1>3. l \in Seq(AllUnits) /\ \A u \in DOMAIN l : l[u] \in Units(of)
  BY <1>1, <1>2
<1> QED
  BY <1>3 DEF Units

LEMMA Types ==
  ASSUME PagesTyped
  PROVE  /\ listing \in Seq(AllUnits) /\ base \in Seq(AllUnits) /\ Len(base) = Len(listing)
         /\ Len(listing) \in Nat /\ DOMAIN listing = 1 .. Len(listing)
         /\ DOMAIN base = 1 .. Len(listing)
         /\ page.items \in Seq(Items) /\ page.bytes \in Nat /\ page.seen \in Seq(AllUnits)
         /\ page.at \in Positive \X Positive /\ page.found \in Seq(Nat) /\ read \in Seq(Items)
         /\ page.limit \in Positive /\ page.min \in Nat
         /\ page.max # NoSize => page.max \in Nat
<1>1. \A l : WellFormed(subject, l) => l \in Seq(AllUnits)
  BY WellFormedTyped DEF PagesTyped
<1> QED
  BY <1>1 DEF PagesTyped, Pages

LEMMA NoPageTyped == NoPage \in Pages
<1>1. <<>> \in Seq(Items) /\ <<>> \in Seq(AllUnits) /\ <<>> \in Seq(Nat)
  OBVIOUS
<1>2. <<1, 1>> \in Nat \X Nat /\ <<1, 1>> \in Positive \X Positive /\ 1 \in Positive
  BY DEF Positive
<1> QED
  BY <1>1, <1>2 DEF NoPage, Pages

(* Two listings of one key agree on what it covers of their units.         *)
LEMMA SameKey ==
  ASSUME NEW l, NEW m, Key(l) = Key(m), DOMAIN l = DOMAIN m
  PROVE  \A u \in DOMAIN l : l[u].covered = m[u].covered
<1> SUFFICES ASSUME NEW u \in DOMAIN l PROVE l[u].covered = m[u].covered
  OBVIOUS
<1>1. Key(l)[u] = l[u].covered /\ Key(m)[u] = m[u].covered
  BY DEF Key
<1> QED
  BY <1>1

(* A page ends: its items are added to the answer, and its cursor is where *)
(* they stop.                                                              *)
LEMMA PageEnded ==
  ASSUME PagesInv, stage # "idle", NEW items \in Seq(Items), NEW next,
         stage' = "idle", page' = NoPage, cursor' = next, read' = read \o items,
         UNCHANGED <<subject, listing, base, torn, edits>>,
         next # Over =>
           /\ next.key = Key(page.seen) /\ IsPlace(next.at)
           /\ next.at = <<1, 1>> => read = <<>> /\ items = <<>>,
         Sure => Placed(base, read \o items, IF next = Over THEN End ELSE next.at),
         ~torn => Actual(base, read \o items)
  PROVE  PagesInv'
<1> USE DEF PagesInv
<1>1. PagesTyped'
  BY NoPageTyped, Types DEF PagesTyped, Pages
<1>2. PageInv' /\ Weighed'
  BY DEF PageInv, Weighed
<1>3. CursorInv'
  BY DEF CursorInv, IsPlace
<1>4. NothingBefore'
  BY DEF NothingBefore
<1>5. Agrees'
  <2> SUFFICES ASSUME ~torn PROVE Agrees'
    BY DEF Agrees
  <2>1. page.seen = base /\ Told
    BY DEF Agrees, Begun
  <2>2. cursor' \notin {Start, Over} => cursor'.key = Key(base)
    BY <2>1
  <2> QED
    BY <2>1, <2>2 DEF Agrees, Told, Key, Start, Over
<1>6. Answered'
  BY DEF Answered, Sure, Reached, Over, End
<1> QED
  BY <1>1, <1>2, <1>3, <1>4, <1>5, <1>6

(* A page moves over what holds no item.                                   *)
LEMMA PageMoved ==
  ASSUME PagesInv, stage # "idle", NEW at, Move(at), stage' = "unit",
         UNCHANGED <<subject, listing, cursor, read, base, torn, edits>>,
         IsPlace(at), at # <<1, 1>>,
         Sure => \A p \in All(base) :
                   Before(at, p[1], p[2]) <=> Before(page.at, p[1], p[2])
  PROVE  PagesInv'
<1> USE DEF PagesInv
<1>0. /\ page' \in Pages /\ page'.at = at
      /\ \A f \in {"items", "bytes", "seen", "limit", "min", "max"} : page'[f] = page[f]
  BY DEF Move, PagesTyped, Pages, IsPlace
<1>1. /\ page'.items = page.items /\ page'.bytes = page.bytes /\ page'.seen = page.seen
      /\ page'.limit = page.limit /\ page'.min = page.min /\ page'.max = page.max
  BY <1>0
<1>2. PagesTyped'
  BY <1>0 DEF PagesTyped
<1>3. PageInv'
  BY <1>0, <1>1 DEF PageInv, IsPlace, Over
<1>4. Weighed'
  BY <1>1 DEF Weighed
<1>5. CursorInv' /\ NothingBefore'
  BY <1>0 DEF CursorInv, NothingBefore, IsPlace
<1>6. Agrees'
  BY <1>1 DEF Agrees, Told, Key, Begun, Start, Over
<1>7. Answered'
  BY <1>0, <1>1, HoldsMoved DEF Answered, Sure
<1> QED
  BY <1>2, <1>3, <1>4, <1>5, <1>6, <1>7

(* A page takes the item it is at, if it fits.                             *)
LEMMA ItemAdded ==
  ASSUME PagesInv, stage # "idle", NEW at, NEW size \in Nat, Add(at, size),
         UNCHANGED <<subject, listing, stage, cursor, read, base, torn, edits>>,
         Len(page.items) < page.limit, Fits(size), IsPlace(at), at # <<1, 1>>,
         stage = "match" => at[1] = page.at[1],
         Sure => /\ page.at \in All(base)
                 /\ \A p \in All(base) : Before(at, p[1], p[2]) <=>
                                           Before(page.at, p[1], p[2]) \/ p = page.at,
         ~torn => size = base[page.at[1]].matches[page.at[2]]
  PROVE  PagesInv'
<1> USE DEF PagesInv
<1>0. Item(size) \in Items /\ Append(page.items, Item(size)) \in Seq(Items)
  <2>1. page.at[1] \in Nat /\ page.at[2] \in Nat /\ page.items \in Seq(Items)
    BY Types DEF Positive
  <2>2. Item(size) \in Items
    BY <2>1 DEF Item, Items
  <2> QED
    BY <2>1, <2>2
<1>1. /\ page'.items = Append(page.items, Item(size)) /\ page'.bytes = page.bytes + size
      /\ page'.seen = page.seen /\ page'.found = page.found /\ page'.at = at
      /\ page'.limit = page.limit /\ page'.min = page.min /\ page'.max = page.max
  BY DEF Add, PagesTyped, Pages
<1>2. page' \in Pages
  <2>1. page \in Pages /\ page.bytes + size \in Nat /\ at \in Positive \X Positive
    BY Types DEF PagesTyped, IsPlace
  <2>2. page' = [page EXCEPT !.at = at, !.items = Append(page.items, Item(size)),
                             !.bytes = page.bytes + size]
    BY DEF Add
  <2> QED
    BY <1>0, <2>1, <2>2 DEF Pages
<1>3. Len(page'.items) = Len(page.items) + 1 /\ Len(page.items) \in Nat
  BY <1>0, <1>1, Types
<1>4. PagesTyped'
  BY <1>2 DEF PagesTyped
<1>5. PageInv'
  <2>1. Len(page'.items) <= page'.limit
    BY <1>1, <1>3, Types DEF Positive
  <2>2. page'.max # NoSize /\ Len(page'.items) > page'.min => page'.bytes <= page'.max
    BY <1>1, <1>3, Types DEF Fits
  <2> QED
    BY <1>1, <2>1, <2>2 DEF PageInv, IsPlace, Over
<1>6. Weighed'
  <2>1. PICK sum : Sums(page.items, sum) /\ sum[Len(page.items)] = page.bytes
    BY DEF Weighed
  <2>2. PICK g : /\ Sums(Append(page.items, Item(size)), g)
                 /\ g[Len(Append(page.items, Item(size)))]
                      = sum[Len(page.items)] + Item(size)[3]
    <3>1. page.items \in Seq(Items)
      BY Types
    <3> QED
      BY <1>0, <2>1, <3>1, SumsAppend
  <2>3. Item(size)[3] = size
    BY DEF Item
  <2> QED
    BY <1>1, <2>1, <2>2, <2>3 DEF Weighed
<1>7. CursorInv' /\ NothingBefore'
  BY <1>1 DEF CursorInv, NothingBefore, IsPlace
<1>8. Agrees'
  BY <1>1 DEF Agrees, Told, Key, Begun, Start, Over
<1>9. Answered'
  <2>1. /\ Sure => Placed(base, read \o page.items, page.at)
        /\ ~torn => Actual(base, read \o page.items)
    BY DEF Answered
  <2>2. read \o page'.items = Append(read \o page.items, Item(size))
    BY <1>0, <1>1, ConcatAppend, Types
  <2>3. read \o page.items \in Seq(Items) /\ page.at \in Nat \X Nat
    BY Types DEF Positive
  <2>4. Item(size) = <<page.at[1], page.at[2], size>>
    BY DEF Item
  <2>5. Sure => Placed(base, read \o page'.items, at)
    BY <2>1, <2>2, <2>3, <2>4, HoldsAppend
  <2>6. ~torn => Actual(base, read \o page'.items)
    BY <2>1, <2>2, <2>3, <2>4, ActualAppend
  <2> QED
    BY <1>1, <2>5, <2>6 DEF Answered, Sure
<1> QED
  BY <1>4, <1>5, <1>6, <1>7, <1>8, <1>9

(* The matches of a unit: those of the listing the caller began with,      *)
(* unless it is torn; in the catalog one whatever happened.                *)
LEMMA MatchesAre ==
  ASSUME PagesInv, stage # "idle", ~UnitEnds
  PROVE  /\ Unit \in DOMAIN base /\ Unit <= Len(listing)
         /\ Matches(Unit) \in Seq(Nat)
         /\ subject # "flows" => Len(Matches(Unit)) <= 1 /\ Len(base[Unit].matches) <= 1
         /\ Sure => Len(Matches(Unit)) = Len(base[Unit].matches)
         /\ ~torn => Matches(Unit) = base[Unit].matches
<1> USE DEF PagesInv
<1>1. Unit \in 1 .. Len(listing) /\ Len(page.seen) = Len(listing)
  <2>1. page.at[1] \in Nat \ {0} /\ Len(listing) \in Nat
    BY Types DEF Positive
  <2>2. Len(page.seen) = Len(listing) /\ ~(page.at[1] > Len(page.seen))
    BY DEF PageInv, UnitEnds, Unit
  <2> QED
    BY <2>1, <2>2 DEF Unit
<1>2. Matches(Unit) = listing[Unit].matches \/ Matches(Unit) = page.seen[Unit].matches
  BY DEF Matches
<1>3. /\ DOMAIN listing = 1 .. Len(listing) /\ DOMAIN page.seen = 1 .. Len(listing)
      /\ DOMAIN base = 1 .. Len(listing)
  BY <1>1, Types
<1>4. /\ listing[Unit] \in AllUnits /\ page.seen[Unit] \in AllUnits
      /\ base[Unit] \in AllUnits
  BY <1>1, <1>3, Types
<1>5. /\ WellFormed(subject, listing) /\ WellFormed(subject, base)
      /\ WellFormed(subject, page.seen) /\ subject \in Subjects
  BY DEF PagesTyped, PageInv
<1>6. /\ listing[Unit].kind \in UnitKinds[subject] /\ page.seen[Unit].kind \in UnitKinds[subject]
      /\ base[Unit].kind \in UnitKinds[subject]
  BY <1>1, <1>3, <1>5, WellFormedTyped
<1>7. ASSUME subject = "catalog"
      PROVE  Len(Matches(Unit)) = 1 /\ Len(base[Unit].matches) = 1
  <2>1. /\ listing[Unit].kind = "descriptor" /\ page.seen[Unit].kind = "descriptor"
        /\ base[Unit].kind = "descriptor"
    BY <1>6, <1>7 DEF UnitKinds
  <2> QED
    BY <1>1, <1>2, <1>3, <1>5, <2>1 DEF WellFormed
<1>8. ASSUME subject = "resources"
      PROVE  Len(Matches(Unit)) <= 1 /\ Len(base[Unit].matches) <= 1
  <2>1. /\ listing[Unit].kind = "file" /\ page.seen[Unit].kind = "file"
        /\ base[Unit].kind = "file"
    BY <1>6, <1>8 DEF UnitKinds
  <2> QED
    BY <1>1, <1>2, <1>3, <1>5, <2>1 DEF WellFormed
<1>9. subject \in {"catalog", "resources", "flows"}
  BY <1>5, PagesAssumption
<1>10. ASSUME ~torn PROVE Matches(Unit) = base[Unit].matches
  <2>1. page.seen = base
    BY <1>10 DEF Agrees
  <2>2. CASE page.seen[Unit].kind \notin {"file", "type", "schema"}
    BY <2>1, <2>2 DEF Matches
  <2>3. CASE subject = "resources"
    BY <1>10, <2>1, <2>3 DEF Agrees, Matches
  <2>4. CASE page.seen[Unit].kind \in {"type", "schema"} /\ subject # "resources"
    <3>1. base[Unit].covered = Nothing
      BY <1>1, <1>3, <1>5, <2>1, <2>4 DEF WellFormed
    <3>2. listing[Unit].kind = base[Unit].kind
      BY <1>1, <1>3 DEF PagesTyped
    <3>3. listing[Unit].covered = Nothing
      BY <1>1, <1>3, <1>5, <2>1, <2>4, <3>2 DEF WellFormed
    <3>4. listing[Unit] = base[Unit]
      BY <1>1, <1>3, <1>10, <3>1, <3>3 DEF Agrees, Begun, Told
    <3> QED
      BY <2>1, <2>4, <3>4 DEF Matches
  <2>5. page.seen[Unit].kind = "file" => subject = "resources"
    BY <1>6, <1>9 DEF UnitKinds
  <2> QED
    BY <2>2, <2>3, <2>4, <2>5
<1>11. Matches(Unit) \in Seq(Nat)
  BY <1>2, <1>4 DEF AllUnits
<1>12. Sure => Len(Matches(Unit)) = Len(base[Unit].matches)
  BY <1>7, <1>10 DEF Sure
<1>14. subject = "catalog" => Len(Matches(Unit)) <= 1 /\ Len(base[Unit].matches) <= 1
  <2>1. ASSUME NEW m, NEW n, m = 1, n = 1 PROVE m <= 1 /\ n <= 1
    BY <2>1
  <2> QED
    BY <1>7, <2>1
<1>13. subject # "flows" => Len(Matches(Unit)) <= 1 /\ Len(base[Unit].matches) <= 1
  BY <1>8, <1>9, <1>14
<1> QED
  BY <1>1, <1>3, <1>10, <1>11, <1>12, <1>13

-----------------------------------------------------------------------------
(* Every action keeps the invariant.                                       *)

(* The first request has no cursor: nothing is answered.                   *)
LEMMA InitKeeps == PagesInit => PagesInv
<1> SUFFICES ASSUME PagesInit PROVE PagesInv
  OBVIOUS
<1>1. PagesTyped
  <2>1. WellFormed(subject, listing)
    BY ListingsAssumption DEF PagesInit
  <2>2. <<>> \in Seq(Items) /\ 0 \in 0 .. MaxEdits
    BY PagesAssumption
  <2>3. subject \in Subjects /\ base = listing /\ stage = "idle" /\ page = NoPage
        /\ read = <<>> /\ torn = FALSE /\ edits = 0
    BY DEF PagesInit
  <2> QED
    BY <2>1, <2>2, <2>3, NoPageTyped DEF PagesTyped
<1>2. PageInv /\ Weighed /\ NothingBefore
  BY DEF PagesInit, PageInv, Weighed, NothingBefore
<1>3. CursorInv
  <2>1. Len(listing) \in Nat
    BY <1>1, Types
  <2> QED
    BY <2>1 DEF PagesInit, CursorInv, IsPlace, Start, Positive
<1>4. Agrees
  BY DEF PagesInit, Agrees, Begun
<1>5. Answered
  <2>1. Start # Over /\ Start.at = <<1, 1>>
    BY DEF Start, Over
  <2> QED
    BY <2>1, HoldsNothing DEF PagesInit, Answered, Reached
<1> QED
  BY <1>1, <1>2, <1>3, <1>4, <1>5 DEF PagesInv

(* A cursor whose key is still the one of the sources resumes the listing  *)
(* its caller began with.                                                  *)
LEMMA AskKeeps ==
  ASSUME PagesInv, Ask
  PROVE  PagesInv'
<1> USE DEF PagesInv
<1>1. /\ stage = "idle" /\ stage' = "unit" /\ cursor # Over
      /\ cursor = Start \/ cursor.key = Key(listing)
      /\ UNCHANGED <<subject, listing, cursor, read, edits>>
      /\ IF cursor = Start THEN base' = listing /\ torn' = FALSE ELSE UNCHANGED <<base, torn>>
  BY DEF Ask
<1>2. PICK l \in Limits, m \in MinItems, x \in Sizes, d \in BOOLEAN, late \in BOOLEAN :
        page' = [limit |-> l, min |-> m, max |-> x, due |-> d, late |-> late,
                 seen |-> listing, from |-> cursor.at, at |-> cursor.at,
                 items |-> <<>>, bytes |-> 0, found |-> <<>>]
  BY DEF Ask
<1>3. l \in Positive /\ m \in Nat /\ x \in Nat \cup {NoSize}
  BY PagesAssumption DEF Positive
<1>4. IsPlace(cursor.at)
  BY <1>1 DEF CursorInv
<1>5. cursor = Start => cursor.at = <<1, 1>>
  BY DEF Start
<1>6. PagesTyped'
  <2>1. <<>> \in Seq(Items) /\ <<>> \in Seq(Nat) /\ listing \in Seq(AllUnits)
    BY Types
  <2>2. cursor.at \in Positive \X Positive /\ cursor.at \in Nat \X Nat
    BY <1>4 DEF IsPlace, Positive
  <2>3. page' \in Pages
    BY <1>2, <1>3, <2>1, <2>2 DEF Pages
  <2> QED
    BY <1>1, <2>3 DEF PagesTyped
<1>7. PageInv'
  <2>1. Len(page'.items) = 0
    BY <1>2
  <2>2. Len(page'.items) <= page'.limit /\ ~(Len(page'.items) > page'.min)
    BY <1>2, <1>3, <2>1 DEF Positive
  <2> QED
    BY <1>1, <1>2, <1>4, <2>2 DEF PageInv, PagesTyped, IsPlace, Over
<1>8. Weighed'
  <2> DEFINE sum == [n \in 0 .. 0 |-> 0]
  <2>1. Sums(<<>>, sum)
    BY DEF Sums
  <2>2. sum[Len(<<>>)] = 0
    OBVIOUS
  <2> HIDE DEF sum
  <2> QED
    BY <1>2, <2>1, <2>2 DEF Weighed
<1>9. CursorInv' /\ NothingBefore'
  BY <1>1, <1>2 DEF CursorInv, NothingBefore, IsPlace
<1>10. read \o page'.items = read
  BY <1>2, Types
<1>11. CASE cursor = Start
  <2>1. base' = listing /\ page'.seen = listing /\ page'.at = <<1, 1>>
    BY <1>1, <1>2, <1>5, <1>11
  <2>2. read = <<>>
    BY <1>1, <1>5, <1>11 DEF NothingBefore
  <2>3. Agrees'
    BY <1>1, <2>1 DEF Agrees, Told
  <2>4. Answered'
    BY <1>1, <1>10, <2>1, <2>2, HoldsNothing DEF Answered
  <2> QED
    BY <1>6, <1>7, <1>8, <1>9, <2>3, <2>4
<1>12. CASE cursor # Start
  <2>1. UNCHANGED <<base, torn>> /\ page'.seen = listing /\ page'.at = cursor.at
    BY <1>1, <1>2, <1>12
  <2>2. ASSUME ~torn PROVE listing = base
    <3>1. Key(base) = Key(listing)
      BY <1>1, <1>12, <2>2 DEF Agrees
    <3>2. DOMAIN base = DOMAIN listing
      BY Types
    <3>3. Told
      BY <1>1, <1>12, <2>2 DEF Agrees, Begun
    <3>4. \A u \in 1 .. Len(listing) : listing[u] = base[u]
      BY <3>1, <3>2, <3>3, SameKey, Types DEF Told
    <3> QED
      BY <3>4, Types, SameSequence
  <2>3. Agrees'
    BY <1>1, <2>1, <2>2 DEF Agrees, Told
  <2>4. Answered'
    BY <1>1, <1>10, <2>1 DEF Answered, Sure, Reached
  <2> QED
    BY <1>6, <1>7, <1>8, <1>9, <2>3, <2>4
<1> QED
  BY <1>11, <1>12

LEMMA MismatchKeeps ==
  ASSUME PagesInv, Mismatch
  PROVE  PagesInv'
<1> USE DEF PagesInv
<1>1. /\ stage = "idle" /\ cursor' = Start /\ read' = <<>>
      /\ UNCHANGED <<subject, listing, stage, page, base, torn, edits>>
  BY DEF Mismatch
<1>2. PagesTyped'
  <2>1. <<>> \in Seq(Items)
    OBVIOUS
  <2> QED
    BY <1>1, <2>1 DEF PagesTyped
<1>3. PageInv' /\ Weighed' /\ NothingBefore'
  BY <1>1 DEF PageInv, Weighed, NothingBefore
<1>4. CursorInv'
  <2>1. Len(listing) \in Nat
    BY Types
  <2> QED
    BY <1>1, <2>1 DEF CursorInv, IsPlace, Start, Positive
<1>5. Agrees'
  BY <1>1 DEF Agrees, Begun
<1>6. Answered'
  <2>1. Start # Over /\ Start.at = <<1, 1>>
    BY DEF Start, Over
  <2> QED
    BY <1>1, <2>1, HoldsNothing DEF Answered, Reached
<1> QED
  BY <1>2, <1>3, <1>4, <1>5, <1>6

LEMMA TimePassesKeeps ==
  ASSUME PagesInv, TimePasses
  PROVE  PagesInv'
<1> USE DEF PagesInv
<1>1. /\ page' = [page EXCEPT !.late = TRUE] /\ stage # "idle"
      /\ UNCHANGED <<subject, listing, stage, cursor, read, base, torn, edits>>
  BY DEF TimePasses
<1>2. /\ page' \in Pages /\ page'.items = page.items /\ page'.bytes = page.bytes
      /\ page'.seen = page.seen /\ page'.found = page.found /\ page'.at = page.at
      /\ page'.limit = page.limit /\ page'.min = page.min /\ page'.max = page.max
  BY <1>1 DEF PagesTyped, Pages
<1>3. PagesTyped'
  BY <1>1, <1>2 DEF PagesTyped
<1>4. PageInv' /\ Weighed'
  BY <1>1, <1>2 DEF PageInv, Weighed, IsPlace, Over
<1>5. CursorInv' /\ NothingBefore'
  BY <1>1, <1>2 DEF CursorInv, NothingBefore, IsPlace, Over
<1>6. Agrees'
  BY <1>1, <1>2 DEF Agrees, Told, Key, Begun, Start, Over
<1>7. Answered'
  BY <1>1, <1>2 DEF Answered, Sure, Reached, End, Over
<1> QED
  BY <1>3, <1>4, <1>5, <1>6, <1>7

(* An edit of a unit and not of its key tears the answer, and so does one  *)
(* of a file while a page of the resources is read.                        *)
LEMMA EditsKeep ==
  ASSUME PagesInv, Edits
  PROVE  PagesInv'
<1> USE DEF PagesInv
<1>1. PICK u \in DOMAIN listing, l \in Listings[subject] :
        Edit(u, l[u]) /\ Len(l) = Len(listing) /\ l[u].kind = listing[u].kind
  BY DEF Edits
<1>2. /\ listing' = [listing EXCEPT ![u] = l[u]] /\ edits < MaxEdits /\ edits' = edits + 1
      /\ torn' = (\/ torn
                  \/ l[u].covered = base[u].covered /\ l[u] # base[u]
                  \/ l[u].kind = "file" /\ stage # "idle")
      /\ UNCHANGED <<subject, stage, page, cursor, read, base>>
  BY <1>1 DEF Edit
<1>3. WellFormed(subject, l) /\ l \in Seq(Units(subject)) /\ subject \in Subjects
      /\ WellFormed(subject, listing) /\ listing \in Seq(Units(subject))
  BY ListingsAssumption DEF PagesTyped, WellFormed
<1>4. u \in 1 .. Len(listing) /\ DOMAIN l = 1 .. Len(listing) /\ l[u] \in Units(subject)
      /\ DOMAIN listing = 1 .. Len(listing) /\ Len(listing) \in Nat
  BY <1>1, <1>3, Types
<1>5. /\ listing' \in Seq(Units(subject)) /\ Len(listing') = Len(listing)
      /\ DOMAIN listing' = DOMAIN listing
      /\ \A v \in DOMAIN listing : v # u => listing'[v] = listing[v]
      /\ listing'[u] = l[u]
  BY <1>2, <1>3, <1>4
<1>6. WellFormed(subject, listing')
  <2> SUFFICES ASSUME NEW v \in DOMAIN listing
               PROVE  /\ listing'[v].kind = "descriptor" => Len(listing'[v].matches) = 1
                      /\ listing'[v].kind = "file" => Len(listing'[v].matches) <= 1
                      /\ listing'[v].kind \in {"type", "schema"} =>
                           listing'[v].covered = Nothing
    BY <1>5 DEF WellFormed
  <2>1. CASE v = u
    BY <1>3, <1>4, <1>5, <2>1 DEF WellFormed
  <2>2. CASE v # u
    BY <1>3, <1>5, <2>2 DEF WellFormed
  <2> QED
    BY <2>1, <2>2
<1>7. PagesTyped'
  <2>1. edits' \in 0 .. MaxEdits
    BY <1>2, PagesAssumption DEF PagesTyped
  <2>2. torn' \in BOOLEAN
    BY <1>2 DEF PagesTyped
  <2>3. \A v \in DOMAIN base : listing'[v].kind = base[v].kind
    BY <1>1, <1>4, <1>5, Types DEF PagesTyped
  <2> QED
    BY <1>2, <1>5, <1>6, <2>1, <2>2, <2>3 DEF PagesTyped
<1>8. PageInv' /\ Weighed'
  BY <1>2, <1>5 DEF PageInv, Weighed, IsPlace, Over
<1>9. CursorInv' /\ NothingBefore'
  BY <1>2, <1>5 DEF CursorInv, NothingBefore, IsPlace, Over
<1>10. Agrees'
  <2> SUFFICES ASSUME ~torn' PROVE Agrees'
    BY DEF Agrees
  <2>1. /\ ~torn /\ ~(l[u].covered = base[u].covered /\ l[u] # base[u])
        /\ ~(l[u].kind = "file" /\ stage # "idle")
    BY <1>2
  <2>2. Begun' <=> Begun
    BY <1>2 DEF Begun, Start, Over
  <2>3. Begun => Told'
    <3> HAVE Begun
    <3>1. Told
      BY <2>1 DEF Agrees
    <3> QED
      BY <1>2, <1>4, <1>5, <2>1, <3>1, Types DEF Told
  <2>4. ~(subject = "resources" /\ stage # "idle")
    BY <1>3, <1>4, <2>1, WellFormedTyped DEF UnitKinds
  <2>5. Key(base)' = Key(base)
    BY <1>2 DEF Key
  <2> QED
    BY <1>2, <2>1, <2>2, <2>3, <2>4, <2>5 DEF Agrees, Start, Over
<1>11. Answered'
  BY <1>2 DEF Answered, Sure, Reached, End, Over
<1> QED
  BY <1>7, <1>8, <1>9, <1>10, <1>11

(* A page ends with its listing, or before the unit or the match it is at. *)
LEMMA ListingEnded ==
  ASSUME PagesInv, stage # "idle", UnitEnds, Finish(Over),
         UNCHANGED <<subject, listing, base, torn, edits>>
  PROVE  PagesInv'
<1>1. stage' = "idle" /\ page' = NoPage /\ cursor' = Over /\ read' = read \o page.items
  BY DEF Finish
<1>2. page.items \in Seq(Items)
  BY Types DEF PagesInv
<1>4. ~torn => Actual(base, read \o page.items)
  BY DEF PagesInv, Answered
<1>3. ASSUME Sure PROVE Placed(base, read \o page.items, End)
  <2>1. Placed(base, read \o page.items, page.at)
    BY <1>3 DEF PagesInv, Answered
  <2>2. Len(base) \in Nat /\ page.at[1] \in Nat /\ page.at[1] > Len(base)
    BY Types DEF PagesInv, PageInv, UnitEnds, Unit, Positive
  <2>3. End[1] = Len(base) + 1
    BY DEF End
  <2>4. ASSUME NEW p \in All(base)
        PROVE  Before(End, p[1], p[2]) <=> Before(page.at, p[1], p[2])
    <3>1. p[1] \in Nat /\ p[1] <= Len(base)
      BY DEF All, Positive
    <3>2. p[1] < End[1] /\ p[1] < page.at[1]
      BY <2>2, <2>3, <3>1
    <3> QED
      BY <3>2 DEF Before
  <2> QED
    BY <2>1, <2>4, HoldsMoved
<1> QED
  BY <1>1, <1>2, <1>3, <1>4, PageEnded

LEMMA PageResumed ==
  ASSUME PagesInv, stage # "idle", Resume(page.at),
         UNCHANGED <<subject, listing, base, torn, edits>>
  PROVE  PagesInv'
<1> DEFINE next == [at |-> page.at, key |-> Key(page.seen)]
<1>1. stage' = "idle" /\ page' = NoPage /\ cursor' = next /\ read' = read \o page.items
  BY DEF Resume, Finish
<1>2. page.items \in Seq(Items) /\ page.at \in Positive \X Positive
  BY Types DEF PagesInv
<1>3. next.at = page.at /\ next.key = Key(page.seen)
  OBVIOUS
<1> HIDE DEF next
<1>4. next # Over
  BY <1>2, <1>3 DEF Over, Positive
<1>5. IsPlace(next.at) /\ (next.at = <<1, 1>> => read = <<>> /\ page.items = <<>>)
  BY <1>3 DEF PagesInv, PageInv, NothingBefore
<1>6. /\ Sure => Placed(base, read \o page.items, next.at)
      /\ ~torn => Actual(base, read \o page.items)
  BY <1>3 DEF PagesInv, Answered
<1> QED
  BY <1>1, <1>2, <1>3, <1>4, <1>5, <1>6, PageEnded

LEMMA OnlyMatch ==
  ASSUME NEW s \in Seq(Nat), s # <<>>, Len(s) <= 1
  PROVE  Len(s) = 1 /\ s[1] \in Nat
<1>1. Len(s) \in Nat /\ DOMAIN s = 1 .. Len(s)
  OBVIOUS
<1>2. ASSUME Len(s) = 0 PROVE FALSE
  <2>1. <<>> \in Seq(Nat) /\ Len(<<>>) = 0
    OBVIOUS
  <2>2. \A n \in 1 .. Len(s) : s[n] = <<>>[n]
    BY <1>2
  <2> QED
    BY <1>2, <2>1, <2>2, SameSequence
<1>3. Len(s) = 1
  BY <1>1, <1>2
<1> QED
  BY <1>1, <1>3

LEMMA BaseLengths ==
  ASSUME PagesInv
  PROVE  \A p \in All(base) : /\ p[1] \in DOMAIN base
                              /\ Len(base[p[1]].matches) \in Nat
<1> SUFFICES ASSUME NEW p \in All(base)
             PROVE  p[1] \in DOMAIN base /\ Len(base[p[1]].matches) \in Nat
  OBVIOUS
<1>1. p[1] \in 1 .. Len(base) /\ DOMAIN base = 1 .. Len(base)
  BY Types DEF PagesInv, All, Positive
<1>2. WellFormed(subject, base) /\ subject \in Subjects
  BY DEF PagesInv, PagesTyped
<1> QED
  BY <1>1, <1>2, WellFormedTyped

LEMMA ScanUnitKeeps ==
  ASSUME PagesInv, ScanUnit
  PROVE  PagesInv'
<1>1. /\ stage = "unit" /\ stage # "idle" /\ subject # "flows"
      /\ UNCHANGED <<subject, listing, base, torn, edits>>
  BY DEF ScanUnit
<1>2. CASE UnitEnds /\ Finish(Over)
  BY <1>1, <1>2, ListingEnded
<1>3. CASE Resume(page.at)
  BY <1>1, <1>3, PageResumed
<1>4. CASE ~UnitEnds /\ ~Full /\ UNCHANGED <<stage, cursor, read>>
           /\ \/ Matches(Unit) = <<>> /\ Move(<<Unit + 1, 1>>)
              \/ Matches(Unit) # <<>> /\ Fits(Matches(Unit)[1])
                 /\ Add(<<Unit + 1, 1>>, Matches(Unit)[1])
  <2> DEFINE next == <<Unit + 1, 1>>
  <2>1. /\ Unit \in DOMAIN base /\ Unit <= Len(listing)
        /\ Matches(Unit) \in Seq(Nat) /\ Len(Matches(Unit)) <= 1
        /\ Len(base[Unit].matches) <= 1
        /\ Sure => Len(Matches(Unit)) = Len(base[Unit].matches)
        /\ ~torn => Matches(Unit) = base[Unit].matches
    BY <1>1, <1>4, MatchesAre
  <2>2. page.at \in Positive \X Positive /\ page.at[1] = Unit /\ page.at[2] = 1
        /\ page.at = <<Unit, 1>> /\ Unit \in Nat /\ Unit >= 1
    <3>1. page.at \in Positive \X Positive
      BY Types DEF PagesInv
    <3>2. page.at[2] = 1
      BY <1>1 DEF PagesInv, PageInv, IsPlace
    <3> QED
      BY <3>1, <3>2 DEF Unit, Positive
  <2>3. IsPlace(next) /\ next # <<1, 1>> /\ next[1] = Unit + 1 /\ next[2] = 1
    <3>1. Len(listing) \in Nat
      BY Types DEF PagesInv
    <3> QED
      BY <2>1, <2>2, <3>1 DEF IsPlace, Positive
  <2> HIDE DEF next
  <2>4. ASSUME NEW p \in All(base)
        PROVE  Before(next, p[1], p[2]) <=> Before(page.at, p[1], p[2]) \/ p = page.at
    <3>1. /\ p[1] \in Nat /\ p[2] \in Nat /\ p[2] >= 1 /\ p = <<p[1], p[2]>>
          /\ p[2] <= Len(base[p[1]].matches) /\ Len(base[p[1]].matches) \in Nat
      BY BaseLengths DEF All, Positive
    <3>2. p[1] = Unit => p[2] = 1
      BY <2>1, <3>1
    <3>3. Before(next, p[1], p[2]) <=> p[1] <= Unit
      BY <2>2, <2>3, <3>1 DEF Before
    <3>4. Before(page.at, p[1], p[2]) <=> p[1] < Unit
      BY <2>2, <3>1 DEF Before
    <3>5. p = page.at <=> p[1] = Unit
      BY <2>2, <3>1, <3>2
    <3> QED
      BY <2>2, <3>1, <3>3, <3>4, <3>5
  <2>5. CASE Matches(Unit) = <<>> /\ Move(next)
    <3>1. ASSUME Sure, NEW p \in All(base)
          PROVE  Before(next, p[1], p[2]) <=> Before(page.at, p[1], p[2])
      <4>1. Len(base[Unit].matches) = 0
        BY <2>1, <2>5, <3>1
      <4>2. p # page.at
        BY <2>2, <4>1 DEF All, Positive
      <4> QED
        BY <2>4, <3>1, <4>2
    <3> QED
      BY <1>1, <1>4, <2>3, <2>5, <3>1, PageMoved
  <2>6. CASE Matches(Unit) # <<>> /\ Fits(Matches(Unit)[1]) /\ Add(next, Matches(Unit)[1])
    <3>1. Len(Matches(Unit)) = 1 /\ Matches(Unit)[1] \in Nat
      BY <2>1, <2>6, OnlyMatch
    <3>2. Len(page.items) < page.limit
      BY <1>4, Types DEF PagesInv, Full, Positive
    <3>4. ~torn => Matches(Unit)[1] = base[page.at[1]].matches[page.at[2]]
      BY <2>1, <2>2
    <3>3. ASSUME Sure
          PROVE  /\ page.at \in All(base)
                 /\ \A p \in All(base) : Before(next, p[1], p[2]) <=>
                                           Before(page.at, p[1], p[2]) \/ p = page.at
      <4>1. Len(base[Unit].matches) = 1
        BY <2>1, <3>1, <3>3
      <4>2. Unit <= Len(base)
        BY <2>1, Types DEF PagesInv
      <4>3. page.at \in All(base)
        <5>1. page.at[1] <= Len(base)
          BY <2>2, <4>2
        <5>2. page.at[2] <= Len(base[page.at[1]].matches)
          BY <2>2, <4>1
        <5> QED
          BY <2>2, <5>1, <5>2 DEF All
      <4> QED
        BY <2>4, <4>3
    <3> QED
      BY <1>1, <1>4, <2>3, <2>6, <3>1, <3>2, <3>3, <3>4, ItemAdded
  <2> QED
    BY <1>4, <2>5, <2>6 DEF next
<1> QED
  BY <1>2, <1>3, <1>4 DEF ScanUnit

LEMMA SearchUnitKeeps ==
  ASSUME PagesInv, SearchUnit
  PROVE  PagesInv'
<1>1. /\ stage = "unit" /\ stage # "idle" /\ subject = "flows"
      /\ UNCHANGED <<subject, listing, base, torn, edits>>
  BY DEF SearchUnit
<1>2. CASE UnitEnds /\ Finish(Over)
  BY <1>1, <1>2, ListingEnded
<1>3. CASE Resume(page.at)
  BY <1>1, <1>3, PageResumed
<1>4. CASE /\ ~UnitEnds
           /\ page' = [page EXCEPT !.found = Matches(Unit)]
           /\ stage' = "match"
           /\ UNCHANGED <<cursor, read>>
  <2> USE DEF PagesInv
  <2>1. /\ Unit <= Len(listing) /\ Matches(Unit) \in Seq(Nat)
        /\ ~torn => Matches(Unit) = base[Unit].matches
    BY <1>1, <1>4, MatchesAre
  <2>2. /\ page' \in Pages /\ page'.items = page.items /\ page'.bytes = page.bytes
        /\ page'.seen = page.seen /\ page'.at = page.at
        /\ page'.limit = page.limit /\ page'.min = page.min /\ page'.max = page.max
        /\ page'.found = Matches(Unit)
    BY <1>4, <2>1 DEF PagesTyped, Pages
  <2>3. PagesTyped'
    BY <1>1, <1>4, <2>2 DEF PagesTyped
  <2>4. PageInv' /\ Weighed'
    BY <1>1, <1>4, <2>1, <2>2 DEF PageInv, Weighed, IsPlace, Over, Unit
  <2>5. CursorInv' /\ NothingBefore'
    BY <1>1, <1>4, <2>2 DEF CursorInv, NothingBefore, IsPlace, Over
  <2>6. Agrees'
    BY <1>1, <1>4, <2>1, <2>2 DEF Agrees, Told, Key, Begun, Start, Over, Unit
  <2>7. Answered'
    BY <1>1, <1>4, <2>2 DEF Answered, Sure, Reached, End, Over
  <2> QED
    BY <2>3, <2>4, <2>5, <2>6, <2>7
<1> QED
  BY <1>2, <1>3, <1>4 DEF SearchUnit

LEMMA AddMatchKeeps ==
  ASSUME PagesInv, AddMatch
  PROVE  PagesInv'
<1> DEFINE item == page.at[2]
           size == page.found[item]
           added == Append(page.items, Item(size))
           next == After(page.at)
           cont == [at |-> next, key |-> Key(page.seen)]
<1>1. /\ stage = "match" /\ stage # "idle" /\ subject = "flows"
      /\ UNCHANGED <<subject, listing, base, torn, edits>>
  BY DEF AddMatch, PagesInv, PagesTyped
<1>2. /\ Unit \in Nat /\ Unit >= 1 /\ Unit <= Len(listing) /\ Len(base) = Len(listing)
      /\ Len(listing) \in Nat /\ item \in Nat /\ item >= 1 /\ page.at = <<Unit, item>>
      /\ page.at[1] = Unit
  <2>1. page.at \in Positive \X Positive /\ Len(listing) \in Nat /\ Len(base) = Len(listing)
    BY Types DEF PagesInv
  <2>2. page.at[1] <= Len(listing)
    BY <1>1 DEF PagesInv, PageInv
  <2> QED
    BY <2>1, <2>2 DEF Unit, Positive
<1>3. (Sure => ~torn) /\ (~torn => page.found = base[Unit].matches)
  BY <1>1 DEF PagesInv, Agrees, Unit, Sure
<1>4. page.found \in Seq(Nat) /\ page.items \in Seq(Items) /\ read \in Seq(Items)
  BY Types DEF PagesInv
<1>5. \A p \in All(base) : /\ p[1] \in Nat /\ p[2] \in Nat /\ p[2] >= 1 /\ p = <<p[1], p[2]>>
                           /\ p[2] <= Len(base[p[1]].matches)
  BY DEF All, Positive
<1>6. CASE item > Len(page.found) /\ Move(<<Unit + 1, 1>>)
           /\ stage' = "unit" /\ UNCHANGED <<cursor, read>>
  <2> DEFINE end == <<Unit + 1, 1>>
  <2>1. IsPlace(end) /\ end # <<1, 1>> /\ end[1] = Unit + 1 /\ end[2] = 1
    BY <1>1, <1>2 DEF IsPlace, Positive
  <2> HIDE DEF end
  <2>2. ASSUME Sure, NEW p \in All(base)
        PROVE  Before(end, p[1], p[2]) <=> Before(page.at, p[1], p[2])
    <3>1. Before(end, p[1], p[2]) <=> p[1] <= Unit
      BY <1>2, <1>5, <2>1 DEF Before
    <3>2. p[1] = Unit => p[2] < item
      <4> HAVE p[1] = Unit
      <4>1. p[2] <= Len(page.found) /\ Len(page.found) \in Nat
        BY <1>3, <1>4, <1>5, <2>2
      <4> QED
        BY <1>2, <1>5, <1>6, <4>1
    <3>3. Before(page.at, p[1], p[2]) <=> p[1] < Unit \/ (p[1] = Unit /\ p[2] < item)
      BY <1>2 DEF Before
    <3> QED
      BY <1>2, <1>5, <3>1, <3>2, <3>3
  <2>3. Move(end)
    BY <1>6 DEF end
  <2> QED
    BY <1>1, <1>6, <2>1, <2>2, <2>3, PageMoved
<1>7. CASE Resume(page.at)
  BY <1>1, <1>7, PageResumed
<1>8. CASE /\ item <= Len(page.found) /\ Fits(size)
           /\ IF Len(added) >= page.limit
              THEN /\ stage' = "idle" /\ page' = NoPage
                   /\ cursor' = cont /\ read' = read \o added
              ELSE Add(next, size) /\ UNCHANGED <<stage, cursor, read>>
  <2>1. size \in Nat /\ Item(size) \in Items
    <3>1. item \in DOMAIN page.found
      BY <1>2, <1>4, <1>8
    <3>2. size \in Nat
      BY <1>4, <3>1
    <3> HIDE DEF size, item
    <3> QED
      BY <1>2, <3>2 DEF Item, Items, item
  <2>2. Len(added) = Len(page.items) + 1 /\ Len(page.items) \in Nat /\ added \in Seq(Items)
    BY <1>4, <2>1
  <2>3. IsPlace(next) /\ next # <<1, 1>> /\ next[1] = page.at[1] /\ next[2] = item + 1
    BY <1>1, <1>2 DEF IsPlace, After, Positive
  <2> HIDE DEF next
  <2>4. ASSUME NEW p \in All(base)
        PROVE  Before(next, p[1], p[2]) <=> Before(page.at, p[1], p[2]) \/ p = page.at
    <3>1. p = page.at <=> p[1] = Unit /\ p[2] = item
      BY <1>2, <1>5
    <3>2. Before(page.at, p[1], p[2]) <=> p[1] < Unit \/ (p[1] = Unit /\ p[2] < item)
      BY <1>2 DEF Before
    <3>3. Before(next, p[1], p[2]) <=> p[1] < Unit \/ (p[1] = Unit /\ p[2] < item + 1)
      BY <1>2, <2>3 DEF Before
    <3> QED
      BY <1>2, <1>5, <3>1, <3>2, <3>3
  <2>5. ASSUME ~torn
        PROVE  page.at \in All(base) /\ size = base[page.at[1]].matches[page.at[2]]
    <3>1. page.found = base[page.at[1]].matches
      BY <1>2, <1>3, <2>5
    <3>2. page.at[1] <= Len(base) /\ page.at[2] <= Len(base[page.at[1]].matches)
      BY <1>2, <1>8, <3>1
    <3>3. page.at \in Positive \X Positive
      BY Types DEF PagesInv
    <3> QED
      BY <3>1, <3>2, <3>3 DEF All
  <2>6. CASE Len(added) >= page.limit
    <3>1. stage' = "idle" /\ page' = NoPage /\ cursor' = cont /\ read' = read \o added
      BY <1>8, <2>6
    <3>2. cont.at = next /\ cont.key = Key(page.seen)
      OBVIOUS
    <3> HIDE DEF cont, added
    <3>3. cont # Over
      BY <2>3, <3>2 DEF Over, IsPlace, Positive
    <3>4. ASSUME ~torn PROVE Placed(base, read \o added, next) /\ Actual(base, read \o added)
      <4>1. Placed(base, read \o page.items, page.at) /\ Actual(base, read \o page.items)
        BY <1>1, <3>4 DEF PagesInv, Answered, Sure
      <4>2. read \o added = Append(read \o page.items, Item(size))
        BY <1>4, <2>1, ConcatAppend DEF added
      <4>7. page.at \in Positive \X Positive
        BY Types DEF PagesInv
      <4>3. read \o page.items \in Seq(Items) /\ page.at \in Nat \X Nat
        BY <1>4, <4>7 DEF Positive
      <4>4. /\ Item(size) = <<page.at[1], page.at[2], size>>
            /\ size = base[page.at[1]].matches[page.at[2]]
        BY <2>5, <3>4 DEF Item
      <4>5. Placed(base, read \o added, next)
        BY <2>4, <2>5, <3>4, <4>1, <4>2, <4>3, <4>4, HoldsAppend
      <4>6. Actual(base, read \o added)
        BY <4>1, <4>2, <4>3, <4>4, ActualAppend
      <4> QED
        BY <4>5, <4>6
    <3> QED
      BY <1>1, <1>3, <2>2, <2>3, <3>1, <3>2, <3>3, <3>4, PageEnded
  <2>7. CASE ~(Len(added) >= page.limit)
    <3>1. Add(next, size) /\ UNCHANGED <<stage, cursor, read>>
      BY <1>8, <2>7
    <3>2. page.limit \in Nat
      BY Types DEF PagesInv, Positive
    <3>3. Len(page.items) < page.limit
      BY <2>2, <2>7, <3>2
    <3> HIDE DEF size, added
    <3> QED
      BY <1>1, <1>3, <1>8, <2>1, <2>3, <2>4, <2>5, <3>1, <3>3, ItemAdded
  <2> QED
    BY <2>6, <2>7
<1> QED
  BY <1>6, <1>7, <1>8 DEF AddMatch

(* The answers of a listing are sound.                                     *)
LEMMA PagesInvSound == PagesInv => PagesSound
<1> SUFFICES ASSUME PagesInv PROVE PagesSound
  OBVIOUS
<1> USE DEF PagesInv
<1>1. PagesTypeOK
  <2>1. Len(listing) \in Nat
    BY Types
  <2>2. Len(page.items) <= page.limit /\ page.at[1] \in 1 .. Len(listing) + 1
    <3>1. CASE stage # "idle"
      BY <2>1, <3>1 DEF PageInv, IsPlace, Positive
    <3>2. CASE stage = "idle"
      <4>1. page = NoPage
        BY <3>2 DEF PagesTyped
      <4>2. Len(page.items) = 0 /\ page.limit = 1 /\ page.at[1] = 1
        BY <4>1 DEF NoPage
      <4> QED
        BY <2>1, <4>2
    <3> QED
      BY <3>1, <3>2
  <2>3. cursor = Over \/ cursor.at[1] \in 1 .. Len(listing) + 1
    BY <2>1 DEF CursorInv, IsPlace, Positive
  <2> QED
    BY <2>2, <2>3 DEF PagesTyped, PagesTypeOK
<1>2. PlacesAddUp
  <2> SUFFICES ASSUME Sure, stage = "idle" PROVE PlacesAddUp
    BY DEF PlacesAddUp, Sure
  <2> DEFINE all == UNION { { <<u, i>> : i \in DOMAIN base[u].matches } : u \in DOMAIN base }
             due == { p \in all : cursor = Over \/ Before(cursor.at, p[1], p[2]) }
             at == IF cursor = Over THEN End ELSE cursor.at
             upTo == { p \in All(base) : Before(at, p[1], p[2]) }
  <2>1. Listed(base, read, at) /\ InOrder(read)
    BY DEF Answered, Placed, Reached
  <2>2. DOMAIN base = 1 .. Len(base) /\ Len(base) \in Nat
        /\ \A u \in DOMAIN base :
             /\ DOMAIN base[u].matches = 1 .. Len(base[u].matches)
             /\ Len(base[u].matches) \in Nat
    <3>1. WellFormed(subject, base) /\ subject \in Subjects
      BY DEF PagesTyped
    <3> QED
      BY <3>1, WellFormedTyped, Types
  <2>3. all = All(base)
    <3>1. ASSUME NEW p \in all PROVE p \in All(base)
      <4>1. PICK u \in DOMAIN base : \E i \in DOMAIN base[u].matches : p = <<u, i>>
        OBVIOUS
      <4>2. PICK i \in DOMAIN base[u].matches : p = <<u, i>>
        BY <4>1
      <4>3. u \in Positive /\ u <= Len(base) /\ i \in Positive /\ i <= Len(base[u].matches)
        BY <2>2 DEF Positive
      <4> QED
        BY <4>2, <4>3 DEF All
    <3>2. ASSUME NEW p \in All(base) PROVE p \in all
      <4>1. /\ p = <<p[1], p[2]>> /\ p[1] \in Nat \ {0} /\ p[1] <= Len(base)
            /\ p[2] \in Nat \ {0} /\ p[2] <= Len(base[p[1]].matches)
        BY DEF All, Positive
      <4>2. p[1] \in DOMAIN base
        BY <2>2, <4>1
      <4>3. p[2] \in DOMAIN base[p[1]].matches
        BY <2>2, <4>1, <4>2
      <4> QED
        BY <4>1, <4>2, <4>3
    <3> HIDE DEF all
    <3> QED
      BY <3>1, <3>2
  <2>4. due = upTo
    <3>1. ASSUME NEW p \in All(base) PROVE Before(End, p[1], p[2])
      <4>1. p[1] \in Nat /\ p[1] <= Len(base)
        BY DEF All, Positive
      <4> QED
        BY <2>2, <4>1 DEF End, Before
    <3> HIDE DEF all
    <3>2. CASE cursor = Over
      BY <2>3, <3>1, <3>2
    <3>3. CASE cursor # Over
      BY <2>3, <3>3
    <3> QED
      BY <3>2, <3>3
  <2>5. { <<item[1], item[2]>> : item \in Range(read) } = due
    <3> HIDE DEF due, at
    <3> QED
      BY <2>1, <2>4 DEF Listed
  <2> QED
    BY <2>1, <2>5 DEF PlacesAddUp, Due, InOrder
<1>4. OneListing
  BY DEF Answered, OneListing, Actual
<1>3. SizeHeld
  <2> SUFFICES ASSUME stage # "idle", page.max # NoSize, Len(page.items) > page.min
               PROVE  Total(page.items) <= page.max
    BY DEF SizeHeld
  <2>1. PICK sum : Sums(page.items, sum) /\ sum[Len(page.items)] = page.bytes
    BY DEF Weighed
  <2>2. Total(page.items) = page.bytes
    BY <2>1, TotalIsSum, Types
  <2>3. page.bytes <= page.max
    BY DEF PageInv
  <2> QED
    BY <2>2, <2>3
<1> QED
  BY <1>1, <1>2, <1>3, <1>4 DEF PagesSound, PagesAddUp

LEMMA PagesStep == PagesInv /\ [PagesNext]_pageVars => PagesInv'
<1> SUFFICES ASSUME PagesInv, [PagesNext]_pageVars PROVE PagesInv'
  OBVIOUS
<1>1. CASE Ask
  BY <1>1, AskKeeps
<1>2. CASE Mismatch
  BY <1>2, MismatchKeeps
<1>3. CASE TimePasses
  BY <1>3, TimePassesKeeps
<1>4. CASE ScanUnit
  BY <1>4, ScanUnitKeeps
<1>5. CASE SearchUnit
  BY <1>5, SearchUnitKeeps
<1>6. CASE AddMatch
  BY <1>6, AddMatchKeeps
<1>7. CASE Edits
  BY <1>7, EditsKeep
<1>8. CASE UNCHANGED pageVars
  BY <1>8 DEF pageVars, PagesInv, PagesTyped, PageInv, Weighed, CursorInv, NothingBefore, Agrees,
     Answered, IsPlace, Key, Told, Begun, Start, Over, End, Sure, Reached
<1> QED
  BY <1>1, <1>2, <1>3, <1>4, <1>5, <1>6, <1>7, <1>8 DEF PagesNext, Answer

(* Whatever the listings and the options of the pages, the pages a caller  *)
(* follows add up to the listing it began with, in order, none of its      *)
(* items twice and none missing, unless a unit changed and not the part of *)
(* it the key covers; the descriptors of the catalog always add up, their  *)
(* texts may mix.  A page is larger than maxResponseKB only for the items  *)
(* minItems promises (response-budget-service.js:82-92,                    *)
(* flow-tree-service.js:7044-7058, catalog-service.js:451-457).            *)
THEOREM PagesSoundAlways == PagesSpec => []PagesSound
<1>1. PagesSpec => []PagesInv
  BY InitKeeps, PagesStep, PTL DEF PagesSpec
<1> QED
  BY <1>1, PagesInvSound, PTL

-----------------------------------------------------------------------------
(* Every page moves its cursor.                                            *)

(* A page that has not moved yet holds no item.                            *)
Advances ==
  stage # "idle" =>
    \/ page.at = page.from /\ page.items = <<>>
    \/ Before(page.at, page.from[1], page.from[2])

LEMMA AdvancesStep == PagesInv /\ Advances /\ [PagesNext]_pageVars => Advances'
<1> SUFFICES ASSUME PagesInv, Advances, [PagesNext]_pageVars PROVE Advances'
  OBVIOUS
<1>0. /\ page \in Pages
      /\ page.at[1] \in Nat /\ page.at[2] \in Nat /\ page.from[1] \in Nat /\ page.from[2] \in Nat
      /\ page.at \in Positive \X Positive /\ Unit = page.at[1]
  BY DEF PagesInv, PagesTyped, Pages, Positive, Unit
<1>1. CASE Ask
  BY <1>1 DEF Ask, Advances
<1>2. CASE Mismatch \/ TimePasses \/ Edits \/ UNCHANGED pageVars
  <2>1. /\ page'.at = page.at /\ page'.from = page.from /\ page'.items = page.items
        /\ stage' = stage
    BY <1>0, <1>2 DEF Mismatch, TimePasses, Edits, Edit, pageVars, Pages
  <2> QED
    BY <2>1 DEF Advances, Before
<1>3. ASSUME NEW at, at[1] \in Nat, at[2] \in Nat, stage # "idle",
             at[1] > page.at[1] \/ (at[1] = page.at[1] /\ at[2] > page.at[2]),
             Move(at) \/ \E size : Add(at, size)
      PROVE  Advances'
  <2>1. page'.at = at /\ page'.from = page.from
    BY <1>0, <1>3 DEF Move, Add, Pages
  <2>2. Before(at, page.from[1], page.from[2])
    <3>1. CASE page.at = page.from
      BY <1>0, <1>3, <3>1 DEF Before
    <3>2. CASE Before(page.at, page.from[1], page.from[2])
      BY <1>0, <1>3, <3>2 DEF Before
    <3> QED
      BY <1>3, <3>1, <3>2 DEF Advances
  <2> QED
    BY <2>1, <2>2 DEF Advances
<1>4. CASE stage' = "idle"
  BY <1>4 DEF Advances
<1>5. CASE ScanUnit /\ stage' # "idle"
  <2> DEFINE at == <<Unit + 1, 1>>
  <2>1. (Move(at) \/ \E size : Add(at, size)) /\ stage # "idle"
    BY <1>5 DEF ScanUnit, Finish, Resume
  <2>2. at[1] = Unit + 1 /\ at[2] = 1
    OBVIOUS
  <2> HIDE DEF at
  <2> QED
    BY <1>0, <1>3, <2>1, <2>2
<1>6. CASE SearchUnit /\ stage' # "idle"
  <2>1. page' = [page EXCEPT !.found = Matches(Unit)] /\ stage # "idle"
    BY <1>6 DEF SearchUnit, Finish, Resume
  <2>2. page'.at = page.at /\ page'.from = page.from /\ page'.items = page.items
    BY <1>0, <2>1 DEF Pages
  <2> QED
    BY <2>1, <2>2 DEF Advances, Before
<1>7. CASE AddMatch /\ stage' # "idle"
  <2>1. \E at \in {<<Unit + 1, 1>>, After(page.at)} :
          (Move(at) \/ \E size : Add(at, size)) /\ stage # "idle"
    BY <1>7 DEF AddMatch, Finish, Resume
  <2>2. PICK at \in {<<Unit + 1, 1>>, After(page.at)} :
          (Move(at) \/ \E size : Add(at, size)) /\ stage # "idle"
    BY <2>1
  <2>3. (at[1] = Unit + 1 /\ at[2] = 1) \/ (at[1] = Unit /\ at[2] = page.at[2] + 1)
    BY <1>0 DEF After
  <2> QED
    BY <1>0, <1>3, <2>2, <2>3
<1> QED
  BY <1>1, <1>2, <1>4, <1>5, <1>6, <1>7 DEF PagesNext, Answer

(* A page that holds no item yet goes on: minItems promises one.           *)
LEMMA FirstItemFits ==
  ASSUME PagesInv, stage # "idle", page.min > 0, page.items = <<>>
  PROVE  /\ ~Full /\ \A size : Fits(size)
         /\ \/ subject # "flows" /\ GoesOn(0)
            \/ ~page.late /\ \A work : GoesOn(work)
            \/ subject = "flows" /\ page.late
<1>1. Len(page.items) = 0 /\ page.limit \in Nat /\ page.limit > 0 /\ page.min \in Nat
  BY Types DEF PagesInv, Positive
<1>2. page.due \in BOOLEAN /\ page.late \in BOOLEAN
  BY DEF PagesInv, PagesTyped, Pages
<1> QED
  BY <1>1, <1>2 DEF Full, Fits, GoesOn

LEMMA PageMoves ==
  ASSUME PagesInv, Advances, [PagesNext]_pageVars, PageEnds, page.min > 0,
         ~(subject = "flows" /\ page.late /\ page.items = <<>>), cursor' # Over
  PROVE  cursor'.at # page.from
<1>0. /\ stage # "idle" /\ stage' = "idle" /\ Unit = page.at[1]
      /\ page.at[1] \in Nat /\ page.at[2] \in Nat /\ page.from[1] \in Nat /\ page.from[2] \in Nat
      /\ page.at = <<page.at[1], page.at[2]>> /\ page.late \in BOOLEAN
  BY DEF PageEnds, Unit, PagesInv, PagesTyped, Pages, Positive
<1>1. ScanUnit \/ SearchUnit \/ AddMatch
  BY <1>0 DEF PagesNext, Answer, Ask, Mismatch, TimePasses, Edits, Edit, pageVars
<1>2. ASSUME Before(page.at, page.from[1], page.from[2]) PROVE page.at # page.from
  BY <1>0, <1>2 DEF Before
<1>3. ASSUME page.at = page.from, Resume(page.at) PROVE FALSE
  <2>1. page.items = <<>>
    BY <1>0, <1>2, <1>3 DEF Advances
  <2>2. Unit - page.from[1] = 0
    BY <1>0, <1>3
  <2>3. CASE ScanUnit
    <3>1. ~Full /\ (\A size : Fits(size)) /\ GoesOn(0)
      BY <1>0, <2>1, <2>3, FirstItemFits DEF ScanUnit
    <3>2. stage' = "idle" /\ (Full \/ ~GoesOn(0) \/ (\E size : ~Fits(size)) \/ Finish(Over))
      BY <1>0, <2>2, <2>3 DEF ScanUnit
    <3>3. ~Finish(Over)
      BY DEF Finish
    <3> QED
      BY <3>1, <3>2, <3>3
  <2>4. ASSUME subject = "flows"
        PROVE  (\A size : Fits(size)) /\ \A work : GoesOn(work)
    BY <1>0, <2>1, <2>4, FirstItemFits
  <2>5. CASE SearchUnit
    BY <1>0, <2>4, <2>5 DEF SearchUnit, Finish
  <2>6. CASE AddMatch
    <3>1. subject = "flows" /\ stage = "match"
      BY <2>6 DEF AddMatch, PagesInv, PagesTyped
    <3>2. IF Len(Append(page.items, Item(page.found[page.at[2]]))) >= page.limit
          THEN cursor'.at = After(page.at) ELSE FALSE
      BY <1>0, <2>4, <2>6, <3>1 DEF AddMatch, Add
    <3>3. cursor'.at = page.at
      BY <1>3 DEF Resume, Finish
    <3> QED
      BY <1>0, <3>2, <3>3 DEF After
  <2> QED
    BY <1>1, <2>3, <2>5, <2>6
<1>4. ASSUME Resume(page.at) PROVE cursor'.at # page.from
  <2>1. cursor'.at = page.at
    BY <1>4 DEF Resume, Finish
  <2> QED
    BY <1>3, <1>4, <2>1
<1>5. CASE ScanUnit \/ SearchUnit
  <2>1. Resume(page.at)
    BY <1>0, <1>5 DEF ScanUnit, SearchUnit, Finish
  <2> QED
    BY <1>4, <2>1
<1>6. CASE AddMatch
  <2>1. Resume(page.at) \/ cursor'.at = After(page.at)
    BY <1>0, <1>6 DEF AddMatch
  <2>2. ASSUME cursor'.at = After(page.at) PROVE cursor'.at # page.from
    <3>1. After(page.at)[1] = page.at[1] /\ After(page.at)[2] = page.at[2] + 1
      BY DEF After
    <3> QED
      BY <1>0, <2>2, <3>1 DEF Advances, Before
  <2> QED
    BY <1>4, <2>1, <2>2
<1> QED
  BY <1>1, <1>5, <1>6

(* A page that must hold an item ends its listing or moves its cursor, an  *)
(* item larger than the whole budget too (response-budget-service.js:82),  *)
(* but for a search in Flows whose time ran out before its first match.    *)
THEOREM PagesMoveOn == PagesSpec => EveryPageMovesOn
<1>1. PagesInit => Advances
  BY DEF PagesInit, Advances
<1>2. PagesInv /\ Advances /\ [PagesNext]_pageVars =>
        [PageEnds /\ page.min > 0 /\ ~(subject = "flows" /\ page.late /\ page.items = <<>>) =>
           cursor' = Over \/ cursor'.at # page.from]_pageVars
  BY PageMoves
<1> QED
  BY <1>1, <1>2, InitKeeps, PagesStep, AdvancesStep, PTL DEF PagesSpec, EveryPageMovesOn

===============================================================================
