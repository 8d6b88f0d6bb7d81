-------------------------- MODULE ChunkJob_proofs ---------------------------
(***************************************************************************)
(* Facts about the calls of forEachChunk, shared by the proofs about the   *)
(* promise of the block and about the loops that implement it.             *)
(***************************************************************************)
EXTENDS ChunkJob, SequenceTheorems, TLAPS

LEMMA JobFacts ==
  ASSUME NEW j \in Jobs
  PROVE  /\ j.length \in 0 .. MaxLen /\ j.length \in Nat /\ j.broken \in BOOLEAN
         /\ j.bad \subseteq Chunk /\ j.unfoldable \subseteq Chunk
         /\ j.limit \in Nat \ {0} /\ j.failFast \in BOOLEAN
         /\ j.lookahead \in BOOLEAN /\ j.threads \in BOOLEAN
  BY JobsAssumption, MaxLenAssumption DEF JobType

(* The chunks delivered are chunks of the source, and the whole source when *)
(* the loop can end normally.                                              *)
LEMMA DeliveredFacts ==
  ASSUME NEW j \in Jobs
  PROVE  /\ Delivered(j) \in 0 .. MaxLen
         /\ Delivered(j) <= j.length
         /\ Delivered(j) <= j.limit
         /\ Ending(j) = "completed" => Delivered(j) = j.length
         /\ Ending(j) \in {"limit", "source", "completed"}
  BY JobFacts, MaxLenAssumption DEF Delivered, Available, Ending

-----------------------------------------------------------------------------
(* What a call of chunks.next() tells of the number of chunks to deliver.  *)

(* A chunk that is read, under the limit, with its lookahead when there is *)
(* one, is delivered.                                                      *)
LEMMA AtEach ==
  ASSUME NEW j \in Jobs, NEW n \in Nat,
         n < j.length, n < j.limit,
         ~(j.lookahead /\ NextChunk(j, n + 1) = "throws")
  PROVE  n < Delivered(j)
  BY JobFacts DEF Delivered, Available, NextChunk

LEMMA AtLimit ==
  ASSUME NEW j \in Jobs, NEW n \in Nat,
         n <= Delivered(j), n < j.length, n >= j.limit
  PROVE  n = Delivered(j) /\ Ending(j) = "limit"
  BY JobFacts DEF Delivered, Available, Ending

LEMMA AtBreak ==
  ASSUME NEW j \in Jobs, NEW n \in Nat,
         n <= Delivered(j),
         \/ NextChunk(j, n) = "throws"
         \/ n < j.length /\ n < j.limit /\ j.lookahead /\ NextChunk(j, n + 1) = "throws"
  PROVE  n = Delivered(j) /\ Ending(j) = "source"
  BY JobFacts DEF Delivered, Available, Ending, NextChunk

LEMMA AtEnd ==
  ASSUME NEW j \in Jobs, NEW n \in Nat,
         n <= Delivered(j), NextChunk(j, n) = "end"
  PROVE  n = Delivered(j) /\ Ending(j) = "completed"
  BY JobFacts DEF Delivered, Available, Ending, NextChunk

-----------------------------------------------------------------------------
(* The list of failed chunks.                                              *)

LEMMA CountType ==
  ASSUME NEW S, NEW errs \in Seq(S), NEW i \in S
  PROVE  /\ Count(errs, i) \in Seq(S)
         /\ \A n \in 1 .. Len(Count(errs, i)) :
              \/ n \in 1 .. Len(errs) /\ Count(errs, i)[n] = errs[n]
              \/ n = Len(errs) + 1 /\ Count(errs, i)[n] = i
  <1>1. CASE Len(errs) < MaxErrors
    <2>1. Count(errs, i) = Append(errs, i)
      BY <1>1 DEF Count
    <2>2. /\ Append(errs, i) \in Seq(S)
          /\ Len(Append(errs, i)) = Len(errs) + 1 /\ Len(errs) \in Nat
          /\ \A n \in 1 .. Len(errs) : Append(errs, i)[n] = errs[n]
          /\ Append(errs, i)[Len(errs) + 1] = i
      BY AppendProperties, LenProperties
    <2> QED
      BY <2>1, <2>2
  <1>2. CASE ~(Len(errs) < MaxErrors)
    BY <1>2 DEF Count
  <1> QED
    BY <1>1, <1>2

(* Counting a later chunk keeps the list ordered and within its bound, and *)
(* the chunk is in it unless the list was full.                            *)
LEMMA CountOrder ==
  ASSUME NEW errs \in Seq(Nat), NEW i \in Nat,
         Len(errs) <= MaxErrors,
         \A n \in 1 .. Len(errs) : errs[n] < i,
         \A m, n \in 1 .. Len(errs) : m < n => errs[m] < errs[n]
  PROVE  /\ Len(Count(errs, i)) <= MaxErrors
         /\ \A n \in 1 .. Len(Count(errs, i)) : Count(errs, i)[n] < i + 1
         /\ \A m, n \in 1 .. Len(Count(errs, i)) :
              m < n => Count(errs, i)[m] < Count(errs, i)[n]
         /\ \A k \in Nat : Counted(errs, k) => Counted(Count(errs, i), k)
         /\ Counted(Count(errs, i), i) \/ (Len(errs) = MaxErrors /\ Count(errs, i) = errs)
         /\ Len(errs) = MaxErrors => Count(errs, i) = errs
  <1>0. Len(errs) \in Nat /\ \A n \in 1 .. Len(errs) : errs[n] \in Nat
    BY LenProperties, ElementOfSeq
  <1>1. CASE Len(errs) < MaxErrors
    <2>1. Count(errs, i) = Append(errs, i)
      BY <1>1 DEF Count
    <2>2. /\ Len(Append(errs, i)) = Len(errs) + 1
          /\ \A n \in 1 .. Len(errs) : Append(errs, i)[n] = errs[n]
          /\ Append(errs, i)[Len(errs) + 1] = i
      BY AppendProperties
    <2>3. Len(errs) + 1 <= MaxErrors
      BY <1>0, <1>1, MaxErrorsAssumption
    <2>4. ASSUME NEW n \in 1 .. Len(errs) + 1
          PROVE  Append(errs, i)[n] < i + 1
      BY <1>0, <2>2
    <2>5. ASSUME NEW m \in 1 .. Len(errs) + 1, NEW n \in 1 .. Len(errs) + 1, m < n
          PROVE  Append(errs, i)[m] < Append(errs, i)[n]
      <3>1. m \in 1 .. Len(errs) /\ Append(errs, i)[m] = errs[m]
        BY <1>0, <2>2, <2>5
      <3>2. CASE n \in 1 .. Len(errs)
        BY <2>2, <2>5, <3>1, <3>2
      <3>3. CASE n = Len(errs) + 1
        BY <2>2, <3>1, <3>3
      <3> QED
        BY <1>0, <3>2, <3>3
    <2>6. ASSUME NEW k \in Nat, Counted(errs, k)
          PROVE  Counted(Append(errs, i), k)
      <3>1. PICK n \in 1 .. Len(errs) : errs[n] = k
        BY <2>6 DEF Counted
      <3>2. n \in 1 .. Len(Append(errs, i)) /\ Append(errs, i)[n] = k
        BY <1>0, <2>2, <3>1
      <3> QED
        BY <3>2 DEF Counted
    <2>7. Counted(Append(errs, i), i)
      <3>1. Len(errs) + 1 \in 1 .. Len(Append(errs, i))
        BY <1>0, <2>2
      <3> QED
        BY <2>2, <3>1 DEF Counted
    <2> QED
      BY <1>0, <1>1, <2>1, <2>2, <2>3, <2>4, <2>5, <2>6, <2>7, MaxErrorsAssumption
  <1>2. CASE ~(Len(errs) < MaxErrors)
    <2>1. Count(errs, i) = errs /\ Len(errs) = MaxErrors
      BY <1>0, <1>2, MaxErrorsAssumption DEF Count
    <2>2. \A n \in 1 .. Len(errs) : errs[n] < i + 1
      BY <1>0
    <2> QED
      BY <2>1, <2>2
  <1> QED
    BY <1>1, <1>2

(* Counting a chunk, or not, keeps the list of errors as it must be and    *)
(* loses no chunk counted before.                                          *)
LEMMA ListStep ==
  ASSUME NEW es \in Seq(Chunk), NEW s \in Chunk, Len(es) <= MaxErrors,
         \A n \in 1 .. Len(es) : es[n] < s,
         \A m, n \in 1 .. Len(es) : m < n => es[m] < es[n],
         NEW es2 \in {es, Count(es, s)}
  PROVE  /\ es2 \in Seq(Chunk)
         /\ Len(es2) <= MaxErrors
         /\ \A n \in 1 .. Len(es2) : es2[n] < s + 1
         /\ \A m, n \in 1 .. Len(es2) : m < n => es2[m] < es2[n]
         /\ \A k \in Nat : Counted(es, k) => Counted(es2, k)
         /\ Len(es) = MaxErrors => es2 = es
         /\ es2 = Count(es, s) =>
              \/ Counted(es2, s)
              \/ Len(es2) = MaxErrors /\ \A n \in 1 .. Len(es2) : es2[n] < s
  <1>1. s \in Nat /\ Chunk \subseteq Nat
    BY MaxLenAssumption DEF Chunk
  <1>2. es \in Seq(Nat) /\ \A n \in 1 .. Len(es) : es[n] \in Nat
    <2>1. Len(es) \in Nat /\ \A n \in 1 .. Len(es) : es[n] \in Chunk
      BY <1>1, LenProperties, ElementOfSeq
    <2>2. \A n \in 1 .. Len(es) : es[n] \in Nat
      BY <1>1, <2>1
    <2>3. es = [n \in 1 .. Len(es) |-> es[n]]
      BY <1>1, LenProperties
    <2> QED
      BY <2>1, <2>2, <2>3
  <1>3. CASE es2 = es
    <2>1. /\ es2 \in Seq(Chunk) /\ Len(es2) <= MaxErrors
          /\ \A m, n \in 1 .. Len(es2) : m < n => es2[m] < es2[n]
          /\ \A k \in Nat : Counted(es, k) => Counted(es2, k)
      BY <1>1, <1>3
    <2>2. \A n \in 1 .. Len(es2) : es2[n] < s + 1
      BY <1>1, <1>2, <1>3
    <2>3. es2 = Count(es, s) =>
            \/ Counted(es2, s)
            \/ Len(es2) = MaxErrors /\ \A n \in 1 .. Len(es2) : es2[n] < s
      BY <1>1, <1>2, <1>3, CountOrder
    <2> QED
      BY <1>3, <2>1, <2>2, <2>3
  <1>4. CASE es2 = Count(es, s)
    <2>1. es2 \in Seq(Chunk)
      BY <1>1, <1>4, CountType
    <2>2. /\ Len(es2) <= MaxErrors
          /\ \A n \in 1 .. Len(es2) : es2[n] < s + 1
          /\ \A m, n \in 1 .. Len(es2) : m < n => es2[m] < es2[n]
          /\ \A k \in Nat : Counted(es, k) => Counted(es2, k)
          /\ Counted(es2, s) \/ (Len(es) = MaxErrors /\ es2 = es)
          /\ Len(es) = MaxErrors => es2 = es
      BY <1>1, <1>2, <1>4, CountOrder
    <2> QED
      BY <1>1, <2>1, <2>2
  <1> QED
    BY <1>3, <1>4
=============================================================================
