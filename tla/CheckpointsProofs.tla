------------------------- MODULE CheckpointsProofs --------------------------
(***************************************************************************)
(* Theorems about Checkpoints, for any ids, states of the two parts and    *)
(* number of checkpoints kept.                                             *)
(***************************************************************************)
EXTENDS Checkpoints, TLAPS, SequenceTheorems

Entries == [id : Ids, path : BOOLEAN]

\* What is not a state: no copy, and a file that cannot be read.
LEMMA NotStates == None \notin States /\ Broken \notin States
BY ConstantsAssumption DEF States, Parts

-----------------------------------------------------------------------------
(***************************************************************************)
(* The list of checkpoints.                                                *)
(***************************************************************************)

Distinct(s) == \A j, k \in DOMAIN s : s[j].id = s[k].id => j = k

\* Where entry k of Without(s, i) comes from.
Place(s, i, k) == IF \E j \in 1..k : s[j].id = i THEN k + 1 ELSE k

\* Popping an id keeps the other entries, in their order.
LEMMA WithoutFacts ==
  ASSUME NEW s \in Seq(Entries), Distinct(s), NEW i
  PROVE  /\ Without(s, i) \in Seq(Entries)
         /\ Len(Without(s, i)) = IF Listed(s, i) THEN Len(s) - 1 ELSE Len(s)
         /\ \A k \in DOMAIN Without(s, i) :
              /\ Place(s, i, k) \in DOMAIN s
              /\ Without(s, i)[k] = s[Place(s, i, k)]
              /\ Without(s, i)[k].id # i
         /\ \A j \in DOMAIN s : s[j].id # i => \E k \in DOMAIN Without(s, i) : Without(s, i)[k] = s[j]
         /\ Distinct(Without(s, i))
         /\ Len(Without(s, i)) <= Len(s)
<1> DEFINE n == IF Listed(s, i) THEN Len(s) - 1 ELSE Len(s)
<1>1. Len(s) \in Nat /\ DOMAIN s = 1..Len(s) /\ \A k \in DOMAIN s : s[k] \in Entries
  BY LenProperties
<1>2. n \in Nat /\ n <= Len(s)
  BY <1>1 DEF Listed
<1>3. Without(s, i) = [k \in 1..n |-> s[Place(s, i, k)]]
  BY DEF Without, Place
<1>4. ASSUME NEW k \in 1..n
      PROVE  Place(s, i, k) \in DOMAIN s /\ s[Place(s, i, k)].id # i
  <2>1. CASE Listed(s, i)
    <3>1. PICK j \in DOMAIN s : s[j].id = i
      BY <2>1 DEF Listed
    <3>2. \A m \in DOMAIN s : m # j => s[m].id # i
      BY <3>1 DEF Distinct
    <3>3. k \in Int /\ 1 <= k /\ k <= Len(s) - 1
      BY <1>1, <2>1
    <3>4. CASE j <= k
      BY <1>1, <3>1, <3>2, <3>3, <3>4 DEF Place
    <3>5. CASE k < j
      BY <1>1, <3>1, <3>2, <3>3, <3>5 DEF Place
    <3> QED
      BY <1>1, <3>1, <3>3, <3>4, <3>5
  <2>2. CASE ~Listed(s, i)
    BY <1>1, <2>2 DEF Listed, Place
  <2> QED
    BY <2>1, <2>2
<1>5. \A k, m \in 1..n : Place(s, i, k) = Place(s, i, m) => k = m
  <2> SUFFICES ASSUME NEW k \in 1..n, NEW m \in 1..n, k < m PROVE Place(s, i, k) # Place(s, i, m)
    BY <1>2
  <2> QED
    BY <1>2 DEF Place
<1> HIDE DEF n
<1>6. /\ Without(s, i) \in Seq(Entries) /\ Len(Without(s, i)) = n /\ DOMAIN Without(s, i) = 1..n
      /\ \A k \in 1..n : Without(s, i)[k] = s[Place(s, i, k)]
  BY <1>1, <1>2, <1>3, <1>4
<1>7. Distinct(Without(s, i))
  <2> SUFFICES ASSUME NEW k \in 1..n, NEW m \in 1..n, Without(s, i)[k].id = Without(s, i)[m].id
               PROVE  k = m
    BY <1>6 DEF Distinct
  <2>1. Place(s, i, k) = Place(s, i, m)
    BY <1>4, <1>6 DEF Distinct
  <2> QED
    BY <1>5, <2>1
<1>8. ASSUME NEW j \in DOMAIN s, s[j].id # i
      PROVE  \E k \in 1..n : Without(s, i)[k] = s[j]
  <2>1. CASE Listed(s, i)
    <3>1. PICK m \in DOMAIN s : s[m].id = i
      BY <2>1 DEF Listed
    <3>2. \A q \in DOMAIN s : q # m => s[q].id # i
      BY <3>1 DEF Distinct
    <3>3. n = Len(s) - 1 /\ m # j
      BY <1>8, <2>1, <3>1 DEF n
    <3>4. CASE j < m
      <4>1. j \in 1..n /\ Place(s, i, j) = j
        BY <1>1, <3>1, <3>2, <3>3, <3>4 DEF Place
      <4> QED
        BY <1>6, <4>1
    <3>5. CASE m < j
      <4>1. j - 1 \in 1..n /\ Place(s, i, j - 1) = j
        BY <1>1, <3>1, <3>2, <3>3, <3>5 DEF Place
      <4> QED
        BY <1>6, <4>1
    <3> QED
      BY <1>1, <3>1, <3>3, <3>4, <3>5
  <2>2. CASE ~Listed(s, i)
    <3>1. j \in 1..n /\ Place(s, i, j) = j
      BY <1>1, <2>2 DEF Listed, Place, n
    <3> QED
      BY <1>6, <3>1
  <2> QED
    BY <2>1, <2>2
<1> QED
  BY <1>2, <1>4, <1>6, <1>7, <1>8 DEF n

\* How many entries an eviction drops.
Dropped(s) == IF MaxCheckpoints > 0 /\ Len(s) > MaxCheckpoints THEN Len(s) - MaxCheckpoints ELSE 0

\* The evicted entries are the first ones.
LEMMA EvictedFacts ==
  ASSUME NEW s \in Seq(Entries)
  PROVE  /\ Dropped(s) \in Nat /\ Dropped(s) <= Len(s)
         /\ MaxCheckpoints > 0 => Len(s) - Dropped(s) <= MaxCheckpoints
         /\ Len(Evicted(s)) = Dropped(s) /\ DOMAIN Evicted(s) = 1..Dropped(s)
         /\ \A k \in 1..Dropped(s) : Evicted(s)[k] = s[k]
<1>1. Len(s) \in Nat /\ \A k \in 1..Len(s) : s[k] \in Entries
  BY LenProperties
<1>2. Dropped(s) \in Nat /\ Dropped(s) <= Len(s)
      /\ (MaxCheckpoints > 0 => Len(s) - Dropped(s) <= MaxCheckpoints)
  BY <1>1, ConstantsAssumption DEF Dropped
<1>3. CASE MaxCheckpoints > 0 /\ Len(s) > MaxCheckpoints
  <2>1. Evicted(s) = SubSeq(s, 1, Dropped(s))
    BY <1>3 DEF Evicted, Dropped
  <2>2. \A k \in 1..Dropped(s) : s[k] \in Entries
    BY <1>1, <1>2
  <2>3. Dropped(s) >= 1
    BY <1>1, <1>3, ConstantsAssumption DEF Dropped
  <2>4. /\ SubSeq(s, 1, Dropped(s)) \in Seq(Entries)
        /\ Len(SubSeq(s, 1, Dropped(s))) = Dropped(s)
        /\ \A k \in 1..Dropped(s) : SubSeq(s, 1, Dropped(s))[k] = s[k]
    BY <1>2, <2>2, <2>3, SubSeqProperties
  <2> QED
    BY <1>2, <2>1, <2>4, LenProperties
<1>4. CASE ~(MaxCheckpoints > 0 /\ Len(s) > MaxCheckpoints)
  <2>1. Evicted(s) = <<>> /\ Dropped(s) = 0
    BY <1>4 DEF Evicted, Dropped
  <2> QED
    BY <1>2, <2>1
<1> QED
  BY <1>3, <1>4

\* Every entry of s has its state where it says it is.
Backed(s, b, f) ==
  \A k \in DOMAIN s : IF s[k].path THEN f[s[k].id] \in States ELSE b[s[k].id] \in States

\* An eviction keeps the last entries with all that belongs to them, and
\* clears the memory of the others.
LEMMA EvictFacts ==
  ASSUME NEW s \in Seq(Entries), Distinct(s),
         NEW b \in [Ids -> States \cup {None}], NEW f \in [Ids -> States \cup {None, Broken}],
         Backed(s, b, f), Evict(s, b, f)
  PROVE  /\ checkpoints' \in Seq(Entries) /\ Len(checkpoints') = Len(s) - Dropped(s)
         /\ \A k \in DOMAIN checkpoints' :
              k + Dropped(s) \in DOMAIN s /\ checkpoints'[k] = s[k + Dropped(s)]
         /\ Distinct(checkpoints')
         /\ MaxCheckpoints > 0 => Len(checkpoints') <= MaxCheckpoints
         /\ blobs' \in [Ids -> States \cup {None}]
         /\ files' \in [Ids -> States \cup {None, Broken}]
         /\ \A k \in DOMAIN checkpoints' :
              /\ blobs'[checkpoints'[k].id] = b[checkpoints'[k].id]
              /\ files'[checkpoints'[k].id] = f[checkpoints'[k].id]
         /\ \A i \in Ids : ~Listed(s, i) => blobs'[i] = b[i]
         /\ \A i \in Ids : Listed(s, i) /\ ~Listed(checkpoints', i) => blobs'[i] = None
         /\ Backed(checkpoints', blobs', files')
<1> DEFINE d == Dropped(s)
<1>1. /\ d \in Nat /\ d <= Len(s) /\ (MaxCheckpoints > 0 => Len(s) - d <= MaxCheckpoints)
      /\ Len(Evicted(s)) = d /\ DOMAIN Evicted(s) = 1..d /\ \A k \in 1..d : Evicted(s)[k] = s[k]
  BY EvictedFacts
<1>2. Len(s) \in Nat /\ DOMAIN s = 1..Len(s) /\ \A k \in 1..Len(s) : s[k] \in Entries
  BY LenProperties
<1>3. /\ checkpoints' = SubSeq(s, d + 1, Len(s))
      /\ blobs' = [i \in Ids |-> IF Listed(Evicted(s), i) THEN None ELSE b[i]]
      /\ \E removed \in SUBSET {i \in Ids : OnDisk(Evicted(s), i)} :
           files' = [i \in Ids |-> IF i \in removed THEN None ELSE f[i]]
  BY <1>1 DEF Evict
<1> HIDE DEF d
<1>4. /\ checkpoints' \in Seq(Entries) /\ Len(checkpoints') = Len(s) - d
      /\ DOMAIN checkpoints' = 1..(Len(s) - d)
      /\ \A k \in 1..(Len(s) - d) : k + d \in DOMAIN s /\ checkpoints'[k] = s[k + d]
  <2>1. \A k \in (d + 1)..Len(s) : s[k] \in Entries
    BY <1>1, <1>2
  <2>2. d + 1 \in Int /\ Len(s) \in Int
    BY <1>1, <1>2
  <2>3. /\ checkpoints' \in Seq(Entries)
        /\ Len(checkpoints') = IF d + 1 <= Len(s) THEN Len(s) - (d + 1) + 1 ELSE 0
        /\ \A k \in 1..(Len(s) - (d + 1) + 1) : checkpoints'[k] = s[d + 1 + k - 1]
    BY <1>3, <2>1, <2>2, SubSeqProperties
  <2>4. Len(checkpoints') = Len(s) - d /\ DOMAIN checkpoints' = 1..(Len(s) - d)
    BY <1>1, <1>2, <2>3, LenProperties
  <2>5. ASSUME NEW k \in 1..(Len(s) - d) PROVE k + d \in DOMAIN s /\ checkpoints'[k] = s[k + d]
    <3>1. d + 1 + k - 1 = k + d /\ k \in 1..(Len(s) - (d + 1) + 1) /\ k + d \in 1..Len(s)
      BY <1>1, <1>2
    <3> QED
      BY <1>2, <2>3, <3>1
  <2> QED
    BY <2>3, <2>4, <2>5
<1>5. Distinct(checkpoints')
  <2> SUFFICES ASSUME NEW j \in 1..(Len(s) - d), NEW k \in 1..(Len(s) - d),
                      checkpoints'[j].id = checkpoints'[k].id
               PROVE  j = k
    BY <1>4 DEF Distinct
  <2>1. j + d = k + d
    BY <1>4 DEF Distinct
  <2> QED
    BY <1>1, <1>2, <2>1
<1>6. ASSUME NEW k \in 1..(Len(s) - d), Listed(Evicted(s), checkpoints'[k].id)
      PROVE  FALSE
  <2>1. PICK j \in 1..d : Evicted(s)[j].id = checkpoints'[k].id
    BY <1>1, <1>6 DEF Listed
  <2>2. j \in DOMAIN s /\ k + d \in DOMAIN s /\ s[j].id = s[k + d].id /\ j # k + d
    BY <1>1, <1>2, <1>4, <2>1
  <2> QED
    BY <2>2 DEF Distinct
<1>7. \A i \in Ids : OnDisk(Evicted(s), i) => Listed(Evicted(s), i)
  BY DEF OnDisk, Listed
<1>8. \A k \in 1..(Len(s) - d) : checkpoints'[k].id \in Ids
  BY <1>2, <1>4 DEF Entries
<1>9. /\ blobs' \in [Ids -> States \cup {None}]
      /\ files' \in [Ids -> States \cup {None, Broken}]
  BY <1>3
<1>10. ASSUME NEW k \in 1..(Len(s) - d)
       PROVE  /\ blobs'[checkpoints'[k].id] = b[checkpoints'[k].id]
              /\ files'[checkpoints'[k].id] = f[checkpoints'[k].id]
  BY <1>3, <1>6, <1>7, <1>8
<1>11. \A i \in Ids : ~Listed(s, i) => blobs'[i] = b[i]
  <2>1. \A i \in Ids : Listed(Evicted(s), i) => Listed(s, i)
    BY <1>1, <1>2 DEF Listed
  <2> QED
    BY <1>3, <2>1
<1>12. \A i \in Ids : Listed(s, i) /\ ~Listed(checkpoints', i) => blobs'[i] = None
  <2> SUFFICES ASSUME NEW i \in Ids, Listed(s, i), ~Listed(checkpoints', i)
               PROVE  Listed(Evicted(s), i)
    BY <1>3
  <2>1. PICK k \in 1..Len(s) : s[k].id = i
    BY <1>2 DEF Listed
  <2>2. CASE k <= d
    BY <1>1, <2>1, <2>2 DEF Listed
  <2>3. CASE k > d
    <3>1. k - d \in 1..(Len(s) - d) /\ (k - d) + d = k
      BY <1>1, <1>2, <2>3
    <3> QED
      BY <1>4, <2>1, <3>1 DEF Listed
  <2> QED
    BY <1>1, <2>2, <2>3
<1>13. Backed(checkpoints', blobs', files')
  <2> SUFFICES ASSUME NEW k \in 1..(Len(s) - d)
               PROVE  IF checkpoints'[k].path THEN files'[checkpoints'[k].id] \in States
                      ELSE blobs'[checkpoints'[k].id] \in States
    BY <1>4 DEF Backed
  <2>1. IF s[k + d].path THEN f[s[k + d].id] \in States ELSE b[s[k + d].id] \in States
    BY <1>4 DEF Backed
  <2> QED
    BY <1>4, <1>10, <2>1
<1> QED
  BY <1>1, <1>4, <1>5, <1>9, <1>10, <1>11, <1>12, <1>13 DEF d

-----------------------------------------------------------------------------
(***************************************************************************)
(* The inductive invariant: what is listed is listed once, and its state   *)
(* is where the entry says.                                                *)
(***************************************************************************)

Consistent ==
  /\ Distinct(checkpoints)
  /\ Backed(checkpoints, blobs, files)
  /\ MaxCheckpoints > 0 => Len(checkpoints) <= MaxCheckpoints

IInv == TypeOK /\ Consistent

\* Answers have the type TypeOK gives them.
LEMMA AnswerTypes ==
  ASSUME NEW call \in {"none", "save", "restore", "restore_latest"}, NEW ok \in BOOLEAN
  PROVE  [call |-> call, ok |-> ok] \in [call : {"none", "save", "restore", "restore_latest"}, ok : BOOLEAN]
OBVIOUS

\* What a save of i is about to evict: the other entries and, last, that of i.
LEMMA RecordedFacts ==
  ASSUME IInv, NEW i \in Ids, NEW p \in BOOLEAN
  PROVE  /\ Recorded(i, p) \in Seq(Entries) /\ Distinct(Recorded(i, p))
         /\ Len(Recorded(i, p)) = Len(Without(checkpoints, i)) + 1
         /\ \A k \in DOMAIN Without(checkpoints, i) :
              /\ Recorded(i, p)[k] = Without(checkpoints, i)[k]
              /\ Recorded(i, p)[k].id # i
              /\ \E j \in DOMAIN checkpoints : Recorded(i, p)[k] = checkpoints[j]
         /\ Recorded(i, p)[Len(Recorded(i, p))] = [id |-> i, path |-> p]
<1> DEFINE w == Without(checkpoints, i)
           e == [id |-> i, path |-> p]
<1>1. checkpoints \in Seq(Entries) /\ Distinct(checkpoints)
  BY DEF IInv, TypeOK, Consistent, Entries
<1>2. /\ w \in Seq(Entries) /\ Distinct(w)
      /\ \A k \in DOMAIN w : w[k].id # i /\ \E j \in DOMAIN checkpoints : w[k] = checkpoints[j]
  BY <1>1, WithoutFacts
<1>3. e \in Entries /\ e.id = i
  BY DEF Entries
<1> HIDE DEF w, e
<1>4. /\ Append(w, e) \in Seq(Entries) /\ Len(Append(w, e)) = Len(w) + 1
      /\ \A k \in 1..Len(w) : Append(w, e)[k] = w[k]
      /\ Append(w, e)[Len(w) + 1] = e
  BY <1>2, <1>3, AppendProperties
<1>5. DOMAIN w = 1..Len(w) /\ Len(w) \in Nat /\ DOMAIN Append(w, e) = 1..(Len(w) + 1)
  BY <1>2, <1>4, LenProperties
<1>6. Distinct(Append(w, e))
  <2> SUFFICES ASSUME NEW j \in 1..(Len(w) + 1), NEW k \in 1..(Len(w) + 1),
                      Append(w, e)[j].id = Append(w, e)[k].id
               PROVE  j = k
    BY <1>5 DEF Distinct
  <2>1. CASE j \in 1..Len(w) /\ k \in 1..Len(w)
    BY <1>2, <1>4, <1>5, <2>1 DEF Distinct
  <2>2. CASE j = Len(w) + 1 \/ k = Len(w) + 1
    BY <1>2, <1>3, <1>4, <1>5, <2>2
  <2> QED
    BY <1>5, <2>1, <2>2
<1>7. Recorded(i, p) = Append(w, e)
  BY DEF Recorded, w, e
<1> QED
  BY <1>2, <1>4, <1>5, <1>6, <1>7 DEF w, e

\* What b and f say when the entry of i is recorded with p.
Written(i, p, b, f) ==
  /\ b \in [Ids -> States \cup {None}] /\ f \in [Ids -> States \cup {None, Broken}]
  /\ \A j \in Ids : j # i => b[j] = blobs[j] /\ f[j] = files[j]
  /\ IF p THEN b[i] = None /\ f[i] = live ELSE b[i] = live
  /\ Evict(Recorded(i, p), b, f)

\* Each save that succeeds is of this form.
LEMMA SavesAreWritten ==
  ASSUME TypeOK, NEW i \in Ids, SaveInMemory(i) \/ SaveToDisk(i) \/ SaveDiskFails(i)
  PROVE  \E p \in BOOLEAN : \E b, f : Written(i, p, b, f)
<1>1. CASE SaveInMemory(i)
  <2>1. Written(i, FALSE, [blobs EXCEPT ![i] = live], files)
    BY <1>1 DEF SaveInMemory, Written, TypeOK
  <2> QED
    BY <2>1
<1>2. CASE SaveToDisk(i)
  <2>1. Written(i, TRUE, [blobs EXCEPT ![i] = None], [files EXCEPT ![i] = live])
    BY <1>2 DEF SaveToDisk, Written, TypeOK
  <2> QED
    BY <2>1
<1>3. CASE SaveDiskFails(i)
  <2>1. PICK left \in {files[i], Broken} :
          Evict(Recorded(i, FALSE), [blobs EXCEPT ![i] = live], [files EXCEPT ![i] = left])
    BY <1>3 DEF SaveDiskFails
  <2>2. Written(i, FALSE, [blobs EXCEPT ![i] = live], [files EXCEPT ![i] = left])
    BY <2>1 DEF Written, TypeOK
  <2> QED
    BY <2>2
<1> QED
  BY <1>1, <1>2, <1>3

\* The entries a save records are backed.
LEMMA WrittenIsBacked ==
  ASSUME IInv, NEW i \in Ids, NEW p \in BOOLEAN, NEW b, NEW f, Written(i, p, b, f)
  PROVE  Backed(Recorded(i, p), b, f)
<1> DEFINE s == Recorded(i, p)
           w == Without(checkpoints, i)
<1>1. /\ s \in Seq(Entries) /\ Len(s) = Len(w) + 1
      /\ \A k \in DOMAIN w : s[k].id # i /\ \E j \in DOMAIN checkpoints : s[k] = checkpoints[j]
      /\ s[Len(s)] = [id |-> i, path |-> p]
  BY RecordedFacts
<1>2. w \in Seq(Entries)
  BY WithoutFacts DEF IInv, TypeOK, Consistent, Entries
<1> HIDE DEF s, w
<1>3. DOMAIN s = 1..Len(s) /\ DOMAIN w = 1..Len(w) /\ Len(w) \in Nat /\ \A k \in DOMAIN s : s[k].id \in Ids
  <2>1. DOMAIN s = 1..Len(s) /\ DOMAIN w = 1..Len(w) /\ Len(w) \in Nat /\ \A k \in DOMAIN s : s[k] \in Entries
    BY <1>1, <1>2, LenProperties
  <2> QED
    BY <2>1 DEF Entries
<1>4. ASSUME NEW k \in DOMAIN s
      PROVE  IF s[k].path THEN f[s[k].id] \in States ELSE b[s[k].id] \in States
  <2>1. CASE k = Len(s)
    <3>1. s[k].id = i /\ s[k].path = p
      BY <1>1, <2>1
    <3>2. live \in States
      BY DEF IInv, TypeOK
    <3> QED
      BY <3>1, <3>2 DEF Written
  <2>2. CASE k # Len(s)
    <3>1. k \in DOMAIN w
      BY <1>1, <1>3, <2>2
    <3>2. PICK j \in DOMAIN checkpoints : s[k] = checkpoints[j]
      BY <1>1, <3>1
    <3>3. s[k].id # i /\ s[k].id \in Ids
      BY <1>1, <1>3, <3>1
    <3>4. IF s[k].path THEN files[s[k].id] \in States ELSE blobs[s[k].id] \in States
      BY <3>2 DEF IInv, Consistent, Backed
    <3> QED
      BY <3>3, <3>4 DEF Written
  <2> QED
    BY <2>1, <2>2
<1> QED
  BY <1>4 DEF Backed, s

\* A save that succeeds, also one whose file could not be written.
LEMMA SaveKeepsInv ==
  ASSUME IInv, NEW i \in Ids, SaveInMemory(i) \/ SaveToDisk(i) \/ SaveDiskFails(i)
  PROVE  IInv'
<1>0. PICK p \in BOOLEAN : \E b, f : Written(i, p, b, f)
  BY SavesAreWritten DEF IInv
<1>1. PICK b, f : Written(i, p, b, f)
  BY <1>0
<1>2. Recorded(i, p) \in Seq(Entries) /\ Distinct(Recorded(i, p))
  BY RecordedFacts
<1>3. Backed(Recorded(i, p), b, f)
  BY <1>1, WrittenIsBacked
<1>4. /\ b \in [Ids -> States \cup {None}] /\ f \in [Ids -> States \cup {None, Broken}]
      /\ Evict(Recorded(i, p), b, f)
  BY <1>1 DEF Written
<1>5. /\ checkpoints' \in Seq(Entries) /\ Distinct(checkpoints')
      /\ MaxCheckpoints > 0 => Len(checkpoints') <= MaxCheckpoints
      /\ blobs' \in [Ids -> States \cup {None}]
      /\ files' \in [Ids -> States \cup {None, Broken}]
      /\ Backed(checkpoints', blobs', files')
  BY <1>2, <1>3, <1>4, EvictFacts
<1>6. disk' \in BOOLEAN /\ live' \in States
  BY DEF IInv, TypeOK, SaveInMemory, SaveToDisk, SaveDiskFails
<1>7. answer' \in [call : {"none", "save", "restore", "restore_latest"}, ok : BOOLEAN]
  <2>1. Reports("save", TRUE)
    BY DEF SaveInMemory, SaveToDisk, SaveDiskFails
  <2> QED
    BY <2>1, AnswerTypes DEF Reports
<1> QED
  BY <1>5, <1>6, <1>7 DEF IInv, TypeOK, Consistent, Entries

\* A save that fails forgets the id.
LEMMA FailedSaveKeepsInv ==
  ASSUME IInv, NEW i \in Ids, SaveRaises(i) \/ SaveRefused(i)
  PROVE  IInv'
<1> DEFINE w == Without(checkpoints, i)
<1>0. checkpoints \in Seq(Entries) /\ Distinct(checkpoints)
  BY DEF IInv, TypeOK, Consistent, Entries
<1>1. /\ w \in Seq(Entries) /\ Distinct(w) /\ Len(w) <= Len(checkpoints)
      /\ \A k \in DOMAIN w : w[k].id # i /\ \E j \in DOMAIN checkpoints : w[k] = checkpoints[j]
  BY <1>0, WithoutFacts
<1>2. checkpoints' = w
  BY DEF SaveRaises, SaveRefused
<1> HIDE DEF w
<1>3. /\ blobs' \in [Ids -> States \cup {None}] /\ files' \in [Ids -> States \cup {None, Broken}]
      /\ \A j \in Ids : j # i => blobs'[j] = blobs[j] /\ files'[j] = files[j]
      /\ disk' \in BOOLEAN /\ live' \in States
  BY DEF IInv, TypeOK, SaveRaises, SaveRefused
<1>4. answer' \in [call : {"none", "save", "restore", "restore_latest"}, ok : BOOLEAN]
  <2>1. Reports("save", FALSE)
    BY DEF SaveRaises, SaveRefused
  <2> QED
    BY <2>1, AnswerTypes DEF Reports
<1>5. \A j \in DOMAIN checkpoints : checkpoints[j].id \in Ids
  <2>1. \A j \in DOMAIN checkpoints : checkpoints[j] \in Entries
    BY <1>0, LenProperties
  <2> QED
    BY <2>1 DEF Entries
<1>6. Backed(w, blobs', files')
  <2> SUFFICES ASSUME NEW k \in DOMAIN w
               PROVE  IF w[k].path THEN files'[w[k].id] \in States ELSE blobs'[w[k].id] \in States
    BY DEF Backed
  <2>1. PICK j \in DOMAIN checkpoints : w[k] = checkpoints[j]
    BY <1>1
  <2>2. IF w[k].path THEN files[w[k].id] \in States ELSE blobs[w[k].id] \in States
    BY <2>1 DEF IInv, Consistent, Backed
  <2>3. w[k].id # i /\ w[k].id \in Ids
    BY <1>1, <1>5, <2>1
  <2> QED
    BY <1>3, <2>2, <2>3
<1>7. MaxCheckpoints > 0 => Len(w) <= MaxCheckpoints
  <2>1. Len(w) \in Nat /\ Len(checkpoints) \in Nat
    BY <1>1, LenProperties DEF IInv, TypeOK
  <2> QED
    BY <1>1, <2>1, ConstantsAssumption DEF IInv, Consistent
<1> QED
  BY <1>1, <1>2, <1>3, <1>4, <1>6, <1>7 DEF IInv, TypeOK, Consistent, Entries

\* What can be loaded is a state.
LEMMA LoadableState ==
  ASSUME TypeOK, NEW i \in Ids, Loadable(i)
  PROVE  Blob(i) \in States
BY DEF TypeOK, Loadable, Blob

\* A restore changes the job only.
LEMMA RestoreKeepsInv ==
  ASSUME IInv, NEW call \in {"restore", "restore_latest"},
         (\E i \in Ids : Restore(call, i) \/ RestoreRaises(call, i)) \/ RestoreFindsNothing(call)
  PROVE  IInv'
<1>1. UNCHANGED <<disk, checkpoints, blobs, files>>
  BY DEF Restore, RestoreRaises, RestoreFindsNothing
<1>2. answer' \in [call : {"none", "save", "restore", "restore_latest"}, ok : BOOLEAN]
  <2>1. \E ok \in BOOLEAN : Reports(call, ok)
    BY DEF Restore, RestoreRaises, RestoreFindsNothing
  <2> QED
    BY <2>1, AnswerTypes DEF Reports
<1>3. live' \in States
  <2>1. ASSUME NEW i \in Ids, Restore(call, i) PROVE live' \in States
    BY <2>1, LoadableState DEF Restore, IInv
  <2>2. ASSUME NEW i \in Ids, RestoreRaises(call, i) PROVE live' \in States
    <3>1. live \in States /\ Blob(i) \in States
      BY <2>2, LoadableState DEF RestoreRaises, IInv, TypeOK
    <3>2. [live EXCEPT !["model"] = Blob(i)["model"]] \in States
      BY <3>1 DEF States, Parts
    <3> QED
      BY <2>2, <3>1, <3>2 DEF RestoreRaises
  <2>3. CASE RestoreFindsNothing(call)
    BY <2>3 DEF RestoreFindsNothing, IInv, TypeOK
  <2> QED
    BY <2>1, <2>2, <2>3
<1> QED
  BY <1>1, <1>2, <1>3 DEF IInv, TypeOK, Consistent

\* An empty bridge satisfies the invariant, at the start and after a restart.
LEMMA EmptyIsConsistent ==
  ASSUME checkpoints = <<>>, blobs = [i \in Ids |-> None],
         files \in [Ids -> States \cup {None, Broken}]
  PROVE  /\ Consistent
         /\ checkpoints \in Seq([id : Ids, path : BOOLEAN])
         /\ blobs \in [Ids -> States \cup {None}]
<1>1. checkpoints \in Seq([id : Ids, path : BOOLEAN]) /\ Len(checkpoints) = 0 /\ DOMAIN checkpoints = {}
  BY EmptySeq
<1> QED
  BY <1>1, ConstantsAssumption DEF Consistent, Distinct, Backed

\* Initially.
LEMMA InitInv == Init => IInv
<1> SUFFICES ASSUME Init PROVE IInv
  OBVIOUS
<1>1. /\ disk \in BOOLEAN /\ live \in States
      /\ checkpoints = <<>> /\ blobs = [i \in Ids |-> None]
      /\ files \in [Ids -> States \cup {None, Broken}]
  BY DEF Init
<1>2. answer \in [call : {"none", "save", "restore", "restore_latest"}, ok : BOOLEAN]
  BY AnswerTypes DEF Init, Silent
<1> QED
  BY <1>1, <1>2, EmptyIsConsistent DEF IInv, TypeOK

\* Every step preserves the invariant.
LEMMA StepInv ==
  ASSUME IInv, [Next]_vars
  PROVE  IInv'
<1>1. CASE Train
  BY <1>1 DEF Train, Silent, IInv, TypeOK, Consistent
<1>2. ASSUME NEW i \in Ids,
             SaveInMemory(i) \/ SaveToDisk(i) \/ SaveDiskFails(i) \/ SaveRaises(i) \/ SaveRefused(i)
      PROVE  IInv'
  BY <1>2, SaveKeepsInv, FailedSaveKeepsInv
<1>3. ASSUME NEW call \in {"restore", "restore_latest"},
             (\E i \in Ids : Restore(call, i) \/ RestoreRaises(call, i)) \/ RestoreFindsNothing(call)
      PROVE  IInv'
  BY <1>3, RestoreKeepsInv
<1>4. CASE ProcessRestarts
  <2>1. /\ checkpoints' = <<>> /\ blobs' = [i \in Ids |-> None]
        /\ files' \in [Ids -> States \cup {None, Broken}]
        /\ disk' \in BOOLEAN /\ live' \in States
    BY <1>4 DEF ProcessRestarts, IInv, TypeOK
  <2>2. answer' \in [call : {"none", "save", "restore", "restore_latest"}, ok : BOOLEAN]
    BY <1>4, AnswerTypes DEF ProcessRestarts, Silent
  <2>3. /\ Consistent' /\ checkpoints' \in Seq([id : Ids, path : BOOLEAN])
        /\ blobs' \in [Ids -> States \cup {None}]
    <3>1. checkpoints' \in Seq([id : Ids, path : BOOLEAN]) /\ Len(checkpoints') = 0 /\ DOMAIN checkpoints' = {}
      BY <2>1, EmptySeq
    <3> QED
      BY <2>1, <3>1, ConstantsAssumption DEF Consistent, Distinct, Backed
  <2> QED
    BY <2>1, <2>2, <2>3 DEF IInv, TypeOK
<1>5. CASE UNCHANGED vars
  BY <1>5 DEF vars, IInv, TypeOK, Consistent
<1> QED
  BY <1>1, <1>2, <1>3, <1>4, <1>5 DEF Next

\* IInv holds in every reachable state.
THEOREM InductiveInvariant == Spec => []IInv
<1>1. Init => IInv
  BY InitInv
<1>2. IInv /\ [Next]_vars => IInv'
  BY StepInv
<1> QED
  BY <1>1, <1>2, PTL DEF Spec

\* The three places keep their types.
THEOREM TypeCorrect == Spec => []TypeOK
<1>1. IInv => TypeOK
  BY DEF IInv
<1> QED
  BY <1>1, InductiveInvariant, PTL

(***************************************************************************)
(* Whatever fails half way, what list_checkpoints shows can be restored,   *)
(* and the limit is kept.                                                  *)
(***************************************************************************)
THEOREM CheckpointsAreRestorable == Spec => []ListedAreRestorable
<1>1. ASSUME IInv PROVE ListedAreRestorable
  <2>1. ASSUME NEW i \in Ids, Listed(checkpoints, i) PROVE Loadable(i)
    <3>1. PICK k \in DOMAIN checkpoints : checkpoints[k].id = i
      BY <2>1 DEF Listed
    <3>2. IF checkpoints[k].path THEN files[i] \in States ELSE blobs[i] \in States
      BY <1>1, <3>1 DEF IInv, Consistent, Backed
    <3>3. blobs[i] \in States \cup {None}
      BY <1>1 DEF IInv, TypeOK
    <3>4. CASE checkpoints[k].path
      <4>1. OnDisk(checkpoints, i) /\ files[i] \in States
        BY <3>1, <3>2, <3>4 DEF OnDisk
      <4> QED
        BY <3>3, <4>1, NotStates DEF Loadable, Blob
    <3>5. CASE ~checkpoints[k].path
      BY <3>2, <3>5, NotStates DEF Loadable, Blob
    <3> QED
      BY <3>4, <3>5
  <2> QED
    BY <1>1, <2>1 DEF IInv, Consistent, ListedAreRestorable
<1> QED
  BY <1>1, InductiveInvariant, PTL

-----------------------------------------------------------------------------
(***************************************************************************)
(* The three places implement Rollback.                                    *)
(***************************************************************************)

\* Whether the state of an entry is on disk is what the entry says.
LEMMA OnDiskEntry ==
  ASSUME NEW s, Distinct(s), NEW k \in DOMAIN s
  PROVE  OnDisk(s, s[k].id) <=> s[k].path
BY DEF Distinct, OnDisk

\* An entry that stays, with its copies, names the same state as before.
LEMMA SameBlob ==
  ASSUME Distinct(checkpoints), Distinct(checkpoints'), NEW i,
         NEW j \in DOMAIN checkpoints, NEW k \in DOMAIN checkpoints',
         checkpoints'[k] = checkpoints[j], checkpoints[j].id = i,
         blobs'[i] = blobs[i], files'[i] = files[i]
  PROVE  Blob(i)' = Blob(i)
<1>1. OnDisk(checkpoints, i) <=> OnDisk(checkpoints', i)
  <2>1. OnDisk(checkpoints, i) <=> checkpoints[j].path
    BY OnDiskEntry
  <2>2. OnDisk(checkpoints', i) <=> checkpoints'[k].path
    BY OnDiskEntry
  <2> QED
    BY <2>1, <2>2
<1> QED
  BY <1>1 DEF Blob

\* Popping an id from the list pops it from what Rollback calls kept.
LEMMA WithoutKept ==
  ASSUME IInv, NEW i
  PROVE  /\ DOMAIN Promise!Without(i) = DOMAIN Without(checkpoints, i)
         /\ Promise!Without(i) =
              [k \in DOMAIN Without(checkpoints, i) |->
                 [id |-> Without(checkpoints, i)[k].id,
                  state |-> Blob(Without(checkpoints, i)[k].id)]]
<1> DEFINE n == IF Listed(checkpoints, i) THEN Len(checkpoints) - 1 ELSE Len(checkpoints)
<1>1. checkpoints \in Seq(Entries) /\ Distinct(checkpoints)
  BY DEF IInv, TypeOK, Consistent, Entries
<1>2. /\ DOMAIN Kept = DOMAIN checkpoints /\ DOMAIN checkpoints = 1..Len(checkpoints)
      /\ Len(checkpoints) \in Nat
      /\ \A k \in DOMAIN checkpoints :
           Kept[k] = [id |-> checkpoints[k].id, state |-> Blob(checkpoints[k].id)]
  BY <1>1, LenProperties DEF Kept
<1>3. Len(Kept) = Len(checkpoints)
  BY <1>2
<1>4. (\E j \in DOMAIN Kept : Kept[j].id = i) <=> Listed(checkpoints, i)
  BY <1>2 DEF Listed
<1>5. /\ Without(checkpoints, i) = [k \in 1..n |-> checkpoints[Place(checkpoints, i, k)]]
      /\ DOMAIN Without(checkpoints, i) = 1..n
      /\ \A k \in 1..n : Place(checkpoints, i, k) \in DOMAIN checkpoints
  <2>1. Without(checkpoints, i) = [k \in 1..n |-> checkpoints[Place(checkpoints, i, k)]]
    BY DEF Without, Place
  <2> QED
    BY <1>1, <2>1, WithoutFacts
<1>6. Promise!Without(i) =
        [k \in 1..n |-> Kept[IF \E j \in 1..k : Kept[j].id = i THEN k + 1 ELSE k]]
  BY <1>3, <1>4 DEF Promise!Without
<1>7. n \in Nat /\ n <= Len(checkpoints)
  BY <1>2 DEF Listed
<1> HIDE DEF n
<1>8. ASSUME NEW k \in 1..n
      PROVE  Kept[IF \E j \in 1..k : Kept[j].id = i THEN k + 1 ELSE k] = Kept[Place(checkpoints, i, k)]
  <2>1. \A j \in 1..k : Kept[j].id = checkpoints[j].id
    BY <1>2, <1>7
  <2> QED
    BY <2>1 DEF Place
<1>9. \A k \in 1..n : Promise!Without(i)[k] =
        [id |-> Without(checkpoints, i)[k].id, state |-> Blob(Without(checkpoints, i)[k].id)]
  BY <1>2, <1>5, <1>6, <1>8
<1> QED
  BY <1>5, <1>6, <1>9

\* Rollback keeps the newest entries of a list as an eviction does.
LEMMA NewestFacts ==
  ASSUME NEW R, NEW a \in Seq(R), NEW s \in Seq(Entries), Len(a) = Len(s)
  PROVE  Promise!Newest(a) = [k \in 1..(Len(s) - Dropped(s)) |-> a[k + Dropped(s)]]
<1> DEFINE d == Dropped(s)
<1>1. d \in Nat /\ d <= Len(s) /\ Len(s) \in Nat /\ \A k \in 1..Len(s) : a[k] \in R
  BY EvictedFacts, LenProperties
<1>2. CASE MaxCheckpoints > 0 /\ Len(s) > MaxCheckpoints
  <2>1. Promise!Newest(a) = SubSeq(a, d + 1, Len(s))
    <3>1. d + 1 = Len(s) - MaxCheckpoints + 1
      BY <1>2 DEF Dropped
    <3> QED
      BY <1>2, <3>1 DEF Promise!Newest
  <2>2. \A k \in (d + 1)..Len(s) : a[k] \in R
    BY <1>1
  <2>3. d + 1 \in Int /\ Len(s) \in Int /\ d + 1 <= Len(s)
    BY <1>1, <1>2, ConstantsAssumption DEF Dropped
  <2> HIDE DEF d
  <2>4. /\ SubSeq(a, d + 1, Len(s)) \in Seq(R)
        /\ Len(SubSeq(a, d + 1, Len(s))) = Len(s) - (d + 1) + 1
        /\ \A k \in 1..(Len(s) - (d + 1) + 1) : SubSeq(a, d + 1, Len(s))[k] = a[d + 1 + k - 1]
    BY <2>2, <2>3, SubSeqProperties
  <2>5. Len(s) - (d + 1) + 1 = Len(s) - d /\ \A k \in 1..(Len(s) - d) : d + 1 + k - 1 = k + d
    BY <1>1
  <2>6. SubSeq(a, d + 1, Len(s)) = [k \in 1..(Len(s) - d) |-> a[k + d]]
    BY <2>4, <2>5
  <2> QED
    BY <2>1, <2>6 DEF d
<1>3. CASE ~(MaxCheckpoints > 0 /\ Len(s) > MaxCheckpoints)
  <2>1. Promise!Newest(a) = a /\ d = 0
    BY <1>3 DEF Promise!Newest, Dropped
  <2>2. a = [k \in 1..Len(s) |-> a[k]]
    BY LenProperties
  <2>3. \A k \in 1..Len(s) : k + 0 = k /\ Len(s) - 0 = Len(s)
    BY <1>1
  <2>4. a = [k \in 1..(Len(s) - 0) |-> a[k + 0]]
    BY <1>1, <2>2, <2>3
  <2> QED
    BY <2>1, <2>4
<1> QED
  BY <1>2, <1>3

\* A save that succeeds is a Save of Rollback.
LEMMA SaveIsSave ==
  ASSUME IInv, NEW i \in Ids, SaveInMemory(i) \/ SaveToDisk(i) \/ SaveDiskFails(i)
  PROVE  Promise!Save(i)
<1>0. PICK p \in BOOLEAN : \E b, f : Written(i, p, b, f)
  BY SavesAreWritten DEF IInv
<1>1. PICK b, f : Written(i, p, b, f)
  BY <1>0
<1> DEFINE s == Recorded(i, p)
           w == Without(checkpoints, i)
           d == Dropped(s)
           R == [id : Ids, state : States \cup {None, Broken}]
           a == Append(Promise!Without(i), [id |-> i, state |-> live])
<1>2. checkpoints \in Seq(Entries) /\ Distinct(checkpoints)
  BY DEF IInv, TypeOK, Consistent, Entries
<1>3. /\ w \in Seq(Entries) /\ DOMAIN w = 1..Len(w) /\ Len(w) \in Nat
      /\ \A j \in DOMAIN checkpoints : checkpoints[j].id # i => \E k \in DOMAIN w : w[k] = checkpoints[j]
  BY <1>2, WithoutFacts, LenProperties
<1>4. /\ s \in Seq(Entries) /\ Distinct(s) /\ Len(s) = Len(w) + 1
      /\ \A k \in DOMAIN w :
           s[k] = w[k] /\ s[k].id # i /\ \E j \in DOMAIN checkpoints : s[k] = checkpoints[j]
      /\ s[Len(s)] = [id |-> i, path |-> p]
  BY RecordedFacts
<1>5. /\ b \in [Ids -> States \cup {None}] /\ f \in [Ids -> States \cup {None, Broken}]
      /\ \A j \in Ids : j # i => b[j] = blobs[j] /\ f[j] = files[j]
      /\ IF p THEN b[i] = None /\ f[i] = live ELSE b[i] = live
      /\ Evict(s, b, f)
  BY <1>1 DEF Written
<1>6. Backed(s, b, f)
  BY <1>1, WrittenIsBacked
<1> HIDE DEF s, w
<1>7. /\ checkpoints' \in Seq(Entries) /\ Len(checkpoints') = Len(s) - d
      /\ \A k \in DOMAIN checkpoints' : k + d \in DOMAIN s /\ checkpoints'[k] = s[k + d]
      /\ Distinct(checkpoints')
      /\ \A k \in DOMAIN checkpoints' :
           /\ blobs'[checkpoints'[k].id] = b[checkpoints'[k].id]
           /\ files'[checkpoints'[k].id] = f[checkpoints'[k].id]
      /\ \A j \in Ids : ~Listed(s, j) => blobs'[j] = b[j]
      /\ \A j \in Ids : Listed(s, j) /\ ~Listed(checkpoints', j) => blobs'[j] = None
  BY <1>4, <1>5, <1>6, EvictFacts
<1>8. /\ DOMAIN s = 1..Len(s) /\ Len(s) \in Nat /\ DOMAIN checkpoints' = 1..(Len(s) - d)
      /\ d \in Nat /\ d <= Len(s)
      /\ \A k \in DOMAIN s : s[k] \in Entries
  BY <1>4, <1>7, LenProperties, EvictedFacts
<1>9. live \in States /\ live # None /\ live' = live /\ Reports("save", TRUE)
  BY NotStates DEF IInv, TypeOK, SaveInMemory, SaveToDisk, SaveDiskFails
\* The state an entry names after the save.
<1>10. ASSUME NEW k \in DOMAIN checkpoints', NEW j \in Ids, checkpoints'[k].id = j
       PROVE  Blob(j)' = IF j = i THEN live ELSE Blob(j)
  <2>1. k + d \in DOMAIN s /\ s[k + d].id = j /\ blobs'[j] = b[j] /\ files'[j] = f[j]
    BY <1>7, <1>10
  <2>2. CASE j = i
    <3>1. k + d = Len(s)
      BY <1>3, <1>4, <1>8, <2>1, <2>2
    <3>2. checkpoints'[k] = [id |-> i, path |-> p]
      BY <1>4, <1>7, <3>1
    <3>3. OnDisk(checkpoints', i) <=> p
      BY <1>7, <1>10, <2>2, <3>2, OnDiskEntry
    <3> QED
      BY <1>5, <1>9, <2>1, <2>2, <3>3 DEF Blob
  <2>3. CASE j # i
    <3>1. k + d \in DOMAIN w
      BY <1>3, <1>4, <1>8, <2>1, <2>3
    <3>2. PICK m \in DOMAIN checkpoints : s[k + d] = checkpoints[m]
      BY <1>4, <3>1
    <3>3. checkpoints'[k] = checkpoints[m] /\ checkpoints[m].id = j
      BY <1>7, <2>1, <3>2
    <3>4. blobs'[j] = blobs[j] /\ files'[j] = files[j]
      BY <1>5, <2>1, <2>3
    <3> QED
      BY <1>2, <1>7, <2>3, <3>3, <3>4, SameBlob
  <2> QED
    BY <2>2, <2>3
\* What Rollback would keep.
<1>11. /\ Promise!Without(i) \in Seq(R) /\ Len(Promise!Without(i)) = Len(w)
       /\ \A k \in 1..Len(w) : Promise!Without(i)[k] = [id |-> w[k].id, state |-> Blob(w[k].id)]
  <2>1. Promise!Without(i) = [k \in 1..Len(w) |-> [id |-> w[k].id, state |-> Blob(w[k].id)]]
    BY <1>3, WithoutKept DEF w
  <2>2. \A k \in 1..Len(w) : w[k].id \in Ids
    <3>1. \A k \in 1..Len(w) : w[k] \in Entries
      BY <1>3, LenProperties
    <3> QED
      BY <3>1 DEF Entries
  <2>3. \A j \in Ids : Blob(j) \in States \cup {None, Broken}
    BY DEF IInv, TypeOK, Blob
  <2> QED
    BY <1>3, <2>1, <2>2, <2>3
<1>12. [id |-> i, state |-> live] \in R
  BY <1>9
<1> HIDE DEF R
<1>13. /\ a \in Seq(R) /\ Len(a) = Len(s)
       /\ \A k \in 1..Len(w) : a[k] = [id |-> w[k].id, state |-> Blob(w[k].id)]
       /\ a[Len(w) + 1] = [id |-> i, state |-> live]
  BY <1>4, <1>11, <1>12, AppendProperties
<1>14. Promise!Newest(a) = [k \in 1..(Len(s) - d) |-> a[k + d]]
  BY <1>4, <1>13, NewestFacts
<1> HIDE DEF a, d
<1>15. Kept' = [k \in 1..(Len(s) - d) |-> a[k + d]]
  <2>1. Kept' = [k \in 1..(Len(s) - d) |-> Kept'[k]]
    BY <1>8 DEF Kept
  <2>2. ASSUME NEW k \in 1..(Len(s) - d)
        PROVE  Kept'[k] = a[k + d]
    <3>1. PICK j \in Ids : j = checkpoints'[k].id
      <4>1. checkpoints'[k] \in Entries
        BY <1>7, <1>8
      <4> QED
        BY <4>1 DEF Entries
    <3>2. Blob(j)' = IF j = i THEN live ELSE Blob(j)
      BY <1>8, <1>10, <3>1
    <3>3. checkpoints'[k] = s[k + d] /\ k + d \in 1..Len(s)
      BY <1>7, <1>8
    <3>4. Kept'[k] = [id |-> j, state |-> Blob(j)']
      BY <1>8, <3>1 DEF Kept, Blob
    <3>5. CASE k + d = Len(s)
      <4>1. j = i /\ a[k + d] = [id |-> i, state |-> live]
        BY <1>4, <1>13, <3>1, <3>3, <3>5
      <4> QED
        BY <3>2, <3>4, <4>1
    <3>6. CASE k + d # Len(s)
      <4>1. k + d \in 1..Len(w)
        BY <1>3, <1>4, <1>8, <3>3, <3>6
      <4>2. w[k + d].id = j /\ j # i
        BY <1>3, <1>4, <3>1, <3>3, <4>1
      <4>3. a[k + d] = [id |-> j, state |-> Blob(j)]
        BY <1>13, <4>1, <4>2
      <4> QED
        BY <3>2, <3>4, <4>2, <4>3
    <3> QED
      BY <3>5, <3>6
  <2> QED
    BY <2>1, <2>2
<1>16. Stray' = [Stray EXCEPT ![i] = None]
  <2>1. /\ Stray' = [j \in Ids |-> IF Listed(checkpoints', j) THEN None ELSE blobs'[j]]
        /\ Stray = [j \in Ids |-> IF Listed(checkpoints, j) THEN None ELSE blobs[j]]
    BY DEF Stray
  <2>2. ASSUME NEW j \in Ids, j # i
        PROVE  Listed(s, j) <=> Listed(checkpoints, j)
    <3>1. ASSUME Listed(s, j) PROVE Listed(checkpoints, j)
      <4>1. PICK k \in DOMAIN s : s[k].id = j
        BY <3>1 DEF Listed
      <4>2. k \in DOMAIN w
        BY <1>3, <1>4, <1>8, <2>2, <4>1
      <4> QED
        BY <1>4, <4>1, <4>2 DEF Listed
    <3>2. ASSUME Listed(checkpoints, j) PROVE Listed(s, j)
      <4>1. PICK m \in DOMAIN checkpoints : checkpoints[m].id = j
        BY <3>2 DEF Listed
      <4>2. PICK k \in DOMAIN w : w[k] = checkpoints[m]
        BY <1>3, <2>2, <4>1
      <4>3. k \in DOMAIN s /\ s[k].id = j
        BY <1>3, <1>4, <1>8, <4>1, <4>2
      <4> QED
        BY <4>3 DEF Listed
    <3> QED
      BY <3>1, <3>2
  <2>3. \A j \in Ids : Listed(checkpoints', j) => Listed(s, j)
    BY <1>7 DEF Listed
  <2>4. Listed(s, i)
    BY <1>4, <1>3, <1>8 DEF Listed
  <2>5. Stray'[i] = None
    BY <1>7, <2>1, <2>4
  <2>6. ASSUME NEW j \in Ids, j # i PROVE Stray'[j] = Stray[j]
    BY <1>5, <1>7, <2>1, <2>2, <2>3, <2>6
  <2> QED
    BY <2>1, <2>5, <2>6
<1> QED
  BY <1>9, <1>14, <1>15, <1>16 DEF Promise!Save, Promise!Reports, Reports, a

\* A save that fails is a Lose of Rollback.
LEMMA FailedSaveIsLose ==
  ASSUME IInv, NEW i \in Ids, SaveRaises(i) \/ SaveRefused(i)
  PROVE  Promise!Lose(i)
<1> DEFINE w == Without(checkpoints, i)
<1>1. checkpoints \in Seq(Entries) /\ Distinct(checkpoints)
  BY DEF IInv, TypeOK, Consistent, Entries
<1>2. /\ w \in Seq(Entries) /\ Distinct(w)
      /\ \A k \in DOMAIN w : w[k].id # i /\ \E j \in DOMAIN checkpoints : w[k] = checkpoints[j]
      /\ \A j \in DOMAIN checkpoints : checkpoints[j].id # i => \E k \in DOMAIN w : w[k] = checkpoints[j]
  BY <1>1, WithoutFacts
<1>3. Promise!Without(i) = [k \in DOMAIN w |-> [id |-> w[k].id, state |-> Blob(w[k].id)]]
  BY WithoutKept
<1>4. /\ checkpoints' = w /\ blobs'[i] \in {None, live}
      /\ \A j \in Ids : j # i => blobs'[j] = blobs[j] /\ files'[j] = files[j]
      /\ live' = live /\ Reports("save", FALSE)
  BY DEF IInv, TypeOK, SaveRaises, SaveRefused
<1> HIDE DEF w
<1>5. Kept' = Promise!Without(i)
  <2>1. Kept' = [k \in DOMAIN w |-> Kept'[k]]
    BY <1>4 DEF Kept
  <2>2. ASSUME NEW k \in DOMAIN w PROVE Kept'[k] = Promise!Without(i)[k]
    <3>1. PICK m \in DOMAIN checkpoints : w[k] = checkpoints[m]
      BY <1>2
    <3>2. PICK j \in Ids : j = w[k].id
      <4>1. w[k] \in Entries
        BY <1>2, LenProperties
      <4> QED
        BY <4>1 DEF Entries
    <3>3. j # i
      BY <1>2, <3>2
    <3>4. blobs'[j] = blobs[j] /\ files'[j] = files[j]
      BY <1>4, <3>3
    <3>5. Blob(j)' = Blob(j)
      BY <1>1, <1>2, <1>4, <3>1, <3>2, <3>4, SameBlob
    <3>6. Kept'[k] = [id |-> j, state |-> Blob(j)']
      BY <1>4, <3>2 DEF Kept, Blob
    <3> QED
      BY <1>3, <3>2, <3>5, <3>6
  <2> QED
    BY <1>3, <2>1, <2>2
<1>6. Stray' = [Stray EXCEPT ![i] = blobs'[i]]
  <2>1. /\ Stray' = [j \in Ids |-> IF Listed(w, j) THEN None ELSE blobs'[j]]
        /\ Stray = [j \in Ids |-> IF Listed(checkpoints, j) THEN None ELSE blobs[j]]
    BY <1>4 DEF Stray
  <2>2. ~Listed(w, i)
    BY <1>2 DEF Listed
  <2>3. \A j \in Ids : j # i => (Listed(w, j) <=> Listed(checkpoints, j))
    BY <1>2 DEF Listed
  <2> QED
    BY <1>4, <2>1, <2>2, <2>3
<1> QED
  BY <1>4, <1>5, <1>6 DEF Promise!Lose, Promise!Reports, Reports

\* A step that leaves the list and its copies alone leaves what Rollback
\* knows of them alone.
LEMMA SameKept ==
  ASSUME UNCHANGED <<checkpoints, blobs, files>>
  PROVE  Kept' = Kept /\ Stray' = Stray
BY DEF Kept, Stray, Blob

\* What can be loaded is a copy Rollback knows of, listed or not.
LEMMA LoadableIsCopy ==
  ASSUME IInv, NEW i \in Ids, Loadable(i)
  PROVE  \/ \E k \in DOMAIN Kept : Kept[k].id = i /\ Kept[k].state = Blob(i)
         \/ Stray[i] # None /\ Stray[i] = Blob(i)
<1>1. CASE Listed(checkpoints, i)
  BY <1>1 DEF Listed, Kept
<1>2. CASE ~Listed(checkpoints, i)
  <2>1. ~OnDisk(checkpoints, i)
    BY <1>2 DEF Listed, OnDisk
  <2> QED
    BY <1>2, <2>1 DEF Loadable, Blob, Stray
<1> QED
  BY <1>1, <1>2

\* A restore that succeeds brings back what Rollback says.
LEMMA RestoreIsRestore ==
  ASSUME IInv, NEW call \in {"restore", "restore_latest"}, NEW i \in Ids, Restore(call, i)
  PROVE  Promise!Restore(i) \/ Promise!RestoreLatest
<1>1. /\ Loadable(i) /\ live' = Blob(i) /\ Reports(call, TRUE) /\ Target(call, i)
      /\ Kept' = Kept /\ Stray' = Stray
  BY SameKept DEF Restore
<1>2. CASE call = "restore"
  BY <1>1, <1>2, LoadableIsCopy DEF Promise!Restore, Promise!Reports, Reports
<1>3. CASE call = "restore_latest"
  <2>1. checkpoints # <<>> /\ i = checkpoints[Len(checkpoints)].id
    BY <1>1, <1>3 DEF Target
  <2>2. checkpoints \in Seq(Entries)
    BY DEF IInv, TypeOK, Entries
  <2>3. Len(checkpoints) \in DOMAIN checkpoints /\ DOMAIN checkpoints = 1..Len(checkpoints)
        /\ Len(checkpoints) \in Nat
    BY <2>1, <2>2, EmptySeq, LenProperties
  <2>4. DOMAIN Kept = 1..Len(checkpoints) /\ Kept[Len(checkpoints)].state = Blob(i)
    BY <2>1, <2>3 DEF Kept
  <2>5. Len(Kept) = Len(checkpoints) /\ Kept # <<>>
    BY <2>3, <2>4
  <2> QED
    BY <1>1, <1>3, <2>4, <2>5 DEF Promise!RestoreLatest, Promise!Reports, Reports
<1> QED
  BY <1>2, <1>3

\* A restore that fails has brought back the model, or nothing.
LEMMA FailedRestoreIsFail ==
  ASSUME IInv, NEW call \in {"restore", "restore_latest"},
         (\E i \in Ids : RestoreRaises(call, i)) \/ RestoreFindsNothing(call)
  PROVE  Promise!Fail(call)
<1>1. Kept' = Kept /\ Stray' = Stray /\ Reports(call, FALSE)
  BY SameKept DEF RestoreRaises, RestoreFindsNothing
<1>2. \/ UNCHANGED live
      \/ \E copy \in Promise!Copies, P \in SUBSET Parts :
           live' = [part \in Parts |-> IF part \in P THEN copy[part] ELSE live[part]]
  <2>1. CASE RestoreFindsNothing(call)
    BY <2>1 DEF RestoreFindsNothing
  <2>2. ASSUME NEW i \in Ids, RestoreRaises(call, i), live' # live
        PROVE  \E copy \in Promise!Copies, P \in SUBSET Parts :
                 live' = [part \in Parts |-> IF part \in P THEN copy[part] ELSE live[part]]
    <3>1. Loadable(i) /\ live' = [live EXCEPT !["model"] = Blob(i)["model"]]
      BY <2>2 DEF RestoreRaises
    <3>2. Blob(i) \in Promise!Copies
      <4>1. CASE \E k \in DOMAIN Kept : Kept[k].id = i /\ Kept[k].state = Blob(i)
        BY <4>1 DEF Promise!Copies
      <4>2. CASE Stray[i] # None /\ Stray[i] = Blob(i)
        BY <4>2 DEF Promise!Copies
      <4> QED
        BY <3>1, <4>1, <4>2, LoadableIsCopy
    <3>3. live \in [Parts -> Values]
      BY DEF IInv, TypeOK, States
    <3>4. {"model"} \in SUBSET Parts
      BY DEF Parts
    <3>5. live' = [part \in Parts |-> IF part \in {"model"} THEN Blob(i)[part] ELSE live[part]]
      BY <3>1, <3>3
    <3> QED
      BY <3>2, <3>4, <3>5
  <2> QED
    BY <2>1, <2>2
<1> QED
  BY <1>1, <1>2 DEF Promise!Fail, Promise!Reports, Reports

\* An empty bridge keeps nothing.
LEMMA EmptyKeepsNothing ==
  ASSUME checkpoints = <<>>, blobs = [i \in Ids |-> None]
  PROVE  Kept = <<>> /\ Stray = [i \in Ids |-> None]
<1>1. DOMAIN Kept = {}
  BY DEF Kept
<1>2. Kept = <<>>
  BY <1>1 DEF Kept
<1> QED
  BY <1>2 DEF Stray, Listed

(***************************************************************************)
(* The dict, the blobs in memory and the files together keep the promise   *)
(* of Rollback: a restore answered with success has brought back what was  *)
(* live at the latest save of that id, and the last saves are the ones     *)
(* kept, whatever fails half way and whatever earlier processes left.      *)
(***************************************************************************)
THEOREM CheckpointsImplementRollback == Spec => ImplementsRollback
<1>1. Init => Promise!Init
  <2> SUFFICES ASSUME Init PROVE Promise!Init
    OBVIOUS
  <2>1. Kept = <<>> /\ Stray = [i \in Ids |-> None]
    BY EmptyKeepsNothing DEF Init
  <2> QED
    BY <2>1 DEF Init, Promise!Init, Promise!NoStray, Promise!States, States, Promise!Silent, Silent
<1>2. ASSUME IInv, [Next]_vars PROVE [Promise!Next]_(Promise!vars)
  <2>1. CASE Train
    <3>1. Promise!Train
      BY <2>1, SameKept DEF Train, Promise!Train, Promise!States, States, Promise!Silent, Silent
    <3> QED
      BY <3>1 DEF Promise!Next
  <2>2. ASSUME NEW i \in Ids, SaveInMemory(i) \/ SaveToDisk(i) \/ SaveDiskFails(i)
        PROVE  Promise!Next
    BY <1>2, <2>2, SaveIsSave DEF Promise!Next
  <2>3. ASSUME NEW i \in Ids, SaveRaises(i) \/ SaveRefused(i)
        PROVE  Promise!Next
    BY <1>2, <2>3, FailedSaveIsLose DEF Promise!Next
  <2>4. ASSUME NEW call \in {"restore", "restore_latest"}, NEW i \in Ids, Restore(call, i)
        PROVE  Promise!Next
    BY <1>2, <2>4, RestoreIsRestore DEF Promise!Next
  <2>5. ASSUME NEW call \in {"restore", "restore_latest"},
               (\E i \in Ids : RestoreRaises(call, i)) \/ RestoreFindsNothing(call)
        PROVE  Promise!Next
    BY <1>2, <2>5, FailedRestoreIsFail DEF Promise!Next
  <2>6. CASE ProcessRestarts
    <3>1. checkpoints' = <<>> /\ blobs' = [i \in Ids |-> None]
      BY <2>6 DEF ProcessRestarts
    <3>2. DOMAIN Kept' = {} /\ Kept' = <<>>
      BY <3>1 DEF Kept
    <3>3. Stray' = [i \in Ids |-> None]
      BY <3>1 DEF Stray, Listed
    <3>4. Promise!Restart
      BY <2>6, <3>2, <3>3
      DEF ProcessRestarts, Promise!Restart, Promise!NoStray, Promise!States, States, Promise!Silent, Silent
    <3> QED
      BY <3>4 DEF Promise!Next
  <2>7. CASE UNCHANGED vars
    BY <2>7, SameKept DEF vars, Promise!vars
  <2> QED
    BY <1>2, <2>1, <2>2, <2>3, <2>4, <2>5, <2>6, <2>7 DEF Next
<1> QED
  BY <1>1, <1>2, InductiveInvariant, PTL DEF Spec, ImplementsRollback, Promise!Spec
=============================================================================
