-------------------------- MODULE TelemetryProofs --------------------------
(***************************************************************************)
(* Theorems about Telemetry, for any samples and losses, any bounds of the *)
(* windows and lists, and any factors of the detector.                     *)
(***************************************************************************)
EXTENDS Telemetry, TLAPS, FiniteSetTheorems, SequenceTheorems

-----------------------------------------------------------------------------
(***************************************************************************)
(* Sequences and their elements.                                           *)
(***************************************************************************)

\* What a list holds that is empty, after an append, and after its head was
\* taken.
LEMMA RangeEmpty == Range(<<>>) = {}
BY DEF Range

LEMMA RangeAppend ==
  ASSUME NEW S, NEW s \in Seq(S), NEW x \in S
  PROVE  Range(Append(s, x)) = Range(s) \cup {x}
<1>1. /\ DOMAIN s = 1..Len(s) /\ Len(s) \in Nat
      /\ DOMAIN Append(s, x) = 1..(Len(s) + 1)
      /\ Append(s, x)[Len(s) + 1] = x
      /\ \A i \in 1..Len(s) : Append(s, x)[i] = s[i]
  BY AppendProperties, LenProperties
<1> QED
  BY <1>1 DEF Range

LEMMA RangeTail ==
  ASSUME NEW S, NEW s \in Seq(S), s # <<>>
  PROVE  Range(s) = {Head(s)} \cup Range(Tail(s))
<1>1. /\ DOMAIN s = 1..Len(s) /\ Len(s) \in Nat \ {0}
      /\ DOMAIN Tail(s) = 1..(Len(s) - 1)
      /\ Head(s) = s[1]
      /\ \A i \in 1..(Len(s) - 1) : Tail(s)[i] = s[i + 1]
  BY HeadTailProperties, LenProperties, EmptySeq
<1>2. ASSUME NEW i \in DOMAIN s
      PROVE  s[i] \in {Head(s)} \cup Range(Tail(s))
  <2>1. CASE i = 1
    BY <1>1, <2>1
  <2>2. CASE i # 1
    <3>1. i - 1 \in DOMAIN Tail(s) /\ Tail(s)[i - 1] = s[i]
      BY <1>1, <2>2
    <3> QED
      BY <3>1 DEF Range
  <2> QED
    BY <2>1, <2>2
<1>3. ASSUME NEW i \in DOMAIN Tail(s)
      PROVE  Tail(s)[i] \in Range(s)
  BY <1>1 DEF Range
<1>4. Head(s) \in Range(s)
  BY <1>1 DEF Range
<1> QED
  BY <1>2, <1>3, <1>4 DEF Range

\* A list cut to its last n elements holds them, at the end of its places.
LEMMA LastOfProperties ==
  ASSUME NEW S, NEW s \in Seq(S), NEW n \in Nat
  PROVE  /\ LastOf(s, n) \in Seq(S)
         /\ Len(LastOf(s, n)) = IF Len(s) <= n THEN Len(s) ELSE n
         /\ \A i \in 1..Len(LastOf(s, n)) :
              LastOf(s, n)[i] = s[Len(s) - Len(LastOf(s, n)) + i]
         /\ Range(LastOf(s, n)) \subseteq Range(s)
<1>0. Len(s) \in Nat /\ DOMAIN s = 1..Len(s)
  BY LenProperties
<1>1. CASE Len(s) <= n
  BY <1>0, <1>1 DEF LastOf
<1>2. CASE Len(s) > n
  <2> DEFINE m == Len(s) - n + 1
             t == SubSeq(s, m, Len(s))
  <2>1. /\ t \in Seq(S) /\ Len(t) = n
        /\ \A i \in 1..n : t[i] = s[m + i - 1] /\ m + i - 1 \in DOMAIN s
    BY <1>0, <1>2, SubSeqProperties
  <2>2. LastOf(s, n) = t /\ DOMAIN t = 1..n
    BY <1>0, <1>2, <2>1, LenProperties DEF LastOf
  <2>3. \A i \in 1..n : t[i] = s[Len(s) - n + i] /\ Len(s) - n + i \in DOMAIN s
    BY <1>0, <1>2, <2>1
  <2> HIDE DEF t
  <2>4. Range(t) \subseteq Range(s)
    BY <2>2, <2>3 DEF Range
  <2>5. \A i \in 1..Len(t) : t[i] = s[Len(s) - Len(t) + i]
    BY <2>1, <2>3
  <2>6. t \in Seq(S) /\ Len(t) = IF Len(s) <= n THEN Len(s) ELSE n
    <3>1. ~(Len(s) <= n)
      BY <1>0, <1>2
    <3> QED
      BY <2>1, <3>1, Zenon
  <2>7. LastOf(s, n) = t
    BY <2>2
  <2> QED
    BY <2>4, <2>5, <2>6, <2>7, Zenon
<1> QED
  BY <1>0, <1>1, <1>2

-----------------------------------------------------------------------------
(***************************************************************************)
(* The median.                                                             *)
(***************************************************************************)

\* Among finitely many numbers there is a largest.
LEMMA Largest ==
  ASSUME NEW L, IsFiniteSet(L), L # {}, NEW f, \A i \in L : f[i] \in Int
  PROVE  \E j \in L : \A i \in L : f[i] <= f[j]
<1> DEFINE Above(j) == {i \in L : f[i] > f[j]}
           T == {Above(j) : j \in L}
<1>1. T \subseteq FiniteSubsetsOf(L) /\ T # {}
  <2>1. \A j \in L : Above(j) \in SUBSET L /\ IsFiniteSet(Above(j))
    BY FS_Subset
  <2> QED
    BY <2>1 DEF FiniteSubsetsOf
<1>2. IsWellFoundedOn(StrictSubsetOrdering(L), FiniteSubsetsOf(L))
  BY FS_StrictSubsetOrderingWellFounded
<1>3. PICK A \in T : \A B \in T : ~(<<B, A>> \in StrictSubsetOrdering(L))
  <2> HIDE DEF T
  <2> QED
    BY <1>1, <1>2, WFMin
<1>4. PICK j \in L : A = Above(j)
  OBVIOUS
<1>5. Above(j) = {}
  <2> SUFFICES ASSUME NEW i \in Above(j) PROVE FALSE
    OBVIOUS
  <2>1. Above(i) \subseteq Above(j) /\ i \notin Above(i)
    OBVIOUS
  <2>2. <<Above(i), A>> \in StrictSubsetOrdering(L)
    BY <1>4, <2>1 DEF StrictSubsetOrdering
  <2> QED
    BY <1>3, <2>2
<1> QED
  BY <1>5

\* ... and a smallest.
LEMMA Smallest ==
  ASSUME NEW L, IsFiniteSet(L), L # {}, NEW f, \A i \in L : f[i] \in Int
  PROVE  \E j \in L : \A i \in L : f[j] <= f[i]
<1> DEFINE g == [i \in L |-> 0 - f[i]]
<1>1. \A i \in L : g[i] \in Int /\ g[i] = 0 - f[i]
  OBVIOUS
<1> HIDE DEF g
<1>2. PICK j \in L : \A i \in L : g[i] <= g[j]
  BY <1>1, Largest
<1> QED
  BY <1>1, <1>2

\* A sequence of numbers has a k-th smallest.
LEMMA RankedIsThere ==
  ASSUME NEW s \in Seq(Int), NEW k \in 1..Len(s)
  PROVE  Ranked(s, k) \in Int /\ Ranked(s, k) \in Range(s)
<1> DEFINE Less(x) == {i \in DOMAIN s : s[i] < x}
           UpTo(x) == {i \in DOMAIN s : s[i] <= x}
           Enough  == {j \in DOMAIN s : Cardinality(UpTo(s[j])) >= k}
<1>0. /\ DOMAIN s = 1..Len(s) /\ Len(s) \in Nat
      /\ \A i \in DOMAIN s : s[i] \in Int
  BY LenProperties
<1>1. IsFiniteSet(DOMAIN s) /\ Cardinality(DOMAIN s) = Len(s) /\ DOMAIN s # {}
  <2>1. 1 \in DOMAIN s
    BY <1>0
  <2>2. \A m \in Nat : IsFiniteSet(1..m) /\ Cardinality(1..m) = m
    BY FS_Interval
  <2> QED
    BY <1>0, <2>1, <2>2
<1>2. \A x : /\ IsFiniteSet(Less(x)) /\ Cardinality(Less(x)) \in Nat
             /\ IsFiniteSet(UpTo(x)) /\ Cardinality(UpTo(x)) \in Nat
  BY <1>1, FS_Subset, FS_CardinalityType
<1>3. \A x : /\ Less(x) = {i \in DOMAIN s : s[i] < x}
             /\ UpTo(x) = {i \in DOMAIN s : s[i] <= x}
  OBVIOUS
<1> HIDE DEF Less, UpTo
<1>4. Enough # {}
  <2>1. PICK j \in DOMAIN s : \A i \in DOMAIN s : s[i] <= s[j]
    BY <1>0, <1>1, Largest
  <2>2. UpTo(s[j]) = DOMAIN s
    BY <1>3, <2>1
  <2>3. j \in Enough
    BY <1>0, <1>1, <2>2
  <2> QED
    BY <2>3
<1>5. PICK j \in Enough : \A i \in Enough : s[j] <= s[i]
  <2>1. Enough \subseteq DOMAIN s
    OBVIOUS
  <2> HIDE DEF Enough
  <2>2. IsFiniteSet(Enough)
    BY <1>1, <2>1, FS_Subset
  <2> QED
    BY <1>0, <1>4, <2>1, <2>2, Smallest
<1>6. Cardinality(Less(s[j])) < k
  <2> SUFFICES ASSUME ~(Cardinality(Less(s[j])) < k) PROVE FALSE
    OBVIOUS
  <2>0. Cardinality(Less(s[j])) >= k /\ Cardinality(Less(s[j])) \in Nat
    BY <1>0, <1>2
  <2>1. Less(s[j]) # {}
    <3>1. Cardinality({}) = 0
      BY FS_EmptySet
    <3>2. Cardinality(Less(s[j])) # 0
      BY <1>0, <2>0
    <3> QED
      BY <3>1, <3>2
  <2>2. PICK i \in Less(s[j]) : \A h \in Less(s[j]) : s[h] <= s[i]
    BY <1>0, <1>2, <1>3, <2>1, Largest
  <2>3. Less(s[j]) \subseteq UpTo(s[i]) /\ i \in DOMAIN s /\ s[i] < s[j]
    BY <1>3, <2>2
  <2>4. Cardinality(Less(s[j])) <= Cardinality(UpTo(s[i]))
    BY <1>2, <2>3, FS_Subset
  <2>5. i \in Enough
    BY <1>2, <2>0, <2>3, <2>4
  <2> QED
    BY <1>0, <1>5, <2>3, <2>5
<1>7. s[j] \in Range(s) /\ Cardinality(UpTo(s[j])) >= k
  BY DEF Range
<1>8. Ranked(s, k) \in Range(s)
  BY <1>3, <1>6, <1>7 DEF Ranked
<1> QED
  BY <1>0, <1>8 DEF Range

-----------------------------------------------------------------------------
(***************************************************************************)
(* The invariant.                                                          *)
(***************************************************************************)

ThreadPlaces ==
  [trainer : {"train", "push", "drain", "update", "flag", "call", "ended"},
   poller : {"poll", "update", "flag", "off"}]

\* The lists are lists: TypeOK speaks of their elements only.
Lists ==
  /\ pc \in ThreadPlaces
  /\ detector = [grads |-> detector.grads, losses |-> detector.losses, best |-> detector.best]
  /\ detector.grads \in Seq(Nat)
  /\ anomalies \in Seq(Nat)
  /\ pendingFlags \in Seq(SUBSET Samples)
  /\ toCall \in Seq(SUBSET Samples)

\* The list a holds the latest of e numbers, at most n.
Latest(a, e, n) ==
  /\ Len(a) <= n
  /\ Len(a) = n \/ Len(a) = e
  /\ \A i \in 1..Len(a) : a[i] = e - Len(a) + i

\* The anomalies the bridge remembers are the latest.
AnomaliesAreConsecutive == Latest(anomalies, events, MaxAnomalies)

\* What was reported as an explosion would be one still.
ExplosionStands ==
  reported.kind = "grad_explosion" =>
    reported.grad \in Nat /\ Explodes(detector, reported.grad)

\* What a handler found flagged stays flagged.  Lists are taken from the
\* queue only to be passed on, and once the poller has stopped in time
\* nothing is queued behind the last of them.
HandlersEnd ==
  /\ \A t \in Threads : before[t] \subseteq flagged
  /\ toCall # <<>> => pc["trainer"] = "call"
  /\ pc["trainer"] = "ended" => ending
  /\ joined => ending /\ pc["poller"] = "off"
  /\ joined /\ pc["trainer"] \in {"call", "ended"} => pendingFlags = <<>>

IInv ==
  /\ TypeOK
  /\ Lists
  /\ SuspectsAreWorst
  /\ AnomaliesAreConsecutive
  /\ AnomaliesAreLatest
  /\ ExplosionStands
  /\ HandlersEnd
  /\ FlagsReachCallback

\* What is assumed of the configuration.
LEMMA ConfigTypes ==
  ASSUME config \in Configurations
  PROVE  /\ config.topk \in Nat /\ config.events \in Nat /\ config.flags \in Nat
         /\ config.losses \ {NaN} \subseteq Int /\ config.grads \ {NaN, None} \subseteq Nat
BY ConfigurationsAssumption

-----------------------------------------------------------------------------
(***************************************************************************)
(* What a node reports: suspects, anomalies and verdicts.  TypeOK is       *)
(* taken in two halves, one for this and one for the flags.                *)
(***************************************************************************)

ReportTypes ==
  /\ susp \in Windows /\ Cardinality(DOMAIN susp) <= config.topk
  /\ worst \in [Samples -> Losses \cup {0}]
  /\ Range(detector.grads) \subseteq config.grads \ {NaN, None}
  /\ Len(detector.grads) <= Window /\ detector.losses \in 0..Window
  /\ detector.best \in (config.losses \ {NaN}) \cup {None}
  /\ events \in 0..config.events
  /\ Numbers(anomalies) /\ Len(anomalies) <= MaxAnomalies
  /\ latest # None => latest.samples \in Windows /\ Numbers(latest.anomalies)

ReportLists ==
  /\ detector = [grads |-> detector.grads, losses |-> detector.losses, best |-> detector.best]
  /\ detector.grads \in Seq(Nat)
  /\ anomalies \in Seq(Nat)

HandlerTypes ==
  /\ {mirrored, ending, joined} \subseteq BOOLEAN
  /\ pc \in ThreadPlaces
  /\ flagsLeft \in 0..config.flags
  /\ indices \in [Threads -> SUBSET Samples]
  /\ before \in [Threads -> SUBSET Samples]
  /\ pendingFlags \in Seq(SUBSET Samples)
  /\ toCall \in Seq(SUBSET Samples)
  /\ UNION (Range(pendingFlags) \cup Range(toCall)) \subseteq flagged
  /\ called \cup dropped \subseteq flagged /\ flagged \subseteq Samples

LEMMA TwoHalves ==
  TypeOK /\ Lists <=> config \in Configurations /\ ReportTypes /\ ReportLists /\ HandlerTypes
<1>1. pc \in ThreadPlaces =>
        /\ pc["trainer"] \in {"train", "push", "drain", "update", "flag", "call", "ended"}
        /\ pc["poller"] \in {"poll", "update", "flag", "off"}
  BY DEF ThreadPlaces
<1> QED
  BY <1>1, Zenon DEF TypeOK, Lists, ReportTypes, ReportLists, HandlerTypes

-----------------------------------------------------------------------------
(***************************************************************************)
(* The window of suspects.                                                 *)
(***************************************************************************)

\* A window is a function on samples, and finite.
LEMMA WindowProperties ==
  ASSUME NEW w \in Windows
  PROVE  /\ DOMAIN w \subseteq Samples /\ w \in [DOMAIN w -> Losses]
         /\ IsFiniteSet(DOMAIN w) /\ Cardinality(DOMAIN w) \in Nat
         /\ \A i \in DOMAIN w : w[i] \in Nat \ {0} /\ w[i] \in Losses
<1>1. PICK S \in SUBSET Samples : w \in [S -> Losses]
  BY DEF Windows
<1>2. IsFiniteSet(S) /\ Cardinality(S) \in Nat
  BY SamplesAssumption, FS_Subset, FS_CardinalityType
<1> QED
  BY <1>1, <1>2, LossesAssumption

\* What Top keeps: all of a small window; of a large one k entries, the
\* highest.
LEMMA TopProperties ==
  ASSUME NEW m \in Windows, NEW k \in Nat, NEW t \in Top(m, k)
  PROVE  /\ t \in Windows
         /\ DOMAIN t \subseteq DOMAIN m
         /\ \A i \in DOMAIN t : t[i] = m[i]
         /\ Cardinality(DOMAIN t) <= k
         /\ Cardinality(DOMAIN m) >= k => Cardinality(DOMAIN t) = k
         /\ \A j \in DOMAIN m \ DOMAIN t :
              /\ Cardinality(DOMAIN t) = k
              /\ \A i \in DOMAIN t : m[i] >= m[j]
<1>1. /\ DOMAIN m \subseteq Samples /\ m \in [DOMAIN m -> Losses]
      /\ Cardinality(DOMAIN m) \in Nat
  BY WindowProperties
<1>2. CASE Cardinality(DOMAIN m) <= k
  <2>1. t = m
    BY <1>2 DEF Top
  <2> QED
    BY <1>1, <1>2, <2>1
<1>3. CASE ~(Cardinality(DOMAIN m) <= k)
  <2>1. PICK S \in SUBSET DOMAIN m : /\ t = Restrict(m, S)
                                     /\ Cardinality(S) = k
                                     /\ \A i \in S, j \in DOMAIN m \ S : m[i] >= m[j]
    BY <1>3 DEF Top
  <2>2. DOMAIN t = S /\ (\A i \in S : t[i] = m[i]) /\ t \in [S -> Losses]
    BY <1>1, <2>1 DEF Restrict
  <2>3. t \in Windows
    BY <1>1, <2>2 DEF Windows
  <2> QED
    BY <2>1, <2>2, <2>3
<1> QED
  BY <1>2, <1>3

\* An entry that is new in a full window has displaced one that was there.
LEMMA Displaced ==
  ASSUME NEW m \in Windows, NEW k \in Nat, NEW t \in Top(m, k),
         NEW D \in SUBSET DOMAIN m, Cardinality(D) = k, NEW i \in DOMAIN t \ D
  PROVE  \E d \in D : m[i] >= m[d]
<1>1. /\ IsFiniteSet(DOMAIN m) /\ Cardinality(DOMAIN m) \in Nat
      /\ IsFiniteSet(DOMAIN t)
  BY WindowProperties, TopProperties
<1>2. Cardinality(DOMAIN t) <= k
  BY TopProperties
<1>3. ~(D \subseteq DOMAIN t)
  <2> SUFFICES ASSUME D \subseteq DOMAIN t PROVE FALSE
    OBVIOUS
  <2>1. Cardinality(D) <= Cardinality(DOMAIN t) /\ Cardinality(DOMAIN t) \in Nat
        /\ (Cardinality(DOMAIN t) = Cardinality(D) => DOMAIN t = D)
    BY <1>1, FS_Subset, FS_CardinalityType
  <2> QED
    BY <1>2, <2>1
<1>4. PICK d \in D : d \notin DOMAIN t
  BY <1>3
<1> QED
  BY <1>4, TopProperties

\* What a batch makes of the window and of the worst losses.
LEMMA MergedProperties ==
  ASSUME config \in Configurations, ReportTypes, NEW b \in Batches, config.topk > 0
  PROVE  /\ Merged(susp, b) \in Windows
         /\ DOMAIN Merged(susp, b) = DOMAIN susp \cup Finite(b)
         /\ Finite(b) \subseteq Samples
         /\ \A i \in Finite(b) : b[i] \in Losses
         /\ \A i \in DOMAIN susp : Merged(susp, b)[i] >= susp[i]
         /\ \A i \in DOMAIN susp :
              Merged(susp, b)[i] = IF i \in Finite(b) THEN Larger(b[i], susp[i]) ELSE susp[i]
         /\ \A i \in Finite(b) \ DOMAIN susp : Merged(susp, b)[i] = b[i]
<1> DEFINE m == Merged(susp, b)
<1>1. PICK S \in SUBSET Samples : b \in [S -> Losses \cup {NaN}]
  BY ConfigTypes DEF Batches
<1>2. Finite(b) \subseteq Samples /\ \A i \in Finite(b) : b[i] \in Losses
  BY <1>1 DEF Finite
<1>3. DOMAIN susp \subseteq Samples /\ \A i \in DOMAIN susp : susp[i] \in Losses
  BY WindowProperties DEF ReportTypes
<1>4. /\ DOMAIN m = DOMAIN susp \cup Finite(b)
      /\ \A i \in DOMAIN susp : m[i] = IF i \in Finite(b) THEN Larger(b[i], susp[i]) ELSE susp[i]
      /\ \A i \in Finite(b) \ DOMAIN susp : m[i] = b[i]
  BY DEF Merged
<1>5. \A x, y \in Losses : Larger(x, y) \in Losses /\ Larger(x, y) >= y
  BY LossesAssumption DEF Larger
<1>6. \A i \in DOMAIN m : m[i] \in Losses
  BY <1>2, <1>3, <1>4, <1>5
<1>7. m = [i \in DOMAIN m |-> m[i]]
  BY DEF Merged
<1>8. m \in Windows
  <2> HIDE DEF m
  <2>1. m \in [DOMAIN m -> Losses] /\ DOMAIN m \in SUBSET Samples
    BY <1>2, <1>3, <1>4, <1>6, <1>7
  <2> QED
    BY <2>1 DEF Windows
<1>9. \A i \in DOMAIN susp : m[i] >= susp[i]
  <2> SUFFICES ASSUME NEW i \in DOMAIN susp PROVE m[i] >= susp[i]
    OBVIOUS
  <2> HIDE DEF m
  <2>1. CASE i \in Finite(b)
    BY <1>2, <1>3, <1>4, <1>5, <2>1
  <2>2. CASE i \notin Finite(b)
    <3>1. susp[i] \in Nat /\ m[i] = susp[i]
      BY <1>3, <1>4, <2>2, LossesAssumption
    <3> QED
      BY <3>1
  <2> QED
    BY <2>1, <2>2
<1> QED
  BY <1>2, <1>4, <1>8, <1>9

\* The window after a batch holds the worst samples: one that had been
\* forgotten and comes back with a lower loss does not get in again.
LEMMA BatchKeepsWorst ==
  ASSUME config \in Configurations, ReportTypes, SuspectsAreWorst,
         NEW b \in Batches, TrackSuspiciousLosses(b), config' = config
  PROVE  /\ SuspectsAreWorst'
         /\ susp' \in Windows /\ Cardinality(DOMAIN susp') <= config.topk
         /\ worst' \in [Samples -> Losses \cup {0}]
<1>0. /\ config.topk \in Nat /\ susp \in Windows /\ Cardinality(DOMAIN susp) <= config.topk
      /\ worst \in [Samples -> Losses \cup {0}]
      /\ DOMAIN susp \subseteq Samples
      /\ \A i \in Samples : worst[i] \in Nat
  BY ConfigTypes, WindowProperties, LossesAssumption DEF ReportTypes
<1>1. CASE config.topk = 0
  BY <1>0, <1>1 DEF TrackSuspiciousLosses, SuspectsAreWorst, suspectVars
<1>2. CASE config.topk > 0
  <2> DEFINE m == Merged(susp, b)
             D == DOMAIN susp
             F == Finite(b)
             T == DOMAIN susp'
             k == config.topk
  <2>1. /\ susp' \in Top(m, k)
        /\ worst' = [i \in Samples |-> IF i \in F THEN Larger(b[i], worst[i]) ELSE worst[i]]
    BY <1>2 DEF TrackSuspiciousLosses
  <2>2. /\ m \in Windows /\ DOMAIN m = D \cup F /\ F \subseteq Samples
        /\ \A i \in F : b[i] \in Losses /\ b[i] \in Nat
        /\ \A i \in D : m[i] >= susp[i] /\ susp[i] \in Nat
        /\ \A i \in D : m[i] = IF i \in F THEN Larger(b[i], susp[i]) ELSE susp[i]
        /\ \A i \in F \ D : m[i] = b[i]
        /\ \A i \in DOMAIN m : m[i] \in Nat
    BY <1>0, <1>2, MergedProperties, WindowProperties, LossesAssumption
  <2>3. /\ susp' \in Windows /\ T \subseteq DOMAIN m
        /\ \A i \in T : susp'[i] = m[i]
        /\ Cardinality(T) <= k
        /\ Cardinality(DOMAIN m) >= k => Cardinality(T) = k
        /\ \A j \in DOMAIN m \ T : Cardinality(T) = k /\ \A i \in T : m[i] >= m[j]
    BY <1>0, <2>1, <2>2, TopProperties
  <2>4. ASSUME NEW i \in T \ D, Cardinality(D) = k
        PROVE  \E d \in D : m[i] >= m[d]
    BY <1>0, <2>1, <2>2, <2>4, Displaced
  <2>5. \A i \in Samples : /\ worst'[i] = IF i \in F THEN Larger(b[i], worst[i]) ELSE worst[i]
                           /\ worst'[i] \in Nat
    BY <1>0, <2>1, <2>2 DEF Larger
  <2>6. worst' \in [Samples -> Losses \cup {0}]
    BY <1>0, <2>1, <2>2 DEF Larger
  <2>7. \A i \in D : susp[i] = worst[i]
    BY <1>2 DEF SuspectsAreWorst
  <2>8. ASSUME NEW j \in Samples \ D, worst[j] > 0
        PROVE  Cardinality(D) = k /\ \A i \in D : susp[i] >= worst[j]
    BY <1>2, <2>8 DEF SuspectsAreWorst
  <2> HIDE DEF m, D, F, T, k
  \* What was forgotten is no worse than anything in the new window.
  <2>9. ASSUME NEW j \in Samples \ D, worst[j] > 0, NEW i \in T
        PROVE  m[i] >= worst[j]
    <3>1. Cardinality(D) = k /\ \A d \in D : m[d] >= worst[j]
      BY <1>0, <2>2, <2>8, <2>9
    <3>2. CASE i \in D
      BY <3>1, <3>2
    <3>3. CASE i \notin D
      <4>1. PICK d \in D : m[i] >= m[d]
        BY <2>4, <2>9, <3>1, <3>3
      <4>2. m[d] >= worst[j] /\ m[i] \in Nat /\ m[d] \in Nat /\ worst[j] \in Nat
        BY <1>0, <2>2, <2>3, <2>9, <3>1, <4>1
      <4> QED
        BY <4>1, <4>2
    <3> QED
      BY <3>2, <3>3
  <2>10. ASSUME NEW i \in T
         PROVE  susp'[i] = worst'[i]
    <3>1. i \in Samples /\ i \in DOMAIN m /\ susp'[i] = m[i]
      BY <1>0, <2>2, <2>3, <2>10 DEF D
    <3>2. CASE i \in D
      BY <2>2, <2>5, <2>7, <3>1, <3>2
    <3>3. CASE i \notin D
      <4>1. i \in F /\ m[i] = b[i] /\ worst'[i] = Larger(b[i], worst[i])
        BY <2>2, <2>5, <3>1, <3>3
      <4>2. ~(worst[i] > b[i])
        BY <1>0, <2>2, <2>9, <2>10, <3>1, <3>3, <4>1
      <4> QED
        BY <1>0, <2>2, <3>1, <4>1, <4>2 DEF Larger
    <3> QED
      BY <3>2, <3>3
  <2>11. ASSUME NEW j \in Samples \ T, worst'[j] > 0
         PROVE  Cardinality(T) = k /\ \A i \in T : susp'[i] >= worst'[j]
    <3>1. CASE j \in DOMAIN m /\ m[j] = worst'[j]
      BY <2>3, <2>11, <3>1
    <3>2. CASE ~(j \in DOMAIN m /\ m[j] = worst'[j])
      <4>1. j \notin D
        BY <2>2, <2>5, <2>7, <2>11, <3>2
      <4>2. worst'[j] = worst[j]
        BY <1>0, <2>2, <2>5, <2>11, <3>2, <4>1 DEF Larger
      <4>3. Cardinality(D) = k
        BY <2>8, <2>11, <4>1, <4>2
      <4>4. Cardinality(DOMAIN m) >= k
        <5>1. IsFiniteSet(DOMAIN m) /\ Cardinality(DOMAIN m) \in Nat
          BY <2>2, WindowProperties
        <5>2. Cardinality(D) <= Cardinality(DOMAIN m)
          BY <2>2, <5>1, FS_Subset
        <5> QED
          BY <1>0, <4>3, <5>1, <5>2 DEF k
      <4> QED
        BY <2>3, <2>9, <2>11, <4>1, <4>2, <4>4
    <3> QED
      BY <3>1, <3>2
  <2>12. SuspectsAreWorst'
    BY <2>10, <2>11 DEF SuspectsAreWorst, T, k
  <2> QED
    BY <2>3, <2>6, <2>12 DEF T, k
<1> QED
  BY <1>0, <1>1, <1>2
-----------------------------------------------------------------------------
ReportInv ==
  /\ config \in Configurations
  /\ ReportTypes
  /\ ReportLists
  /\ SuspectsAreWorst
  /\ AnomaliesAreConsecutive
  /\ AnomaliesAreLatest
  /\ ExplosionStands

\* Which steps change what is reported.
LEMMA ReportSteps ==
  ASSUME [Next]_vars
  PROVE  /\ config' = config
         /\ \/ \E b \in Batches, l \in config.losses, g \in config.grads : BatchEnd(b, l, g)
            \/ PushAcknowledged
            \/ PushFails
            \/ BrokerRestarts
            \/ RestoreCheckpoint
            \/ UNCHANGED <<susp, worst, detector, reported, events, anomalies, latest>>
<1>1. CASE Trainer
  BY <1>1 DEF Trainer, BatchEnd, EpochEnd, TrainEnd, PushAcknowledged, PushFails, PushOver,
              RestoreCheckpoint, Flush, CallbackReturns, CallbackRaises, FlushEnds, reportVars, suspectVars,
              anomalyVars, threadVars
<1>2. CASE \E t \in Threads : FlagSamples(t)
  BY <1>2 DEF FlagSamples, FlagBegins, FlagUpdates, FlagQueues, reportVars, suspectVars, anomalyVars
<1>3. CASE PollerStops
  BY <1>3 DEF PollerStops, reportVars, suspectVars, anomalyVars
<1>4. CASE BrokerRestarts
  BY <1>4 DEF BrokerRestarts, threadVars
<1>5. CASE UNCHANGED vars
  BY <1>5 DEF vars, reportVars, suspectVars, anomalyVars, threadVars
<1> QED
  BY <1>1, <1>2, <1>3, <1>4, <1>5 DEF Next

\* What the detector has learned after a batch in which nothing was wrong.
LEMMA LearnedProperties ==
  ASSUME config \in Configurations, ReportTypes, ReportLists,
         NEW loss \in config.losses \ {NaN}, NEW grad \in config.grads \ {NaN},
         NEW d, d = Learned(detector, loss, grad)
  PROVE  /\ d = [grads |-> d.grads, losses |-> d.losses, best |-> d.best]
         /\ d.grads \in Seq(Nat)
         /\ Range(d.grads) \subseteq config.grads \ {NaN, None}
         /\ Len(d.grads) <= Window
         /\ d.losses \in 0..Window
         /\ d.best \in (config.losses \ {NaN}) \cup {None}
<1>1. /\ d = [grads |-> d.grads, losses |-> d.losses, best |-> d.best]
      /\ d.grads = IF grad = None THEN detector.grads
                   ELSE LastOf(Append(detector.grads, grad), Window)
      /\ d.losses = IF detector.losses < Window THEN detector.losses + 1 ELSE Window
      /\ d.best \in {loss, detector.best}
  BY DEF Learned
<1>2. d.losses \in 0..Window /\ d.best \in (config.losses \ {NaN}) \cup {None}
  BY <1>1, DetectorAssumption DEF ReportTypes
<1>3. CASE grad = None
  BY <1>1, <1>2, <1>3 DEF ReportTypes, ReportLists
<1>4. CASE grad # None
  <2> DEFINE s == Append(detector.grads, grad)
  <2>1. grad \in Nat /\ s \in Seq(Nat) /\ Range(s) = Range(detector.grads) \cup {grad}
    <3>1. grad \in Nat /\ detector.grads \in Seq(Nat)
      BY <1>4, ConfigTypes DEF ReportLists
    <3> QED
      BY <3>1, RangeAppend, AppendProperties
  <2>2. d.grads = LastOf(s, Window) /\ Window \in Nat
    BY <1>1, <1>4, DetectorAssumption
  <2> HIDE DEF s
  <2>3. Len(s) \in Nat
    BY <2>1, LenProperties
  <2>4. d.grads \in Seq(Nat) /\ Len(d.grads) <= Window /\ Range(d.grads) \subseteq Range(s)
    BY <2>1, <2>2, <2>3, LastOfProperties
  <2>5. Range(d.grads) \subseteq config.grads \ {NaN, None}
    BY <1>4, <2>1, <2>4 DEF ReportTypes
  <2> QED
    BY <1>1, <1>2, <2>4, <2>5
<1> QED
  BY <1>3, <1>4

\* One more element keeps a cut list of consecutive numbers consecutive.
LEMMA AppendConsecutive ==
  ASSUME NEW a \in Seq(Nat), NEW e \in Nat, NEW n \in Nat \ {0}, Latest(a, e, n)
  PROVE  /\ LastOf(Append(a, e + 1), n) \in Seq(Nat)
         /\ Latest(LastOf(Append(a, e + 1), n), e + 1, n)
         /\ Range(LastOf(Append(a, e + 1), n)) \subseteq Range(a) \cup {e + 1}
<1> DEFINE s == Append(a, e + 1)
           t == LastOf(s, n)
<1>1. /\ s \in Seq(Nat) /\ Len(s) = Len(a) + 1 /\ Len(a) \in Nat
      /\ s[Len(a) + 1] = e + 1
      /\ \A i \in 1..Len(a) : s[i] = a[i]
  BY AppendProperties, LenProperties
<1>2. Range(s) = Range(a) \cup {e + 1}
  <2>1. e + 1 \in Nat
    OBVIOUS
  <2> QED
    BY <2>1, RangeAppend
<1> HIDE DEF s
<1>3. ASSUME NEW i \in 1..Len(s)
      PROVE  s[i] = e + 1 - Len(s) + i
  <2>1. CASE i = Len(a) + 1
    BY <1>1, <2>1
  <2>2. CASE i # Len(a) + 1
    <3>1. i \in 1..Len(a)
      BY <1>1, <2>2
    <3>2. s[i] = e - Len(a) + i
      BY <1>1, <3>1 DEF Latest
    <3> QED
      BY <1>1, <3>2
  <2> QED
    BY <2>1, <2>2
<1>4. /\ t \in Seq(Nat)
      /\ Len(t) = IF Len(s) <= n THEN Len(s) ELSE n
      /\ \A i \in 1..Len(t) : t[i] = s[Len(s) - Len(t) + i]
      /\ Range(t) \subseteq Range(s)
  BY <1>1, LastOfProperties
<1> HIDE DEF t
<1>5. Len(t) \in Nat /\ Len(t) <= n /\ Len(t) <= Len(s) /\ (Len(t) = n \/ Len(t) = e + 1)
  BY <1>1, <1>4 DEF Latest
<1>6. ASSUME NEW i \in 1..Len(t)
      PROVE  t[i] = e + 1 - Len(t) + i
  <2>1. Len(s) - Len(t) + i \in 1..Len(s)
    BY <1>1, <1>5
  <2>2. t[i] = e + 1 - Len(s) + (Len(s) - Len(t) + i)
    BY <1>3, <1>4, <2>1
  <2> QED
    BY <1>1, <1>5, <2>2
<1>7. Latest(t, e + 1, n)
  BY <1>5, <1>6 DEF Latest
<1> QED
  BY <1>2, <1>4, <1>7 DEF t, s

\* Recording one more anomaly keeps the list gapless.
LEMMA RecordKeepsLatest ==
  ASSUME config \in Configurations, ReportTypes, ReportLists, AnomaliesAreConsecutive,
         RecordAnomaly, config' = config
  PROVE  /\ events' \in 0..config.events
         /\ anomalies' \in Seq(Nat) /\ Len(anomalies') <= MaxAnomalies
         /\ Numbers(anomalies)'
         /\ AnomaliesAreConsecutive'
<1>1. /\ config.events \in Nat /\ events \in Nat /\ events < config.events
      /\ events' = events + 1 /\ MaxAnomalies \in Nat \ {0}
      /\ anomalies' = LastOf(Append(anomalies, events + 1), MaxAnomalies)
      /\ anomalies \in Seq(Nat)
  BY ConfigTypes, SamplesAssumption DEF ReportTypes, ReportLists, RecordAnomaly
<1>2. /\ anomalies' \in Seq(Nat)
      /\ Latest(anomalies', events', MaxAnomalies)
      /\ Range(anomalies') \subseteq Range(anomalies) \cup {events + 1}
  BY <1>1, AppendConsecutive DEF AnomaliesAreConsecutive
<1>3. Range(anomalies) \cup {events + 1} \subseteq 1..config.events
  BY <1>1 DEF ReportTypes, Numbers, Range
<1>4. Numbers(anomalies')
  BY <1>2, <1>3 DEF Numbers, Range
<1> QED
  BY <1>1, <1>2, <1>4 DEF AnomaliesAreConsecutive, Latest, Numbers
\* Twice the median of a list of numbers is a number.
LEMMA MedianIsThere ==
  ASSUME NEW s \in Seq(Nat), s # <<>>
  PROVE  TwiceMedian(s) \in Int
<1>1. s \in Seq(Int) /\ Len(s) \in Nat \ {0}
  BY LenProperties, EmptySeq
<1>2. (Len(s) + 1) \div 2 \in 1..Len(s) /\ Len(s) \div 2 + 1 \in 1..Len(s)
  BY <1>1
<1>3. Ranked(s, (Len(s) + 1) \div 2) \in Int /\ Ranked(s, Len(s) \div 2 + 1) \in Int
  BY <1>1, <1>2, RankedIsThere
<1> QED
  BY <1>3 DEF TwiceMedian

\* A norm as large as one that explodes, or larger, explodes.
LEMMA LargerExplodes ==
  ASSUME NEW d, d.grads \in Seq(Nat), NEW g \in Nat, Explodes(d, g),
         NEW h \in Nat, h # None, h >= g
  PROVE  Explodes(d, h)
<1>1. TwiceMedian(d.grads) \in Int
  BY MedianIsThere DEF Explodes
<1>2. GradFactor * TwiceMedian(d.grads) \in Int
  BY <1>1, DetectorAssumption
<1> DEFINE bar == GradFactor * TwiceMedian(d.grads)
<1>3. 2 * g > bar
  BY DEF Explodes
<1> HIDE DEF bar
<1>4. 2 * h > bar
  <2>1. bar \in Int
    BY <1>2 DEF bar
  <2> QED
    BY <1>3, <2>1
<1> QED
  BY <1>4 DEF Explodes, bar

\* The verdict that is reported, and what the detector makes of the batch.
LEMMA BatchVerdict ==
  ASSUME ReportInv, config' = config,
         NEW loss \in config.losses, NEW grad \in config.grads, Examine(loss, grad)
  PROVE  /\ Range(detector'.grads) \subseteq config.grads \ {NaN, None}
         /\ Len(detector'.grads) <= Window /\ detector'.losses \in 0..Window
         /\ detector'.best \in (config.losses \ {NaN}) \cup {None}
         /\ events' \in 0..config.events
         /\ Numbers(anomalies)' /\ Len(anomalies') <= MaxAnomalies
         /\ ReportLists'
         /\ AnomaliesAreConsecutive'
         /\ ExplosionStands'
<1> USE DEF ReportInv
<1>1. CASE Verdict(detector, loss, grad) = "healthy"
  <2>1. /\ detector' = Learned(detector, loss, grad) /\ reported' = Nothing
        /\ events' = events /\ anomalies' = anomalies
    BY <1>1 DEF Examine, Updated
  <2>2. loss # NaN /\ grad # NaN
    BY <1>1 DEF Verdict
  <2>3. /\ detector' = [grads |-> detector'.grads, losses |-> detector'.losses,
                        best |-> detector'.best]
        /\ detector'.grads \in Seq(Nat)
        /\ Range(detector'.grads) \subseteq config.grads \ {NaN, None}
        /\ Len(detector'.grads) <= Window /\ detector'.losses \in 0..Window
        /\ detector'.best \in (config.losses \ {NaN}) \cup {None}
    BY <2>1, <2>2, LearnedProperties
  <2>4. ExplosionStands'
    BY <2>1 DEF ExplosionStands, Nothing
  <2>5. events' \in 0..config.events /\ Numbers(anomalies)' /\ Len(anomalies') <= MaxAnomalies
        /\ AnomaliesAreConsecutive' /\ anomalies' \in Seq(Nat)
    BY <2>1 DEF ReportTypes, ReportLists, Numbers, AnomaliesAreConsecutive, Latest
  <2>6. ReportLists'
    BY <2>3, <2>5 DEF ReportLists
  <2> QED
    BY <2>3, <2>4, <2>5, <2>6
<1>2. CASE Verdict(detector, loss, grad) # "healthy"
  <2>1. /\ detector' = detector
        /\ reported' = [kind |-> Verdict(detector, loss, grad), loss |-> loss, grad |-> grad]
        /\ RecordAnomaly
    BY <1>2 DEF Examine, Updated
  <2>2. events' \in 0..config.events /\ Numbers(anomalies)' /\ Len(anomalies') <= MaxAnomalies
        /\ AnomaliesAreConsecutive' /\ anomalies' \in Seq(Nat)
    BY <2>1, RecordKeepsLatest
  <2>3. ReportLists'
    BY <2>1, <2>2 DEF ReportLists
  <2>4. ExplosionStands'
    <3> SUFFICES ASSUME Verdict(detector, loss, grad) = "grad_explosion"
                 PROVE  grad \in Nat /\ Explodes(detector, grad)
      BY <2>1 DEF ExplosionStands
    <3>1. grad # NaN /\ Explodes(detector, grad)
      BY DEF Verdict
    <3> QED
      BY <3>1, ConfigTypes DEF Explodes
  <2> QED
    BY <2>1, <2>2, <2>3, <2>4 DEF ReportTypes
<1> QED
  BY <1>1, <1>2

LEMMA ReportStep ==
  ASSUME ReportInv, [Next]_vars
  PROVE  ReportInv'
<1> USE DEF ReportInv
<1>0. config' = config
  BY ReportSteps
<1>1. ASSUME NEW b \in Batches, NEW l \in config.losses, NEW g \in config.grads, BatchEnd(b, l, g)
      PROVE  ReportInv'
  <2>1. TrackSuspiciousLosses(b) /\ Examine(l, g) /\ latest' = latest
    BY <1>1 DEF BatchEnd
  <2>2. /\ SuspectsAreWorst'
        /\ susp' \in Windows /\ Cardinality(DOMAIN susp') <= config.topk
        /\ worst' \in [Samples -> Losses \cup {0}]
    BY <1>0, <2>1, BatchKeepsWorst
  <2>3. /\ Range(detector'.grads) \subseteq config.grads \ {NaN, None}
        /\ Len(detector'.grads) <= Window /\ detector'.losses \in 0..Window
        /\ detector'.best \in (config.losses \ {NaN}) \cup {None}
        /\ events' \in 0..config.events
        /\ Numbers(anomalies)' /\ Len(anomalies') <= MaxAnomalies
        /\ ReportLists'
        /\ AnomaliesAreConsecutive'
        /\ ExplosionStands'
    BY <1>0, <2>1, BatchVerdict
  <2>4. ReportTypes'
    BY <1>0, <2>1, <2>2, <2>3 DEF ReportTypes, Numbers
  <2>5. AnomaliesAreLatest'
    BY <2>1 DEF AnomaliesAreLatest
  <2> QED
    BY <1>0, <2>2, <2>3, <2>4, <2>5
<1>2. CASE PushAcknowledged \/ PushFails \/ BrokerRestarts
  <2>1. UNCHANGED <<detector, reported, events, anomalies>>
    BY <1>2 DEF PushAcknowledged, PushFails, PushOver, BrokerRestarts, anomalyVars
  <2>2. ReportLists' /\ ExplosionStands' /\ AnomaliesAreConsecutive'
    BY <2>1 DEF ReportLists, ExplosionStands, AnomaliesAreConsecutive
  <2>3. \/ /\ susp' = <<>> /\ worst' = [i \in Samples |-> 0]
        \/ UNCHANGED <<susp, worst>>
    BY <1>2 DEF PushAcknowledged, PushFails, BrokerRestarts, suspectVars
  <2>4. /\ SuspectsAreWorst'
        /\ susp' \in Windows /\ Cardinality(DOMAIN susp') <= config.topk
        /\ worst' \in [Samples -> Losses \cup {0}]
    <3>1. CASE susp' = <<>> /\ worst' = [i \in Samples |-> 0]
      <4>1. DOMAIN susp' = {} /\ Cardinality({}) = 0 /\ config.topk \in Nat
        BY <3>1, FS_EmptySet, ConfigTypes
      <4>2. susp' \in [{} -> Losses] /\ {} \in SUBSET Samples
        BY <3>1, <4>1
      <4>3. susp' \in Windows
        BY <4>2 DEF Windows
      <4> QED
        BY <1>0, <3>1, <4>1, <4>3 DEF SuspectsAreWorst
    <3>2. CASE UNCHANGED <<susp, worst>>
      BY <1>0, <3>2 DEF ReportTypes, SuspectsAreWorst
    <3> QED
      BY <2>3, <3>1, <3>2
  <2>5. latest' \in {latest, None, [samples |-> susp, anomalies |-> anomalies, upTo |-> events]}
    BY <1>2 DEF PushAcknowledged, PushFails, BrokerStores, BrokerRestarts
  <2>6. latest' # None => latest'.samples \in Windows /\ Numbers(latest'.anomalies)
    BY <2>5 DEF ReportTypes
  <2>7. AnomaliesAreLatest'
    BY <2>5 DEF AnomaliesAreLatest, AnomaliesAreConsecutive, Latest
  <2>8. ReportTypes'
    BY <1>0, <2>1, <2>4, <2>6 DEF ReportTypes, Numbers
  <2> QED
    BY <1>0, <2>2, <2>4, <2>7, <2>8
<1>3. CASE UNCHANGED <<susp, worst, detector, reported, events, anomalies, latest>>
  <2>1. ReportTypes' /\ ReportLists'
    BY <1>0, <1>3 DEF ReportTypes, ReportLists, Numbers
  <2>2. SuspectsAreWorst' /\ AnomaliesAreConsecutive' /\ AnomaliesAreLatest' /\ ExplosionStands'
    BY <1>0, <1>3 DEF SuspectsAreWorst, AnomaliesAreConsecutive, AnomaliesAreLatest, ExplosionStands
  <2> QED
    BY <1>0, <2>1, <2>2
<1>4. CASE RestoreCheckpoint
  <2>1. /\ detector' = Fresh /\ reported' = Nothing
        /\ UNCHANGED <<susp, worst, events, anomalies, latest>>
    BY <1>4 DEF RestoreCheckpoint, suspectVars
  <2>2. /\ Range(Fresh.grads) = {} /\ Fresh.grads \in Seq(Nat) /\ Len(Fresh.grads) = 0
        /\ Fresh = [grads |-> Fresh.grads, losses |-> Fresh.losses, best |-> Fresh.best]
        /\ Fresh.losses = 0 /\ Fresh.best = None
    BY DEF Fresh, Range
  <2>3. ReportTypes' /\ ReportLists'
    BY <1>0, <2>1, <2>2, DetectorAssumption DEF ReportTypes, ReportLists, Numbers
  <2>4. ExplosionStands'
    BY <2>1 DEF ExplosionStands, Nothing
  <2>5. SuspectsAreWorst' /\ AnomaliesAreConsecutive' /\ AnomaliesAreLatest'
    BY <1>0, <2>1 DEF SuspectsAreWorst, AnomaliesAreConsecutive, AnomaliesAreLatest
  <2> QED
    BY <1>0, <2>3, <2>4, <2>5
<1> QED
  BY <1>1, <1>2, <1>3, <1>4, ReportSteps
-----------------------------------------------------------------------------
(***************************************************************************)
(* The flags.                                                              *)
(***************************************************************************)

\* Sample x is on its way to the callback: queued, taken from the queue, or
\* in the hands of a handler that found it not flagged before.
OnItsWay(x) ==
  \/ \E s \in Range(pendingFlags) : x \in s
  \/ \E s \in Range(toCall) : x \in s
  \/ \E t \in Threads : pc[t] = "flag" /\ x \notin before[t]

AllOnTheirWay ==
  config.hooked =>
    \A x \in flagged \ (called \cup dropped) :
      OnItsWay(x) /\ ~(joined /\ pc["trainer"] = "ended")

\* FlagsReachCallback, sample by sample.
LEMMA SampleBySample == FlagsReachCallback <=> AllOnTheirWay
<1> DEFINE N == {NewIndices(t) : t \in {u \in Threads : pc[u] = "flag"}}
           W == UNION (Range(pendingFlags) \cup Range(toCall) \cup N)
<1>1. ASSUME NEW x \in flagged
      PROVE  x \in W <=> OnItsWay(x)
  <2>1. (\E s \in N : x \in s) <=> \E t \in Threads : pc[t] = "flag" /\ x \notin before[t]
    <3>1. \A t : x \in NewIndices(t) <=> x \notin before[t]
      BY DEF NewIndices
    <3>2. (\E s \in N : x \in s) <=> \E t \in Threads : pc[t] = "flag" /\ x \in NewIndices(t)
      OBVIOUS
    <3> QED
      BY <3>1, <3>2
  <2>2. ASSUME NEW A, NEW B, NEW C
        PROVE  x \in UNION (A \cup B \cup C)
                 <=> (\E s \in A : x \in s) \/ (\E s \in B : x \in s) \/ (\E s \in C : x \in s)
    OBVIOUS
  <2> QED
    BY <2>1, <2>2 DEF OnItsWay
<1>2. FlagsReachCallback <=>
        (config.hooked => flagged \ (called \cup dropped) \subseteq
                            IF joined /\ pc["trainer"] = "ended" THEN {} ELSE W)
  BY DEF FlagsReachCallback
<1> HIDE DEF W
<1> QED
  BY <1>1, <1>2 DEF AllOnTheirWay

HandlerInv ==
  /\ config \in Configurations
  /\ HandlerTypes
  /\ HandlersEnd
  /\ AllOnTheirWay

\* A thread goes on: that much is common to the steps of all actions.
LEMMA PlaceProperties ==
  ASSUME pc \in ThreadPlaces
  PROVE  /\ pc = [trainer |-> pc["trainer"], poller |-> pc["poller"]]
         /\ \A p \in {"train", "push", "drain", "update", "flag", "call", "ended"} :
              /\ [pc EXCEPT !["trainer"] = p] \in ThreadPlaces
              /\ [pc EXCEPT !["trainer"] = p]["trainer"] = p
              /\ [pc EXCEPT !["trainer"] = p]["poller"] = pc["poller"]
         /\ \A p \in {"poll", "update", "flag", "off"} :
              /\ [pc EXCEPT !["poller"] = p] \in ThreadPlaces
              /\ [pc EXCEPT !["poller"] = p]["poller"] = p
              /\ [pc EXCEPT !["poller"] = p]["trainer"] = pc["trainer"]
BY DEF ThreadPlaces

\* The steps that only move a thread, none of them to or from a place where
\* the flags matter.
OnlyMoves ==
  /\ UNCHANGED <<config, mirrored, flagsLeft, indices, before, flagged,
                 pendingFlags, toCall, called, dropped>>
  /\ pc' \in ThreadPlaces
  /\ \/ ending' = ending /\ joined' = joined
     \/ ending' = TRUE /\ joined' \in BOOLEAN
  /\ pc'["trainer"] # pc["trainer"] =>
       pc["trainer"] \in {"train", "push"} /\ pc'["trainer"] \in {"push", "drain"}
  /\ pc'["poller"] # pc["poller"] => pc["poller"] = "poll" /\ pc'["poller"] = "off"
  /\ joined' => joined \/ (pc'["poller"] = "off" /\ pc'["trainer"] = "push")

LEMMA ThreadsMove ==
  ASSUME HandlerInv, OnlyMoves
  PROVE  HandlerInv'
<1> USE DEF OnlyMoves
<1>1. HandlerTypes'
  BY DEF HandlerInv, HandlerTypes, handlerVars, callbackVars
<1>2. HandlersEnd'
  BY DEF HandlerInv, HandlerTypes, HandlersEnd, handlerVars, callbackVars
<1>3. AllOnTheirWay'
  <2>1. \A t \in Threads : pc'[t] = "flag" <=> pc[t] = "flag"
    BY DEF Threads
  <2>2. \A x : OnItsWay(x)' <=> OnItsWay(x)
    BY <2>1 DEF OnItsWay, handlerVars, callbackVars
  <2>3. pc'["trainer"] = "ended" => pc["trainer"] = "ended"
    OBVIOUS
  <2>4. pc'["trainer"] = "ended" /\ joined' => joined
    BY DEF HandlersEnd, HandlerInv
  <2> QED
    BY <2>2, <2>3, <2>4 DEF HandlerInv, AllOnTheirWay, handlerVars, callbackVars
<1> QED
  BY <1>1, <1>2, <1>3 DEF HandlerInv
\* Each of these steps keeps the invariant.
LEMMA FlushKeepsFlags ==
  ASSUME HandlerInv, Flush
  PROVE  HandlerInv'
<1>1. /\ pc["trainer"] = "drain" /\ pc' = [pc EXCEPT !["trainer"] = "call"]
      /\ toCall' = pendingFlags /\ pendingFlags' = <<>>
      /\ UNCHANGED <<config, mirrored, ending, joined, flagsLeft, indices, before, flagged, called, dropped>>
  BY DEF Flush, Goto, handlerVars
<1>2. /\ pc' \in ThreadPlaces /\ pc'["trainer"] = "call" /\ pc'["poller"] = pc["poller"]
  BY <1>1, PlaceProperties DEF HandlerInv, HandlerTypes
<1>3. toCall = <<>>
  BY <1>1 DEF HandlerInv, HandlersEnd
<1>4. Range(<<>>) = {} /\ <<>> \in Seq(SUBSET Samples)
  BY RangeEmpty
<1>5. HandlerTypes'
  BY <1>1, <1>2, <1>3, <1>4 DEF HandlerInv, HandlerTypes
<1>6. HandlersEnd'
  BY <1>1, <1>2 DEF HandlerInv, HandlersEnd
<1>7. AllOnTheirWay'
  <2>1. \A x : OnItsWay(x) => OnItsWay(x)'
    BY <1>1, <1>2, <1>3, <1>4 DEF OnItsWay, Threads
  <2> QED
    BY <1>1, <1>2, <2>1 DEF HandlerInv, AllOnTheirWay
<1> QED
  BY <1>1, <1>5, <1>6, <1>7 DEF HandlerInv

LEMMA CallKeepsFlags ==
  ASSUME HandlerInv, CallbackReturns
  PROVE  HandlerInv'
<1>1. /\ pc["trainer"] = "call" /\ toCall # <<>>
      /\ called' = called \cup Head(toCall) /\ toCall' = Tail(toCall)
      /\ UNCHANGED <<config, mirrored, pc, ending, joined, flagsLeft, indices, before, flagged,
                     pendingFlags, dropped>>
  BY DEF CallbackReturns, threadVars, handlerVars
<1>2. toCall \in Seq(SUBSET Samples)
  BY DEF HandlerInv, HandlerTypes
<1>3. Range(toCall) = {Head(toCall)} \cup Range(toCall') /\ toCall' \in Seq(SUBSET Samples)
  BY <1>1, <1>2, RangeTail, HeadTailProperties
<1>4. HandlerTypes'
  <2>1. UNION (Range(pendingFlags) \cup Range(toCall)) \subseteq flagged
        /\ called \cup dropped \subseteq flagged
    BY DEF HandlerInv, HandlerTypes
  <2>2. UNION (Range(pendingFlags) \cup Range(toCall')) \subseteq flagged
        /\ called' \cup dropped \subseteq flagged
    BY <1>1, <1>3, <2>1
  <2> QED
    BY <1>1, <1>3, <2>2 DEF HandlerInv, HandlerTypes
<1>5. HandlersEnd'
  BY <1>1 DEF HandlerInv, HandlersEnd
<1>6. AllOnTheirWay'
  <2>1. \A x : OnItsWay(x) => OnItsWay(x)' \/ x \in called'
    BY <1>1, <1>3 DEF OnItsWay
  <2> QED
    BY <1>1, <2>1 DEF HandlerInv, AllOnTheirWay
<1> QED
  BY <1>1, <1>4, <1>5, <1>6 DEF HandlerInv

\* The end of a drain, with a callback that raises or without: nothing is
\* queued any more if the poller has stopped in time.
LEMMA EndKeepsFlags ==
  ASSUME HandlerInv, CallbackRaises \/ FlushEnds
  PROVE  HandlerInv'
<1>1. /\ pc["trainer"] = "call" /\ pc' = [pc EXCEPT !["trainer"] = AfterCalls]
      /\ dropped' = dropped \cup UNION Range(toCall) /\ toCall' = <<>>
      /\ UNCHANGED <<config, mirrored, ending, joined, flagsLeft, indices, before, flagged,
                     pendingFlags, called>>
  BY RangeEmpty DEF CallbackRaises, FlushEnds, Goto, handlerVars, callbackVars
<1>2. /\ pc' \in ThreadPlaces /\ pc'["trainer"] = AfterCalls /\ pc'["poller"] = pc["poller"]
  BY <1>1, PlaceProperties DEF HandlerInv, HandlerTypes, AfterCalls
<1>3. Range(<<>>) = {} /\ <<>> \in Seq(SUBSET Samples)
  BY RangeEmpty
<1>4. HandlerTypes'
  BY <1>1, <1>2, <1>3 DEF HandlerInv, HandlerTypes
<1>5. HandlersEnd'
  BY <1>1, <1>2 DEF HandlerInv, HandlersEnd, AfterCalls
<1>6. \A x : OnItsWay(x) => OnItsWay(x)' \/ x \in dropped'
  BY <1>1, <1>2, AfterCalls \in {"train", "ended"} DEF OnItsWay, Threads, AfterCalls
<1>7. ASSUME joined, pc'["trainer"] = "ended", NEW x, OnItsWay(x)
      PROVE  x \in dropped'
  BY <1>1, <1>3, <1>7 DEF HandlerInv, HandlersEnd, OnItsWay, Threads
<1>8. AllOnTheirWay'
  BY <1>1, <1>6, <1>7 DEF HandlerInv, AllOnTheirWay
<1> QED
  BY <1>1, <1>4, <1>5, <1>8 DEF HandlerInv

LEMMA BeginKeepsFlags ==
  ASSUME HandlerInv, NEW t \in Threads, NEW s \in SUBSET Samples, FlagBegins(t, s)
  PROVE  HandlerInv'
<1>1. /\ flagsLeft > 0 /\ pc[t] = AfterFlag(t) /\ flagsLeft' = flagsLeft - 1
      /\ indices' = [indices EXCEPT ![t] = s] /\ before' = [before EXCEPT ![t] = flagged]
      /\ pc' = [pc EXCEPT ![t] = "update"]
      /\ UNCHANGED <<config, mirrored, ending, joined, flagged, pendingFlags, toCall, called, dropped>>
  BY DEF FlagBegins, Goto, callbackVars
<1>2. /\ pc' \in ThreadPlaces /\ pc'[t] = "update" /\ \A u \in Threads \ {t} : pc'[u] = pc[u]
  BY <1>1, PlaceProperties DEF HandlerInv, HandlerTypes, Threads
<1>3. /\ before \in [Threads -> SUBSET Samples] /\ flagged \subseteq Samples
      /\ indices \in [Threads -> SUBSET Samples] /\ flagsLeft \in 0..config.flags
      /\ config.flags \in Nat
  BY ConfigTypes DEF HandlerInv, HandlerTypes
<1>4. /\ before' \in [Threads -> SUBSET Samples] /\ indices' \in [Threads -> SUBSET Samples]
      /\ before'[t] = flagged /\ \A u \in Threads \ {t} : before'[u] = before[u]
      /\ flagsLeft' \in 0..config.flags
  BY <1>1, <1>3
<1>5. HandlerTypes'
  BY <1>1, <1>2, <1>4 DEF HandlerInv, HandlerTypes
<1>6. HandlersEnd'
  BY <1>1, <1>2, <1>4 DEF HandlerInv, HandlersEnd, Threads, AfterFlag
<1>7. AllOnTheirWay'
  <2>1. \A x : OnItsWay(x) => OnItsWay(x)'
    BY <1>1, <1>2, <1>4 DEF OnItsWay, AfterFlag
  <2>2. pc'["trainer"] = "ended" => pc["trainer"] = "ended"
    BY <1>2 DEF Threads
  <2> QED
    BY <1>1, <2>1, <2>2 DEF HandlerInv, AllOnTheirWay
<1> QED
  BY <1>1, <1>5, <1>6, <1>7 DEF HandlerInv

\* What a handler adds was not flagged when it began, so that it is new to it
\* too.
LEMMA UpdateKeepsFlags ==
  ASSUME HandlerInv, NEW t \in Threads, FlagUpdates(t)
  PROVE  HandlerInv'
<1>1. /\ pc[t] = "update" /\ flagged' = flagged \cup indices[t]
      /\ pc' = [pc EXCEPT ![t] = "flag"]
      /\ UNCHANGED <<config, mirrored, ending, joined, flagsLeft, indices, before,
                     pendingFlags, toCall, called, dropped>>
  BY DEF FlagUpdates, Goto, callbackVars
<1>2. /\ pc' \in ThreadPlaces /\ pc'[t] = "flag" /\ \A u \in Threads \ {t} : pc'[u] = pc[u]
  BY <1>1, PlaceProperties DEF HandlerInv, HandlerTypes, Threads
<1>3. indices[t] \subseteq Samples
  BY DEF HandlerInv, HandlerTypes
<1>4. HandlerTypes'
  BY <1>1, <1>2, <1>3 DEF HandlerInv, HandlerTypes
<1>5. HandlersEnd'
  BY <1>1, <1>2 DEF HandlerInv, HandlersEnd, Threads
<1>6. AllOnTheirWay'
  <2>1. \A x : OnItsWay(x) => OnItsWay(x)'
    BY <1>1, <1>2 DEF OnItsWay
  <2>2. \A x : x \notin flagged => OnItsWay(x)'
    BY <1>1, <1>2 DEF OnItsWay, HandlerInv, HandlersEnd
  <2>3. ~(joined /\ pc'["trainer"] = "ended") \/ (joined /\ pc["trainer"] = "ended")
    BY <1>2 DEF Threads
  <2>4. joined => t = "trainer"
    BY <1>1 DEF HandlerInv, HandlersEnd, Threads
  <2> QED
    BY <1>1, <1>2, <2>1, <2>2, <2>3, <2>4 DEF HandlerInv, AllOnTheirWay
<1> QED
  BY <1>1, <1>4, <1>5, <1>6 DEF HandlerInv

\* What was new to a handler is in the queue when it is done.
LEMMA QueueKeepsFlags ==
  ASSUME HandlerInv, NEW t \in Threads, FlagQueues(t)
  PROVE  HandlerInv'
<1>1. /\ pc[t] = "flag"
      /\ pendingFlags' = IF NewIndices(t) # {} /\ config.hooked
                         THEN Append(pendingFlags, NewIndices(t)) ELSE pendingFlags
      /\ indices' = [indices EXCEPT ![t] = {}] /\ before' = [before EXCEPT ![t] = {}]
      /\ pc' = [pc EXCEPT ![t] = AfterFlag(t)]
      /\ UNCHANGED <<config, mirrored, ending, joined, flagsLeft, flagged, toCall, called, dropped>>
  BY DEF FlagQueues, Goto, callbackVars
<1>2. /\ pc' \in ThreadPlaces /\ pc'[t] = AfterFlag(t) /\ \A u \in Threads \ {t} : pc'[u] = pc[u]
  BY <1>1, PlaceProperties DEF HandlerInv, HandlerTypes, Threads, AfterFlag
<1>3. /\ before \in [Threads -> SUBSET Samples] /\ flagged \subseteq Samples
      /\ indices \in [Threads -> SUBSET Samples] /\ pendingFlags \in Seq(SUBSET Samples)
  BY DEF HandlerInv, HandlerTypes
<1>4. /\ before' \in [Threads -> SUBSET Samples] /\ indices' \in [Threads -> SUBSET Samples]
      /\ before'[t] = {} /\ \A u \in Threads \ {t} : before'[u] = before[u]
  BY <1>1, <1>3
<1>5. /\ NewIndices(t) \subseteq flagged
      /\ \A x \in flagged : x \notin before[t] => x \in NewIndices(t)
  BY DEF NewIndices
<1>6. /\ pendingFlags' \in Seq(SUBSET Samples)
      /\ Range(pendingFlags') \subseteq Range(pendingFlags) \cup {NewIndices(t)}
      /\ Range(pendingFlags) \subseteq Range(pendingFlags')
      /\ NewIndices(t) # {} /\ config.hooked => NewIndices(t) \in Range(pendingFlags')
  <2>1. CASE NewIndices(t) # {} /\ config.hooked
    <3>1. NewIndices(t) \in SUBSET Samples
      BY <1>3, <1>5
    <3>2. /\ Append(pendingFlags, NewIndices(t)) \in Seq(SUBSET Samples)
          /\ Range(Append(pendingFlags, NewIndices(t))) = Range(pendingFlags) \cup {NewIndices(t)}
      BY <1>3, <3>1, RangeAppend, AppendProperties
    <3> QED
      BY <1>1, <2>1, <3>2
  <2>2. CASE ~(NewIndices(t) # {} /\ config.hooked)
    BY <1>1, <1>3, <2>2
  <2> QED
    BY <2>1, <2>2
<1>7. HandlerTypes'
  <2>1. UNION (Range(pendingFlags) \cup Range(toCall)) \subseteq flagged
        /\ called \cup dropped \subseteq flagged
    BY DEF HandlerInv, HandlerTypes
  <2>2. UNION (Range(pendingFlags') \cup Range(toCall)) \subseteq flagged
        /\ called \cup dropped \subseteq flagged
    BY <1>5, <1>6, <2>1
  <2> QED
    BY <1>1, <1>2, <1>4, <1>6, <2>2 DEF HandlerInv, HandlerTypes
<1>8. joined => t = "trainer" /\ pc'["trainer"] = "drain"
  BY <1>1, <1>2 DEF HandlerInv, HandlersEnd, Threads, AfterFlag
<1>9. HandlersEnd'
  BY <1>1, <1>2, <1>4, <1>8 DEF HandlerInv, HandlersEnd, Threads, AfterFlag
<1>10. AllOnTheirWay'
  <2>1. ASSUME config.hooked, NEW x \in flagged, OnItsWay(x)
        PROVE  OnItsWay(x)'
    <3>1. CASE \E s \in Range(pendingFlags) : x \in s
      BY <1>6, <3>1 DEF OnItsWay
    <3>2. CASE \E s \in Range(toCall) : x \in s
      BY <1>1, <3>2 DEF OnItsWay
    <3>3. CASE \E u \in Threads : pc[u] = "flag" /\ x \notin before[u]
      <4>1. CASE x \in before[t]
        BY <1>2, <1>4, <3>3, <4>1 DEF OnItsWay
      <4>2. CASE x \notin before[t]
        BY <1>5, <1>6, <2>1, <4>2 DEF OnItsWay
      <4> QED
        BY <4>1, <4>2
    <3> QED
      BY <2>1, <3>1, <3>2, <3>3 DEF OnItsWay
  <2> QED
    BY <1>1, <1>8, <2>1 DEF HandlerInv, AllOnTheirWay
<1> QED
  BY <1>1, <1>7, <1>9, <1>10 DEF HandlerInv
\* BatchEnd, EpochEnd, TrainEnd, the pushes and PollerStops only move a
\* thread; a restart of the broker and a restored checkpoint do not even that.
LEMMA MovesKeepFlags ==
  ASSUME HandlerInv,
         \/ \E b \in Batches, l \in config.losses, g \in config.grads : BatchEnd(b, l, g)
         \/ EpochEnd \/ TrainEnd \/ PushAcknowledged \/ PushFails
         \/ PollerStops \/ BrokerRestarts \/ RestoreCheckpoint \/ UNCHANGED vars
  PROVE  HandlerInv'
<1>0. pc \in ThreadPlaces /\ joined \in BOOLEAN /\ ending \in BOOLEAN
  BY DEF HandlerInv, HandlerTypes
<1>1. CASE \/ EpochEnd \/ PushAcknowledged \/ PushFails
           \/ \E b \in Batches, l \in config.losses, g \in config.grads : BatchEnd(b, l, g)
  <2>1. /\ pc["trainer"] \in {"train", "push"}
        /\ \E p \in {"train", "push", "drain"} :
             pc' = [pc EXCEPT !["trainer"] = p] /\ (p = pc["trainer"] \/ p # "train")
        /\ UNCHANGED <<config, mirrored, ending, joined, flagsLeft, indices, before, flagged,
                       pendingFlags, toCall, called, dropped>>
    BY <1>1 DEF BatchEnd, EpochEnd, PushAcknowledged, PushFails, PushOver, Goto,
                handlerVars, callbackVars
  <2>2. PICK p \in {"train", "push", "drain"} :
          pc' = [pc EXCEPT !["trainer"] = p] /\ (p = pc["trainer"] \/ p # "train")
    BY <2>1
  <2>3. pc' \in ThreadPlaces /\ pc'["poller"] = pc["poller"] /\ pc'["trainer"] = p
    BY <1>0, <2>2, PlaceProperties
  <2>4. OnlyMoves
    BY <1>0, <2>1, <2>2, <2>3 DEF OnlyMoves
  <2> QED
    BY <2>4, ThreadsMove
<1>2. CASE TrainEnd
  <2>1. PICK j \in BOOLEAN :
          /\ joined' = j
          /\ j => pc["poller"] \in {"poll", "off"}
          /\ pc' = [trainer |-> "push", poller |-> IF j THEN "off" ELSE pc["poller"]]
    BY <1>2 DEF TrainEnd
  <2>2. /\ pc["trainer"] = "train" /\ ending' = TRUE
        /\ UNCHANGED <<config, mirrored, flagsLeft, indices, before, flagged,
                       pendingFlags, toCall, called, dropped>>
    BY <1>2 DEF TrainEnd, handlerVars, callbackVars
  <2>3. /\ pc' \in ThreadPlaces /\ pc'["trainer"] = "push"
        /\ pc'["poller"] = IF j THEN "off" ELSE pc["poller"]
    BY <1>0, <2>1 DEF ThreadPlaces
  <2>4. OnlyMoves
    BY <2>1, <2>2, <2>3 DEF OnlyMoves
  <2> QED
    BY <2>4, ThreadsMove
<1>3. CASE PollerStops
  <2>1. /\ pc["poller"] = "poll" /\ pc' = [pc EXCEPT !["poller"] = "off"]
        /\ UNCHANGED <<config, mirrored, ending, joined, flagsLeft, indices, before, flagged,
                       pendingFlags, toCall, called, dropped>>
    BY <1>3 DEF PollerStops, Goto, handlerVars, callbackVars
  <2>2. pc' \in ThreadPlaces /\ pc'["poller"] = "off" /\ pc'["trainer"] = pc["trainer"]
    BY <1>0, <2>1, PlaceProperties
  <2>3. OnlyMoves
    BY <1>0, <2>1, <2>2 DEF OnlyMoves
  <2> QED
    BY <2>3, ThreadsMove
<1>4. CASE BrokerRestarts \/ RestoreCheckpoint \/ UNCHANGED vars
  <2>1. UNCHANGED <<config, mirrored, pc, ending, joined, flagsLeft, indices, before, flagged,
                    pendingFlags, toCall, called, dropped>>
    BY <1>4 DEF BrokerRestarts, RestoreCheckpoint, vars, threadVars, handlerVars, callbackVars
  <2>2. OnlyMoves
    BY <1>0, <2>1 DEF OnlyMoves
  <2> QED
    BY <2>2, ThreadsMove
<1> QED
  BY <1>1, <1>2, <1>3, <1>4

LEMMA HandlerStep ==
  ASSUME HandlerInv, [Next]_vars
  PROVE  HandlerInv'
<1>1. CASE Trainer
  BY <1>1, MovesKeepFlags, FlushKeepsFlags, CallKeepsFlags, EndKeepsFlags DEF Trainer
<1>2. ASSUME NEW t \in Threads, FlagSamples(t)
      PROVE  HandlerInv'
  BY <1>2, BeginKeepsFlags, UpdateKeepsFlags, QueueKeepsFlags DEF FlagSamples
<1>3. CASE PollerStops \/ BrokerRestarts \/ UNCHANGED vars
  BY <1>3, MovesKeepFlags
<1> QED
  BY <1>1, <1>2, <1>3 DEF Next

-----------------------------------------------------------------------------
(***************************************************************************)
(* The theorems.                                                           *)
(***************************************************************************)

LEMMA InvInTwoHalves == IInv <=> ReportInv /\ HandlerInv
BY TwoHalves, SampleBySample, Zenon DEF IInv, ReportInv, HandlerInv

LEMMA InitInv == Init => IInv
<1> SUFFICES ASSUME Init PROVE ReportInv /\ HandlerInv
  BY InvInTwoHalves
<1> USE DEF Init
<1>0. /\ config.topk \in Nat /\ config.events \in Nat /\ config.flags \in Nat
      /\ config \in Configurations
  BY ConfigTypes
<1>1. /\ Range(<<>>) = {} /\ Len(<<>>) = 0 /\ DOMAIN <<>> = {} /\ Cardinality({}) = 0
      /\ \A S : <<>> \in Seq(S)
  BY RangeEmpty, FS_EmptySet
<1>2. <<>> \in Windows
  <2>1. <<>> \in [{} -> Losses] /\ {} \in SUBSET Samples
    BY <1>1
  <2> QED
    BY <2>1 DEF Windows
<1>3. ReportTypes /\ ReportLists
  BY <1>0, <1>1, <1>2, DetectorAssumption, SamplesAssumption DEF ReportTypes, ReportLists, Fresh, Numbers
<1>4. SuspectsAreWorst /\ AnomaliesAreConsecutive /\ AnomaliesAreLatest /\ ExplosionStands
  BY <1>1, SamplesAssumption DEF SuspectsAreWorst, AnomaliesAreConsecutive, Latest, AnomaliesAreLatest,
     ExplosionStands, Nothing
<1>5. pc \in ThreadPlaces /\ pc["trainer"] = "train"
  BY DEF ThreadPlaces
<1>6. HandlerTypes
  <2>1. mirrored \in BOOLEAN /\ ending \in BOOLEAN /\ joined \in BOOLEAN
    OBVIOUS
  <2>2. UNION (Range(pendingFlags) \cup Range(toCall)) \subseteq flagged
    BY <1>1
  <2>3. /\ flagsLeft \in 0..config.flags
        /\ indices \in [Threads -> SUBSET Samples] /\ before \in [Threads -> SUBSET Samples]
        /\ pendingFlags \in Seq(SUBSET Samples) /\ toCall \in Seq(SUBSET Samples)
        /\ called \cup dropped \subseteq flagged /\ flagged \subseteq Samples
    BY <1>0, <1>1
  <2> QED
    BY <1>5, <2>1, <2>2, <2>3 DEF HandlerTypes
<1>7. HandlersEnd
  BY <1>5 DEF HandlersEnd
<1>8. AllOnTheirWay
  BY DEF AllOnTheirWay
<1> QED
  BY <1>0, <1>3, <1>4, <1>6, <1>7, <1>8 DEF ReportInv, HandlerInv

\* What the proofs below rest on.
THEOREM InductiveInvariant == Spec => []IInv
<1>1. ASSUME IInv, [Next]_vars
      PROVE  IInv'
  <2>1. ReportInv' /\ HandlerInv'
    BY <1>1, InvInTwoHalves, ReportStep, HandlerStep
  <2>2. IInv' <=> (ReportInv /\ HandlerInv)'
    BY InvInTwoHalves, PTL
  <2> QED
    BY <2>1, <2>2
<1> QED
  BY InitInv, <1>1, PTL DEF Spec

\* The variables have their types: windows hold finite losses of samples and
\* no more than susp_topk of them, the lists of anomalies and of the detector
\* are within their bounds, and no sample is queued for the callback or passed
\* to it that is not flagged.
THEOREM TypeCorrect == Spec => []TypeOK
BY InductiveInvariant, PTL DEF IInv

\* The window of suspects (_track_suspicious_losses in bridge.py) holds the
\* samples with the worst losses since the last push that was acknowledged,
\* each with its worst, however losses, batches and lost pushes follow upon
\* each other.
THEOREM WindowHoldsTheWorst == Spec => []SuspectsAreWorst
BY InductiveInvariant, PTL DEF IInv

\* The anomalies the broker serves are the latest that had been detected when
\* they were pushed, without a gap (_record_anomaly, push_telemetry).
THEOREM NoAnomalyIsMissing == Spec => []AnomaliesAreLatest
BY InductiveInvariant, PTL DEF IInv

\* After an explosion of the gradients, as large a norm is reported again
\* (AnomalyDetector.update in safety.py) until a checkpoint is restored
\* (restore_checkpoint in bridge.py resets the detector), for any factor and
\* warm-up.
THEOREM ExplosionsAreReportedOn == Spec => []SustainedExplosion
<1>1. ASSUME IInv
      PROVE  SustainedExplosion
  <2> SUFFICES ASSUME reported.kind = "grad_explosion",
                      NEW loss \in config.losses \ {NaN},
                      NEW grad \in config.grads \ {NaN, None},
                      grad >= reported.grad
               PROVE  Verdict(detector, loss, grad) = "grad_explosion"
    BY DEF SustainedExplosion
  <2>1. grad \in Nat /\ grad # None /\ grad # NaN /\ loss # NaN
    BY <1>1, ConfigTypes DEF IInv, TypeOK
  <2>2. detector.grads \in Seq(Nat) /\ reported.grad \in Nat /\ Explodes(detector, reported.grad)
    BY <1>1 DEF IInv, Lists, ExplosionStands
  <2>3. Explodes(detector, grad)
    BY <2>1, <2>2, LargerExplodes
  <2> QED
    BY <2>1, <2>3 DEF Verdict
<1> QED
  BY InductiveInvariant, <1>1, PTL

\* Whichever threads execute flag_samples at the same time, each sample they
\* flag reaches on_flagged_samples unless a callback raised, and after an
\* orderly on_train_end none is left over.
THEOREM FlaggedIsPassedOn == Spec => []FlagsReachCallback
BY InductiveInvariant, PTL DEF IInv
=============================================================================
