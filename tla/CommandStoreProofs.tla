------------------------- MODULE CommandStoreProofs -------------------------
(***************************************************************************)
(* Theorems about CommandStore for any number of runs, commands and        *)
(* deliveries, any lease, with and without the SQLite mirror.              *)
(***************************************************************************)
EXTENDS CommandStore, TLAPS, FiniteSetTheorems, SequenceTheorems

-----------------------------------------------------------------------------
(***************************************************************************)
(* Sorting and dealing out commands.                                       *)
(***************************************************************************)

\* Every ordering of S lists its elements, once each, in increasing order.
LEMMA InCreatedOrderFacts ==
  ASSUME NEW S \in SUBSET Cmds, NEW s \in InCreatedOrder(S)
  PROVE  /\ s \in Seq(Cmds)
         /\ DOMAIN s = 1..Len(s)
         /\ \A i \in DOMAIN s : s[i] \in S
         /\ \A c \in S : \E i \in DOMAIN s : s[i] = c
         /\ \A i, j \in DOMAIN s : i < j => s[i] < s[j]
<1>1. IsFiniteSet(Cmds)
  BY FS_Interval, BoundsAssumption DEF Cmds
<1>2. Cardinality(S) \in Nat
  BY <1>1, FS_Subset, FS_CardinalityType
<1>3. /\ s \in [1..Cardinality(S) -> S]
      /\ \A i, j \in DOMAIN s : i < j => s[i] < s[j]
      /\ \A c \in S : \E i \in DOMAIN s : s[i] = c
  BY DEF InCreatedOrder
<1>4. s \in Seq(S)
  BY <1>2, <1>3, IsASeq
<1>5. s \in Seq(Cmds) /\ DOMAIN s = 1..Len(s)
  BY <1>2, <1>3, <1>4, SeqMonotonic
<1>6. QED
  BY <1>3, <1>5

\* Indexing into a concatenation.
LEMMA ConcatIndex ==
  ASSUME NEW f \in Seq(Cmds), NEW p \in Seq(Cmds)
  PROVE  /\ Len(f) \in Nat /\ Len(p) \in Nat
         /\ DOMAIN (f \o p) = 1..(Len(f) + Len(p))
         /\ \A i \in 1..Len(f) : (f \o p)[i] = f[i]
         /\ \A i \in 1..Len(p) : (f \o p)[Len(f) + i] = p[i]
         /\ \A i \in DOMAIN (f \o p) : i \notin 1..Len(f) =>
              \E k \in 1..Len(p) : i = Len(f) + k /\ (f \o p)[i] = p[k]
<1>1. Len(f) \in Nat /\ Len(p) \in Nat
  BY LenProperties
<1>2. f \o p \in Seq(Cmds) /\ Len(f \o p) = Len(f) + Len(p)
  BY ConcatProperties
<1>3. DOMAIN (f \o p) = 1..(Len(f) + Len(p))
  BY <1>2, LenProperties
<1>4. \A i \in 1..(Len(f) + Len(p)) :
        (f \o p)[i] = IF i <= Len(f) THEN f[i] ELSE p[i - Len(f)]
  BY ConcatProperties
<1>5. \A i \in 1..Len(f) : (f \o p)[i] = f[i]
  BY <1>1, <1>4
<1>6. ASSUME NEW i \in 1..Len(p)
      PROVE  (f \o p)[Len(f) + i] = p[i]
  <2>1. /\ Len(f) + i \in 1..(Len(f) + Len(p)) /\ ~(Len(f) + i <= Len(f))
        /\ (Len(f) + i) - Len(f) = i
    BY <1>1
  <2>2. QED
    BY <1>4, <2>1
<1>7. ASSUME NEW i \in DOMAIN (f \o p), i \notin 1..Len(f)
      PROVE  \E k \in 1..Len(p) : i = Len(f) + k /\ (f \o p)[i] = p[k]
  <2>1. /\ i - Len(f) \in 1..Len(p) /\ ~(i <= Len(f)) /\ i \in 1..(Len(f) + Len(p))
        /\ i = Len(f) + (i - Len(f))
    BY <1>1, <1>3, <1>7
  <2>2. (f \o p)[i] = p[i - Len(f)]
    BY <1>4, <2>1
  <2>3. QED
    BY <2>1, <2>2
<1>8. QED
  BY <1>1, <1>3, <1>5, <1>6, <1>7

\* What ByRun deals to a run are that run's commands, in order.
LEMMA ByRunFacts ==
  ASSUME NEW S \in SUBSET Cmds, NEW front \in ByRun(S), NEW r \in Runs
  PROVE  /\ front[r] \in Seq(Cmds)
         /\ DOMAIN front[r] = 1..Len(front[r])
         /\ \A i \in DOMAIN front[r] : front[r][i] \in S /\ runOf[front[r][i]] = r
         /\ \A c \in S : runOf[c] = r => \E i \in DOMAIN front[r] : front[r][i] = c
         /\ \A i, j \in DOMAIN front[r] : i < j => front[r][i] < front[r][j]
<1> DEFINE Share == {c \in S : runOf[c] = r}
<1>1. front[r] \in InCreatedOrder(Share)
  BY DEF ByRun
<1>2. Share \in SUBSET Cmds
  OBVIOUS
<1> HIDE DEF Share
<1>3. /\ front[r] \in Seq(Cmds)
      /\ DOMAIN front[r] = 1..Len(front[r])
      /\ \A i \in DOMAIN front[r] : front[r][i] \in Share
      /\ \A c \in Share : \E i \in DOMAIN front[r] : front[r][i] = c
      /\ \A i, j \in DOMAIN front[r] : i < j => front[r][i] < front[r][j]
  BY <1>1, <1>2, InCreatedOrderFacts
<1>4. QED
  BY <1>3 DEF Share

LEMMA ByRunType ==
  ASSUME NEW S \in SUBSET Cmds, NEW front \in ByRun(S)
  PROVE  front \in [Runs -> Seq(Cmds)]
<1>1. \A r \in Runs : front[r] \in Seq(Cmds)
  BY ByRunFacts
<1>2. front = [r \in Runs |-> front[r]]
  BY DEF ByRun
<1>3. QED
  BY <1>1, <1>2

-----------------------------------------------------------------------------
(***************************************************************************)
(* Type correctness.                                                       *)
(***************************************************************************)

LEMMA ReclaimType ==
  ASSUME TypeOK, NEW E \in SUBSET Expired, NEW front \in ByRun(Retried(E))
  PROVE  /\ ReclaimedStatus(E) \in [Cmds -> Statuses]
         /\ Requeued(front) \in [Runs -> Seq(Cmds)]
<1>1. Retried(E) \in SUBSET Cmds
  BY DEF Retried, Expired
<1>2. front \in [Runs -> Seq(Cmds)]
  BY <1>1, ByRunType
<1>3. \A r \in Runs : front[r] \o pending[r] \in Seq(Cmds)
  BY <1>2, ConcatProperties DEF TypeOK
<1>4. QED
  BY <1>3 DEF ReclaimedStatus, Requeued, TypeOK, Statuses

LEMMA InitType == Init => TypeOK
BY BoundsAssumption DEF Init, TypeOK, Statuses

(***************************************************************************)
(* A pending command has deliveries left; one that left the queue has used *)
(* one; the commands the store may know are those created, each of a run.  *)
(***************************************************************************)
AttemptsFit ==
  \A c \in Cmds :
    /\ status[c] = "pending" => attempts[c] < MaxAttempts
    /\ status[c] \in {"in_progress", "done", "failed"} => attempts[c] > 0
    /\ status[c] = "unknown" => attempts[c] = 0
    /\ c > created => status[c] = "unknown"
    /\ status[c] # "unknown" => runOf[c] \in Runs

TypeInv == TypeOK /\ AttemptsFit

\* What a reclaim leaves true of the statuses.
AttemptsOK(st) ==
  \A c \in Cmds :
    /\ st[c] = "pending" => attempts[c] < MaxAttempts
    /\ st[c] \in {"in_progress", "done", "failed"} => attempts[c] > 0
    /\ st[c] = "unknown" <=> status[c] = "unknown"

LEMMA ReclaimAttempts ==
  ASSUME TypeInv, NEW E \in SUBSET Expired
  PROVE  AttemptsOK(ReclaimedStatus(E))
BY DEF TypeInv, TypeOK, AttemptsFit, AttemptsOK, ReclaimedStatus, Retried, Expired, Statuses

LEMMA DeliverType ==
  ASSUME TypeInv, NEW r \in Runs,
         NEW st \in [Cmds -> Statuses], NEW queue \in [Runs -> Seq(Cmds)],
         AttemptsOK(st),
         NEW i \in DOMAIN queue[r],
         Deliver(r, st, queue, i), UNCHANGED <<mirrored, created, runOf>>
  PROVE  TypeInv'
<1> DEFINE c == queue[r][i]
<1>1. queue[r] \in Seq(Cmds) /\ i \in 1..Len(queue[r]) /\ c \in Cmds
  BY ElementOfSeq
<1>2. st[c] = "pending" /\ attempts[c] < MaxAttempts
  BY <1>1 DEF Deliver, Claimable, AttemptsOK
<1>3. SubSeq(queue[r], i + 1, Len(queue[r])) \in Seq(Cmds)
  BY <1>1, SubSeqProperties
<1>4. pending' \in [Runs -> Seq(Cmds)]
  BY <1>3 DEF Deliver
<1>5. /\ status' = [st EXCEPT ![c] = "in_progress"]
      /\ attempts' = [attempts EXCEPT ![c] = @ + 1]
      /\ left' = [left EXCEPT ![c] = Lease]
  BY DEF Deliver
<1> HIDE DEF c
<1>6. TypeOK'
  <2>1. status' \in [Cmds -> Statuses]
    BY <1>1, <1>5 DEF Statuses
  <2>2. attempts' \in [Cmds -> 0..MaxAttempts]
    BY <1>1, <1>2, <1>5, BoundsAssumption DEF TypeInv, TypeOK
  <2>3. left' \in [Cmds -> 0..Lease]
    BY <1>1, <1>5, BoundsAssumption DEF TypeInv, TypeOK
  <2> QED
    BY <1>4, <2>1, <2>2, <2>3 DEF TypeInv, TypeOK
<1>7. AttemptsFit'
  <2> SUFFICES ASSUME NEW d \in Cmds
               PROVE  /\ status'[d] = "pending" => attempts'[d] < MaxAttempts
                      /\ status'[d] \in {"in_progress", "done", "failed"} => attempts'[d] > 0
                      /\ status'[d] = "unknown" => attempts'[d] = 0
                      /\ d > created' => status'[d] = "unknown"
                      /\ status'[d] # "unknown" => runOf'[d] \in Runs
    BY DEF AttemptsFit
  <2>1. CASE d = c
    BY <1>1, <1>2, <1>5, <2>1 DEF TypeInv, TypeOK, AttemptsFit, AttemptsOK
  <2>2. CASE d # c
    BY <1>1, <1>5, <2>2 DEF TypeInv, TypeOK, AttemptsFit, AttemptsOK
  <2>3. QED
    BY <2>1, <2>2
<1>8. QED
  BY <1>6, <1>7 DEF TypeInv
-----------------------------------------------------------------------------
(***************************************************************************)
(* The queues.  RunQueueOK says what IInv knows of the queue q of run r,   *)
(* for any statuses st, because a claim works on those a reclaim left      *)
(* behind.  Beyond QueueHoldsPending it knows that commands never          *)
(* delivered stand behind the others, in creation order.                   *)
(***************************************************************************)
EntriesOK(st, q, r) ==
  \A i \in DOMAIN q : runOf[q[i]] = r /\ st[q[i]] \in {"pending", "done", "failed"}

OrderOK(q) ==
  \A i, j \in DOMAIN q : i < j =>
    q[i] # q[j] /\ (attempts[q[i]] = 0 => q[i] < q[j])

Holds(st, q, r) ==
  \A c \in Cmds : st[c] = "pending" /\ runOf[c] = r => \E i \in DOMAIN q : q[i] = c

RunQueueOK(st, q, r) == EntriesOK(st, q, r) /\ OrderOK(q) /\ Holds(st, q, r)

QueueOK(st, queue) == \A r \in Runs : RunQueueOK(st, queue[r], r)

IInv == TypeInv /\ QueueOK(status, pending) /\ FirstDeliveryInOrder

(***************************************************************************)
(* Putting the retried commands of one run, in creation order, in front of *)
(* its queue.                                                              *)
(***************************************************************************)
LEMMA ReclaimOneQueue ==
  ASSUME TypeInv, NEW E \in SUBSET Expired, NEW r \in Runs,
         NEW f \in Seq(Cmds), NEW p \in Seq(Cmds),
         RunQueueOK(status, p, r),
         \A i \in DOMAIN f : f[i] \in Retried(E) /\ runOf[f[i]] = r,
         \A c \in Retried(E) : runOf[c] = r => \E i \in DOMAIN f : f[i] = c,
         \A i, j \in DOMAIN f : i < j => f[i] < f[j]
  PROVE  RunQueueOK(ReclaimedStatus(E), f \o p, r)
<1> DEFINE st == ReclaimedStatus(E)
           q == f \o p
<1>1. /\ Len(f) \in Nat /\ Len(p) \in Nat
      /\ DOMAIN q = 1..(Len(f) + Len(p))
      /\ \A i \in 1..Len(f) : q[i] = f[i]
      /\ \A i \in 1..Len(p) : q[Len(f) + i] = p[i]
      /\ \A i \in DOMAIN q : i \notin 1..Len(f) =>
           \E k \in 1..Len(p) : i = Len(f) + k /\ q[i] = p[k]
  BY ConcatIndex
<1>2. \A c \in Cmds :
        /\ c \in Retried(E) => /\ status[c] = "in_progress" /\ attempts[c] # 0
                               /\ st[c] = "pending"
        /\ status[c] \in {"pending", "done", "failed"} => st[c] = status[c]
        /\ st[c] = "pending" => c \in Retried(E) \/ status[c] = "pending"
  BY DEF Retried, Expired, ReclaimedStatus, TypeInv, TypeOK, AttemptsFit
<1>3. /\ DOMAIN f = 1..Len(f) /\ \A i \in 1..Len(f) : f[i] \in Cmds
      /\ DOMAIN p = 1..Len(p) /\ \A i \in 1..Len(p) : p[i] \in Cmds
  BY ElementOfSeq, LenProperties
<1> HIDE DEF st, q
<1>4. ASSUME NEW i \in DOMAIN q
      PROVE  \/ i \in 1..Len(f) /\ q[i] = f[i]
             \/ \E k \in 1..Len(p) : i = Len(f) + k /\ q[i] = p[k]
  BY <1>1
<1>5. EntriesOK(st, q, r)
  <2> SUFFICES ASSUME NEW i \in DOMAIN q
               PROVE  runOf[q[i]] = r /\ st[q[i]] \in {"pending", "done", "failed"}
    BY DEF EntriesOK
  <2>1. CASE i \in 1..Len(f) /\ q[i] = f[i]
    BY <1>2, <1>3, <2>1
  <2>2. CASE \E k \in 1..Len(p) : i = Len(f) + k /\ q[i] = p[k]
    BY <1>2, <1>3, <2>2 DEF RunQueueOK, EntriesOK
  <2>3. QED
    BY <1>4, <2>1, <2>2
<1>6. OrderOK(q)
  <2> SUFFICES ASSUME NEW i \in DOMAIN q, NEW j \in DOMAIN q, i < j
               PROVE  q[i] # q[j] /\ (attempts[q[i]] = 0 => q[i] < q[j])
    BY DEF OrderOK
  <2>1. CASE i \in 1..Len(f) /\ j \in 1..Len(f)
    <3>1. q[i] = f[i] /\ q[j] = f[j] /\ f[i] < f[j]
      BY <1>1, <1>3, <2>1
    <3>2. f[i] \in Nat /\ f[j] \in Nat
      BY <1>3, <2>1, BoundsAssumption DEF Cmds
    <3>3. QED
      BY <3>1, <3>2
  <2>2. CASE i \in 1..Len(f) /\ j \notin 1..Len(f)
    <3>1. PICK k \in 1..Len(p) : q[j] = p[k]
      BY <1>1, <2>2
    <3>2. q[i] = f[i] /\ f[i] \in Retried(E) /\ f[i] \in Cmds
      BY <1>1, <1>3, <2>2
    <3>3. status[p[k]] \in {"pending", "done", "failed"}
      BY <1>3 DEF RunQueueOK, EntriesOK
    <3>4. QED
      BY <1>2, <3>1, <3>2, <3>3
  <2>3. CASE i \notin 1..Len(f)
    <3>1. PICK k \in 1..Len(p) : i = Len(f) + k /\ q[i] = p[k]
      BY <1>1, <2>3
    <3>2. j \notin 1..Len(f)
      BY <1>1, <3>1
    <3>3. PICK l \in 1..Len(p) : j = Len(f) + l /\ q[j] = p[l]
      BY <1>1, <3>2
    <3>4. k < l
      BY <1>1, <3>1, <3>3
    <3>5. QED
      BY <1>3, <3>1, <3>3, <3>4 DEF RunQueueOK, OrderOK
  <2>4. QED
    BY <2>1, <2>2, <2>3
<1>7. Holds(st, q, r)
  <2> SUFFICES ASSUME NEW c \in Cmds, st[c] = "pending", runOf[c] = r
               PROVE  \E i \in DOMAIN q : q[i] = c
    BY DEF Holds
  <2>1. CASE c \in Retried(E)
    <3>1. PICK i \in 1..Len(f) : f[i] = c
      BY <1>3, <2>1
    <3>2. i \in DOMAIN q /\ q[i] = c
      BY <1>1, <3>1
    <3>3. QED
      BY <3>2
  <2>2. CASE status[c] = "pending"
    <3>1. PICK k \in 1..Len(p) : p[k] = c
      BY <1>3, <2>2 DEF RunQueueOK, Holds
    <3>2. Len(f) + k \in DOMAIN q /\ q[Len(f) + k] = c
      BY <1>1, <3>1
    <3>3. QED
      BY <3>2
  <2>3. QED
    BY <1>2, <2>1, <2>2
<1>8. RunQueueOK(st, q, r)
  BY <1>5, <1>6, <1>7 DEF RunQueueOK
<1>9. QED
  BY <1>8 DEF st, q

LEMMA ReclaimQueue ==
  ASSUME IInv, NEW E \in SUBSET Expired, NEW front \in ByRun(Retried(E))
  PROVE  QueueOK(ReclaimedStatus(E), Requeued(front))
<1>1. Retried(E) \in SUBSET Cmds
  BY DEF Retried, Expired
<1>2. ASSUME NEW r \in Runs
      PROVE  RunQueueOK(ReclaimedStatus(E), front[r] \o pending[r], r)
  <2>1. pending[r] \in Seq(Cmds) /\ RunQueueOK(status, pending[r], r) /\ TypeInv
    BY DEF IInv, TypeInv, TypeOK, QueueOK
  <2>2. QED
    BY <1>1, <2>1, ByRunFacts, ReclaimOneQueue
<1>3. \A r \in Runs : Requeued(front)[r] = front[r] \o pending[r]
  BY DEF Requeued
<1>4. QED
  BY <1>2, <1>3 DEF QueueOK

(***************************************************************************)
(* A delivery takes the first pending entry; those before it were stale.   *)
(***************************************************************************)
LEMMA DeliverQueue ==
  ASSUME TypeInv, NEW r \in Runs,
         NEW st \in [Cmds -> Statuses], NEW queue \in [Runs -> Seq(Cmds)],
         QueueOK(st, queue),
         NEW i \in DOMAIN queue[r],
         Deliver(r, st, queue, i), UNCHANGED runOf
  PROVE  QueueOK(status, pending)'
<1> DEFINE q == queue[r]
           c == q[i]
           t == SubSeq(q, i + 1, Len(q))
<1>1. /\ status' = [st EXCEPT ![c] = "in_progress"]
      /\ attempts' = [attempts EXCEPT ![c] = @ + 1]
      /\ pending' = [queue EXCEPT ![r] = t]
      /\ \A j \in 1..(i - 1) : st[q[j]] # "pending"
  BY DEF Deliver, Claimable
<1>2. q \in Seq(Cmds) /\ i \in 1..Len(q) /\ Len(q) \in Nat /\ RunQueueOK(st, q, r)
  BY LenProperties DEF QueueOK
<1> HIDE DEF q
<1>3. /\ DOMAIN t = 1..(Len(q) - i) /\ DOMAIN q = 1..Len(q)
      /\ \A k \in 1..(Len(q) - i) : t[k] = q[i + k]
      /\ \A k \in 1..Len(q) : q[k] \in Cmds
  <2>1. i + 1 \in 1..(Len(q) + 1) /\ Len(q) \in i..Len(q)
    BY <1>2
  <2>2. /\ t \in Seq(Cmds) /\ Len(t) = Len(q) - i
        /\ \A k \in 1..(Len(q) - i) : t[k] = q[i + k]
    BY <1>2, <2>1, SubSeqProperties
  <2>3. QED
    BY <1>2, <2>2, LenProperties, ElementOfSeq
<1> HIDE DEF c, t
<1>4. c = q[i] /\ c \in Cmds /\ runOf[c] = r
  BY <1>2, <1>3 DEF c, RunQueueOK, EntriesOK
<1>5. /\ \A d \in Cmds : d # c => status'[d] = st[d] /\ attempts'[d] = attempts[d]
      /\ status'[c] = "in_progress" /\ runOf' = runOf
      /\ pending'[r] = t /\ \A s \in Runs : s # r => pending'[s] = queue[s]
  BY <1>1, <1>4 DEF TypeInv, TypeOK
<1>6. RunQueueOK(status, t, r)'
  <2>1. \A k \in 1..(Len(q) - i) : i + k \in 1..Len(q) /\ i < i + k
    BY <1>2
  <2>2. \A k \in DOMAIN t : t[k] \in Cmds /\ t[k] # c
    BY <1>2, <1>3, <1>4, <2>1 DEF RunQueueOK, OrderOK
  <2>3. EntriesOK(status, t, r)'
    BY <1>2, <1>3, <1>5, <2>1, <2>2 DEF RunQueueOK, EntriesOK
  <2>4. OrderOK(t)'
    <3> SUFFICES ASSUME NEW k \in DOMAIN t, NEW l \in DOMAIN t, k < l
                 PROVE  t[k] # t[l] /\ (attempts'[t[k]] = 0 => t[k] < t[l])
      BY DEF OrderOK
    <3>1. t[k] = q[i + k] /\ t[l] = q[i + l]
      BY <1>3
    <3>2. i + k < i + l /\ i + k \in DOMAIN q /\ i + l \in DOMAIN q
      BY <1>2, <1>3, <2>1
    <3>3. q[i + k] # q[i + l] /\ (attempts[q[i + k]] = 0 => q[i + k] < q[i + l])
      BY <1>2, <3>2 DEF RunQueueOK, OrderOK
    <3>4. QED
      BY <1>5, <2>2, <3>1, <3>3
  <2>5. Holds(status, t, r)'
    <3> SUFFICES ASSUME NEW d \in Cmds, status'[d] = "pending", runOf[d] = r
                 PROVE  \E k \in DOMAIN t : t[k] = d
      BY <1>5 DEF Holds
    <3>1. d # c /\ st[d] = "pending"
      BY <1>5
    <3>2. PICK k \in 1..Len(q) : q[k] = d
      BY <1>2, <1>3, <3>1 DEF RunQueueOK, Holds
    <3>3. k > i
      <4>1. k # i /\ st[q[k]] = "pending"
        BY <1>4, <3>1, <3>2
      <4>2. ~(k \in 1..(i - 1))
        BY <1>1, <4>1
      <4> QED
        BY <1>2, <4>1, <4>2
    <3>4. k - i \in 1..(Len(q) - i) /\ i + (k - i) = k
      BY <1>2, <3>3
    <3>5. QED
      BY <1>3, <3>2, <3>4
  <2>6. QED
    BY <2>3, <2>4, <2>5 DEF RunQueueOK
<1>7. ASSUME NEW s \in Runs, s # r
      PROVE  RunQueueOK(status, queue[s], s)'
  <2>1. /\ RunQueueOK(st, queue[s], s)
        /\ \A k \in DOMAIN queue[s] : queue[s][k] \in Cmds /\ queue[s][k] # c
    BY <1>4, <1>7, ElementOfSeq, LenProperties DEF QueueOK, RunQueueOK, EntriesOK
  <2>2. \A d \in Cmds : d # c => status'[d] = st[d] /\ attempts'[d] = attempts[d]
    BY <1>5
  <2>3. EntriesOK(status, queue[s], s)'
    BY <1>5, <2>1, <2>2 DEF RunQueueOK, EntriesOK
  <2>4. OrderOK(queue[s])'
    BY <2>1, <2>2 DEF RunQueueOK, OrderOK
  <2>5. Holds(status, queue[s], s)'
    BY <1>4, <1>5, <1>7, <2>1 DEF RunQueueOK, Holds
  <2>6. QED
    BY <2>3, <2>4, <2>5 DEF RunQueueOK
<1>8. \A s \in Runs : RunQueueOK(status, pending[s], s)'
  BY <1>5, <1>6, <1>7
<1>9. QED
  BY <1>8 DEF QueueOK

\* A command delivered for the first time is the oldest that never was.
LEMMA DeliverFirst ==
  ASSUME IInv, NEW r \in Runs,
         NEW st \in [Cmds -> Statuses], NEW queue \in [Runs -> Seq(Cmds)],
         AttemptsOK(st), QueueOK(st, queue),
         NEW i \in DOMAIN queue[r],
         Deliver(r, st, queue, i), UNCHANGED runOf
  PROVE  FirstDeliveryInOrder'
<1> DEFINE q == queue[r]
           c == q[i]
<1>1. /\ status' = [st EXCEPT ![c] = "in_progress"]
      /\ attempts' = [attempts EXCEPT ![c] = @ + 1]
      /\ \A j \in 1..(i - 1) : st[q[j]] # "pending"
      /\ st[c] = "pending"
  BY DEF Deliver, Claimable
<1>2. q \in Seq(Cmds) /\ i \in 1..Len(q) /\ Len(q) \in Nat /\ RunQueueOK(st, q, r)
  BY LenProperties DEF QueueOK
<1> HIDE DEF q
<1>3. c \in Cmds /\ runOf[c] = r /\ DOMAIN q = 1..Len(q)
  BY <1>2, ElementOfSeq, LenProperties DEF RunQueueOK, EntriesOK
<1>4. c = q[i]
  OBVIOUS
<1> HIDE DEF c
<1>5. /\ \A d \in Cmds : attempts[d] \in Nat
      /\ \A d \in Cmds : d # c => attempts'[d] = attempts[d]
      /\ attempts'[c] = attempts[c] + 1
      /\ Known' = Known
  BY <1>1, <1>3 DEF IInv, TypeInv, TypeOK, Known, AttemptsOK
<1>6. ASSUME NEW d \in Known, d < c, runOf[d] = r
      PROVE  attempts[d] > 0
  <2>1. CASE attempts[c] > 0
    BY <1>1, <1>3, <1>6, <2>1 DEF IInv, FirstDeliveryInOrder, Known, AttemptsOK
  <2>2. CASE attempts[c] = 0
    <3>0. c \in Int /\ d \in Int /\ i \in Int
      BY <1>2, <1>3, BoundsAssumption DEF Known, Cmds
    <3>1. SUFFICES ASSUME attempts[d] = 0 PROVE FALSE
      BY <1>5 DEF Known
    <3>2. st[d] = "pending"
      BY <3>1 DEF Known, AttemptsOK, Statuses
    <3>3. PICK k \in 1..Len(q) : q[k] = d
      BY <1>2, <1>3, <1>6, <3>2 DEF RunQueueOK, Holds, Known
    <3>4. k # i /\ ~(k < i)
      BY <1>1, <1>2, <1>4, <1>6, <3>0, <3>2, <3>3
    <3>5. i < k /\ i \in DOMAIN q /\ k \in DOMAIN q
      BY <1>2, <1>3, <3>4
    <3>6. c < d
      BY <1>2, <1>4, <2>2, <3>3, <3>5 DEF RunQueueOK, OrderOK
    <3>8. QED
      BY <1>6, <3>0, <3>6
  <2>3. QED
    BY <1>3, <1>5, <2>1, <2>2
<1>7. SUFFICES ASSUME NEW d \in Known, NEW e \in Known, d < e, runOf[d] = runOf[e],
                      attempts'[e] > 0
               PROVE  attempts'[d] > 0
  BY <1>5 DEF FirstDeliveryInOrder
<1>8. CASE e = c
  BY <1>3, <1>5, <1>6, <1>7, <1>8 DEF Known
<1>9. CASE e # c
  BY <1>5, <1>7, <1>9 DEF Known, IInv, FirstDeliveryInOrder
<1>10. QED
  BY <1>8, <1>9

-----------------------------------------------------------------------------
(***************************************************************************)
(* Every action keeps IInv.                                                *)
(***************************************************************************)

LEMMA InitInv == Init => IInv
<1> SUFFICES ASSUME Init PROVE IInv
  OBVIOUS
<1>1. TypeInv
  BY InitType, BoundsAssumption DEF Init, TypeInv, AttemptsFit, Cmds
<1>2. QueueOK(status, pending)
  BY DEF Init, QueueOK, RunQueueOK, EntriesOK, OrderOK, Holds
<1>3. FirstDeliveryInOrder
  BY DEF Init, FirstDeliveryInOrder, Known
<1>4. QED
  BY <1>1, <1>2, <1>3 DEF IInv

\* The new command is younger than all others and known to no queue.
LEMMA EnqueueInv ==
  ASSUME IInv, NEW r \in Runs, Enqueue(r)
  PROVE  IInv'
<1>1. PICK c \in Cmds :
      /\ c = created + 1 /\ c \in Nat /\ status[c] = "unknown" /\ attempts[c] = 0
      /\ \A d \in Cmds : d \in Nat /\ (status[d] # "unknown" => d < c)
  BY BoundsAssumption DEF Enqueue, IInv, TypeInv, TypeOK, AttemptsFit, Cmds
<1>2. /\ created' = c
      /\ runOf' = [runOf EXCEPT ![c] = r]
      /\ status' = [status EXCEPT ![c] = "pending"]
      /\ pending' = [pending EXCEPT ![r] = Append(@, c)]
      /\ attempts' = attempts /\ left' = left /\ mirrored' = mirrored
  BY <1>1 DEF Enqueue
<1>3. /\ \A d \in Cmds : d # c => status'[d] = status[d] /\ runOf'[d] = runOf[d]
      /\ status'[c] = "pending" /\ runOf'[c] = r
  BY <1>1, <1>2 DEF IInv, TypeInv, TypeOK
<1>4. TypeInv'
  <2>1. Append(pending[r], c) \in Seq(Cmds)
    BY <1>1, AppendProperties DEF IInv, TypeInv, TypeOK
  <2>2. TypeOK'
    BY <1>1, <1>2, <2>1 DEF IInv, TypeInv, TypeOK, Statuses, Cmds
  <2>3. \A d \in Cmds : d > c => d > created
    BY <1>1 DEF IInv, TypeInv, TypeOK
  <2>4. AttemptsFit'
    <3> SUFFICES ASSUME NEW d \in Cmds
                 PROVE  /\ status'[d] = "pending" => attempts[d] < MaxAttempts
                        /\ status'[d] \in {"in_progress", "done", "failed"} => attempts[d] > 0
                        /\ status'[d] = "unknown" => attempts[d] = 0
                        /\ d > c => status'[d] = "unknown"
                        /\ status'[d] # "unknown" => runOf'[d] \in Runs
      BY <1>2 DEF AttemptsFit
    <3>1. CASE d = c
      BY <1>1, <1>3, <3>1, BoundsAssumption
    <3>2. CASE d # c
      BY <1>1, <1>3, <2>3, <3>2 DEF IInv, TypeInv, AttemptsFit
    <3>3. QED
      BY <3>1, <3>2
  <2>5. QED
    BY <2>2, <2>4 DEF TypeInv
<1>5. ASSUME NEW s \in Runs
      PROVE  /\ RunQueueOK(status, pending[s], s) /\ pending[s] \in Seq(Cmds)
             /\ \A k \in DOMAIN pending[s] :
                  /\ pending[s][k] \in Cmds /\ pending[s][k] # c
                  /\ pending[s][k] < c
  <2>1. RunQueueOK(status, pending[s], s) /\ pending[s] \in Seq(Cmds)
    BY DEF IInv, TypeInv, TypeOK, QueueOK
  <2>2. \A k \in DOMAIN pending[s] : pending[s][k] \in Cmds
    BY <2>1, ElementOfSeq, LenProperties
  <2>3. QED
    BY <1>1, <2>1, <2>2 DEF RunQueueOK, EntriesOK
<1>6. ASSUME NEW s \in Runs, s # r
      PROVE  RunQueueOK(status, pending[s], s)'
  <2>1. pending'[s] = pending[s]
    BY <1>2, <1>6 DEF IInv, TypeInv, TypeOK
  <2>2. EntriesOK(status, pending[s], s)'
    BY <1>3, <1>5, <2>1 DEF RunQueueOK, EntriesOK
  <2>3. OrderOK(pending[s])'
    BY <1>2, <1>5, <2>1 DEF RunQueueOK, OrderOK
  <2>4. Holds(status, pending[s], s)'
    BY <1>3, <1>5, <1>6, <2>1 DEF RunQueueOK, Holds
  <2>5. QED
    BY <2>2, <2>3, <2>4 DEF RunQueueOK
<1>7. RunQueueOK(status, pending[r], r)'
  <2>0. PICK p, q : p = pending[r] /\ q = Append(p, c)
    OBVIOUS
  <2>1. pending'[r] = q
    BY <1>2, <2>0 DEF IInv, TypeInv, TypeOK
  <2>2. /\ p \in Seq(Cmds) /\ Len(p) \in Nat /\ RunQueueOK(status, p, r)
        /\ DOMAIN p = 1..Len(p)
        /\ \A k \in 1..Len(p) : p[k] \in Cmds /\ p[k] # c /\ p[k] < c
    BY <1>5, <2>0, LenProperties
  <2>3. /\ DOMAIN q = 1..(Len(p) + 1) /\ q[Len(p) + 1] = c
        /\ \A k \in 1..Len(p) : q[k] = p[k]
    BY <1>1, <2>0, <2>2, AppendProperties, LenProperties
  <2>4. \A k \in DOMAIN q : k \in 1..Len(p) \/ (k = Len(p) + 1 /\ q[k] = c)
    BY <2>2, <2>3
  <2>5. EntriesOK(status, q, r)'
    BY <1>3, <2>2, <2>3, <2>4 DEF RunQueueOK, EntriesOK
  <2>6. OrderOK(q)'
    <3> SUFFICES ASSUME NEW k \in DOMAIN q, NEW l \in DOMAIN q, k < l
                 PROVE  q[k] # q[l] /\ (attempts[q[k]] = 0 => q[k] < q[l])
      BY <1>2 DEF OrderOK
    <3>1. k \in 1..Len(p)
      BY <2>2, <2>3
    <3>2. CASE l \in 1..Len(p)
      BY <2>2, <2>3, <3>1, <3>2 DEF RunQueueOK, OrderOK
    <3>3. CASE l \notin 1..Len(p)
      BY <2>2, <2>3, <2>4, <3>1, <3>3
    <3>4. QED
      BY <3>2, <3>3
  <2>7. Holds(status, q, r)'
    <3> SUFFICES ASSUME NEW d \in Cmds, status'[d] = "pending", runOf'[d] = r
                 PROVE  \E k \in DOMAIN q : q[k] = d
      BY DEF Holds
    <3>1. CASE d = c
      <4>1. Len(p) + 1 \in DOMAIN q
        BY <2>2, <2>3
      <4>2. QED
        BY <2>3, <3>1, <4>1
    <3>2. CASE d # c
      <4>1. PICK k \in 1..Len(p) : p[k] = d
        BY <1>3, <2>2, <3>2 DEF RunQueueOK, Holds
      <4>2. k \in DOMAIN q
        BY <2>2, <2>3
      <4>3. QED
        BY <2>3, <4>1, <4>2
    <3>3. QED
      BY <3>1, <3>2
  <2>8. QED
    BY <2>1, <2>5, <2>6, <2>7 DEF RunQueueOK
<1>8. QueueOK(status, pending)'
  BY <1>6, <1>7 DEF QueueOK
<1>9. FirstDeliveryInOrder'
  BY <1>1, <1>2, <1>3 DEF IInv, FirstDeliveryInOrder, Known
<1>10. QED
  BY <1>4, <1>8, <1>9 DEF IInv

LEMMA ClaimInv ==
  ASSUME IInv, NEW r \in Runs, Claim(r)
  PROVE  IInv'
<1>1. PICK front \in ByRun(Retried(Expired)) :
        LET st == ReclaimedStatus(Expired)
            queue == Requeued(front)
        IN \/ \E i \in DOMAIN queue[r] : Deliver(r, st, queue, i)
           \/ FindNothing(r, st, queue)
  BY DEF Claim
<1> DEFINE st == ReclaimedStatus(Expired)
           queue == Requeued(front)
<1>2. TypeInv /\ mirrored' = mirrored /\ created' = created /\ runOf' = runOf
  BY DEF IInv, Claim
<1>3. st \in [Cmds -> Statuses] /\ queue \in [Runs -> Seq(Cmds)]
  BY <1>2, ReclaimType DEF TypeInv
<1>4. QueueOK(st, queue) /\ AttemptsOK(st)
  BY <1>2, ReclaimQueue, ReclaimAttempts
<1>5. (\E i \in DOMAIN queue[r] : Deliver(r, st, queue, i)) \/ FindNothing(r, st, queue)
  BY <1>1
<1> HIDE DEF st, queue
<1>6. CASE \E i \in DOMAIN queue[r] : Deliver(r, st, queue, i)
  <2>1. PICK i \in DOMAIN queue[r] : Deliver(r, st, queue, i)
    BY <1>6
  <2>2. TypeInv' /\ QueueOK(status, pending)' /\ FirstDeliveryInOrder'
    BY <1>2, <1>3, <1>4, <2>1, DeliverType, DeliverQueue, DeliverFirst
  <2>3. QED
    BY <2>2 DEF IInv
<1>7. CASE FindNothing(r, st, queue)
  <2>1. /\ status' = st /\ attempts' = attempts /\ left' = left
        /\ pending' = [queue EXCEPT ![r] = <<>>]
        /\ \A i \in DOMAIN queue[r] : st[queue[r][i]] # "pending"
    BY <1>7 DEF FindNothing
  <2>2. TypeInv'
    <3>1. TypeOK'
      BY <1>2, <1>3, <2>1 DEF TypeInv, TypeOK
    <3>2. AttemptsFit'
      BY <1>2, <1>3, <1>4, <2>1 DEF TypeInv, AttemptsFit, AttemptsOK
    <3>3. QED
      BY <3>1, <3>2 DEF TypeInv
  <2>3. QueueOK(status, pending)'
    <3> SUFFICES ASSUME NEW s \in Runs PROVE RunQueueOK(st, pending'[s], s)
      BY <1>2, <2>1 DEF QueueOK, RunQueueOK, EntriesOK, OrderOK, Holds
    <3>1. CASE s = r
      <4>1. pending'[s] = <<>> /\ DOMAIN pending'[s] = {}
        BY <1>3, <2>1, <3>1
      <4>2. EntriesOK(st, pending'[s], s) /\ OrderOK(pending'[s])
        BY <4>1 DEF EntriesOK, OrderOK
      <4>3. Holds(st, pending'[s], s)
        BY <1>4, <2>1, <3>1 DEF QueueOK, RunQueueOK, Holds
      <4>4. QED
        BY <4>2, <4>3 DEF RunQueueOK
    <3>2. CASE s # r
      BY <1>3, <1>4, <2>1, <3>2 DEF QueueOK
    <3>3. QED
      BY <3>1, <3>2
  <2>4. FirstDeliveryInOrder'
    BY <1>2, <1>4, <2>1 DEF IInv, FirstDeliveryInOrder, Known, AttemptsOK
  <2>5. QED
    BY <2>2, <2>3, <2>4 DEF IInv
<1>8. QED
  BY <1>5, <1>6, <1>7

LEMMA PeekInv ==
  ASSUME IInv, Peek
  PROVE  IInv'
<1>1. PICK front \in ByRun(Retried(Expired)) : pending' = Requeued(front)
  BY DEF Peek
<1>2. /\ status' = ReclaimedStatus(Expired) /\ created' = created /\ runOf' = runOf
      /\ attempts' = attempts /\ left' = left /\ mirrored' = mirrored /\ TypeInv
  BY DEF Peek, IInv
<1>3. /\ status' \in [Cmds -> Statuses] /\ pending' \in [Runs -> Seq(Cmds)]
      /\ QueueOK(status', pending') /\ AttemptsOK(status')
  BY <1>1, <1>2, ReclaimType, ReclaimQueue, ReclaimAttempts DEF TypeInv
<1>4. TypeOK'
  BY <1>2, <1>3 DEF TypeInv, TypeOK
<1>5. AttemptsFit'
  BY <1>2, <1>3 DEF TypeInv, AttemptsFit, AttemptsOK
<1>6. QueueOK(status, pending)'
  BY <1>2, <1>3 DEF QueueOK, RunQueueOK, EntriesOK, OrderOK, Holds
<1>7. FirstDeliveryInOrder'
  BY <1>2, <1>3 DEF IInv, FirstDeliveryInOrder, Known, AttemptsOK
<1>8. QED
  BY <1>4, <1>5, <1>6, <1>7 DEF IInv, TypeInv

\* A result may leave a stale entry behind, never a command out of a queue.
LEMMA CompleteInv ==
  ASSUME IInv, NEW c \in Cmds, NEW ok \in BOOLEAN, Complete(c, ok)
  PROVE  IInv'
<1>1. /\ attempts[c] > 0 /\ status[c] # "unknown"
      /\ status'[c] \in {"done", "failed"}
      /\ \A d \in Cmds : d # c => status'[d] = status[d]
      /\ created' = created /\ runOf' = runOf /\ attempts' = attempts
      /\ pending' = pending /\ mirrored' = mirrored
  BY DEF Complete, RecordResult, IInv, TypeInv, TypeOK
<1>2. TypeOK'
  <2>1. status' \in [Cmds -> Statuses] /\ left' \in [Cmds -> 0..Lease]
    BY BoundsAssumption DEF Complete, RecordResult, IInv, TypeInv, TypeOK, Statuses
  <2>2. QED
    BY <1>1, <2>1 DEF IInv, TypeInv, TypeOK
<1>3. AttemptsFit'
  BY <1>1 DEF IInv, TypeInv, AttemptsFit
<1>4. ASSUME NEW r \in Runs
      PROVE  RunQueueOK(status, pending[r], r)'
  <2>1. /\ RunQueueOK(status, pending[r], r)
        /\ \A i \in DOMAIN pending[r] : pending[r][i] \in Cmds
    BY ElementOfSeq, LenProperties DEF IInv, TypeInv, TypeOK, QueueOK
  <2>2. EntriesOK(status, pending[r], r)'
    BY <1>1, <2>1 DEF RunQueueOK, EntriesOK
  <2>3. OrderOK(pending[r])'
    BY <1>1, <2>1 DEF RunQueueOK, OrderOK
  <2>4. Holds(status, pending[r], r)'
    BY <1>1, <2>1 DEF RunQueueOK, Holds
  <2>5. QED
    BY <2>2, <2>3, <2>4 DEF RunQueueOK
<1>5. FirstDeliveryInOrder'
  BY <1>1 DEF IInv, FirstDeliveryInOrder, Known
<1>6. QED
  BY <1>2, <1>3, <1>4, <1>5 DEF IInv, TypeInv, QueueOK

LEMMA TickInv ==
  ASSUME IInv, Tick
  PROVE  IInv'
<1>1. /\ created' = created /\ runOf' = runOf /\ status' = status
      /\ attempts' = attempts /\ pending' = pending
  BY DEF Tick
<1>2. TypeOK'
  BY BoundsAssumption DEF Tick, IInv, TypeInv, TypeOK
<1>3. AttemptsFit'
  BY <1>1 DEF IInv, TypeInv, AttemptsFit
<1>4. QueueOK(status, pending)'
  BY <1>1 DEF IInv, QueueOK, RunQueueOK, EntriesOK, OrderOK, Holds
<1>5. FirstDeliveryInOrder'
  BY <1>1 DEF IInv, FirstDeliveryInOrder, Known
<1>6. QED
  BY <1>2, <1>3, <1>4, <1>5 DEF IInv, TypeInv

\* The queues are rebuilt whole, so no stale entry survives.
LEMMA RestartFromDbInv ==
  ASSUME IInv, RestartFromDb
  PROVE  IInv'
<1>1. PICK Cut \in SUBSET Expired :
        /\ status' = ReclaimedStatus(Cut)
        /\ pending' \in ByRun({c \in Cmds : ReclaimedStatus(Cut)[c] = "pending"})
  BY DEF RestartFromDb
<1> DEFINE Waiting == {c \in Cmds : status'[c] = "pending"}
<1>2. /\ created' = created /\ runOf' = runOf /\ attempts' = attempts
      /\ left' = left /\ mirrored' = mirrored /\ TypeInv
  BY DEF RestartFromDb, IInv
<1>3. Waiting \in SUBSET Cmds /\ pending' \in ByRun(Waiting)
  BY <1>1
<1>4. status' \in [Cmds -> Statuses] /\ AttemptsOK(status')
  BY <1>1, <1>2, ReclaimAttempts DEF ReclaimedStatus, TypeInv, TypeOK, Statuses
<1>5. TypeOK'
  BY <1>2, <1>3, <1>4, ByRunType DEF TypeInv, TypeOK
<1>6. AttemptsFit'
  BY <1>2, <1>4 DEF TypeInv, AttemptsFit, AttemptsOK
<1>7. ASSUME NEW r \in Runs
      PROVE  RunQueueOK(status, pending[r], r)'
  <2> DEFINE q == pending'[r]
  <2>1. /\ q \in Seq(Cmds)
        /\ \A i \in DOMAIN q : q[i] \in Waiting /\ runOf[q[i]] = r
        /\ \A c \in Waiting : runOf[c] = r => \E i \in DOMAIN q : q[i] = c
        /\ \A i, j \in DOMAIN q : i < j => q[i] < q[j]
    BY <1>3, ByRunFacts
  <2> HIDE DEF q
  <2>2. \A i \in DOMAIN q : q[i] \in Nat
    BY <2>1, BoundsAssumption DEF Cmds
  <2>3. EntriesOK(status, pending[r], r)'
    BY <1>2, <2>1 DEF EntriesOK, q
  <2>4. OrderOK(pending[r])'
    <3>1. \A i, j \in DOMAIN q : i < j => q[i] < q[j] /\ q[i] # q[j]
      BY <2>1, <2>2
    <3>2. QED
      BY <3>1 DEF OrderOK, q
  <2>5. Holds(status, pending[r], r)'
    BY <1>2, <2>1 DEF Holds, q
  <2>6. QED
    BY <2>3, <2>4, <2>5 DEF RunQueueOK
<1>8. FirstDeliveryInOrder'
  BY <1>2, <1>4 DEF IInv, FirstDeliveryInOrder, Known, AttemptsOK
<1>9. QED
  BY <1>5, <1>6, <1>7, <1>8 DEF IInv, TypeInv, QueueOK

LEMMA RestartEmptyInv ==
  ASSUME IInv, RestartEmpty
  PROVE  IInv'
<1>1. TypeOK'
  BY BoundsAssumption DEF RestartEmpty, IInv, TypeInv, TypeOK, Statuses
<1>2. AttemptsFit'
  BY DEF RestartEmpty, AttemptsFit
<1>3. QueueOK(status, pending)'
  BY DEF RestartEmpty, QueueOK, RunQueueOK, EntriesOK, OrderOK, Holds
<1>4. FirstDeliveryInOrder'
  BY DEF RestartEmpty, FirstDeliveryInOrder, Known
<1>5. QED
  BY <1>1, <1>2, <1>3, <1>4 DEF IInv, TypeInv

LEMMA StutterInv ==
  ASSUME IInv, UNCHANGED vars
  PROVE  IInv'
BY DEF vars, IInv, TypeInv, TypeOK, AttemptsFit, QueueOK, RunQueueOK, EntriesOK,
       OrderOK, Holds, FirstDeliveryInOrder, Known

LEMMA StepInv == IInv /\ [Next]_vars => IInv'
<1> SUFFICES ASSUME IInv, [Next]_vars PROVE IInv'
  OBVIOUS
<1>1. ASSUME NEW r \in Runs, Enqueue(r) PROVE IInv'
  BY <1>1, EnqueueInv
<1>2. ASSUME NEW r \in Runs, Claim(r) PROVE IInv'
  BY <1>2, ClaimInv
<1>3. ASSUME NEW c \in Cmds, NEW ok \in BOOLEAN, Complete(c, ok) PROVE IInv'
  BY <1>3, CompleteInv
<1>4. CASE Peek
  BY <1>4, PeekInv
<1>5. CASE Tick
  BY <1>5, TickInv
<1>6. CASE RestartFromDb
  BY <1>6, RestartFromDbInv
<1>7. CASE RestartEmpty
  BY <1>7, RestartEmptyInv
<1>8. CASE UNCHANGED vars
  BY <1>8, StutterInv
<1>9. QED
  BY <1>1, <1>2, <1>3, <1>4, <1>5, <1>6, <1>7, <1>8 DEF Next

\* IInv is an inductive invariant of the store.
THEOREM InductiveInvariant == Spec => []IInv
<1>1. Init => IInv
  BY InitInv
<1>2. IInv /\ [Next]_vars => IInv'
  BY StepInv
<1>3. QED
  BY <1>1, <1>2, PTL DEF Spec

\* Type correctness: every delivery count and lease stays within its bound.
THEOREM TypeCorrect == Spec => []TypeOK
BY InductiveInvariant, PTL DEF IInv, TypeInv

(***************************************************************************)
(* No pending command is stranded outside the queue of its run, none is    *)
(* queued twice, and none that a bridge holds is queued.                   *)
(***************************************************************************)
THEOREM QueuesHoldPending == Spec => []QueueHoldsPending
<1>1. ASSUME IInv PROVE QueueHoldsPending
  <2>1. ASSUME NEW r \in Runs, NEW i \in DOMAIN pending[r]
        PROVE  /\ runOf[pending[r][i]] = r
               /\ status[pending[r][i]] \in {"pending", "done", "failed"}
               /\ \A j \in DOMAIN pending[r] : pending[r][i] = pending[r][j] => i = j
    <3>1. RunQueueOK(status, pending[r], r) /\ DOMAIN pending[r] \subseteq Int
      BY <1>1, LenProperties DEF IInv, TypeInv, TypeOK, QueueOK
    <3>2. \A j \in DOMAIN pending[r] : i = j \/ i < j \/ j < i
      BY <3>1
    <3>3. \A j \in DOMAIN pending[r] : pending[r][i] = pending[r][j] => i = j
      BY <3>1, <3>2 DEF RunQueueOK, OrderOK
    <3>4. QED
      BY <3>1, <3>3 DEF RunQueueOK, EntriesOK
  <2>2. ASSUME NEW c \in Cmds, status[c] = "pending"
        PROVE  \E i \in DOMAIN pending[runOf[c]] : pending[runOf[c]][i] = c
    BY <1>1, <2>2 DEF IInv, TypeInv, AttemptsFit, QueueOK, RunQueueOK, Holds
  <2>3. QED
    BY <2>1, <2>2 DEF QueueHoldsPending
<1>2. QED
  BY <1>1, InductiveInvariant, PTL

\* No command is delivered before an older one of its run was, at least once.
THEOREM FirstDeliveriesInOrder == Spec => []FirstDeliveryInOrder
BY InductiveInvariant, PTL DEF IInv

-----------------------------------------------------------------------------
(***************************************************************************)
(* What one step of the store can do to one command.                       *)
(***************************************************************************)
Same(c) == status'[c] = status[c] /\ attempts'[c] = attempts[c]

Submitted(c) ==
  status[c] = "unknown" /\ status'[c] = "pending" /\ attempts'[c] = attempts[c]

Delivered(c) ==
  /\ status[c] = "pending" \/ c \in Expired
  /\ attempts[c] < MaxAttempts
  /\ status'[c] = "in_progress" /\ attempts'[c] = attempts[c] + 1

Returned(c) ==
  /\ c \in Expired /\ attempts[c] < MaxAttempts
  /\ status'[c] = "pending" /\ attempts'[c] = attempts[c]

GivenUp(c) ==
  /\ c \in Expired /\ attempts[c] = MaxAttempts
  /\ status'[c] = "failed" /\ attempts'[c] = attempts[c]

Answered(c) == \E ok \in BOOLEAN : Complete(c, ok)

Forgotten(c) == ~mirrored /\ status'[c] = "unknown" /\ attempts'[c] = 0

CommandStep(c) ==
  \/ Same(c) \/ Submitted(c) \/ Delivered(c) \/ Returned(c)
  \/ GivenUp(c) \/ Answered(c) \/ Forgotten(c)

LEMMA ReclaimSteps ==
  ASSUME TypeInv, NEW E \in SUBSET Expired, NEW c \in Cmds,
         attempts'[c] = attempts[c], status'[c] = ReclaimedStatus(E)[c]
  PROVE  Same(c) \/ Returned(c) \/ GivenUp(c)
BY BoundsAssumption
DEF TypeInv, TypeOK, ReclaimedStatus, Retried, Same, Returned, GivenUp

LEMMA ClaimSteps ==
  ASSUME IInv, NEW r \in Runs, Claim(r), NEW c \in Cmds
  PROVE  CommandStep(c)
<1>1. PICK front \in ByRun(Retried(Expired)) :
        LET st == ReclaimedStatus(Expired)
            queue == Requeued(front)
        IN \/ \E i \in DOMAIN queue[r] : Deliver(r, st, queue, i)
           \/ FindNothing(r, st, queue)
  BY DEF Claim
<1> DEFINE st == ReclaimedStatus(Expired)
           queue == Requeued(front)
<1>2. TypeInv
  BY DEF IInv
<1>3. st \in [Cmds -> Statuses] /\ queue \in [Runs -> Seq(Cmds)] /\ AttemptsOK(st)
  BY <1>2, ReclaimType, ReclaimAttempts DEF TypeInv
<1>4. \A d \in Cmds : st[d] = "pending" => status[d] = "pending" \/ d \in Expired
  BY DEF ReclaimedStatus
<1>5. CASE attempts'[c] = attempts[c] /\ status'[c] = st[c]
  BY <1>2, <1>5, ReclaimSteps DEF CommandStep
<1>6. (\E i \in DOMAIN queue[r] : Deliver(r, st, queue, i)) \/ FindNothing(r, st, queue)
  BY <1>1
<1> HIDE DEF st, queue
<1>7. CASE \E i \in DOMAIN queue[r] : Deliver(r, st, queue, i)
  <2>1. PICK i \in DOMAIN queue[r] : Deliver(r, st, queue, i)
    BY <1>7
  <2>2. PICK d \in Cmds : d = queue[r][i]
    BY <1>3, ElementOfSeq, LenProperties
  <2>3. /\ st[d] = "pending"
        /\ status' = [st EXCEPT ![d] = "in_progress"]
        /\ attempts' = [attempts EXCEPT ![d] = @ + 1]
    BY <2>1, <2>2 DEF Deliver, Claimable
  <2>4. CASE c = d
    BY <1>2, <1>3, <1>4, <2>3, <2>4
    DEF TypeInv, TypeOK, AttemptsOK, Delivered, CommandStep
  <2>5. CASE c # d
    BY <1>2, <1>3, <1>5, <2>3, <2>5 DEF TypeInv, TypeOK
  <2>6. QED
    BY <2>4, <2>5
<1>8. CASE FindNothing(r, st, queue)
  BY <1>5, <1>8 DEF FindNothing
<1>9. QED
  BY <1>6, <1>7, <1>8

LEMMA CommandSteps ==
  ASSUME IInv, [Next]_vars, NEW c \in Cmds
  PROVE  CommandStep(c)
<1>0. TypeInv
  BY DEF IInv
<1>1. ASSUME NEW r \in Runs, Enqueue(r) PROVE CommandStep(c)
  <2>1. status[created + 1] = "unknown"
    BY <1>0, <1>1, BoundsAssumption DEF Enqueue, TypeInv, TypeOK, AttemptsFit, Cmds
  <2>2. QED
    BY <1>0, <1>1, <2>1
    DEF Enqueue, TypeInv, TypeOK, Same, Submitted, CommandStep
<1>2. ASSUME NEW r \in Runs, Claim(r) PROVE CommandStep(c)
  BY <1>2, ClaimSteps
<1>3. ASSUME NEW d \in Cmds, NEW ok \in BOOLEAN, Complete(d, ok) PROVE CommandStep(c)
  <2>1. CASE c = d
    BY <1>3, <2>1 DEF Answered, CommandStep
  <2>2. CASE c # d
    BY <1>0, <1>3, <2>2 DEF Complete, RecordResult, TypeInv, TypeOK, Same, CommandStep
  <2>3. QED
    BY <2>1, <2>2
<1>4. CASE Peek
  <2>1. attempts'[c] = attempts[c] /\ status'[c] = ReclaimedStatus(Expired)[c]
    BY <1>4 DEF Peek
  <2>2. QED
    BY <1>0, <2>1, ReclaimSteps DEF CommandStep
<1>5. CASE Tick
  BY <1>5 DEF Tick, Same, CommandStep
<1>6. CASE RestartFromDb
  <2>1. PICK Cut \in SUBSET Expired :
          attempts'[c] = attempts[c] /\ status'[c] = ReclaimedStatus(Cut)[c]
    BY <1>6 DEF RestartFromDb
  <2>2. QED
    BY <1>0, <2>1, ReclaimSteps DEF CommandStep
<1>7. CASE RestartEmpty
  BY <1>7 DEF RestartEmpty, Forgotten, CommandStep
<1>8. CASE UNCHANGED vars
  BY <1>8 DEF vars, Same, CommandStep
<1>9. QED
  BY <1>1, <1>2, <1>3, <1>4, <1>5, <1>6, <1>7, <1>8 DEF Next

(***************************************************************************)
(* A command is handed out only from the queue or after its lease ran out. *)
(***************************************************************************)
THEOREM DeliveriesAreExclusive == Spec => DeliveryIsExclusive
<1> DEFINE Exclusive ==
      \A c \in Cmds : attempts'[c] > attempts[c] =>
        \/ status[c] = "pending"
        \/ status[c] = "in_progress" /\ left[c] = 0
<1>1. ASSUME IInv, [Next]_vars PROVE Exclusive
  <2> SUFFICES ASSUME NEW c \in Cmds, attempts'[c] > attempts[c]
               PROVE  status[c] = "pending" \/ (status[c] = "in_progress" /\ left[c] = 0)
    OBVIOUS
  <2>1. CommandStep(c) /\ attempts[c] \in Nat
    BY <1>1, CommandSteps DEF IInv, TypeInv, TypeOK
  <2>2. Delivered(c)
    BY <2>1 DEF CommandStep, Same, Submitted, Returned, GivenUp, Answered, Complete, RecordResult, Forgotten
  <2>3. QED
    BY <2>2 DEF Delivered, Expired
<1>2. QED
  BY <1>1, InductiveInvariant, PTL DEF Spec, DeliveryIsExclusive

(***************************************************************************)
(* As long as the store knows it, a finished command is not reopened, and  *)
(* its verdict changes only by a result.                                   *)
(***************************************************************************)
THEOREM FinishedCommandsStay == Spec => FinishedStays
<1> DEFINE Stays ==
      \A c \in Cmds : Finished(c) /\ status'[c] # "unknown" =>
        /\ Finished(c)'
        /\ status'[c] # status[c] => \E ok \in BOOLEAN : Complete(c, ok)
<1>1. ASSUME IInv, [Next]_vars PROVE Stays
  <2> SUFFICES ASSUME NEW c \in Cmds, Finished(c), status'[c] # "unknown"
               PROVE  /\ Finished(c)'
                      /\ status'[c] # status[c] => \E ok \in BOOLEAN : Complete(c, ok)
    OBVIOUS
  <2>1. CommandStep(c)
    BY <1>1, CommandSteps
  <2>2. Same(c) \/ Answered(c)
    BY <2>1 DEF CommandStep, Submitted, Delivered, Returned, GivenUp, Forgotten,
                Finished, Expired
  <2>3. CASE Same(c)
    BY <2>3 DEF Same, Finished
  <2>4. CASE Answered(c)
    BY <1>1, <2>4 DEF Answered, Complete, RecordResult, Finished, IInv, TypeInv, TypeOK
  <2>5. QED
    BY <2>2, <2>3, <2>4
<1>2. QED
  BY <1>1, InductiveInvariant, PTL DEF Spec, FinishedStays

-----------------------------------------------------------------------------
(***************************************************************************)
(* The store implements CommandLifecycle: each step of the store is, for   *)
(* every command, a step of its lifecycle or leaves it alone.              *)
(***************************************************************************)
LEMMA LifecycleStep ==
  ASSUME IInv, IInv', [Next]_vars
  PROVE  Lifecycle!Next
<1>1. /\ status' \in [Cmds -> Lifecycle!Phases]
      /\ attempts' \in [Cmds -> 0..MaxAttempts]
  BY DEF IInv, TypeInv, TypeOK, Statuses, Lifecycle!Phases
<1>2. ASSUME NEW c \in Cmds PROVE Lifecycle!Step(c)
  <2>1. CommandStep(c)
    BY CommandSteps
  <2>2. CASE Same(c)
    BY <2>2 DEF Same, Lifecycle!Step, Lifecycle!Keep, Lifecycle!Becomes
  <2>3. CASE Submitted(c)
    BY <2>3 DEF Submitted, Lifecycle!Step, Lifecycle!Submit, Lifecycle!Becomes
  <2>4. CASE Delivered(c)
    BY <2>4 DEF Delivered, Expired, Lifecycle!Step, Lifecycle!Deliver, Lifecycle!Becomes
  <2>5. CASE Returned(c)
    BY <2>5 DEF Returned, Expired, Lifecycle!Step, Lifecycle!Return, Lifecycle!Becomes
  <2>6. CASE GivenUp(c)
    BY <2>6 DEF GivenUp, Expired, Lifecycle!Step, Lifecycle!GiveUp, Lifecycle!Becomes
  <2>7. CASE Answered(c)
    <3>1. /\ status[c] # "unknown" /\ attempts[c] > 0
          /\ status'[c] \in {"done", "failed"} /\ attempts'[c] = attempts[c]
      BY <2>7 DEF Answered, Complete, RecordResult, IInv, TypeInv, TypeOK
    <3>2. QED
      BY <3>1 DEF Lifecycle!Step, Lifecycle!Answer, Lifecycle!Becomes
  <2>8. CASE Forgotten(c)
    BY <2>8 DEF Forgotten, Lifecycle!Step, Lifecycle!Forget, Lifecycle!Becomes
  <2>9. QED
    BY <2>1, <2>2, <2>3, <2>4, <2>5, <2>6, <2>7, <2>8 DEF CommandStep
<1>3. mirrored' = mirrored
  BY DEF Next, Enqueue, Claim, Complete, RecordResult, Peek, Tick, RestartFromDb,
         RestartEmpty, vars
<1>4. QED
  BY <1>1, <1>2, <1>3 DEF Lifecycle!Next

THEOREM StoreImplementsLifecycle == Spec => ImplementsLifecycle
<1>1. Init => Lifecycle!Init
  BY DEF Init, Lifecycle!Init
<1>2. IInv /\ IInv' /\ [Next]_vars => [Lifecycle!Next]_(Lifecycle!vars)
  BY LifecycleStep
<1>3. QED
  BY <1>1, <1>2, InductiveInvariant, PTL DEF Spec, ImplementsLifecycle, Lifecycle!Spec
=============================================================================
