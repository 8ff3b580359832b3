-------------------------- MODULE ControlLoopProofs --------------------------
(***************************************************************************)
(* Theorems about ControlLoop, for any number of commands and deliveries,  *)
(* any lease and any choice of commands that are safe for the poller.      *)
(***************************************************************************)
EXTENDS ControlLoop, TLAPS, FiniteSetTheorems, FunctionTheorems, SequenceTheorems

StoreProofs == INSTANCE CommandStoreProofs

-----------------------------------------------------------------------------
(***************************************************************************)
(* Counting.                                                               *)
(***************************************************************************)

\* A set of threads has as many elements as the two threads in it.
LEMMA PairCount ==
  ASSUME NEW S \in SUBSET Threads
  PROVE  Cardinality(S) = (IF "trainer" \in S THEN 1 ELSE 0) + (IF "poller" \in S THEN 1 ELSE 0)
<1>1. CASE S = {}
  BY <1>1, FS_EmptySet
<1>2. CASE S = {"trainer"}
  BY <1>2, FS_Singleton
<1>3. CASE S = {"poller"}
  BY <1>3, FS_Singleton
<1>4. CASE S = {"trainer"} \cup {"poller"}
  <2>1. Cardinality({"trainer"}) = 1 /\ IsFiniteSet({"trainer"})
    BY FS_Singleton
  <2> QED
    BY <1>4, <2>1, FS_AddElement
<1> QED
  BY <1>1, <1>2, <1>3, <1>4 DEF Threads

\* The places of c in a sequence are finitely many.
LEMMA PlacesFinite ==
  ASSUME NEW s \in Seq(Cmds), NEW c
  PROVE  IsFiniteSet({i \in DOMAIN s : s[i] = c}) /\ Copies(s, c) \in Nat
<1>1. IsFiniteSet(1..Len(s))
  BY FS_Interval, LenProperties
<1>2. {i \in DOMAIN s : s[i] = c} \in SUBSET (1..Len(s))
  BY LenProperties
<1> QED
  BY <1>1, <1>2, FS_Subset, FS_CardinalityType DEF Copies

\* An empty list holds no copy of anything.
LEMMA CopiesEmpty == \A c : Copies(<<>>, c) = 0
<1> SUFFICES ASSUME NEW c PROVE Copies(<<>>, c) = 0
  OBVIOUS
<1>1. {i \in DOMAIN <<>> : <<>>[i] = c} = {}
  OBVIOUS
<1> QED
  BY <1>1, FS_EmptySet DEF Copies

\* Appending d adds one copy of d and none of any other command.
LEMMA CopiesAppend ==
  ASSUME NEW s \in Seq(Cmds), NEW d \in Cmds, NEW c
  PROVE  Copies(Append(s, d), c) = Copies(s, c) + (IF d = c THEN 1 ELSE 0)
<1> DEFINE Places == {i \in DOMAIN s : s[i] = c}
           New    == {i \in DOMAIN Append(s, d) : Append(s, d)[i] = c}
           n      == Len(s) + 1
<1>1. IsFiniteSet(Places) /\ Copies(s, c) \in Nat
  BY PlacesFinite
<1>2. Places \subseteq 1..Len(s) /\ Len(s) \in Nat
  BY LenProperties
<1>3. n \notin Places
  BY <1>2
<1>4. New = IF d = c THEN Places \cup {n} ELSE Places
  BY AppendProperties, LenProperties
<1>5. Copies(Append(s, d), c) = Cardinality(New) /\ Copies(s, c) = Cardinality(Places)
  BY DEF Copies
<1> HIDE DEF Places, New, n
<1>6. Cardinality(Places \cup {n}) = Cardinality(Places) + 1
  BY <1>1, <1>3, FS_AddElement
<1> QED
  BY <1>1, <1>4, <1>5, <1>6

\* Taking the head off a list takes one copy of it.
LEMMA CopiesTail ==
  ASSUME NEW s \in Seq(Cmds), s # <<>>, NEW c
  PROVE  Copies(s, c) = Copies(Tail(s), c) + (IF Head(s) = c THEN 1 ELSE 0)
<1> DEFINE Rest == {i \in DOMAIN Tail(s) : Tail(s)[i] = c}
           Moved == {i \in DOMAIN s : i # 1 /\ s[i] = c}
           Places == {i \in DOMAIN s : s[i] = c}
<1>1. Tail(s) \in Seq(Cmds) /\ Len(Tail(s)) = Len(s) - 1 /\ Len(s) \in Nat \ {0}
      /\ DOMAIN s = 1..Len(s) /\ DOMAIN Tail(s) = 1..(Len(s) - 1)
      /\ \A i \in 1..(Len(s) - 1) : Tail(s)[i] = s[i + 1]
  BY HeadTailProperties, LenProperties, EmptySeq
<1>2. IsFiniteSet(Rest) /\ IsFiniteSet(Places) /\ Cardinality(Rest) \in Nat
  BY <1>1, PlacesFinite DEF Copies
<1>3. ExistsBijection(Rest, Moved)
  <2> DEFINE f == [i \in Rest |-> i + 1]
  <2>1. f \in [Rest -> Moved]
    BY <1>1
  <2>2. \A a, b \in Rest : f[a] = f[b] => a = b
    BY <1>1
  <2>3. \A k \in Moved : \E i \in Rest : f[i] = k
    <3> SUFFICES ASSUME NEW k \in Moved PROVE \E i \in Rest : f[i] = k
      OBVIOUS
    <3>1. k - 1 \in Rest /\ f[k - 1] = k
      BY <1>1
    <3> QED
      BY <3>1
  <2> HIDE DEF f
  <2> QED
    BY <2>1, <2>2, <2>3, Fun_IsBij DEF ExistsBijection
<1>4. Cardinality(Moved) = Cardinality(Rest) /\ IsFiniteSet(Moved)
  BY <1>2, <1>3, FS_Bijection
<1>5. Places = (IF Head(s) = c THEN Moved \cup {1} ELSE Moved) /\ 1 \notin Moved
  BY <1>1, HeadTailProperties
<1>6. Copies(Tail(s), c) = Cardinality(Rest) /\ Copies(s, c) = Cardinality(Places)
  BY DEF Copies
<1> HIDE DEF Rest, Moved, Places
<1> QED
  BY <1>2, <1>4, <1>5, <1>6, FS_AddElement
-----------------------------------------------------------------------------
(***************************************************************************)
(* The store of this module is the one CommandStoreProofs is about.        *)
(***************************************************************************)

\* Both instances count alike.
LEMMA SameCardinality == \A S : Store!Cardinality(S) = StoreProofs!Cardinality(S)
BY DEF Store!Cardinality, StoreProofs!Cardinality, Store!IsFiniteSet, StoreProofs!IsFiniteSet

\* The operators the actions of the store are built from.
LEMMA SameParts ==
  /\ Store!vars = StoreProofs!vars
  /\ Store!Cmds = StoreProofs!Cmds
  /\ Store!Expired = StoreProofs!Expired
  /\ \A E : Store!Retried(E) = StoreProofs!Retried(E)
  /\ \A E : Store!ReclaimedStatus(E) = StoreProofs!ReclaimedStatus(E)
  /\ \A f : Store!Requeued(f) = StoreProofs!Requeued(f)
  /\ \A S : Store!ByRun(S) = StoreProofs!ByRun(S)
<1>1. Store!Cmds = StoreProofs!Cmds /\ Store!Expired = StoreProofs!Expired /\ Store!vars = StoreProofs!vars
  BY DEF Store!Cmds, StoreProofs!Cmds, Store!Expired, StoreProofs!Expired, Store!vars, StoreProofs!vars
<1>2. \A E : Store!Retried(E) = StoreProofs!Retried(E)
  BY DEF Store!Retried, StoreProofs!Retried
<1>3. \A E : Store!ReclaimedStatus(E) = StoreProofs!ReclaimedStatus(E)
  BY <1>1, <1>2 DEF Store!ReclaimedStatus, StoreProofs!ReclaimedStatus
<1>4. \A f : Store!Requeued(f) = StoreProofs!Requeued(f)
  BY DEF Store!Requeued, StoreProofs!Requeued
<1>5. \A S : Store!InCreatedOrder(S) = StoreProofs!InCreatedOrder(S)
  BY SameCardinality DEF Store!InCreatedOrder, StoreProofs!InCreatedOrder
<1>6. \A S : Store!ByRun(S) = StoreProofs!ByRun(S)
  BY <1>5 DEF Store!ByRun, StoreProofs!ByRun
<1> QED BY <1>1, <1>2, <1>3, <1>4, <1>6

\* So a step of one instance is a step of the other.
LEMMA SameActions ==
  /\ Store!Init <=> StoreProofs!Init
  /\ \A r : Store!Enqueue(r) <=> StoreProofs!Enqueue(r)
  /\ \A r : Store!Claim(r) <=> StoreProofs!Claim(r)
  /\ \A c, ok : Store!Complete(c, ok) <=> StoreProofs!Complete(c, ok)
  /\ Store!Peek <=> StoreProofs!Peek
  /\ Store!Tick <=> StoreProofs!Tick
  /\ Store!RestartFromDb <=> StoreProofs!RestartFromDb
  /\ Store!RestartEmpty <=> StoreProofs!RestartEmpty
<1>0. Store!Init <=> StoreProofs!Init
  BY SameParts DEF Store!Init, StoreProofs!Init
<1>1. \A r : Store!Enqueue(r) <=> StoreProofs!Enqueue(r)
  BY DEF Store!Enqueue, StoreProofs!Enqueue
<1>2. \A r : Store!Claim(r) <=> StoreProofs!Claim(r)
  <2>1. \A r, st, queue, i : Store!Deliver(r, st, queue, i) <=> StoreProofs!Deliver(r, st, queue, i)
    BY DEF Store!Deliver, StoreProofs!Deliver, Store!Claimable, StoreProofs!Claimable
  <2>2. \A r, st, queue : Store!FindNothing(r, st, queue) <=> StoreProofs!FindNothing(r, st, queue)
    BY DEF Store!FindNothing, StoreProofs!FindNothing
  <2> QED
    BY <2>1, <2>2, SameParts DEF Store!Claim, StoreProofs!Claim
<1>3. \A c, ok : Store!Complete(c, ok) <=> StoreProofs!Complete(c, ok)
  BY DEF Store!Complete, StoreProofs!Complete,Store!RecordResult, StoreProofs!RecordResult
<1>4. Store!Peek <=> StoreProofs!Peek
  BY SameParts DEF Store!Peek, StoreProofs!Peek
<1>5. Store!Tick <=> StoreProofs!Tick
  BY SameParts DEF Store!Tick, StoreProofs!Tick
<1>6. Store!RestartFromDb <=> StoreProofs!RestartFromDb
  BY SameParts DEF Store!RestartFromDb, StoreProofs!RestartFromDb
<1>7. Store!RestartEmpty <=> StoreProofs!RestartEmpty
  BY SameParts DEF Store!RestartEmpty, StoreProofs!RestartEmpty
<1> QED BY <1>0, <1>1, <1>2, <1>3, <1>4, <1>5, <1>6, <1>7
-----------------------------------------------------------------------------
(***************************************************************************)
(* The invariant.                                                          *)
(***************************************************************************)

Busy == {"defer", "run", "report", "report_failure"}

NodeTypes ==
  /\ pc \in ThreadPlaces
  /\ hand \in [Threads -> Cmds \cup {NoCmd}]
  /\ deferred \in Seq(Cmds) /\ batch \in Seq(Cmds)
  /\ stopping \in BOOLEAN /\ joined \in BOOLEAN
  /\ applied \in [Cmds -> Nat]
  /\ raised \subseteq Cmds
  /\ \A t \in Threads : pc[t] \in Busy => hand[t] \in Cmds

\* What a thread works on was handed out; a success is reported for what
\* was applied.
WorkIsGivenOut ==
  \A t \in Threads :
    /\ pc[t] \in Busy => attempts[hand[t]] > 0
    /\ pc[t] = "report" => applied[hand[t]] > 0

\* The training thread joins after it has told the poller to stop.  Once it
\* saw the poller stop, nothing is deferred any more, and it only works off
\* what it has.
OrderlyEnd ==
  /\ pc["trainer"] = "join" => stopping
  /\ joined => /\ stopping
               /\ pc["poller"] = "off"
               /\ deferred = <<>>
               /\ pc["trainer"] \notin {"train", "join"}
  /\ pc["trainer"] = "ended" => batch = <<>>

IInv ==
  /\ StoreProofs!IInv
  /\ NodeTypes
  /\ WorkIsGivenOut
  /\ EachDeliveryRunsOnce
  /\ DoneMeansApplied
  /\ OrderlyEnd

-----------------------------------------------------------------------------
(***************************************************************************)
(* What a step does to the store.                                          *)
(***************************************************************************)

\* What the invariant of the store says of the types of its state.
LEMMA StoreTypes ==
  ASSUME StoreProofs!IInv
  PROVE  /\ attempts \in [Cmds -> 0..MaxAttempts]
         /\ status \in [Cmds -> Store!Statuses]
         /\ Store!TypeOK
BY DEF StoreProofs!IInv, StoreProofs!TypeInv, StoreProofs!TypeOK, Store!TypeOK, StoreProofs!Cmds, Store!Cmds, Cmds,
       StoreProofs!Statuses, Store!Statuses

\* The steps of the store other than a result.
Handling ==
  \/ Store!Enqueue(run) \/ Store!Claim(run) \/ Store!Peek \/ Store!Tick
  \/ Store!RestartFromDb \/ UNCHANGED storeVars

\* Such a step takes back no delivery and makes no command done.
LEMMA HandlingKeeps ==
  ASSUME StoreProofs!IInv, Handling
  PROVE  /\ [StoreProofs!Next]_(StoreProofs!vars)
         /\ \A c \in Cmds : attempts'[c] >= attempts[c]
         /\ \A c \in Cmds : status'[c] = "done" => status[c] = "done"
<1>0. /\ attempts \in [Cmds -> Nat] /\ status \in [Cmds -> Store!Statuses]
      /\ created \in Nat
  BY StoreTypes, NodeAssumption DEF Store!TypeOK, Store!BoundsAssumption
<1>1. [StoreProofs!Next]_(StoreProofs!vars)
  BY SameActions, NodeAssumption DEF Handling, StoreProofs!Next, StoreProofs!vars, storeVars
<1>2. \A c \in Cmds : attempts'[c] >= attempts[c]
  BY <1>0 DEF Handling, Store!Enqueue, Store!Claim, Store!Deliver, Store!FindNothing,
     Store!Peek, Store!Tick, Store!RestartFromDb, storeVars
<1>3. \A E : \A c \in Cmds : Store!ReclaimedStatus(E)[c] = "done" => status[c] = "done"
  BY DEF Store!ReclaimedStatus, Store!Cmds, Cmds
<1>4. \A c \in Cmds : status'[c] = "done" => status[c] = "done"
  <2>1. CASE Store!Enqueue(run) \/ Store!Tick \/ UNCHANGED storeVars
    BY <1>0, <2>1 DEF Store!Enqueue, Store!Tick, storeVars
  <2>2. CASE Store!Peek \/ Store!RestartFromDb
    BY <1>3, <2>2 DEF Store!Peek, Store!RestartFromDb
  <2>3. CASE Store!Claim(run)
    BY <1>3, <2>3 DEF Store!Claim, Store!Deliver, Store!FindNothing, Store!ReclaimedStatus, Store!Cmds, Cmds
  <2> QED
    BY <2>1, <2>2, <2>3 DEF Handling
<1> QED
  BY <1>1, <1>2, <1>4

\* A thread posts a result for the command it holds.
Posting(t, ok) ==
  /\ pc[t] = IF ok THEN "report" ELSE "report_failure"
  /\ Store!RecordResult(hand[t], ok)

\* A result is a step of the store, because the command was handed out, and
\* only a reported success makes a command done.
LEMMA PostingKeeps ==
  ASSUME IInv, NEW t \in Threads, NEW ok \in BOOLEAN, Posting(t, ok)
  PROVE  /\ [StoreProofs!Next]_(StoreProofs!vars)
         /\ attempts' = attempts
         /\ \A c \in Cmds : status'[c] = "done" => status[c] = "done" \/ (ok /\ hand[t] = c)
<1>1. hand[t] \in Cmds /\ attempts[hand[t]] > 0
  BY DEF Posting, IInv, NodeTypes, WorkIsGivenOut, Busy
<1>2. status \in [Cmds -> Store!Statuses]
  BY StoreTypes DEF IInv
<1>3. Store!Complete(hand[t], ok)
  BY <1>1 DEF Posting, Store!Complete
<1>4. StoreProofs!Complete(hand[t], ok) /\ hand[t] \in StoreProofs!Cmds
  BY <1>1, <1>3, SameActions, SameParts DEF Cmds, Store!Cmds
<1>5. StoreProofs!Next
  BY <1>4 DEF StoreProofs!Next
<1>6. /\ attempts' = attempts
      /\ status' = [status EXCEPT ![hand[t]] = IF ok THEN "done" ELSE "failed"]
  BY DEF Posting, Store!RecordResult
<1>7. \A c \in Cmds : status'[c] = "done" => status[c] = "done" \/ (ok /\ hand[t] = c)
  <2>1. CASE ok
    <3>1. status' = [status EXCEPT ![hand[t]] = "done"]
      BY <1>6, <2>1
    <3>2. \A c \in Cmds : status'[c] = "done" => status[c] = "done" \/ hand[t] = c
      BY <1>2, <3>1
    <3> QED
      BY <2>1, <3>2
  <2>2. CASE ~ok
    <3>1. status' = [status EXCEPT ![hand[t]] = "failed"]
      BY <1>6, <2>2
    <3>2. \A c \in Cmds : status'[c] = "done" => status[c] = "done"
      BY <1>2, <3>1
    <3> QED
      BY <3>2
  <2> QED
    BY <2>1, <2>2
<1> QED
  BY <1>5, <1>6, <1>7

\* All the two threads, the agent and the clock do to the store.
LEMMA StepIsHandlingOrPosting ==
  ASSUME [Next]_vars
  PROVE  Handling \/ \E t \in Threads, ok \in BOOLEAN : Posting(t, ok)
<1>1. CASE Trainer
  BY <1>1 DEF Trainer, SyncPoint, NextDeferred, TrainerReceives, TrainerStopsClaiming, TrainEnd,
     Join, Execute, HandlerReturns, HandlerRaises, ReportAccepted, ReportRaises, ReportFailure,
     Receives, ReceivesNothing, RequestFails, Handling, Posting, Threads
<1>2. CASE Poller
  BY <1>2 DEF Poller, PollerWakes, PollerReceives, PollerStopsClaiming, PollerDefers,
     Execute, HandlerReturns, HandlerRaises, ReportAccepted, ReportRaises, ReportFailure,
     Receives, ReceivesNothing, RequestFails, Handling, Posting, Threads
<1>3. CASE NodeRestarts \/ AgentEnqueues \/ AgentReads \/ TimePasses \/ BrokerRestarts \/ UNCHANGED vars
  BY <1>3 DEF NodeRestarts, AgentEnqueues, AgentReads, TimePasses, BrokerRestarts, vars, Handling
<1> QED
  BY <1>1, <1>2, <1>3 DEF Next

\* A step of the loop is a step of the store, and what the store says of
\* deliveries and successes changes as the threads made it.
LEMMA StoreStep ==
  ASSUME IInv, [Next]_vars
  PROVE  /\ [StoreProofs!Next]_(StoreProofs!vars)
         /\ StoreProofs!IInv'
         /\ \A c \in Cmds : attempts'[c] >= attempts[c]
         /\ \A c \in Cmds : status'[c] = "done" =>
              status[c] = "done" \/ \E t \in Threads : pc[t] = "report" /\ hand[t] = c
<1>1. /\ [StoreProofs!Next]_(StoreProofs!vars)
      /\ \A c \in Cmds : attempts'[c] >= attempts[c]
      /\ \A c \in Cmds : status'[c] = "done" =>
           status[c] = "done" \/ \E t \in Threads : pc[t] = "report" /\ hand[t] = c
  <2>1. CASE Handling
    BY <2>1, HandlingKeeps DEF IInv
  <2>2. ASSUME NEW t \in Threads, NEW ok \in BOOLEAN, Posting(t, ok)
        PROVE  /\ [StoreProofs!Next]_(StoreProofs!vars)
               /\ \A c \in Cmds : attempts'[c] >= attempts[c]
               /\ \A c \in Cmds : status'[c] = "done" =>
                    status[c] = "done" \/ \E u \in Threads : pc[u] = "report" /\ hand[u] = c
    <3>1. attempts \in [Cmds -> 0..MaxAttempts]
      BY StoreTypes DEF IInv
    <3> QED
      BY <2>2, <3>1, PostingKeeps, NodeAssumption DEF Posting, Store!BoundsAssumption
  <2> QED
    BY <2>1, <2>2, StepIsHandlingOrPosting
<1>2. StoreProofs!IInv'
  BY <1>1, StoreProofs!StepInv, NodeAssumption DEF IInv
<1> QED
  BY <1>1, <1>2

-----------------------------------------------------------------------------
(***************************************************************************)
(* The types of the node.                                                  *)
(***************************************************************************)

\* A thread that goes on moves nobody else, and has a command in hand
\* wherever it needs one.
LEMMA GotoMoves ==
  ASSUME NodeTypes, NEW t \in Threads, NEW p, NEW c \in Cmds \cup {NoCmd}, Goto(t, p, c),
         IF t = "trainer"
         THEN p \in {"train", "drain", "run", "report", "report_failure", "join", "ended"}
         ELSE p \in {"wait", "poll", "defer", "run", "report", "report_failure", "off"},
         p \in Busy => c \in Cmds
  PROVE  /\ pc' \in ThreadPlaces
         /\ hand' \in [Threads -> Cmds \cup {NoCmd}]
         /\ pc'[t] = p /\ hand'[t] = c
         /\ \A u \in Threads \ {t} : pc'[u] = pc[u] /\ hand'[u] = hand[u]
         /\ \A u \in Threads : pc'[u] \in Busy => hand'[u] \in Cmds
BY DEF NodeTypes, ThreadPlaces, Threads, Goto

\* Every step keeps the types, and a busy thread its command.
LEMMA TypesStep ==
  ASSUME NodeTypes, [Next]_vars
  PROVE  NodeTypes'
<1>1. CASE SyncPoint
  BY <1>1, GotoMoves DEF NodeTypes, SyncPoint, TakeDeferred, Threads, Busy
<1>2. CASE NextDeferred
  BY <1>2, GotoMoves DEF NodeTypes, NextDeferred, Threads, Busy
<1>3. CASE TrainerReceives \/ TrainerStopsClaiming
  BY <1>3, GotoMoves DEF NodeTypes, TrainerReceives, TrainerStopsClaiming, AfterDrain, Threads, Busy
<1>4. CASE TrainEnd
  BY <1>4, GotoMoves DEF NodeTypes, TrainEnd, Threads, Busy
<1>10. CASE Join
  <2>1. joined' \in BOOLEAN /\ stopping' \in BOOLEAN
    BY <1>10 DEF NodeTypes, Join
  <2>2. deferred' \in Seq(Cmds) /\ batch' \in Seq(Cmds)
    BY <1>10, EmptySeq DEF NodeTypes, Join, TakeDeferred
  <2>3. applied' \in [Cmds -> Nat] /\ raised' \subseteq Cmds
    BY <1>10 DEF NodeTypes, Join
  <2>4. /\ pc' \in ThreadPlaces /\ hand' \in [Threads -> Cmds \cup {NoCmd}]
        /\ \A u \in Threads : pc'[u] \in Busy => hand'[u] \in Cmds
    BY <1>10, GotoMoves DEF Join, Threads, Busy
  <2> QED
    BY <2>1, <2>2, <2>3, <2>4 DEF NodeTypes
<1>5. CASE PollerWakes \/ PollerReceives \/ PollerStopsClaiming
  BY <1>5, GotoMoves DEF NodeTypes, PollerWakes, PollerReceives, PollerStopsClaiming, Threads, Busy
<1>6. CASE PollerDefers
  <2>1. hand["poller"] \in Cmds
    BY <1>6 DEF NodeTypes, PollerDefers, Threads, Busy
  <2>2. deferred' \in Seq(Cmds)
    BY <1>6, <2>1, AppendProperties DEF NodeTypes, PollerDefers
  <2> QED
    BY <1>6, <2>2, GotoMoves DEF NodeTypes, PollerDefers, Threads, Busy
<1>7. ASSUME NEW t \in Threads, Execute(t) PROVE NodeTypes'
  <2>1. CASE HandlerReturns(t)
    BY <2>1, GotoMoves DEF NodeTypes, HandlerReturns, Threads, Busy
  <2>2. CASE HandlerRaises(t)
    BY <2>2, GotoMoves DEF NodeTypes, HandlerRaises, Threads, Busy
  <2>3. CASE ReportAccepted(t) \/ ReportRaises(t) \/ ReportFailure(t)
    BY <2>3, GotoMoves DEF NodeTypes, ReportAccepted, ReportRaises, ReportFailure, Resume, Threads, Busy
  <2> QED
    BY <1>7, <2>1, <2>2, <2>3 DEF Execute
<1>8. CASE NodeRestarts
  <2>1. pc' \in ThreadPlaces
    BY <1>8 DEF NodeRestarts, ThreadPlaces
  <2>2. \A t \in Threads : pc'[t] \notin Busy
    BY <1>8 DEF NodeRestarts, Threads, Busy
  <2>3. hand' \in [Threads -> Cmds \cup {NoCmd}]
    BY <1>8 DEF NodeRestarts, Idle
  <2>4. deferred' \in Seq(Cmds) /\ batch' \in Seq(Cmds)
    BY <1>8, EmptySeq DEF NodeRestarts
  <2>5. /\ joined' \in BOOLEAN /\ stopping' \in BOOLEAN
        /\ applied' \in [Cmds -> Nat] /\ raised' \subseteq Cmds
    BY <1>8 DEF NodeTypes, NodeRestarts
  <2> QED
    BY <2>1, <2>2, <2>3, <2>4, <2>5 DEF NodeTypes
<1>9. CASE AgentEnqueues \/ AgentReads \/ TimePasses \/ BrokerRestarts \/ UNCHANGED vars
  BY <1>9 DEF NodeTypes, AgentEnqueues, AgentReads, TimePasses, BrokerRestarts, vars, nodeVars
<1> QED
  BY <1>1, <1>2, <1>3, <1>4, <1>5, <1>6, <1>7, <1>8, <1>9, <1>10
  DEF Next, Trainer, Poller, Threads

-----------------------------------------------------------------------------
(***************************************************************************)
(* Deliveries are executed at most once.                                   *)
(***************************************************************************)

\* Whether thread t holds c to execute it, as a number.
Waiting(t, c) == IF hand[t] = c /\ pc[t] \in {"defer", "run"} THEN 1 ELSE 0

\* What has become of the deliveries of c: executed, or still on the node.
Load(c) ==
  applied[c] + Waiting("trainer", c) + Waiting("poller", c)
    + Copies(deferred, c) + Copies(batch, c)

\* EachDeliveryRunsOnce bounds Load, before and after a step.
LEMMA LoadBound ==
  ASSUME NodeTypes, NEW c \in Cmds
  PROVE  applied[c] + ToExecute(c) = Load(c)
<1> DEFINE Hands == {t \in Threads : hand[t] = c /\ pc[t] \in {"defer", "run"}}
<1>1. Cardinality(Hands) = Waiting("trainer", c) + Waiting("poller", c)
  <2>1. Hands \in SUBSET Threads
    OBVIOUS
  <2>2. ("trainer" \in Hands <=> Waiting("trainer", c) = 1) /\ ("poller" \in Hands <=> Waiting("poller", c) = 1)
    BY DEF Waiting, Threads
  <2>3. Waiting("trainer", c) \in {0, 1} /\ Waiting("poller", c) \in {0, 1}
    BY DEF Waiting
  <2> HIDE DEF Hands
  <2> QED
    BY <2>1, <2>2, <2>3, PairCount
<1>2. /\ Copies(deferred, c) \in Nat /\ Copies(batch, c) \in Nat /\ applied[c] \in Nat
      /\ Waiting("trainer", c) \in {0, 1} /\ Waiting("poller", c) \in {0, 1}
  BY PlacesFinite DEF NodeTypes, Waiting
<1>3. ToExecute(c) = Cardinality(Hands) + Copies(deferred, c) + Copies(batch, c)
  BY DEF ToExecute
<1> HIDE DEF Hands
<1> QED
  BY <1>1, <1>2, <1>3 DEF Load

\* The same of the next state.
LEMMA LoadBoundNext ==
  ASSUME NodeTypes', NEW c \in Cmds
  PROVE  applied'[c] + ToExecute(c)' = Load(c)'
<1> DEFINE Hands == {t \in Threads : hand'[t] = c /\ pc'[t] \in {"defer", "run"}}
<1>1. Cardinality(Hands) = Waiting("trainer", c)' + Waiting("poller", c)'
  <2>1. Hands \in SUBSET Threads
    OBVIOUS
  <2>2. ("trainer" \in Hands <=> Waiting("trainer", c)' = 1) /\ ("poller" \in Hands <=> Waiting("poller", c)' = 1)
    BY DEF Waiting, Threads
  <2>3. Waiting("trainer", c)' \in {0, 1} /\ Waiting("poller", c)' \in {0, 1}
    BY DEF Waiting
  <2> HIDE DEF Hands
  <2> QED
    BY <2>1, <2>2, <2>3, PairCount
<1>2. /\ Copies(deferred', c) \in Nat /\ Copies(batch', c) \in Nat /\ applied'[c] \in Nat
      /\ Waiting("trainer", c)' \in {0, 1} /\ Waiting("poller", c)' \in {0, 1}
  BY PlacesFinite DEF NodeTypes, Waiting
<1>3. ToExecute(c)' = Cardinality(Hands) + Copies(deferred', c) + Copies(batch', c)
  BY DEF ToExecute
<1> HIDE DEF Hands
<1> QED
  BY <1>1, <1>2, <1>3 DEF Load

\* A thread that goes on to p with d changes what it has to execute, and
\* nothing of the other thread.
LEMMA WaitingMoves ==
  ASSUME NodeTypes, NEW t \in Threads, NEW p, NEW d, Goto(t, p, d), NEW c \in Cmds
  PROVE  /\ Waiting(t, c)' = IF d = c /\ p \in {"defer", "run"} THEN 1 ELSE 0
         /\ \A u \in Threads \ {t} : Waiting(u, c)' = Waiting(u, c)
BY DEF NodeTypes, ThreadPlaces, Goto, Waiting, Threads

\* A step adds to the load of a command only by delivering it.
LEMMA LoadStep ==
  ASSUME NodeTypes, NodeTypes', [Next]_vars, NEW c \in Cmds
  PROVE  Load(c)' <= Load(c) \/ (attempts'[c] > attempts[c] /\ Load(c)' = Load(c) + 1)
<1>1. /\ applied[c] \in Nat /\ applied'[c] \in Nat
      /\ Copies(deferred, c) \in Nat /\ Copies(deferred', c) \in Nat
      /\ Copies(batch, c) \in Nat /\ Copies(batch', c) \in Nat
  BY PlacesFinite DEF NodeTypes
<1>2. /\ Waiting("trainer", c) \in {0, 1} /\ Waiting("poller", c) \in {0, 1}
      /\ Waiting("trainer", c)' \in {0, 1} /\ Waiting("poller", c)' \in {0, 1}
  BY DEF Waiting
<1>3. "trainer" \in Threads /\ "poller" \in Threads \ {"trainer"} /\ "trainer" \in Threads \ {"poller"}
  BY DEF Threads
<1>4. CASE SyncPoint \/ Join
  <2>1. Copies(deferred', c) = 0 /\ Copies(batch', c) = Copies(deferred, c) /\ applied' = applied
    BY <1>4, CopiesEmpty DEF SyncPoint, Join, TakeDeferred
  <2>2. Waiting("trainer", c)' = 0 /\ Waiting("poller", c)' = Waiting("poller", c)
    BY <1>3, <1>4, WaitingMoves DEF SyncPoint, Join
  <2> QED
    BY <1>1, <1>2, <2>1, <2>2 DEF Load
<1>5. CASE NextDeferred
  <2>1. deferred' = deferred /\ applied' = applied /\ batch' = Tail(batch)
    BY <1>5 DEF NextDeferred
  <2>2. Copies(batch, c) = Copies(batch', c) + (IF Head(batch) = c THEN 1 ELSE 0)
    BY <1>5, <2>1, CopiesTail DEF NextDeferred, NodeTypes
  <2>3. Waiting("trainer", c)' = (IF Head(batch) = c THEN 1 ELSE 0) /\ Waiting("poller", c)' = Waiting("poller", c)
    BY <1>3, <1>5, WaitingMoves DEF NextDeferred
  <2> QED
    BY <1>1, <1>2, <2>1, <2>2, <2>3 DEF Load
<1>6. CASE TrainerReceives
  <2>1. PICK d \in Cmds : Receives(d) /\ Goto("trainer", "run", d)
    BY <1>6 DEF TrainerReceives
  <2>2. deferred' = deferred /\ applied' = applied /\ batch' = batch
    BY <1>6 DEF TrainerReceives
  <2>3. Waiting("trainer", c)' = (IF d = c THEN 1 ELSE 0) /\ Waiting("poller", c)' = Waiting("poller", c)
    BY <1>3, <2>1, WaitingMoves
  <2>4. Waiting("trainer", c) = 0
    BY <1>6 DEF TrainerReceives, Waiting
  <2>5. d = c => attempts'[c] > attempts[c]
    BY <2>1 DEF Receives, Claimed
  <2> QED
    BY <1>1, <1>2, <2>2, <2>3, <2>4, <2>5 DEF Load
<1>7. CASE PollerReceives
  <2>1. PICK d \in Cmds : Receives(d) /\ Goto("poller", IF d \in SafeCmds THEN "run" ELSE "defer", d)
    BY <1>7 DEF PollerReceives
  <2>2. deferred' = deferred /\ applied' = applied /\ batch' = batch
    BY <1>7 DEF PollerReceives
  <2>3. Waiting("poller", c)' = (IF d = c THEN 1 ELSE 0) /\ Waiting("trainer", c)' = Waiting("trainer", c)
    BY <1>3, <2>1, WaitingMoves
  <2>4. Waiting("poller", c) = 0
    BY <1>7 DEF PollerReceives, Waiting
  <2>5. d = c => attempts'[c] > attempts[c]
    BY <2>1 DEF Receives, Claimed
  <2> QED
    BY <1>1, <1>2, <2>2, <2>3, <2>4, <2>5 DEF Load
<1>8. CASE TrainerStopsClaiming \/ TrainEnd
  <2>1. deferred' = deferred /\ applied' = applied /\ batch' = batch
    BY <1>8 DEF TrainerStopsClaiming, TrainEnd
  <2>2. Waiting("trainer", c)' = 0 /\ Waiting("poller", c)' = Waiting("poller", c)
    BY <1>3, <1>8, WaitingMoves DEF TrainerStopsClaiming, TrainEnd, AfterDrain
  <2> QED
    BY <1>1, <1>2, <2>1, <2>2 DEF Load
<1>9. CASE PollerWakes \/ PollerStopsClaiming
  <2>1. deferred' = deferred /\ applied' = applied /\ batch' = batch
    BY <1>9 DEF PollerWakes, PollerStopsClaiming
  <2>2. Waiting("poller", c)' = 0 /\ Waiting("trainer", c)' = Waiting("trainer", c)
    BY <1>3, <1>9, WaitingMoves DEF PollerWakes, PollerStopsClaiming
  <2> QED
    BY <1>1, <1>2, <2>1, <2>2 DEF Load
<1>10. CASE PollerDefers
  <2>1. applied' = applied /\ batch' = batch /\ deferred' = Append(deferred, hand["poller"])
    BY <1>10 DEF PollerDefers
  <2>2. hand["poller"] \in Cmds
    BY <1>3, <1>10 DEF PollerDefers, NodeTypes, Busy
  <2>3. Copies(deferred', c) = Copies(deferred, c) + (IF hand["poller"] = c THEN 1 ELSE 0)
    BY <2>1, <2>2, CopiesAppend DEF NodeTypes
  <2>4. Waiting("poller", c) = (IF hand["poller"] = c THEN 1 ELSE 0)
    BY <1>10 DEF PollerDefers, Waiting
  <2>5. Waiting("poller", c)' = 0 /\ Waiting("trainer", c)' = Waiting("trainer", c)
    BY <1>3, <1>10, WaitingMoves DEF PollerDefers
  <2> QED
    BY <1>1, <1>2, <2>1, <2>3, <2>4, <2>5 DEF Load
<1>11. ASSUME NEW t \in Threads, Execute(t)
       PROVE  Load(c)' <= Load(c)
  <2>1. deferred' = deferred /\ batch' = batch
    BY <1>11 DEF Execute, HandlerReturns, HandlerRaises, ReportAccepted, ReportRaises, ReportFailure
  <2>2. Waiting(t, c)' = 0 /\ \A u \in Threads \ {t} : Waiting(u, c)' = Waiting(u, c)
    <3>1. \E p \in {"report", "report_failure", "drain", "poll"}, d \in Cmds \cup {NoCmd, hand[t]} : Goto(t, p, d)
      BY <1>11
      DEF Execute, HandlerReturns, HandlerRaises, ReportAccepted, ReportRaises, ReportFailure, Resume
    <3>2. PICK p \in {"report", "report_failure", "drain", "poll"}, d \in Cmds \cup {NoCmd, hand[t]} : Goto(t, p, d)
      BY <3>1
    <3> QED
      BY <3>2, WaitingMoves
  <2>3. CASE HandlerReturns(t)
    <3>1. applied'[c] = applied[c] + (IF hand[t] = c THEN 1 ELSE 0)
      BY <2>3 DEF HandlerReturns, NodeTypes
    <3>2. Waiting(t, c) = (IF hand[t] = c THEN 1 ELSE 0)
      BY <2>3 DEF HandlerReturns, Waiting
    <3> QED
      BY <1>1, <1>2, <2>1, <2>2, <3>1, <3>2 DEF Load, Threads
  <2>4. CASE HandlerRaises(t) \/ ReportAccepted(t) \/ ReportRaises(t) \/ ReportFailure(t)
    <3>1. applied' = applied
      BY <2>4 DEF HandlerRaises, ReportAccepted, ReportRaises, ReportFailure
    <3> QED
      BY <1>1, <1>2, <2>1, <2>2, <3>1 DEF Load, Threads
  <2> QED
    BY <1>11, <2>3, <2>4 DEF Execute
<1>12. CASE NodeRestarts
  <2>1. Copies(deferred', c) = 0 /\ Copies(batch', c) = 0 /\ applied' = applied
    BY <1>12, CopiesEmpty DEF NodeRestarts
  <2>2. Waiting("trainer", c)' = 0 /\ Waiting("poller", c)' = 0
    BY <1>12 DEF NodeRestarts, Waiting
  <2> QED
    BY <1>1, <1>2, <2>1, <2>2 DEF Load
<1>13. CASE AgentEnqueues \/ AgentReads \/ TimePasses \/ BrokerRestarts \/ UNCHANGED vars
  <2>1. UNCHANGED nodeVars
    BY <1>13 DEF AgentEnqueues, AgentReads, TimePasses, BrokerRestarts, vars
  <2>2. /\ deferred' = deferred /\ batch' = batch /\ applied' = applied
        /\ \A t \in Threads : Waiting(t, c)' = Waiting(t, c)
    BY <2>1 DEF nodeVars, Waiting
  <2> QED
    BY <1>1, <1>2, <1>3, <2>2 DEF Load
<1> QED
  BY <1>3, <1>4, <1>5, <1>6, <1>7, <1>8, <1>9, <1>10, <1>11, <1>12, <1>13
  DEF Next, Trainer, Poller

-----------------------------------------------------------------------------
(***************************************************************************)
(* The rest of the invariant.                                              *)
(***************************************************************************)

\* A handler that ran to its end is never forgotten.
LEMMA AppliedGrows ==
  ASSUME NodeTypes, [Next]_vars
  PROVE  \A c \in Cmds : applied'[c] >= applied[c]
<1>1. \A t \in Threads : HandlerReturns(t) => \A c \in Cmds : applied'[c] >= applied[c]
  BY DEF HandlerReturns, NodeTypes
<1>2. (\E t \in Threads : HandlerReturns(t)) \/ applied' = applied
  BY DEF Next, Trainer, Poller, SyncPoint, NextDeferred, TrainerReceives, TrainerStopsClaiming,
     TrainEnd, Join, PollerWakes, PollerReceives, PollerStopsClaiming, PollerDefers, NodeRestarts,
     AgentEnqueues, AgentReads, TimePasses, BrokerRestarts, Execute, HandlerRaises,
     ReportAccepted, ReportRaises, ReportFailure, vars, nodeVars, Threads
<1> QED
  BY <1>1, <1>2 DEF NodeTypes

\* What waits in the batch was handed out.
LEMMA BatchWasGivenOut ==
  ASSUME NodeTypes, EachDeliveryRunsOnce, attempts \in [Cmds -> Nat], batch # <<>>
  PROVE  Head(batch) \in Cmds /\ attempts[Head(batch)] > 0
<1>1. batch \in Seq(Cmds) /\ Head(batch) \in Cmds /\ Tail(batch) \in Seq(Cmds)
  BY HeadTailProperties DEF NodeTypes
<1> DEFINE c == Head(batch)
<1>2. Copies(batch, c) = Copies(Tail(batch), c) + 1 /\ Copies(Tail(batch), c) \in Nat
  BY <1>1, CopiesTail, PlacesFinite
<1>3. /\ Copies(deferred, c) \in Nat /\ applied[c] \in Nat
      /\ Waiting("trainer", c) \in {0, 1} /\ Waiting("poller", c) \in {0, 1}
  BY <1>1, PlacesFinite DEF NodeTypes, Waiting
<1>4. Load(c) <= attempts[c] /\ attempts[c] \in Nat
  BY <1>1, LoadBound DEF EachDeliveryRunsOnce
<1> HIDE DEF c
<1>5. attempts[c] > 0
  BY <1>2, <1>3, <1>4 DEF Load
<1> QED
  BY <1>1, <1>5 DEF c

\* A thread that goes on with d keeps WorkIsGivenOut if d was handed out and,
\* when it is to report success, applied.
LEMMA WorkMoves ==
  ASSUME NodeTypes, NodeTypes', WorkIsGivenOut,
         NEW t \in Threads, NEW p, NEW d, Goto(t, p, d),
         p \in Busy => attempts'[d] > 0,
         p = "report" => applied'[d] > 0,
         attempts \in [Cmds -> Nat], attempts' \in [Cmds -> Nat],
         \A c \in Cmds : attempts'[c] >= attempts[c],
         \A c \in Cmds : applied'[c] >= applied[c]
  PROVE  WorkIsGivenOut'
<1>1. pc'[t] = p /\ hand'[t] = d
  BY DEF NodeTypes, ThreadPlaces, Goto, Threads
<1>2. \A u \in Threads \ {t} : pc'[u] = pc[u] /\ hand'[u] = hand[u]
  BY DEF NodeTypes, ThreadPlaces, Goto, Threads
<1>3. ASSUME NEW u \in Threads \ {t}
      PROVE  /\ pc'[u] \in Busy => attempts'[hand'[u]] > 0
             /\ pc'[u] = "report" => applied'[hand'[u]] > 0
  <2>1. CASE pc[u] \in Busy
    <3>1. hand[u] \in Cmds /\ attempts[hand[u]] > 0 /\ (pc[u] = "report" => applied[hand[u]] > 0)
      BY <2>1 DEF NodeTypes, WorkIsGivenOut
    <3>2. applied[hand[u]] \in Nat /\ applied'[hand[u]] \in Nat
      BY <3>1 DEF NodeTypes
    <3> QED
      BY <1>2, <3>1, <3>2
  <2>2. CASE pc[u] \notin Busy
    BY <1>2, <2>2 DEF Busy
  <2> QED
    BY <2>1, <2>2
<1> QED
  BY <1>1, <1>3 DEF WorkIsGivenOut

\* No step makes a thread work on a command that was never handed out, or
\* report a success it did not have.
LEMMA WorkStep ==
  ASSUME NodeTypes, NodeTypes', WorkIsGivenOut, EachDeliveryRunsOnce, [Next]_vars,
         attempts \in [Cmds -> Nat], attempts' \in [Cmds -> Nat],
         \A c \in Cmds : attempts'[c] >= attempts[c]
  PROVE  WorkIsGivenOut'
<1>1. \A c \in Cmds : applied'[c] >= applied[c]
  BY AppliedGrows
<1>2. "trainer" \in Threads /\ "poller" \in Threads
  BY DEF Threads
<1>3. CASE SyncPoint \/ TrainerStopsClaiming \/ TrainEnd \/ Join
  <2>1. \E p \in {"drain", "ended", "train", "join"} : Goto("trainer", p, NoCmd)
    BY <1>3 DEF SyncPoint, TrainerStopsClaiming, TrainEnd, Join, AfterDrain
  <2> QED
    BY <1>1, <1>2, <2>1, WorkMoves DEF Busy
<1>4. CASE NextDeferred
  <2>1. attempts'[Head(batch)] > 0 /\ Goto("trainer", "run", Head(batch))
    BY <1>4, BatchWasGivenOut DEF NextDeferred
  <2> QED
    BY <1>1, <1>2, <2>1, WorkMoves DEF Busy
<1>5. CASE TrainerReceives
  <2>1. PICK d \in Cmds : Receives(d) /\ Goto("trainer", "run", d)
    BY <1>5 DEF TrainerReceives
  <2>2. attempts'[d] > 0
    BY <2>1 DEF Receives, Claimed
  <2> QED
    BY <1>1, <1>2, <2>1, <2>2, WorkMoves
<1>6. CASE PollerReceives
  <2>1. PICK d \in Cmds : Receives(d) /\ Goto("poller", IF d \in SafeCmds THEN "run" ELSE "defer", d)
    BY <1>6 DEF PollerReceives
  <2>2. attempts'[d] > 0
    BY <2>1 DEF Receives, Claimed
  <2> QED
    BY <1>1, <1>2, <2>1, <2>2, WorkMoves
<1>7. CASE PollerWakes \/ PollerStopsClaiming \/ PollerDefers
  <2>1. \E p \in {"off", "poll", "wait"} : Goto("poller", p, NoCmd)
    BY <1>7 DEF PollerWakes, PollerStopsClaiming, PollerDefers
  <2> QED
    BY <1>1, <1>2, <2>1, WorkMoves DEF Busy
<1>8. ASSUME NEW t \in Threads, Execute(t)
      PROVE  WorkIsGivenOut'
  <2>1. hand[t] \in Cmds /\ attempts[hand[t]] > 0 /\ attempts'[hand[t]] > 0
    <3>1. pc[t] \in Busy
      BY <1>8
      DEF Execute, HandlerReturns, HandlerRaises, ReportAccepted, ReportRaises, ReportFailure, Busy
    <3>2. hand[t] \in Cmds /\ attempts[hand[t]] > 0
      BY <3>1 DEF NodeTypes, WorkIsGivenOut
    <3> QED
      BY <3>2
  <2>2. CASE HandlerReturns(t)
    <3>1. applied'[hand[t]] > 0 /\ Goto(t, "report", hand[t])
      BY <2>1, <2>2 DEF HandlerReturns, NodeTypes
    <3> QED
      BY <1>1, <2>1, <3>1, WorkMoves
  <2>3. CASE HandlerRaises(t) \/ ReportRaises(t)
    <3>1. Goto(t, "report_failure", hand[t])
      BY <2>3 DEF HandlerRaises, ReportRaises
    <3> QED
      BY <1>1, <2>1, <3>1, WorkMoves
  <2>4. CASE ReportAccepted(t) \/ ReportFailure(t)
    <3>1. \E p \in {"drain", "poll"} : Goto(t, p, NoCmd)
      BY <2>4 DEF ReportAccepted, ReportFailure, Resume
    <3> QED
      BY <1>1, <3>1, WorkMoves DEF Busy
  <2> QED
    BY <1>8, <2>2, <2>3, <2>4 DEF Execute
<1>9. CASE NodeRestarts
  BY <1>9 DEF NodeRestarts, WorkIsGivenOut, Busy, Threads
<1>10. CASE AgentEnqueues \/ AgentReads \/ TimePasses \/ BrokerRestarts \/ UNCHANGED vars
  <2>1. pc' = pc /\ hand' = hand /\ applied' = applied
    BY <1>10 DEF AgentEnqueues, AgentReads, TimePasses, BrokerRestarts, vars, nodeVars
  <2> QED
    BY <2>1 DEF WorkIsGivenOut, NodeTypes, Busy
<1> QED
  BY <1>2, <1>3, <1>4, <1>5, <1>6, <1>7, <1>8, <1>9, <1>10 DEF Next, Trainer, Poller

\* No step puts work on a node that saw its poller stop.
LEMMA EndStep ==
  ASSUME NodeTypes, OrderlyEnd, [Next]_vars
  PROVE  OrderlyEnd'
<1>1. CASE SyncPoint
  BY <1>1 DEF SyncPoint, TakeDeferred, Goto, OrderlyEnd, NodeTypes, ThreadPlaces, Threads
<1>2. CASE NextDeferred \/ TrainerReceives
  BY <1>2 DEF NextDeferred, TrainerReceives, Goto, OrderlyEnd, NodeTypes, ThreadPlaces, Threads
<1>3. CASE TrainerStopsClaiming
  BY <1>3 DEF TrainerStopsClaiming, AfterDrain, Goto, OrderlyEnd, NodeTypes, ThreadPlaces, Threads
<1>4. CASE TrainEnd
  BY <1>4 DEF TrainEnd, Goto, OrderlyEnd, NodeTypes, ThreadPlaces, Threads
<1>5. CASE Join
  BY <1>5 DEF Join, TakeDeferred, Goto, OrderlyEnd, NodeTypes, ThreadPlaces, Threads
<1>6. CASE PollerWakes \/ PollerReceives \/ PollerStopsClaiming \/ PollerDefers
  <2>1. pc["poller"] # "off" /\ pc'["trainer"] = pc["trainer"]
    BY <1>6 DEF PollerWakes, PollerReceives, PollerStopsClaiming, PollerDefers, Goto,
       NodeTypes, ThreadPlaces
  <2>2. stopping' = stopping /\ joined' = joined /\ batch' = batch
    BY <1>6 DEF PollerWakes, PollerReceives, PollerStopsClaiming, PollerDefers
  <2> QED
    BY <2>1, <2>2 DEF OrderlyEnd
<1>7. ASSUME NEW t \in Threads, Execute(t)
      PROVE  OrderlyEnd'
  <2>1. /\ stopping' = stopping /\ joined' = joined /\ batch' = batch /\ deferred' = deferred
        /\ pc[t] \in {"run", "report", "report_failure"}
    BY <1>7 DEF Execute, HandlerReturns, HandlerRaises, ReportAccepted, ReportRaises, ReportFailure
  <2>2. \E p \in {"report", "report_failure", Resume(t)} : pc' = [pc EXCEPT ![t] = p]
    BY <1>7 DEF Execute, HandlerReturns, HandlerRaises, ReportAccepted, ReportRaises, ReportFailure, Goto
  <2> QED
    BY <2>1, <2>2 DEF OrderlyEnd, Resume, NodeTypes, ThreadPlaces, Threads
<1>8. CASE NodeRestarts
  BY <1>8 DEF NodeRestarts, OrderlyEnd
<1>9. CASE AgentEnqueues \/ AgentReads \/ TimePasses \/ BrokerRestarts \/ UNCHANGED vars
  BY <1>9 DEF AgentEnqueues, AgentReads, TimePasses, BrokerRestarts, vars, nodeVars, OrderlyEnd
<1> QED
  BY <1>1, <1>2, <1>3, <1>4, <1>5, <1>6, <1>7, <1>8, <1>9 DEF Next, Trainer, Poller, Threads
-----------------------------------------------------------------------------
(***************************************************************************)
(* The invariant is inductive.                                             *)
(***************************************************************************)

\* A node that starts training satisfies the invariant.
LEMMA LoopInit == Init => IInv
<1> SUFFICES ASSUME Init PROVE IInv
  OBVIOUS
<1>1. StoreProofs!IInv
  BY SameActions, StoreProofs!InitInv, NodeAssumption DEF Init
<1>2. NodeTypes
  <2>1. pc \in ThreadPlaces /\ \A t \in Threads : pc[t] \notin Busy
    BY DEF Init, ThreadPlaces, Threads, Busy
  <2>2. hand \in [Threads -> Cmds \cup {NoCmd}] /\ applied \in [Cmds -> Nat] /\ raised \subseteq Cmds
    BY DEF Init, Idle
  <2>3. deferred \in Seq(Cmds) /\ batch \in Seq(Cmds) /\ stopping \in BOOLEAN /\ joined \in BOOLEAN
    BY EmptySeq DEF Init
  <2> QED
    BY <2>1, <2>2, <2>3 DEF NodeTypes
<1>3. WorkIsGivenOut
  BY DEF Init, WorkIsGivenOut, Threads, Busy
<1>4. EachDeliveryRunsOnce
  <2> SUFFICES ASSUME NEW c \in Cmds PROVE applied[c] + ToExecute(c) <= attempts[c]
    BY DEF EachDeliveryRunsOnce
  <2>1. attempts[c] = 0 /\ applied[c] = 0 /\ Copies(deferred, c) = 0 /\ Copies(batch, c) = 0
    BY CopiesEmpty DEF Init, Store!Init, Store!Cmds, Cmds
  <2>2. Waiting("trainer", c) = 0 /\ Waiting("poller", c) = 0
    BY DEF Init, Waiting
  <2> QED
    BY <1>2, <2>1, <2>2, LoadBound DEF Load
<1>5. DoneMeansApplied
  BY DEF Init, Store!Init, DoneMeansApplied, Store!Cmds, Cmds
<1>6. OrderlyEnd
  BY DEF Init, OrderlyEnd
<1> QED
  BY <1>1, <1>2, <1>3, <1>4, <1>5, <1>6 DEF IInv

\* Every step of the loop preserves the invariant.
LEMMA LoopStep ==
  ASSUME IInv, [Next]_vars
  PROVE  IInv'
<1>1. NodeTypes /\ NodeTypes'
  BY TypesStep DEF IInv
<1>2. /\ StoreProofs!IInv'
      /\ \A c \in Cmds : attempts'[c] >= attempts[c]
      /\ \A c \in Cmds : status'[c] = "done" =>
           status[c] = "done" \/ \E t \in Threads : pc[t] = "report" /\ hand[t] = c
  BY StoreStep
<1>3. attempts \in [Cmds -> Nat] /\ attempts' \in [Cmds -> Nat]
  <2>1. attempts \in [Cmds -> 0..MaxAttempts]
    BY StoreTypes DEF IInv
  <2>2. attempts' \in [Cmds -> 0..MaxAttempts]
    BY <1>2 DEF StoreProofs!IInv, StoreProofs!TypeInv, StoreProofs!TypeOK, StoreProofs!Cmds, Cmds
  <2> QED
    BY <2>1, <2>2
<1>4. WorkIsGivenOut'
  BY <1>1, <1>2, <1>3, WorkStep DEF IInv
<1>5. EachDeliveryRunsOnce'
  <2> SUFFICES ASSUME NEW c \in Cmds PROVE applied'[c] + ToExecute(c)' <= attempts'[c]
    BY DEF EachDeliveryRunsOnce
  <2>1. Load(c) <= attempts[c]
    BY <1>1, LoadBound DEF IInv, EachDeliveryRunsOnce
  <2>2. Load(c)' <= Load(c) \/ (attempts'[c] > attempts[c] /\ Load(c)' = Load(c) + 1)
    BY <1>1, LoadStep
  <2>3. Load(c) \in Nat /\ Load(c)' \in Nat
    <3>1. /\ applied[c] \in Nat /\ applied'[c] \in Nat
          /\ Copies(deferred, c) \in Nat /\ Copies(deferred', c) \in Nat
          /\ Copies(batch, c) \in Nat /\ Copies(batch', c) \in Nat
      BY <1>1, PlacesFinite DEF NodeTypes
    <3> QED
      BY <3>1 DEF Load, Waiting
  <2>4. attempts[c] \in Nat /\ attempts'[c] \in Nat /\ attempts'[c] >= attempts[c]
    BY <1>2, <1>3
  <2>5. Load(c)' <= attempts'[c]
    BY <2>1, <2>2, <2>3, <2>4
  <2> QED
    BY <1>1, <2>5, LoadBoundNext
<1>6. DoneMeansApplied'
  <2> SUFFICES ASSUME NEW c \in Cmds, status'[c] = "done" PROVE applied'[c] > 0
    BY DEF DoneMeansApplied
  <2>1. applied[c] > 0
    BY <1>2 DEF IInv, DoneMeansApplied, WorkIsGivenOut
  <2>2. applied'[c] >= applied[c] /\ applied[c] \in Nat /\ applied'[c] \in Nat
    BY <1>1, AppliedGrows DEF NodeTypes
  <2> QED
    BY <2>1, <2>2
<1>7. OrderlyEnd'
  BY EndStep DEF IInv
<1> QED
  BY <1>1, <1>2, <1>4, <1>5, <1>6, <1>7 DEF IInv

\* IInv holds in every reachable state.
THEOREM InductiveInvariant == Spec => []IInv
<1>1. Init => IInv
  BY LoopInit
<1>2. IInv /\ [Next]_vars => IInv'
  BY LoopStep
<1> QED
  BY <1>1, <1>2, PTL DEF Spec

(***************************************************************************)
(* Each variable of the node has its type; in particular no handler runs   *)
(* more than MaxAttempts times for one command.                            *)
(***************************************************************************)
THEOREM TypeCorrect == Spec => []TypeOK
<1>1. ASSUME IInv PROVE TypeOK
  <2>1. Store!TypeOK /\ attempts \in [Cmds -> 0..MaxAttempts]
    BY <1>1, StoreTypes DEF IInv
  <2>2. NodeTypes /\ EachDeliveryRunsOnce
    BY <1>1 DEF IInv
  <2>3. \A c \in Cmds : applied[c] \in 0..MaxAttempts
    <3> SUFFICES ASSUME NEW c \in Cmds PROVE applied[c] \in 0..MaxAttempts
      OBVIOUS
    <3>1. Load(c) <= attempts[c]
      BY <2>2, LoadBound DEF EachDeliveryRunsOnce
    <3>2. /\ applied[c] \in Nat /\ Copies(deferred, c) \in Nat /\ Copies(batch, c) \in Nat
          /\ Waiting("trainer", c) \in {0, 1} /\ Waiting("poller", c) \in {0, 1}
      BY <2>2, PlacesFinite DEF NodeTypes, Waiting
    <3>3. attempts[c] \in 0..MaxAttempts /\ MaxAttempts \in Nat
      BY <2>1, NodeAssumption DEF Store!BoundsAssumption
    <3> QED
      BY <3>1, <3>2, <3>3 DEF Load
  <2>4. applied \in [Cmds -> 0..MaxAttempts]
    BY <2>2, <2>3 DEF NodeTypes
  <2> QED
    BY <2>1, <2>2, <2>4 DEF TypeOK, NodeTypes
<1> QED
  BY <1>1, InductiveInvariant, PTL

(***************************************************************************)
(* No delivery of a command is executed twice, by whichever thread and     *)
(* however often the command is handed out again.                          *)
(***************************************************************************)
THEOREM DeliveriesRunOnce == Spec => []EachDeliveryRunsOnce
<1>1. IInv => EachDeliveryRunsOnce
  BY DEF IInv
<1> QED
  BY <1>1, InductiveInvariant, PTL

(***************************************************************************)
(* A command that reads done was applied: what wait_for_result tells the   *)
(* agent is so.                                                            *)
(***************************************************************************)
THEOREM DoneIsApplied == Spec => []DoneMeansApplied
<1>1. IInv => DoneMeansApplied
  BY DEF IInv
<1> QED
  BY <1>1, InductiveInvariant, PTL

(***************************************************************************)
(* on_train_end, when its poller stopped in time, leaves nothing claimed   *)
(* and unexecuted.                                                         *)
(***************************************************************************)
THEOREM NothingIsStranded == Spec => []NothingStranded
<1>1. ASSUME IInv PROVE NothingStranded
  <2> SUFFICES ASSUME pc["trainer"] = "ended", joined, NEW c \in Cmds
               PROVE  ToExecute(c) = 0
    BY DEF NothingStranded
  <2>1. pc["poller"] = "off" /\ deferred = <<>> /\ batch = <<>>
    BY <1>1 DEF IInv, OrderlyEnd
  <2>2. Waiting("trainer", c) = 0 /\ Waiting("poller", c) = 0
    BY <2>1 DEF Waiting
  <2>3. Copies(deferred, c) = 0 /\ Copies(batch, c) = 0
    BY <2>1, CopiesEmpty
  <2>4. {t \in Threads : hand[t] = c /\ pc[t] \in {"defer", "run"}} = {}
    BY <2>1 DEF Threads
  <2> QED
    BY <2>3, <2>4, FS_EmptySet DEF ToExecute
<1> QED
  BY <1>1, InductiveInvariant, PTL

(***************************************************************************)
(* The node and its poller, together, use the store only as CommandStore   *)
(* assumes a bridge to: every theorem about the store holds of the loop.   *)
(***************************************************************************)
THEOREM NodeUsesStore == Spec => NodeRespectsStore
<1>1. Init => Store!Init
  BY DEF Init
<1>2. ASSUME IInv, [Next]_vars PROVE [Store!Next]_(Store!vars)
  <2>1. [StoreProofs!Next]_(StoreProofs!vars)
    BY <1>2, StoreStep
  <2>2. StoreProofs!Next => Store!Next
    BY SameActions, SameParts DEF StoreProofs!Next, Store!Next
  <2> QED
    BY <2>1, <2>2 DEF Store!vars, StoreProofs!vars
<1> QED
  BY <1>1, <1>2, InductiveInvariant, PTL DEF Spec, NodeRespectsStore, Store!Spec
=============================================================================
