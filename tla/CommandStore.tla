---------------------------- MODULE CommandStore ----------------------------
(***************************************************************************)
(* The command queue of the control plane (ControlPlaneStore in            *)
(* controlplane.py).  An agent enqueues commands for a run; a training     *)
(* bridge claims them under a lease and posts results; a lease that runs   *)
(* out puts the command back in front of its run's queue, or fails it      *)
(* after MaxAttempts deliveries.  The store's RLock and the single-threaded *)
(* request handlers make each call one step.  With a SQLite mirror every   *)
(* command is committed separately, so a crash may fall between the        *)
(* commits of one call.                                                    *)
(*                                                                         *)
(* A command is named by its place in created_at order, and time is what   *)
(* remains of each lease, counted in ticks: 0 means that it has expired.   *)
(***************************************************************************)
EXTENDS Integers, Sequences, FiniteSets

CONSTANTS
  Runs,         \* run ids
  NoRun,        \* no run id: what an unknown command belongs to
  MaxCmds,      \* number of commands ever enqueued
  MaxAttempts,  \* deliveries before an expired lease fails the command (5)
  Lease         \* ticks a claim lasts (lease_s)

ASSUME BoundsAssumption ==
  /\ MaxCmds \in Nat /\ MaxAttempts \in Nat \ {0} /\ Lease \in Nat \ {0}
  /\ NoRun \notin Runs

Cmds == 1..MaxCmds
Statuses == {"unknown", "pending", "in_progress", "done", "failed"}

VARIABLES
  mirrored,  \* TRUE iff the store mirrors to SQLite (persist_path)
  created,   \* commands enqueued so far
  runOf,     \* the run of each known command
  status,    \* CommandStatus, "unknown" when the store has no such id
  attempts,  \* deliveries made of each command
  left,      \* ticks left of the lease; meaningful while in_progress
  pending    \* the deque of each run, which may hold finished commands

vars == <<mirrored, created, runOf, status, attempts, left, pending>>

Known == {c \in Cmds : status[c] # "unknown"}
Finished(c) == status[c] \in {"done", "failed"}

-----------------------------------------------------------------------------
Init ==
  /\ mirrored \in BOOLEAN
  /\ created = 0
  /\ runOf = [c \in Cmds |-> NoRun]
  /\ status = [c \in Cmds |-> "unknown"]
  /\ attempts = [c \in Cmds |-> 0]
  /\ left = [c \in Cmds |-> 0]
  /\ pending = [r \in Runs |-> <<>>]

(***************************************************************************)
(* Each Bug_ definition is the one after it with a plausible mistake.  No  *)
(* specification uses them; they show that the properties can fail.        *)
(***************************************************************************)
\* The queue is rebuilt in the order of the table's rows.
Bug_AnyOrder(S) ==
  {s \in [1..Cardinality(S) -> S] : \A c \in S : \E i \in DOMAIN s : s[i] = c}

(***************************************************************************)
(* The sequence of the elements of S in created_at order, as the one       *)
(* element of a set.                                                       *)
(***************************************************************************)
InCreatedOrder(S) ==
  {s \in [1..Cardinality(S) -> S] :
     /\ \A i, j \in DOMAIN s : i < j => s[i] < s[j]
     /\ \A c \in S : \E i \in DOMAIN s : s[i] = c}

\* S dealt out to the runs, each share in created_at order.
ByRun(S) ==
  {f \in [Runs -> UNION {InCreatedOrder(T) : T \in SUBSET S}] :
     \A r \in Runs : f[r] \in InCreatedOrder({c \in S : runOf[c] = r})}

-----------------------------------------------------------------------------
(***************************************************************************)
(* Reclaiming expired leases, which every claim and every command read     *)
(* does first.  E is the set of commands processed.                        *)
(***************************************************************************)
\* Results do not clear the lease, and the status is not looked at.
Bug_ExpiredAny == {c \in Cmds : attempts[c] > 0 /\ left[c] = 0}

\* Leases are never found to have expired.
Bug_NeverExpired == {}

Expired == {c \in Cmds : status[c] = "in_progress" /\ left[c] = 0}

\* max_attempts is not enforced.
Bug_RetriedAlways(E) == E

Retried(E) == {c \in E : attempts[c] < MaxAttempts}

ReclaimedStatus(E) ==
  [c \in Cmds |-> IF c \notin E THEN status[c]
                  ELSE IF c \in Retried(E) THEN "pending" ELSE "failed"]

\* appendleft from the newest to the oldest leaves the oldest in front.
Requeued(front) == [r \in Runs |-> front[r] \o pending[r]]

-----------------------------------------------------------------------------
\* enqueue_command
Enqueue(r) ==
  /\ created < MaxCmds
  /\ created' = created + 1
  /\ runOf' = [runOf EXCEPT ![created + 1] = r]
  /\ status' = [status EXCEPT ![created + 1] = "pending"]
  /\ pending' = [pending EXCEPT ![r] = Append(@, created + 1)]
  /\ UNCHANGED <<mirrored, attempts, left>>

(***************************************************************************)
(* claim_next_command: entries whose command is no longer pending are      *)
(* dropped on the way to the first that is.                                *)
(***************************************************************************)
\* The first entry is taken without a look at its status.
Bug_ClaimableStale(st, q, i) == i = 1

Claimable(st, q, i) ==
  /\ st[q[i]] = "pending"
  /\ \A j \in 1..(i - 1) : st[q[j]] # "pending"

\* The delivery is not counted.
Bug_DeliverUncounted(r, st, queue, i) ==
  LET q == queue[r] IN
  /\ Claimable(st, q, i)
  /\ status' = [st EXCEPT ![q[i]] = "in_progress"]
  /\ left' = [left EXCEPT ![q[i]] = Lease]
  /\ pending' = [queue EXCEPT ![r] = SubSeq(q, i + 1, Len(q))]
  /\ UNCHANGED attempts

Deliver(r, st, queue, i) ==
  LET q == queue[r] IN
  /\ Claimable(st, q, i)
  /\ status' = [st EXCEPT ![q[i]] = "in_progress"]
  /\ attempts' = [attempts EXCEPT ![q[i]] = @ + 1]
  /\ left' = [left EXCEPT ![q[i]] = Lease]
  /\ pending' = [queue EXCEPT ![r] = SubSeq(q, i + 1, Len(q))]

FindNothing(r, st, queue) ==
  /\ \A i \in DOMAIN queue[r] : st[queue[r][i]] # "pending"
  /\ status' = st
  /\ pending' = [queue EXCEPT ![r] = <<>>]
  /\ UNCHANGED <<attempts, left>>

Claim(r) ==
  /\ \E front \in ByRun(Retried(Expired)) :
       LET st == ReclaimedStatus(Expired)
           queue == Requeued(front)
       IN \/ \E i \in DOMAIN queue[r] : Deliver(r, st, queue, i)
          \/ FindNothing(r, st, queue)
  /\ UNCHANGED <<mirrored, created, runOf>>

(***************************************************************************)
(* complete_command: a result is recorded for any command the store knows, *)
(* whatever its status and whichever delivery it answers.  Only a bridge   *)
(* that was given the command is expected to post one.                     *)
(***************************************************************************)
RecordResult(c, ok) ==
  /\ status[c] # "unknown"
  /\ status' = [status EXCEPT ![c] = IF ok THEN "done" ELSE "failed"]
  /\ left' = [left EXCEPT ![c] = 0]
  /\ UNCHANGED <<mirrored, created, runOf, attempts, pending>>

Complete(c, ok) == attempts[c] > 0 /\ RecordResult(c, ok)

\* get_command, list_commands, list_runs: reads that reclaim.
Peek ==
  /\ Expired # {}
  /\ \E front \in ByRun(Retried(Expired)) : pending' = Requeued(front)
  /\ status' = ReclaimedStatus(Expired)
  /\ UNCHANGED <<mirrored, created, runOf, attempts, left>>

\* Time passes for every lease that is running.
Tick ==
  /\ \E c \in Cmds : left[c] > 0
  /\ left' = [c \in Cmds |-> IF left[c] > 0 THEN left[c] - 1 ELSE 0]
  /\ UNCHANGED <<mirrored, created, runOf, status, attempts, pending>>

(***************************************************************************)
(* The broker dies and is started again.  It may die inside a reclaim,     *)
(* after the newest expired commands (Cut) were committed; the queues are  *)
(* rebuilt from the pending commands in created_at order.                  *)
(***************************************************************************)
\* The commands are loaded, the queues are not rebuilt.
Bug_RestartNoQueues ==
  /\ mirrored
  /\ pending' = [r \in Runs |-> <<>>]
  /\ UNCHANGED <<mirrored, created, runOf, status, attempts, left>>

RestartFromDb ==
  /\ mirrored
  /\ \E Cut \in SUBSET Expired :
       /\ \A c \in Cut, d \in Expired \ Cut : d < c
       /\ status' = ReclaimedStatus(Cut)
       /\ pending' \in ByRun({c \in Cmds : ReclaimedStatus(Cut)[c] = "pending"})
  /\ UNCHANGED <<mirrored, created, runOf, attempts, left>>

\* Without the mirror a restarted store knows nothing.
RestartEmpty ==
  /\ ~mirrored
  /\ runOf' = [c \in Cmds |-> NoRun]
  /\ status' = [c \in Cmds |-> "unknown"]
  /\ attempts' = [c \in Cmds |-> 0]
  /\ left' = [c \in Cmds |-> 0]
  /\ pending' = [r \in Runs |-> <<>>]
  /\ UNCHANGED <<mirrored, created>>

-----------------------------------------------------------------------------
Next ==
  \/ \E r \in Runs : Enqueue(r) \/ Claim(r)
  \/ \E c \in Cmds, ok \in BOOLEAN : Complete(c, ok)
  \/ Peek
  \/ Tick
  \/ RestartFromDb
  \/ RestartEmpty

Spec == Init /\ [][Next]_vars

(***************************************************************************)
(* Every run has a bridge that keeps polling, and time passes.  Nothing is *)
(* assumed of results, reads or restarts.                                  *)
(***************************************************************************)
Fairness == WF_vars(Tick) /\ \A r \in Runs : WF_vars(Claim(r))

FairSpec == Spec /\ Fairness

-----------------------------------------------------------------------------
TypeOK ==
  /\ mirrored \in BOOLEAN
  /\ created \in 0..MaxCmds
  /\ runOf \in [Cmds -> Runs \cup {NoRun}]
  /\ status \in [Cmds -> Statuses]
  /\ attempts \in [Cmds -> 0..MaxAttempts]
  /\ left \in [Cmds -> 0..Lease]
  /\ pending \in [Runs -> Seq(Cmds)]

(***************************************************************************)
(* A command waits in a queue exactly when it is pending: it is in the     *)
(* queue of its own run, once, so no reclaim, late result or restart       *)
(* strands a pending command or queues one twice.  Other entries are       *)
(* finished commands; what a bridge is working on is in no queue.          *)
(***************************************************************************)
QueueHoldsPending ==
  /\ \A r \in Runs : \A i \in DOMAIN pending[r] :
       /\ runOf[pending[r][i]] = r
       /\ status[pending[r][i]] \in {"pending", "done", "failed"}
       /\ \A j \in DOMAIN pending[r] : pending[r][i] = pending[r][j] => i = j
  /\ \A c \in Cmds : status[c] = "pending" =>
       \E i \in DOMAIN pending[runOf[c]] : pending[runOf[c]][i] = c

(***************************************************************************)
(* Commands of a run are first handed out in creation order: none is       *)
(* delivered while an older one never was, although reclaimed commands     *)
(* overtake and restarts rebuild the queues.                               *)
(***************************************************************************)
FirstDeliveryInOrder ==
  \A c, d \in Known :
    c < d /\ runOf[c] = runOf[d] /\ attempts[d] > 0 => attempts[c] > 0

(***************************************************************************)
(* A running lease is exclusive and a result is final for delivery: a      *)
(* command is handed out again only if it waits in the queue or its lease  *)
(* has run out, and never once it is done or failed, even when the queue   *)
(* still has an entry of it.                                               *)
(***************************************************************************)
DeliveryIsExclusive ==
  [][\A c \in Cmds : attempts'[c] > attempts[c] =>
        \/ status[c] = "pending"
        \/ status[c] = "in_progress" /\ left[c] = 0]_vars

(***************************************************************************)
(* While the store knows it, a finished command stays finished, and only a *)
(* bridge's result changes the verdict: no reclaim or restart reopens or   *)
(* rewrites it.                                                            *)
(***************************************************************************)
FinishedStays ==
  [][\A c \in Cmds : Finished(c) /\ status'[c] # "unknown" =>
        /\ Finished(c)'
        /\ status'[c] # status[c] => \E ok \in BOOLEAN : Complete(c, ok)]_vars

(***************************************************************************)
(* "Broker command leases/redelivery prevent a crashed bridge from         *)
(* stranding commands" (docs/architecture.md): with a bridge polling, each *)
(* command of a mirrored store is answered or given up, whatever results   *)
(* are lost and however often the broker restarts.                         *)
(***************************************************************************)
EveryCommandFinishes ==
  \A c \in Cmds : mirrored /\ status[c] = "pending" ~> Finished(c)
-----------------------------------------------------------------------------
(***************************************************************************)
(* The store keeps, for each command, the promise of CommandLifecycle:     *)
(* queues, stale entries, leases of other commands, reclaims cut short and *)
(* restarts are invisible to the agent that submitted it.                   *)
(***************************************************************************)
Lifecycle == INSTANCE CommandLifecycle
  WITH phase <- status, deliveries <- attempts, durable <- mirrored

ImplementsLifecycle == Lifecycle!Spec
=============================================================================
