----------------------------- MODULE ControlLoop -----------------------------
(***************************************************************************)
(* The control plane and one training node (TrainingBridge in bridge.py).  *)
(* Two threads of the node claim commands of its run: the training thread, *)
(* at sync points, and a background poller, which may execute commands     *)
(* whose handler is safe to run off the training thread and defers the     *)
(* others to the next sync point.  A request to the broker may be lost on  *)
(* the way there or on the way back, either thread may be overtaken by the *)
(* other between any two steps, and the node and the broker may die and    *)
(* restart.                                                                *)
(***************************************************************************)
EXTENDS Integers, Sequences, FiniteSets

CONSTANTS
  Runs, NoRun, MaxCmds, MaxAttempts, Lease,  \* see CommandStore
  run,       \* the run of this node
  SafeCmds,  \* commands _is_safe_async lets the poller execute
  NoCmd      \* a thread with no command in hand

VARIABLES
  mirrored, created, runOf, status, attempts, left, pending,  \* see CommandStore
  pc,        \* where each thread of the node is
  hand,      \* the command each thread is working on
  deferred,  \* _deferred: claimed by the poller, for the training thread
  batch,     \* deferred commands the training thread has taken to execute
  stopping,  \* on_train_end has been called (_poll_stop)
  joined,    \* the poller had stopped when on_train_end went on
  applied,   \* how often a handler ran to its end, for each command
  raised     \* the commands a handler raised for

storeVars == <<mirrored, created, runOf, status, attempts, left, pending>>
nodeVars == <<pc, hand, deferred, batch, stopping, joined, applied, raised>>
vars == <<storeVars, nodeVars>>

Store == INSTANCE CommandStore

Cmds == 1..MaxCmds

\* The node trains one of the runs, and "no command" names none.
ASSUME NodeAssumption == Store!BoundsAssumption /\ run \in Runs /\ NoCmd \notin Cmds

Threads == {"trainer", "poller"}

Idle == [t \in Threads |-> NoCmd]

\* poll_interval decides whether there is a poller.
Init ==
  /\ Store!Init /\ mirrored
  /\ \E p \in {"wait", "off"} : pc = [trainer |-> "train", poller |-> p]
  /\ hand = Idle
  /\ deferred = <<>>
  /\ batch = <<>>
  /\ stopping = FALSE
  /\ joined = FALSE
  /\ applied = [c \in Cmds |-> 0]
  /\ raised = {}

-----------------------------------------------------------------------------
\* A thread goes on to p holding c.
Goto(t, p, c) ==
  /\ pc' = [pc EXCEPT ![t] = p]
  /\ hand' = [hand EXCEPT ![t] = c]

\* The command the store hands out in this step, if any.
Claimed == {c \in Cmds : attempts'[c] > attempts[c]}

\* What a thread does next: the loop its current command belongs to.
Resume(t) == IF t = "trainer" THEN "drain" ELSE "poll"

AfterDrain == IF stopping THEN "ended" ELSE "train"

(***************************************************************************)
(* next_command.  The answer names a command or says that there is none;   *)
(* or the request fails, having reached the store or not.                  *)
(***************************************************************************)
\* The commands are listed, not claimed (a plausible mistake, used by no
\* specification, like the other Bug_ definitions).
Bug_ReadsPending(c) ==
  status[c] = "pending" /\ runOf[c] = run /\ UNCHANGED storeVars

Receives(c) == Store!Claim(run) /\ Claimed = {c}
ReceivesNothing == Store!Claim(run) /\ Claimed = {}
RequestFails == Store!Claim(run) \/ UNCHANGED storeVars

TrainerReceives ==
  /\ pc["trainer"] = "drain" /\ batch = <<>>
  /\ \E c \in Cmds : Receives(c) /\ Goto("trainer", "run", c)
  /\ UNCHANGED <<deferred, batch, stopping, joined, applied, raised>>

\* The queue is empty or the broker cannot be reached: the drain is over.
TrainerStopsClaiming ==
  /\ pc["trainer"] = "drain" /\ batch = <<>>
  /\ ReceivesNothing \/ RequestFails
  /\ Goto("trainer", AfterDrain, NoCmd)
  /\ UNCHANGED <<deferred, batch, stopping, joined, applied, raised>>

\* A safe command is executed here; another is on its way to _deferred.
PollerReceives ==
  /\ pc["poller"] = "poll"
  /\ \E c \in Cmds :
       /\ Receives(c)
       /\ Goto("poller", IF c \in SafeCmds THEN "run" ELSE "defer", c)
  /\ UNCHANGED <<deferred, batch, stopping, joined, applied, raised>>

PollerStopsClaiming ==
  /\ pc["poller"] = "poll"
  /\ ReceivesNothing \/ RequestFails
  /\ Goto("poller", "wait", NoCmd)
  /\ UNCHANGED <<deferred, batch, stopping, joined, applied, raised>>

-----------------------------------------------------------------------------
(***************************************************************************)
(* _execute, by either thread: run the handler, report success, and report *)
(* failure if either of these raises.                                      *)
(***************************************************************************)
HandlerReturns(t) ==
  /\ pc[t] = "run"
  /\ applied' = [applied EXCEPT ![hand[t]] = @ + 1]
  /\ Goto(t, "report", hand[t])
  /\ UNCHANGED <<storeVars, deferred, batch, stopping, joined, raised>>

HandlerRaises(t) ==
  /\ pc[t] = "run"
  /\ raised' = raised \cup {hand[t]}
  /\ Goto(t, "report_failure", hand[t])
  /\ UNCHANGED <<storeVars, deferred, batch, stopping, joined, applied>>

ReportAccepted(t) ==
  /\ pc[t] = "report"
  /\ Store!RecordResult(hand[t], TRUE)
  /\ Goto(t, Resume(t), NoCmd)
  /\ UNCHANGED <<deferred, batch, stopping, joined, applied, raised>>

\* complete_command raises, whether or not the store took the result.
ReportRaises(t) ==
  /\ pc[t] = "report"
  /\ Store!RecordResult(hand[t], TRUE) \/ UNCHANGED storeVars
  /\ Goto(t, "report_failure", hand[t])
  /\ UNCHANGED <<deferred, batch, stopping, joined, applied, raised>>

\* The result is posted with complete_command's default, ok = True.
Bug_ReportFailureOk(t) ==
  /\ pc[t] = "report_failure"
  /\ Store!RecordResult(hand[t], TRUE) \/ UNCHANGED storeVars
  /\ Goto(t, Resume(t), NoCmd)
  /\ UNCHANGED <<deferred, batch, stopping, joined, applied, raised>>

ReportFailure(t) ==
  /\ pc[t] = "report_failure"
  /\ Store!RecordResult(hand[t], FALSE) \/ UNCHANGED storeVars
  /\ Goto(t, Resume(t), NoCmd)
  /\ UNCHANGED <<deferred, batch, stopping, joined, applied, raised>>

Execute(t) ==
  \/ HandlerReturns(t)
  \/ HandlerRaises(t)
  \/ ReportAccepted(t)
  \/ ReportRaises(t)
  \/ ReportFailure(t)

-----------------------------------------------------------------------------
(***************************************************************************)
(* The training thread: drain_commands at a sync point, on_train_end.      *)
(***************************************************************************)
\* The list is copied, not swapped.
Bug_CopyDeferred == batch' = deferred /\ UNCHANGED deferred

TakeDeferred == batch' = deferred /\ deferred' = <<>>

SyncPoint ==
  /\ pc["trainer"] = "train"
  /\ TakeDeferred
  /\ Goto("trainer", "drain", NoCmd)
  /\ UNCHANGED <<storeVars, stopping, joined, applied, raised>>

\* The command stays in the batch.
Bug_NextNotRemoved ==
  /\ pc["trainer"] = "drain" /\ batch # <<>>
  /\ Goto("trainer", "run", Head(batch))
  /\ UNCHANGED <<storeVars, batch, deferred, stopping, joined, applied, raised>>

NextDeferred ==
  /\ pc["trainer"] = "drain" /\ batch # <<>>
  /\ Goto("trainer", "run", Head(batch))
  /\ batch' = Tail(batch)
  /\ UNCHANGED <<storeVars, deferred, stopping, joined, applied, raised>>

TrainEnd ==
  /\ pc["trainer"] = "train"
  /\ stopping' = TRUE
  /\ Goto("trainer", "join", NoCmd)
  /\ UNCHANGED <<storeVars, deferred, batch, joined, applied, raised>>

\* The join may time out; then the last drain runs beside the poller.
\* The deferred commands are taken before the poller has stopped.
Bug_JoinAfterDrain ==
  /\ pc["trainer"] = "join"
  /\ joined' = (pc["poller"] = "off")
  /\ Goto("trainer", "drain", NoCmd)
  /\ UNCHANGED <<storeVars, deferred, batch, stopping, applied, raised>>

Join ==
  /\ pc["trainer"] = "join"
  /\ joined' = (pc["poller"] = "off")
  /\ TakeDeferred
  /\ Goto("trainer", "drain", NoCmd)
  /\ UNCHANGED <<storeVars, stopping, applied, raised>>

(***************************************************************************)
(* The poller looks at _poll_stop only between two rounds of claims.       *)
(***************************************************************************)
PollerWakes ==
  /\ pc["poller"] = "wait"
  /\ Goto("poller", IF stopping THEN "off" ELSE "poll", NoCmd)
  /\ UNCHANGED <<storeVars, deferred, batch, stopping, joined, applied, raised>>

PollerDefers ==
  /\ pc["poller"] = "defer"
  /\ deferred' = Append(deferred, hand["poller"])
  /\ Goto("poller", "poll", NoCmd)
  /\ UNCHANGED <<storeVars, batch, stopping, joined, applied, raised>>

\* The node dies; training starts again with nothing in hand.
NodeRestarts ==
  /\ pc["trainer"] # "ended"
  /\ \E p \in {"wait", "off"} : pc' = [trainer |-> "train", poller |-> p]
  /\ hand' = Idle
  /\ deferred' = <<>>
  /\ batch' = <<>>
  /\ stopping' = FALSE
  /\ joined' = FALSE
  /\ UNCHANGED <<storeVars, applied, raised>>

-----------------------------------------------------------------------------
\* The agent enqueues and reads; time passes; the broker restarts.
AgentEnqueues == Store!Enqueue(run) /\ UNCHANGED nodeVars
AgentReads == Store!Peek /\ UNCHANGED nodeVars
TimePasses == Store!Tick /\ UNCHANGED nodeVars
BrokerRestarts == Store!RestartFromDb /\ UNCHANGED nodeVars

Trainer ==
  \/ SyncPoint \/ NextDeferred \/ TrainerReceives \/ TrainerStopsClaiming
  \/ TrainEnd \/ Join \/ Execute("trainer")

Poller ==
  PollerWakes \/ PollerReceives \/ PollerStopsClaiming \/ PollerDefers \/ Execute("poller")

Next ==
  \/ Trainer \/ Poller \/ NodeRestarts
  \/ AgentEnqueues \/ AgentReads \/ TimePasses \/ BrokerRestarts

Spec == Init /\ [][Next]_vars

(***************************************************************************)
(* The agent waits for its results (wait_for_result polls get_command),    *)
(* time passes, the training thread keeps reaching sync points, and the    *)
(* network does not lose every answer to its claims.                       *)
(***************************************************************************)
Fairness ==
  /\ WF_vars(AgentReads)
  /\ WF_vars(TimePasses)
  /\ WF_vars(SyncPoint \/ NextDeferred \/ Execute("trainer"))
  /\ WF_vars(TrainerReceives \/ TrainerStopsClaiming)
  /\ SF_vars(TrainerReceives)

FairSpec == Spec /\ Fairness

-----------------------------------------------------------------------------
ThreadPlaces ==
  [trainer : {"train", "drain", "run", "report", "report_failure", "join", "ended"},
   poller : {"wait", "poll", "defer", "run", "report", "report_failure", "off"}]

TypeOK ==
  /\ Store!TypeOK
  /\ pc \in ThreadPlaces
  /\ hand \in [Threads -> Cmds \cup {NoCmd}]
  /\ deferred \in Seq(Cmds) /\ batch \in Seq(Cmds)
  /\ stopping \in BOOLEAN /\ joined \in BOOLEAN
  /\ applied \in [Cmds -> 0..MaxAttempts]
  /\ raised \subseteq Cmds

Copies(s, c) == Cardinality({i \in DOMAIN s : s[i] = c})

\* Deliveries of c the node still has to execute.
ToExecute(c) ==
  Cardinality({t \in Threads : hand[t] = c /\ pc[t] \in {"defer", "run"}})
    + Copies(deferred, c) + Copies(batch, c)

(***************************************************************************)
(* Each delivery is executed at most once: with the copies still waiting   *)
(* on the node, no command is applied more often than it was handed out,   *)
(* although the two threads share _deferred and redeliveries of one        *)
(* command may be waiting on both.                                         *)
(***************************************************************************)
EachDeliveryRunsOnce ==
  \A c \in Cmds : applied[c] + ToExecute(c) <= attempts[c]

(***************************************************************************)
(* "Use wait_for_result(command_id) to confirm a queued change was         *)
(* applied" (README.md): a command is done only after its handler ran to   *)
(* the end, whoever reported it and however often it was delivered.        *)
(***************************************************************************)
DoneMeansApplied == \A c \in Cmds : status[c] = "done" => applied[c] > 0

(***************************************************************************)
(* When on_train_end has seen its poller stop, the node ends with nothing  *)
(* claimed and left unexecuted.                                            *)
(***************************************************************************)
NothingStranded ==
  pc["trainer"] = "ended" /\ joined => \A c \in Cmds : ToExecute(c) = 0

(***************************************************************************)
(* The node uses the store as CommandStore assumes: in particular it posts *)
(* results only for commands it was given.                                 *)
(***************************************************************************)
NodeRespectsStore == Store!Spec

(***************************************************************************)
(* Until training ends every command is answered or given up, through lost *)
(* requests, a poller that races the training thread and node and broker   *)
(* restarts.                                                               *)
(***************************************************************************)
EveryCommandAnswered ==
  \A c \in Cmds : status[c] = "pending" ~> (Store!Finished(c) \/ stopping)

(***************************************************************************)
(* What _execute's fallback says it is for ("report any handler failure    *)
(* back to the agent"): a command with deliveries left is failed only if a *)
(* handler raised for it.  A success whose answer is lost breaks it.       *)
(***************************************************************************)
FailureMeansRaised ==
  \A c \in Cmds : status[c] = "failed" /\ attempts[c] < MaxAttempts => c \in raised
=============================================================================
