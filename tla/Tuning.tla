------------------------------- MODULE Tuning -------------------------------
(***************************************************************************)
(* An agent tunes a live run: the scripted agent of examples/agent_sim.py, *)
(* which calls the tools of mcp_server.py, and the job of                  *)
(* examples/train_with_bridge.py, which pushes its metrics and drains its  *)
(* commands at the end of every epoch, with the broker between them.  The  *)
(* agent changes the learning rate, saves and restores a checkpoint, and   *)
(* then tunes: Optuna suggests a learning rate, the agent applies it,      *)
(* waits, reads the latest train_loss and reports it.                      *)
(*                                                                         *)
(* A command is named by its place in the order of sending.  A handler and *)
(* its report are one step here, as are the claim of a command and its     *)
(* deferral in the poller; ControlLoop takes them apart.                   *)
(***************************************************************************)
EXTENDS Advisor

CONSTANTS
  InitialLR, NewLR, HighLR,  \* of the job; set first by the agent; out of bounds
  MinLR, MaxLR,              \* the guardrails of the job
  Losses,                    \* values of train_loss, None for one that is not finite
  Default,                   \* what _latest_metric makes of no train_loss (1.0)
  Epochs,                    \* epochs of the job
  HpoTrials,                 \* trials of _run_hpo (3)
  MaxAttempts,               \* deliveries of a command (5)
  MaxFaults,                 \* bound on what goes wrong: see Fault
  Taken,                     \* the steps of the script that the agent takes
  MaxBacklog                 \* bound on unanswered commands the agent leaves behind

\* --lr is not held to the guardrails.
ASSUME RatesAssumption ==
  /\ MinLR \in Int /\ MaxLR \in Int /\ MinLR <= MaxLR
  /\ {InitialLR, NewLR, HighLR} \cup Space \subseteq Int
ASSUME ObjectivesAssumption == (Losses \ {None}) \cup {Default} \subseteq Values
ASSUME EpochsAssumption == Epochs \in Nat

\* reclaim_expired is called with its default only.
ASSUME AttemptsAssumption == MaxAttempts \in Nat \ {0, 1}
ASSUME NoneAssumption == None \notin Int /\ None \notin [id : Ids, lr : Space]

VARIABLES
  \* the broker
  sent,       \* the commands, in the order of sending
  status,     \* CommandStatus of each, "unknown" if forgotten
  delivered,  \* attempts of each
  queue,      \* pending commands
  latest,     \* the last entry of metric_history
  telemetry,  \* the run has telemetry
  \* the job
  polled,     \* poll_interval > 0: there is a background poller
  jobAt,      \* "train", in a hook of the bridge, or "ended"
  epoch,      \* epochs begun
  closing,    \* on_train_end has been called
  lr,         \* of the optimizer
  saved,      \* the lr in the checkpoint that a save_checkpoint made
  measured,   \* what the next push tells: train_loss, and the lr it was measured under
  deferred,   \* _deferred
  batch,      \* commands the training thread has in hand
  hand,       \* commands the poller has in hand
  \* the agent
  at,         \* where it is
  step,       \* its place in the script
  waiting,    \* the command whose result it waits for
  checkpoint, \* the save_checkpoint it can go back to
  trial,      \* the trial it is at work on
  tried,      \* trials reported
  reading,    \* the metrics it has read
  \* for the properties only
  meant,      \* lr at first, and after each command if all were executed as sent
  pushes,     \* pushes that reached the broker
  seen,       \* pushes there were when the trial's change was confirmed
  patient,    \* no change of lr was left unconfirmed when the agent went on
  faults

sentVars == <<sent, meant>>
brokerVars == <<sentVars, status, delivered, queue>>
metricVars == <<latest, telemetry, pushes>>
jobVars == <<polled, jobAt, epoch, closing, lr, saved, measured, deferred, batch, hand>>
agentVars == <<at, step, waiting, checkpoint, trial, tried, reading, seen, patient>>
vars == <<brokerVars, metricVars, jobVars, agentVars, advisorVars, faults>>

Nothing == [loss |-> None, under |-> None]

Init ==
  /\ AdvisorInit
  /\ sent = <<>> /\ status = <<>> /\ delivered = <<>> /\ queue = <<>>
  /\ meant = <<InitialLR>>
  /\ latest = None /\ telemetry = FALSE /\ pushes = 0
  /\ polled \in BOOLEAN
  /\ jobAt = "train" /\ epoch = 0 /\ closing = FALSE
  /\ lr = InitialLR /\ saved = <<>> /\ measured = Nothing
  /\ deferred = <<>> /\ batch = <<>> /\ hand = <<>>
  /\ at = "start" /\ step = 0
  /\ waiting = None /\ checkpoint = None
  /\ trial = None /\ tried = 0 /\ reading = None
  /\ seen = None /\ patient = TRUE
  /\ faults = 0

\* Lost requests and answers, leases that run out, broker restarts, calls of
\* HPO tools out of turn.
NoFault == UNCHANGED faults
Fault == faults < MaxFaults /\ faults' = faults + 1

-----------------------------------------------------------------------------
(***************************************************************************)
(* The broker.                                                             *)
(***************************************************************************)
Clamp(v) == IF v < MinLR THEN MinLR ELSE IF v > MaxLR THEN MaxLR ELSE v

\* What lr is to be when this command is executed after all that were sent.
Meant(type, arg) ==
  CASE type = "set_hyperparameters" -> Clamp(arg)
    [] type = "restore_checkpoint" -> meant[arg + 1]
    [] OTHER -> meant[Len(sent) + 1]

Enqueue(type, arg) ==
  /\ sent' = Append(sent, [type |-> type, arg |-> arg])
  /\ status' = Append(status, "pending")
  /\ delivered' = Append(delivered, 0)
  /\ queue' = Append(queue, Len(sent) + 1)
  /\ meant' = Append(meant, Meant(type, arg))

\* A dead entry in the queue is claimed.
Bug_Complete(c, s) ==
  IF status[c] = "unknown" THEN UNCHANGED <<status, queue>>
  ELSE status' = [status EXCEPT ![c] = s] /\ UNCHANGED queue

\* queue without its i-th entry.
Without(i) == [k \in 1..(Len(queue) - 1) |-> queue[IF k < i THEN k ELSE k + 1]]

\* complete_command: whatever the status is, if the id is known.  The entry of
\* a command that waits for another delivery is dead from then on.
Complete(c, s) ==
  IF status[c] = "unknown" THEN UNCHANGED <<status, queue>>
  ELSE /\ status' = [status EXCEPT ![c] = s]
       /\ IF status[c] = "pending"
          THEN \E i \in DOMAIN queue : queue[i] = c /\ queue' = Without(i)
          ELSE UNCHANGED queue

LeaseExpires(c) ==
  /\ status[c] = "in_progress" /\ Fault
  /\ IF delivered[c] < MaxAttempts
     THEN status' = [status EXCEPT ![c] = "pending"] /\ queue' = <<c>> \o queue
     ELSE status' = [status EXCEPT ![c] = "failed"] /\ UNCHANGED queue
  /\ UNCHANGED <<sentVars, delivered, metricVars, jobVars, agentVars, advisorVars>>

\* The commands of S, the oldest first.
OldestFirst(S) ==
  {q \in [1..Cardinality(S) -> S] :
     /\ \A c \in S : \E i \in DOMAIN q : q[i] = c
     /\ \A i, j \in DOMAIN q : i < j => q[i] < q[j]}

\* The metric history is in no table of the SQLite mirror.
RestartMirrored ==
  /\ queue' \in OldestFirst({c \in DOMAIN sent : status[c] = "pending"})
  /\ UNCHANGED <<status, telemetry>>

RestartEmpty ==
  /\ status' = [c \in DOMAIN sent |-> "unknown"]
  /\ queue' = <<>>
  /\ telemetry' = FALSE

BrokerRestarts ==
  /\ Fault
  /\ RestartMirrored \/ RestartEmpty
  /\ latest' = None
  /\ UNCHANGED <<sentVars, delivered, pushes, jobVars, agentVars, advisorVars>>

-----------------------------------------------------------------------------
(***************************************************************************)
(* The job.  (Bug_... are plausible mistakes that no specification uses.)  *)
(***************************************************************************)
\* Commands are drained before the metrics are pushed.
Bug_Hooks == <<"drain", "push">>

\* What on_epoch_end and on_train_end do.
Hooks == <<"push", "drain">>

\* Back from a hook of the bridge, into the loop or out of it.
Return == IF closing THEN "ended" ELSE "train"

After(h) == IF h = Hooks[1] THEN Hooks[2] ELSE Return

\* An epoch; the loop looks at range(epochs), not at bridge.max_epochs.  A
\* train_loss that is not finite is dropped from what is pushed.
Epoch ==
  /\ jobAt = "train" /\ epoch < Epochs
  /\ epoch' = epoch + 1
  /\ \E l \in Losses : measured' = [loss |-> l, under |-> lr]
  /\ jobAt' = Hooks[1]
  /\ UNCHANGED <<brokerVars, metricVars, polled, closing, lr, saved, deferred, batch, hand,
                 agentVars, advisorVars, faults>>

\* on_train_end pushes no metrics.
TrainEnds ==
  /\ jobAt = "train" /\ epoch = Epochs
  /\ closing' = TRUE
  /\ jobAt' = Hooks[1]
  /\ UNCHANGED <<brokerVars, metricVars, polled, epoch, lr, saved, measured, deferred, batch, hand,
                 agentVars, advisorVars, faults>>

\* Without metrics an entry is appended for the sake of a loss history only.
PushReceived ==
  /\ telemetry' = TRUE
  /\ pushes' = pushes + 1
  /\ \/ latest' = [push |-> pushes + 1, loss |-> measured.loss, under |-> measured.under]
     \/ closing /\ UNCHANGED latest

\* A push that fails is given up, whether or not it was received.
PushTelemetry ==
  /\ jobAt = "push"
  /\ jobAt' = After("push")
  /\ \/ PushReceived /\ NoFault
     \/ (PushReceived \/ UNCHANGED metricVars) /\ Fault
  /\ measured' = Nothing
  /\ UNCHANGED <<brokerVars, polled, epoch, closing, lr, saved, deferred, batch, hand,
                 agentVars, advisorVars>>

BeginDrain ==
  /\ jobAt = "drain"
  /\ batch' = deferred /\ deferred' = <<>>
  /\ jobAt' = "claim"
  /\ UNCHANGED <<brokerVars, metricVars, polled, epoch, closing, lr, saved, measured, hand,
                 agentVars, advisorVars, faults>>

\* The oldest pending command goes out under a lease.
ClaimNext ==
  /\ queue # <<>>
  /\ queue' = Tail(queue)
  /\ status' = [status EXCEPT ![Head(queue)] = "in_progress"]
  /\ delivered' = [delivered EXCEPT ![Head(queue)] = @ + 1]
  /\ UNCHANGED sentVars

Claims ==
  /\ jobAt = "claim" /\ batch = <<>>
  /\ ClaimNext /\ batch' = <<Head(queue)>>
  /\ UNCHANGED <<metricVars, polled, jobAt, epoch, closing, lr, saved, measured, deferred, hand,
                 agentVars, advisorVars, faults>>

\* The queue is empty, or the request or its answer is lost.
DrainEnds ==
  /\ jobAt = "claim" /\ batch = <<>>
  /\ jobAt' = After("drain")
  /\ \/ queue = <<>> /\ UNCHANGED brokerVars /\ NoFault
     \/ (ClaimNext \/ UNCHANGED brokerVars) /\ Fault
  /\ UNCHANGED <<metricVars, polled, epoch, closing, lr, saved, measured, deferred, batch, hand,
                 agentVars, advisorVars>>

\* A restored checkpoint brings back the weights alone.
Bug_Changed(c) ==
  IF sent[c].type = "set_hyperparameters" THEN Clamp(sent[c].arg) ELSE lr

\* What the handler of a command leaves as the learning rate.
Changed(c) ==
  CASE sent[c].type = "set_hyperparameters" -> Clamp(sent[c].arg)
    [] sent[c].type = "restore_checkpoint" -> saved[sent[c].arg]
    [] OTHER -> lr

\* A success is reported; if that fails, received or not, a failure is, which
\* may fail as well.
Reports(c) ==
  \/ Complete(c, "done") /\ NoFault
  \/ (Complete(c, "done") \/ Complete(c, "failed") \/ UNCHANGED <<status, queue>>) /\ Fault

Executes ==
  /\ jobAt = "claim" /\ batch # <<>>
  /\ LET c == Head(batch) IN
       /\ lr' = Changed(c)
       /\ saved' = IF sent[c].type = "save_checkpoint"
                   THEN [s \in DOMAIN saved \cup {c} |-> IF s = c THEN lr ELSE saved[s]]
                   ELSE saved
       /\ Reports(c)
  /\ batch' = Tail(batch)
  /\ UNCHANGED <<sentVars, delivered, metricVars, polled, jobAt, epoch, closing, measured, deferred,
                 hand, agentVars, advisorVars>>

\* What the script sends that is safe off the training thread: both
\* interrogations are registered as safe_async.
SafeTypes == {"flag_samples", "extend_training", "interrogate"}

(***************************************************************************)
(* The poller, which on_train_end stops and waits for, but not for ever.   *)
(***************************************************************************)
PollerClaims ==
  /\ polled /\ jobAt # "ended" /\ hand = <<>>
  /\ ClaimNext
  /\ LET c == Head(queue) IN
       IF sent[c].type \in SafeTypes
       THEN hand' = <<c>> /\ UNCHANGED deferred
       ELSE deferred' = Append(deferred, c) /\ UNCHANGED hand
  /\ UNCHANGED <<metricVars, polled, jobAt, epoch, closing, lr, saved, measured, batch,
                 agentVars, advisorVars, faults>>

PollerExecutes ==
  /\ hand # <<>>
  /\ Reports(Head(hand))
  /\ hand' = <<>>
  /\ UNCHANGED <<sentVars, delivered, metricVars, polled, jobAt, epoch, closing, lr, saved, measured,
                 deferred, batch, agentVars, advisorVars>>

-----------------------------------------------------------------------------
(***************************************************************************)
(* The agent.  A tool that fails returns an error.  mode tells what then:  *)
(* "ask" looks up command_id in it and dies of a KeyError, "call" waits in *)
(* the tool and returns the error, "tell" does not look at the answer,     *)
(* "read" reads from the broker and dies of an unexpected answer.          *)
(***************************************************************************)
Item(type, arg, mode) == [type |-> type, arg |-> arg, mode |-> mode]

RunAgent == <<
  Item("set_hyperparameters", NewLR, "ask"),
  Item("interrogate", "per_class_loss", "ask"),
  Item("list_knobs", None, "read"),
  Item("set_knob", "label_smoothing", "ask"),
  Item("flag_samples", None, "tell"),
  Item("run_evaluation", None, "ask"),
  Item("get_training_state", None, "read"),
  Item("flag_samples", "worst", "tell"),
  Item("interrogate", "noise_report", "call"),
  Item("set_training_config", None, "ask"),
  Item("invoke", "evaluate", "call"),
  Item("save_checkpoint", None, "call"),
  Item("set_hyperparameters", HighLR, "ask"),
  Item("restore_checkpoint", "saved", "call"),
  Item("extend_training", None, "ask") >>

ASSUME TakenAssumption == Taken \subseteq DOMAIN RunAgent

\* Past place i of the script: on to the next that is taken, or to the trials.
Passes(i) ==
  \E j \in Taken \cup {Len(RunAgent) + 1} :
    /\ i < j /\ \A k \in Taken : i < k => j <= k
    /\ step' = j
    /\ at' = IF j \in Taken THEN "script" ELSE "configure"

Changing == {"set_hyperparameters", "restore_checkpoint"}

\* Past the command: on in the script, or to the metrics of the trial.
Proceed ==
  IF trial = None THEN Passes(step) ELSE at' = "read" /\ UNCHANGED step

Crash == at' = "crashed" /\ UNCHANGED <<step, waiting>>

\* _wait_for_telemetry, and then the state is read once more.
Starts ==
  /\ at = "start"
  /\ \/ ~telemetry /\ at' = "done" /\ NoFault /\ UNCHANGED <<step, waiting>>
     \/ telemetry /\ Passes(0) /\ NoFault /\ UNCHANGED waiting
     \/ telemetry /\ Crash /\ Fault
  /\ UNCHANGED <<brokerVars, metricVars, jobVars, checkpoint, trial, tried, reading, seen,
                 patient, advisorVars>>

\* A tool enqueues a command.
Send(type, arg, mode) ==
  /\ \/ /\ Enqueue(type, arg) /\ NoFault
        /\ UNCHANGED patient
        /\ IF mode = "tell"
           THEN Proceed /\ UNCHANGED waiting
           ELSE at' = "wait" /\ waiting' = Len(sent) + 1 /\ UNCHANGED step
     \/ /\ (Enqueue(type, arg) \/ UNCHANGED brokerVars) /\ Fault
        /\ patient' = (patient /\ type \notin Changing)
        /\ IF mode = "ask" THEN Crash ELSE Proceed /\ UNCHANGED waiting
  /\ UNCHANGED <<metricVars, jobVars, checkpoint, trial, tried, reading, seen, advisorVars>>

Sends ==
  /\ at = "script"
  /\ LET i == RunAgent[step] IN
       /\ i.mode # "read"
       /\ i.type = "restore_checkpoint" => checkpoint # None
       /\ Send(i.type, IF i.type = "restore_checkpoint" THEN checkpoint ELSE i.arg, i.mode)

Reads ==
  /\ at = "script" /\ RunAgent[step].mode = "read"
  /\ \/ NoFault /\ IF RunAgent[step].type = "get_training_state" /\ ~telemetry
                   THEN Crash ELSE Proceed /\ UNCHANGED waiting
     \/ Fault /\ Crash
  /\ UNCHANGED <<brokerVars, metricVars, jobVars, checkpoint, trial, tried, reading, seen,
                 patient, advisorVars>>

\* There are no suspicious samples to flag and ask about, or no checkpoint.
Skips ==
  /\ at = "script"
  /\ LET i == RunAgent[step] IN
       \/ i.type = "flag_samples" /\ i.arg = "worst" /\ Passes(step + 1)
       \/ i.type = "restore_checkpoint" /\ checkpoint = None /\ Passes(step)
  /\ UNCHANGED <<brokerVars, metricVars, jobVars, waiting, checkpoint, trial, tried,
                 reading, seen, patient, advisorVars, faults>>

\* wait_for_result finds the command done or failed.
Answered ==
  /\ at = "wait" /\ status[waiting] \in {"done", "failed"}
  /\ LET ok == status[waiting] = "done" IN
       /\ checkpoint' = IF ok /\ sent[waiting].type = "save_checkpoint" THEN waiting
                        ELSE checkpoint
       /\ seen' = IF ok /\ trial # None THEN pushes ELSE None
  /\ Proceed
  /\ waiting' = None
  /\ UNCHANGED <<brokerVars, metricVars, jobVars, trial, tried, reading, patient, advisorVars,
                 faults>>

\* The wait ends only with an answer.
Bug_GivesUp == Answered

\* Commands that the job has yet to answer.
Backlog == {c \in DOMAIN sent : status[c] \in {"pending", "in_progress"}}

\* The deadline passes, or a request of the wait fails.
GivesUp ==
  /\ at = "wait"
  /\ Cardinality(Backlog) <= MaxBacklog \/ jobAt = "ended"
  /\ seen' = None
  /\ patient' = (patient /\ sent[waiting].type \notin Changing)
  /\ Proceed
  /\ waiting' = None
  /\ UNCHANGED <<brokerVars, metricVars, jobVars, checkpoint, trial, tried, reading,
                 advisorVars, faults>>

\* _run_hpo; optuna may not be installed.
Configures ==
  /\ at = "configure"
  /\ \/ Configure /\ at' = "suggest"
     \/ UNCHANGED advisorVars /\ at' = "done"
  /\ UNCHANGED <<brokerVars, metricVars, jobVars, step, waiting, checkpoint, trial, tried,
                 reading, seen, patient, faults>>

Suggests ==
  /\ at = "suggest"
  /\ IF tried = HpoTrials
     THEN at' = "done" /\ UNCHANGED <<trial, advisorVars>>
     ELSE \E p \in Space :
            /\ Suggest(p)
            /\ trial' = [id |-> Len(study) + 1, lr |-> p]
            /\ at' = "apply"
  /\ UNCHANGED <<brokerVars, metricVars, jobVars, step, waiting, checkpoint, tried,
                 reading, seen, patient, faults>>

Applies == at = "apply" /\ Send("set_hyperparameters", trial.lr, "ask")

\* get_metrics; an error is no list.
ReadsMetrics ==
  /\ at = "read"
  /\ at' = "report"
  /\ \/ reading' = latest /\ NoFault
     \/ reading' = None /\ Fault
  /\ UNCHANGED <<brokerVars, metricVars, jobVars, step, waiting, checkpoint, trial, tried,
                 seen, patient, advisorVars>>

\* _latest_metric
Objective == IF reading = None \/ reading.loss = None THEN Default ELSE reading.loss

ReportsTrial ==
  /\ at = "report"
  /\ Report(trial.id, Objective)
  /\ tried' = tried + 1
  /\ at' = "suggest"
  /\ trial' = None /\ reading' = None /\ seen' = None
  /\ UNCHANGED <<brokerVars, metricVars, jobVars, step, waiting, checkpoint, patient,
                 faults>>

\* Any of the HPO tools, called outside the script, with any trial id.
CallsHpoTool ==
  /\ trial # None /\ Fault
  /\ AdvisorNext
  /\ UNCHANGED <<brokerVars, metricVars, jobVars, agentVars>>

-----------------------------------------------------------------------------
JobNext ==
  \/ Epoch \/ TrainEnds
  \/ PushTelemetry
  \/ BeginDrain \/ Claims \/ Executes \/ DrainEnds

PollerNext == PollerClaims \/ PollerExecutes

AgentNext ==
  \/ Starts
  \/ Sends \/ Reads \/ Skips
  \/ Answered \/ GivesUp
  \/ Configures \/ Suggests \/ Applies \/ ReadsMetrics \/ ReportsTrial

BrokerNext == BrokerRestarts \/ \E c \in DOMAIN sent : LeaseExpires(c)

Next == JobNext \/ PollerNext \/ AgentNext \/ CallsHpoTool \/ BrokerNext

(***************************************************************************)
(* The training loop and the agent go on on their own; nothing is assumed  *)
(* of the poller, of leases or of a broker that restarts.                  *)
(***************************************************************************)
Spec == Init /\ [][Next]_vars /\ WF_vars(JobNext) /\ WF_vars(AgentNext)

-----------------------------------------------------------------------------
\* Guardrails bound what is set, not the rate the job starts with, to which a
\* restored checkpoint may go back.
Rates == (MinLR..MaxLR) \cup {InitialLR}

TypeOK ==
  /\ AdvisorTypeOK
  /\ \A c \in DOMAIN sent :
       /\ status[c] \in {"pending", "in_progress", "done", "failed", "unknown"}
       /\ delivered[c] \in 0..MaxAttempts
  /\ \A c \in DOMAIN sent : status[c] = "pending" <=> \E i \in DOMAIN queue : queue[i] = c
  /\ lr \in Rates
  /\ jobAt \in {"train", "push", "drain", "claim", "ended"} /\ epoch \in 0..Epochs
  /\ at \in {"start", "script", "wait", "configure", "suggest", "apply", "read", "report",
             "done", "crashed"}
  /\ waiting # None => waiting \in DOMAIN sent
  /\ step \in Taken \cup {0, Len(RunAgent) + 1}

\* Either commands wait in one line for the training thread, or the agent has
\* waited for each change of lr to be confirmed; and none was delivered twice.
Orderly ==
  /\ ~polled \/ patient
  /\ \A c \in DOMAIN sent : delivered[c] <= 1

(***************************************************************************)
(* Commands are claimed at the end of an epoch, deferred by the poller,    *)
(* executed by two threads and answered over a network; the agent's waits  *)
(* may give up.  Once every change of the learning rate is reported done,  *)
(* it is what the changes make of it in the order in which the agent sent  *)
(* them, clamped, with the checkpoint taken where the agent took it.       *)
(***************************************************************************)
LastWordWins ==
  (Orderly /\ \A c \in DOMAIN sent : sent[c].type \in Changing => status[c] = "done")
    => lr = meant[Len(sent) + 1]

(***************************************************************************)
(* on_epoch_end pushes before it drains.  So metrics that were pushed      *)
(* after the agent saw its change confirmed, however late it looks, were   *)
(* measured under the learning rate of its trial, all along the epoch.     *)
(***************************************************************************)
FreshMeansOwn ==
  (/\ at = "report" /\ Orderly
   /\ seen # None /\ reading # None
   /\ reading.loss # None /\ reading.push > seen)
    => reading.under = Clamp(trial.lr)

(***************************************************************************)
(* The loop never waits for the agent, and the agent gives up waiting for  *)
(* a job that has ended, a command that was lost or a broker that forgot   *)
(* it: both come to their end.                                             *)
(***************************************************************************)
NeitherWaitsForEver == <>(jobAt = "ended" /\ at \in {"done", "crashed"})
=============================================================================
