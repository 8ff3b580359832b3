------------------------------ MODULE Replicas ------------------------------
(***************************************************************************)
(* Data-parallel training: every rank runs the same loop with a bridge of  *)
(* its own (bridge.py, distributed.py).  Rank 0 drains the command queue   *)
(* at each sync point and broadcasts what it processed; the other ranks    *)
(* wait for that broadcast and apply it.  The gradient all-reduce of the   *)
(* loop keeps the ranks in step.  With poll_interval > 0 the bridge of     *)
(* each rank also has a poller.                                            *)
(*                                                                         *)
(* The handlers are abstracted to the learning rate they act on, its upper *)
(* guardrail, the latest checkpoint and the stop flag; they do not raise   *)
(* on one rank only.  Leases and lost requests are left to ControlLoop: a  *)
(* command is handed out once.                                             *)
(*                                                                         *)
(* What rank 0 executes and replicates is kept in one log, of which each   *)
(* broadcast carries the part that follows the one before.                 *)
(***************************************************************************)
EXTENDS Naturals, Sequences

CONSTANTS
  Replicas,   \* the ranks other than 0
  Levels,     \* learning rates
  None,       \* no guardrail, no checkpoint
  Kinds,      \* command types the agent uses
  MaxCmds,    \* commands the agent enqueues
  MaxRounds   \* training steps, each followed by a sync point

ASSUME RanksAssumption == 0 \notin Replicas /\ None \notin Levels

ASSUME KindsAssumption ==
  Kinds \subseteq {"set_hyperparameters", "set_guardrails", "save_checkpoint",
                   "restore_checkpoint", "stop_training"}

ASSUME BoundsAssumption == MaxCmds \in Nat /\ MaxRounds \in Nat \ {0}

Ranks == {0} \cup Replicas

VARIABLES
  polling,    \* poll_interval > 0
  pc,         \* where each rank is in its loop
  round,      \* training steps each rank has taken
  ending,     \* the ranks in on_train_end
  state,      \* what the handlers of each rank have set
  issued,     \* commands enqueued so far
  queue,      \* commands pending at the broker
  deferred,   \* _deferred of each rank
  batch,      \* of those of rank 0, what its drain has yet to execute
  log,        \* commands that rank 0 executed and that are replicated
  sent,       \* the broadcasts so far: where in log each of them ends
  applied,    \* how much of log each rank has applied
  settings    \* for the proofs: what rank 0 had set before and after each of log

loopVars == <<pc, round, ending>>
brokerVars == <<issued, queue>>
drainVars == <<batch, log, sent, applied, settings>>
vars == <<polling, loopVars, state, brokerVars, deferred, drainVars>>

ValueKinds == {"set_hyperparameters", "set_guardrails"}

Commands ==
  [type : Kinds \cap ValueKinds, val : Levels] \cup
  [type : Kinds \ ValueKinds, val : {None}]

SafeAsync(c) == c.type \in {"stop_training", "set_guardrails"}

\* set_guardrails is taken for a local command (a plausible mistake, used by
\* no specification, like the other Bug_ definitions).
Bug_Replicated(c) ==
  c.type \in {"set_hyperparameters", "restore_checkpoint"}

Replicated(c) ==
  c.type \notin {"save_checkpoint", "stop_training"}

-----------------------------------------------------------------------------
\* The handlers, on the state s of a rank.
SetHyperparameters(s, v) ==
  [s EXCEPT !.lr = IF s.max # None /\ v > s.max THEN s.max ELSE v]

SetGuardrails(s, v) == [s EXCEPT !.max = v]

SaveCheckpoint(s) == [s EXCEPT !.saved = s.lr]

\* Without a checkpoint the handler raises.
RestoreCheckpoint(s) == IF s.saved = None THEN s ELSE [s EXCEPT !.lr = s.saved]

StopTraining(s) == [s EXCEPT !.stop = TRUE]

Handled(s, c) ==
  CASE c.type = "set_hyperparameters" -> SetHyperparameters(s, c.val)
    [] c.type = "set_guardrails" -> SetGuardrails(s, c.val)
    [] c.type = "save_checkpoint" -> SaveCheckpoint(s)
    [] c.type = "restore_checkpoint" -> RestoreCheckpoint(s)
    [] c.type = "stop_training" -> StopTraining(s)

\* The part of the state that makes the learning rate.
Settings(s) == [lr |-> s.lr, max |-> s.max]

-----------------------------------------------------------------------------
Init ==
  /\ polling \in BOOLEAN
  /\ pc = [r \in Ranks |-> "train"]
  /\ round = [r \in Ranks |-> 0]
  /\ ending = {}
  /\ \E v \in Levels :
       /\ state = [r \in Ranks |-> [lr |-> v, max |-> None, saved |-> None, stop |-> FALSE]]
       /\ settings = <<[lr |-> v, max |-> None]>>
  /\ issued = 0
  /\ queue = <<>>
  /\ deferred = [r \in Ranks |-> <<>>]
  /\ batch = <<>> /\ log = <<>> /\ sent = <<>>
  /\ applied = [r \in Ranks |-> 0]

Enqueue(c) ==
  /\ issued < MaxCmds
  /\ issued' = issued + 1
  /\ queue' = Append(queue, c)
  /\ UNCHANGED <<polling, loopVars, state, deferred, drainVars>>

(***************************************************************************)
(* The backward pass of one step is over when every rank has reached it.   *)
(***************************************************************************)
TrainStep(r) ==
  /\ pc[r] = "train"
  /\ \A s \in Ranks : round[s] > round[r] \/ (round[s] = round[r] /\ pc[s] = "train")
  /\ round' = [round EXCEPT ![r] = @ + 1]
  /\ pc' = [pc EXCEPT ![r] = "sync"]
  /\ UNCHANGED <<polling, ending, state, brokerVars, deferred, drainVars>>

(***************************************************************************)
(* The drain is over: the loop goes on, or it leaves for on_train_end,     *)
(* which drains once more.                                                 *)
(***************************************************************************)
\* One step too many.
Bug_Leaves(r) == state[r].stop \/ round[r] > MaxRounds

Leaves(r) == state[r].stop \/ round[r] = MaxRounds

DrainOver(r) ==
  /\ pc' = [pc EXCEPT ![r] = IF r \in ending THEN "ended"
                             ELSE IF Leaves(r) THEN "sync" ELSE "train"]
  /\ ending' = IF Leaves(r) THEN ending \cup {r} ELSE ending
  /\ UNCHANGED <<polling, round, state, brokerVars, deferred>>

\* Rank 0: first what the poller deferred, then the queue.
BeginDrain ==
  /\ pc[0] = "sync"
  /\ pc' = [pc EXCEPT ![0] = "drain"]
  /\ batch' = deferred[0]
  /\ deferred' = [deferred EXCEPT ![0] = <<>>]
  /\ UNCHANGED <<polling, round, ending, state, brokerVars, log, sent, applied, settings>>

Executes(c) ==
  /\ pc[0] = "drain"
  /\ state' = [state EXCEPT ![0] = Handled(@, c)]
  /\ IF Replicated(c)
     THEN /\ log' = Append(log, c)
          /\ settings' = Append(settings, Settings(state'[0]))
          /\ applied' = [applied EXCEPT ![0] = @ + 1]
     ELSE UNCHANGED <<log, settings, applied>>
  /\ UNCHANGED <<polling, loopVars, issued, deferred, sent>>

ExecuteDeferred ==
  /\ batch # <<>>
  /\ Executes(Head(batch))
  /\ batch' = Tail(batch) /\ UNCHANGED queue

ExecuteNext ==
  /\ batch = <<>> /\ queue # <<>>
  /\ Executes(Head(queue))
  /\ queue' = Tail(queue) /\ UNCHANGED batch

\* Where the n-th broadcast ends in log.
Upto(n) == IF n = 0 THEN 0 ELSE sent[n]

\* Nothing is broadcast if there is nothing to replicate.
Bug_Broadcast ==
  /\ pc[0] = "drain" /\ batch = <<>>
  /\ DrainOver(0)
  /\ sent' = IF Len(log) = Upto(Len(sent)) THEN sent ELSE Append(sent, Len(log))
  /\ UNCHANGED <<batch, log, applied, settings>>

\* The queue need not be empty: a drain ends early when a request fails.
Broadcast ==
  /\ pc[0] = "drain" /\ batch = <<>>
  /\ DrainOver(0)
  /\ sent' = Append(sent, Len(log))
  /\ UNCHANGED <<batch, log, applied, settings>>

\* The drain of rank r in progress is its Turn(r)-th, and so is its broadcast.
Turn(r) == IF r \in ending THEN round[r] + 1 ELSE round[r]

(***************************************************************************)
(* The other ranks: they wait for the broadcast and apply what it carries. *)
(***************************************************************************)
Receive(r) ==
  /\ r # 0 /\ pc[r] = "sync"
  /\ Turn(r) <= Len(sent)
  /\ pc' = [pc EXCEPT ![r] = "drain"]
  /\ UNCHANGED <<polling, round, ending, state, brokerVars, deferred, drainVars>>

ApplyNext(r) ==
  /\ r # 0 /\ pc[r] = "drain"
  /\ applied[r] < Upto(Turn(r))
  /\ state' = [state EXCEPT ![r] = Handled(@, log[applied[r] + 1])]
  /\ applied' = [applied EXCEPT ![r] = @ + 1]
  /\ UNCHANGED <<polling, loopVars, brokerVars, deferred, batch, log, sent, settings>>

AllApplied(r) ==
  /\ r # 0 /\ pc[r] = "drain"
  /\ applied[r] = Upto(Turn(r))
  /\ DrainOver(r)
  /\ UNCHANGED drainVars

ApplyReplicated(r) == Receive(r) \/ ApplyNext(r) \/ AllApplied(r)

(***************************************************************************)
(* The poller of rank r, until on_train_end, which joins it: its step of   *)
(* claiming and executing or deferring is whole (see ControlLoop).         *)
(***************************************************************************)
Claims(r) ==
  /\ polling /\ r \notin ending /\ queue # <<>>
  /\ queue' = Tail(queue)
  /\ UNCHANGED <<polling, loopVars, issued, drainVars>>

PollerExecutes(r) ==
  /\ Claims(r) /\ SafeAsync(Head(queue))
  /\ state' = [state EXCEPT ![r] = Handled(@, Head(queue))]
  /\ UNCHANGED deferred

PollerDefers(r) ==
  /\ Claims(r) /\ ~SafeAsync(Head(queue))
  /\ deferred' = [deferred EXCEPT ![r] = Append(@, Head(queue))]
  /\ UNCHANGED state

-----------------------------------------------------------------------------
Main == BeginDrain \/ ExecuteDeferred \/ ExecuteNext \/ Broadcast

Next ==
  \/ \E c \in Commands : Enqueue(c)
  \/ \E r \in Ranks : TrainStep(r) \/ ApplyReplicated(r)
  \/ Main
  \/ \E r \in Ranks : PollerExecutes(r) \/ PollerDefers(r)

Spec == Init /\ [][Next]_vars

\* Every rank that can go on does; agents and pollers need not do anything.
Fairness ==
  /\ WF_vars(Main)
  /\ \A r \in Ranks : WF_vars(TrainStep(r)) /\ WF_vars(ApplyReplicated(r))

FairSpec == Spec /\ Fairness

-----------------------------------------------------------------------------
RankStates ==
  [lr : Levels, max : Levels \cup {None}, saved : Levels \cup {None}, stop : BOOLEAN]

TypeOK ==
  /\ polling \in BOOLEAN
  /\ pc \in [Ranks -> {"train", "sync", "drain", "ended"}]
  /\ round \in [Ranks -> 0..MaxRounds]
  /\ ending \subseteq Ranks
  /\ state \in [Ranks -> RankStates]
  /\ issued \in 0..MaxCmds
  /\ queue \in Seq(Commands)
  /\ deferred \in [Ranks -> Seq(Commands)]
  /\ batch \in Seq(Commands)
  /\ log \in Seq(Commands)
  /\ sent \in Seq(0..Len(log))
  /\ applied \in [Ranks -> 0..Len(log)]
  /\ settings \in Seq([lr : Levels, max : Levels \cup {None}])

(***************************************************************************)
(* "it broadcasts processed commands so every rank applies the same        *)
(* mutation at the same step" (docs/architecture.md): ranks about to take  *)
(* the same training step have the same learning rate.                     *)
(***************************************************************************)
SameMutations ==
  \A r, s \in Ranks :
    pc[r] = "train" /\ pc[s] = "train" /\ round[r] = round[s] =>
      state[r].lr = state[s].lr

(***************************************************************************)
(* Without pollers this holds however far rank 0 is ahead of the others.   *)
(* The pollers of all ranks claim commands (on_train_begin, _poll_loop),   *)
(* and of what they execute only a limit, set on one rank alone, can part  *)
(* the learning rates: until a rank has one they stay the same.            *)
(***************************************************************************)
SameUnlessLimited ==
  ~polling \/ (\A r \in Ranks : state[r].max = None) => SameMutations

(***************************************************************************)
(* Every rank takes part in the same broadcasts ("Keep the                 *)
(* per-drain_commands collective count identical across ranks",            *)
(* .github/copilot-instructions.md), so no rank waits for ever and, unless *)
(* the agent asks for a stop, the loops of all ranks end.                  *)
(***************************************************************************)
AllRanksEnd == <>(\A r \in Ranks : pc[r] = "ended")

(***************************************************************************)
(* "stop_training sets a flag the loop polls via should_stop() (free the   *)
(* GPU gracefully)" (docs/architecture.md): when a stop is requested,      *)
(* every rank ends.                                                        *)
(***************************************************************************)
StopIsGraceful ==
  (\E r \in Ranks : state[r].stop) ~> (\A r \in Ranks : pc[r] = "ended")
=============================================================================
