---------------------------- MODULE ReplicasProofs ----------------------------
(***************************************************************************)
(* Theorems about Replicas, for any number of ranks, learning rates,       *)
(* commands and training steps: the state has its type, and as long as no  *)
(* limit is set on one rank alone and checkpoints are not both saved and   *)
(* restored, ranks about to take the same step have the same learning      *)
(* rate, however far rank 0 is ahead of the others.                        *)
(***************************************************************************)
EXTENDS Replicas, TLAPS, SequenceTheorems

-----------------------------------------------------------------------------
(***************************************************************************)
(* The invariant.                                                          *)
(***************************************************************************)

\* The drains that rank r has been through.
Done(r) == IF pc[r] \in {"sync", "drain"} THEN Turn(r) - 1 ELSE Turn(r)

\* A rank that trains has steps before it; one that drains has taken one.
InLoop ==
  \A r \in Ranks :
    /\ pc[r] = "train" => r \notin ending /\ round[r] < MaxRounds
    /\ pc[r] \in {"sync", "drain"} => round[r] > 0

\* Rank 0 broadcasts once in each drain, and outside of a drain there is
\* nothing that it has not broadcast.
MainIsAhead ==
  /\ Len(sent) = Done(0)
  /\ applied[0] = Len(log)
  /\ Len(settings) = Len(log) + 1
  /\ pc[0] = "train" => Len(log) = Upto(Len(sent))

\* The n-th drain of the others takes them to the end of the n-th broadcast.
OthersFollow ==
  \A r \in Replicas :
    /\ Done(r) <= Len(sent)
    /\ pc[r] = "drain" => Turn(r) <= Len(sent)
    /\ pc[r] # "drain" => applied[r] = Upto(Done(r))

\* No limit can be on one rank alone.
Unlimited == ~polling \/ \A r \in Ranks : state[r].max = None

\* Checkpoints are saved on rank 0 only: an agent that saves some does not
\* restore them.
NoRollback == ~({"save_checkpoint", "restore_checkpoint"} \subseteq Kinds)

\* If it restores, there is nothing to be restored on any rank.
NothingSaved == "restore_checkpoint" \in Kinds => \A r \in Ranks : state[r].saved = None

\* What a replicated command makes of settings where nothing was saved.
Changed(t, c) ==
  CASE c.type = "set_guardrails" -> SetGuardrails(t, c.val)
    [] c.type = "set_hyperparameters" -> SetHyperparameters(t, c.val)
    [] c.type = "restore_checkpoint" -> t

\* The first n commands of the log are replicated, and all that rank 0 did to
\* its settings is what they make of them.
LogMakes(n) ==
  \A i \in 1..n : Replicated(log[i]) /\ settings[i + 1] = Changed(settings[i], log[i])

\* Each rank has set what rank 0 had set when it was as far in the log.
SameAtSamePlace ==
  Unlimited =>
    /\ LogMakes(Len(log))
    /\ \A r \in Ranks : Settings(state[r]) = settings[applied[r] + 1]

Places == TypeOK /\ InLoop /\ MainIsAhead /\ OthersFollow

IInv == Places /\ NothingSaved /\ SameAtSamePlace
-----------------------------------------------------------------------------
(***************************************************************************)
(* Commands and handlers.                                                  *)
(***************************************************************************)

\* What a command is.
LEMMA CommandFacts ==
  ASSUME NEW c \in Commands
  PROVE  /\ c.type \in Kinds
         /\ c.type \in ValueKinds => c.val \in Levels
BY DEF Commands

\* A handler leaves a state of its rank, and a limit that is set stays set.
LEMMA HandledType ==
  ASSUME NEW s \in RankStates, NEW c \in Commands
  PROVE  /\ Handled(s, c) \in RankStates
         /\ s.max # None => Handled(s, c).max # None
         /\ c.type = "set_guardrails" => Handled(s, c).max # None
<1>1. c.type \in Kinds /\ (c.type \in ValueKinds => c.val \in Levels)
  BY CommandFacts
<1>2. CASE c.type = "set_hyperparameters"
  <2>1. Handled(s, c) = SetHyperparameters(s, c.val)
    BY <1>2 DEF Handled
  <2> QED
    BY <1>1, <1>2, <2>1 DEF SetHyperparameters, RankStates, ValueKinds
<1>3. CASE c.type = "set_guardrails"
  <2>1. Handled(s, c) = SetGuardrails(s, c.val)
    BY <1>3 DEF Handled
  <2> QED
    BY <1>1, <1>3, <2>1, RanksAssumption DEF SetGuardrails, RankStates, ValueKinds
<1>4. CASE c.type = "save_checkpoint"
  <2>1. Handled(s, c) = SaveCheckpoint(s)
    BY <1>4 DEF Handled
  <2> QED
    BY <1>4, <2>1 DEF SaveCheckpoint, RankStates
<1>5. CASE c.type = "restore_checkpoint"
  <2>1. Handled(s, c) = RestoreCheckpoint(s)
    BY <1>5 DEF Handled
  <2> QED
    BY <1>5, <2>1 DEF RestoreCheckpoint, RankStates
<1>6. CASE c.type = "stop_training"
  <2>1. Handled(s, c) = StopTraining(s)
    BY <1>6 DEF Handled
  <2> QED
    BY <1>6, <2>1 DEF StopTraining, RankStates
<1> QED
  BY <1>1, <1>2, <1>3, <1>4, <1>5, <1>6, KindsAssumption

\* Where nothing was saved, what a replicated command makes of the settings
\* depends on nothing else, and the others do not touch them.
LEMMA HandledSettings ==
  ASSUME NEW s \in RankStates, NEW c \in Commands,
         "restore_checkpoint" \in Kinds => s.saved = None
  PROVE  Settings(Handled(s, c)) = IF Replicated(c) THEN Changed(Settings(s), c) ELSE Settings(s)
<1>1. c.type \in Kinds
  BY CommandFacts
<1>2. CASE c.type = "set_hyperparameters"
  BY <1>2 DEF Handled, SetHyperparameters, Settings, Changed, Replicated, RankStates
<1>3. CASE c.type = "set_guardrails"
  BY <1>3 DEF Handled, SetGuardrails, Settings, Changed, Replicated, RankStates
<1>4. CASE c.type = "save_checkpoint"
  BY <1>4 DEF Handled, SaveCheckpoint, Settings, Replicated, RankStates
<1>5. CASE c.type = "stop_training"
  BY <1>5 DEF Handled, StopTraining, Settings, Replicated, RankStates
<1>6. CASE c.type = "restore_checkpoint"
  BY <1>1, <1>6 DEF Handled, RestoreCheckpoint, Settings, Changed, Replicated
<1> QED
  BY <1>1, <1>2, <1>3, <1>4, <1>5, <1>6, KindsAssumption

\* Without save_checkpoint no handler makes a checkpoint.
LEMMA HandledSaves ==
  ASSUME NEW s \in RankStates, NEW c \in Commands, "save_checkpoint" \notin Kinds
  PROVE  Handled(s, c).saved = s.saved
<1>1. c.type \in Kinds \ {"save_checkpoint"}
  BY CommandFacts
<1>2. CASE c.type = "set_hyperparameters"
  BY <1>2 DEF Handled, SetHyperparameters, RankStates
<1>3. CASE c.type = "set_guardrails"
  BY <1>3 DEF Handled, SetGuardrails, RankStates
<1>4. CASE c.type = "restore_checkpoint"
  BY <1>4 DEF Handled, RestoreCheckpoint, RankStates
<1>5. CASE c.type = "stop_training"
  BY <1>5 DEF Handled, StopTraining, RankStates
<1> QED
  BY <1>1, <1>2, <1>3, <1>4, <1>5, KindsAssumption

-----------------------------------------------------------------------------
(***************************************************************************)
(* Where the ranks are.                                                    *)
(***************************************************************************)

LEMMA InitPlaces == Init => Places
<1> SUFFICES ASSUME Init PROVE Places
  OBVIOUS
<1>1. TypeOK
  BY BoundsAssumption DEF Init, TypeOK, RankStates
<1>2. InLoop
  BY BoundsAssumption DEF Init, InLoop
<1>3. \A r \in Ranks : Turn(r) = 0 /\ Done(r) = 0 /\ pc[r] = "train" /\ applied[r] = 0
  BY DEF Init, Done, Turn
<1>4. 0 \in Ranks /\ Replicas \subseteq Ranks
  BY DEF Ranks
<1>5. MainIsAhead /\ OthersFollow
  BY <1>3, <1>4 DEF Init, MainIsAhead, OthersFollow, Upto
<1> QED
  BY <1>1, <1>2, <1>5 DEF Places

\* The agent and the pollers do not move a rank.
LEMMA AsidePlaces ==
  ASSUME Places, UNCHANGED <<loopVars, drainVars>>, TypeOK'
  PROVE  Places'
<1>1. \A r \in Ranks : Done(r)' = Done(r) /\ Turn(r)' = Turn(r)
  BY DEF Done, Turn, loopVars
<1>2. 0 \in Ranks /\ Replicas \subseteq Ranks /\ \A n : Upto(n)' = Upto(n)
  BY DEF Ranks, Upto, drainVars
<1> QED
  BY <1>1, <1>2 DEF Places, InLoop, MainIsAhead, OthersFollow, loopVars, drainVars

LEMMA EnqueuePlaces ==
  ASSUME Places, NEW c \in Commands, Enqueue(c)
  PROVE  Places'
<1>1. UNCHANGED <<loopVars, drainVars>>
  BY DEF Enqueue
<1>2. TypeOK'
  BY BoundsAssumption DEF Places, TypeOK, Enqueue, loopVars, drainVars
<1> QED
  BY <1>1, <1>2, AsidePlaces

\* What a poller has claimed it executes or defers.
LEMMA PollerPlaces ==
  ASSUME Places, NEW r \in Ranks, PollerExecutes(r) \/ PollerDefers(r)
  PROVE  Places'
<1>1. UNCHANGED <<loopVars, drainVars>>
  BY DEF PollerExecutes, PollerDefers, Claims
<1>2. Head(queue) \in Commands /\ Tail(queue) \in Seq(Commands)
  BY DEF Places, TypeOK, PollerExecutes, PollerDefers, Claims
<1>3. state' \in [Ranks -> RankStates]
  <2>1. Handled(state[r], Head(queue)) \in RankStates
    BY <1>2, HandledType DEF Places, TypeOK
  <2> QED
    BY <2>1 DEF Places, TypeOK, PollerExecutes, PollerDefers
<1>4. deferred' \in [Ranks -> Seq(Commands)]
  <2>1. CASE PollerExecutes(r)
    BY <2>1 DEF Places, TypeOK, PollerExecutes
  <2>2. CASE PollerDefers(r)
    <3>1. Append(deferred[r], Head(queue)) \in Seq(Commands)
      BY <1>2 DEF Places, TypeOK
    <3> QED
      BY <2>2, <3>1 DEF Places, TypeOK, PollerDefers
  <2> QED
    BY <2>1, <2>2
<1>5. TypeOK'
  BY <1>1, <1>2, <1>3, <1>4
  DEF Places, TypeOK, PollerExecutes, PollerDefers, Claims, loopVars, drainVars
<1> QED
  BY <1>1, <1>5, AsidePlaces

\* A step of the loop takes a rank to the next sync point.
LEMMA TrainPlaces ==
  ASSUME Places, NEW r \in Ranks, TrainStep(r)
  PROVE  Places'
<1>1. /\ pc[r] = "train" /\ r \notin ending /\ round[r] \in 0..MaxRounds /\ round[r] < MaxRounds
      /\ pc' = [pc EXCEPT ![r] = "sync"] /\ round' = [round EXCEPT ![r] = @ + 1]
      /\ UNCHANGED <<polling, ending, state, brokerVars, deferred, drainVars>>
  BY DEF Places, TypeOK, InLoop, TrainStep
<1>2. TypeOK'
  BY <1>1, BoundsAssumption DEF Places, TypeOK, brokerVars, drainVars
<1>3. InLoop'
  BY <1>1, BoundsAssumption DEF Places, TypeOK, InLoop
<1>4. /\ Done(r)' = Done(r)
      /\ \A s \in Ranks : s # r => Done(s)' = Done(s) /\ Turn(s)' = Turn(s)
  BY <1>1, BoundsAssumption DEF Places, TypeOK, Done, Turn
<1>5. 0 \in Ranks /\ Replicas \subseteq Ranks /\ \A n : Upto(n)' = Upto(n)
  BY <1>1 DEF Ranks, Upto, drainVars
<1>6. MainIsAhead'
  BY <1>1, <1>4, <1>5 DEF Places, TypeOK, MainIsAhead, drainVars
<1>7. OthersFollow'
  BY <1>1, <1>4, <1>5 DEF Places, TypeOK, OthersFollow, drainVars
<1> QED
  BY <1>2, <1>3, <1>6, <1>7 DEF Places

\* A drain begins.
LEMMA BeginPlaces ==
  ASSUME Places, BeginDrain
  PROVE  Places'
<1>1. 0 \in Ranks /\ Replicas \subseteq Ranks /\ 0 \notin Replicas
  BY RanksAssumption DEF Ranks
<1>2. TypeOK'
  BY <1>1 DEF BeginDrain, Places, TypeOK, brokerVars
<1>3. \A r \in Ranks : Done(r)' = Done(r) /\ Turn(r)' = Turn(r)
  BY <1>1 DEF BeginDrain, Places, TypeOK, Done, Turn
<1>4. \A n : Upto(n)' = Upto(n)
  BY DEF BeginDrain, Upto
<1>5. InLoop' /\ MainIsAhead' /\ OthersFollow'
  BY <1>1, <1>3, <1>4 DEF BeginDrain, Places, TypeOK, InLoop, MainIsAhead, OthersFollow
<1> QED
  BY <1>2, <1>5 DEF Places

LEMMA ReceivePlaces ==
  ASSUME Places, NEW r \in Ranks, Receive(r)
  PROVE  Places'
<1>1. 0 \in Ranks /\ Replicas \subseteq Ranks /\ 0 \notin Replicas /\ r \in Replicas
  BY RanksAssumption DEF Ranks, Receive
<1>2. TypeOK'
  BY <1>1 DEF Receive, Places, TypeOK, brokerVars, drainVars
<1>3. \A s \in Ranks : Done(s)' = Done(s) /\ Turn(s)' = Turn(s)
  BY <1>1 DEF Receive, Places, TypeOK, Done, Turn
<1>4. \A n : Upto(n)' = Upto(n)
  BY DEF Receive, Upto, drainVars
<1>5. InLoop' /\ MainIsAhead' /\ OthersFollow'
  BY <1>1, <1>3, <1>4 DEF Receive, Places, TypeOK, InLoop, MainIsAhead, OthersFollow, drainVars
<1> QED
  BY <1>2, <1>5 DEF Places

\* Rank 0 executes a command and adds it to the log if it is replicated.
LEMMA ExecutesPlaces ==
  ASSUME Places, NEW c \in Commands, Executes(c), queue' \in Seq(Commands),
         batch' \in Seq(Commands)
  PROVE  Places'
<1>1. 0 \in Ranks /\ Replicas \subseteq Ranks /\ 0 \notin Replicas
  BY RanksAssumption DEF Ranks
<1>2. /\ pc[0] = "drain" /\ UNCHANGED <<polling, pc, round, ending, issued, deferred, sent>>
      /\ state' = [state EXCEPT ![0] = Handled(@, c)]
      /\ Handled(state[0], c) \in RankStates
  BY <1>1, HandledType DEF Places, TypeOK, Executes, loopVars
<1>3. state' \in [Ranks -> RankStates] /\ state'[0] \in RankStates
  BY <1>1, <1>2 DEF Places, TypeOK
<1>4. Settings(state'[0]) \in [lr : Levels, max : Levels \cup {None}]
  BY <1>3 DEF Settings, RankStates
<1>5. Len(log) \in Nat
  BY DEF Places, TypeOK
<1>6. /\ log' \in Seq(Commands) /\ Len(log') \in Nat /\ Len(log) <= Len(log')
      /\ settings' \in Seq([lr : Levels, max : Levels \cup {None}])
      /\ Len(settings') = Len(log') + 1
      /\ applied' \in [Ranks -> 0..Len(log')] /\ applied'[0] = Len(log')
      /\ \A r \in Replicas : applied'[r] = applied[r]
  <2>1. CASE Replicated(c)
    <3>1. /\ log' = Append(log, c)
          /\ settings' = Append(settings, Settings(state'[0]))
          /\ applied' = [applied EXCEPT ![0] = @ + 1]
      BY <2>1 DEF Executes
    <3>2. /\ log \in Seq(Commands) /\ settings \in Seq([lr : Levels, max : Levels \cup {None}])
          /\ Len(settings) = Len(log) + 1
          /\ applied \in [Ranks -> 0..Len(log)] /\ applied[0] = Len(log)
      BY DEF Places, TypeOK, MainIsAhead
    <3>3. log' \in Seq(Commands) /\ Len(log') = Len(log) + 1
      BY <3>1, <3>2
    <3>4. /\ settings' \in Seq([lr : Levels, max : Levels \cup {None}])
          /\ Len(settings') = Len(log) + 2
      BY <1>4, <1>5, <3>1, <3>2
    <3>5. applied' \in [Ranks -> 0..(Len(log) + 1)] /\ applied'[0] = Len(log) + 1
      BY <1>1, <1>5, <3>1, <3>2
    <3> QED
      BY <1>1, <1>5, <3>1, <3>2, <3>3, <3>4, <3>5
  <2>2. CASE ~Replicated(c)
    BY <1>5, <2>2 DEF Executes, Places, TypeOK, MainIsAhead
  <2> QED
    BY <2>1, <2>2
<1>7. sent' \in Seq(0..Len(log'))
  <2>1. 0..Len(log) \subseteq 0..Len(log')
    BY <1>5, <1>6
  <2> QED
    BY <1>2, <2>1, SeqMonotonic DEF Places, TypeOK
<1>8. TypeOK'
  BY <1>2, <1>3, <1>6, <1>7 DEF Places, TypeOK
<1>9. \A r \in Ranks : Done(r)' = Done(r) /\ Turn(r)' = Turn(r)
  BY <1>2 DEF Done, Turn
<1>10. \A n : Upto(n)' = Upto(n)
  BY <1>2 DEF Upto
<1>11. InLoop' /\ MainIsAhead' /\ OthersFollow'
  BY <1>1, <1>2, <1>6, <1>9, <1>10 DEF Places, InLoop, MainIsAhead, OthersFollow
<1> QED
  BY <1>8, <1>11 DEF Places

LEMMA ExecutePlaces ==
  ASSUME Places, ExecuteDeferred \/ ExecuteNext
  PROVE  \E c \in Commands : Executes(c) /\ Places'
<1>1. CASE ExecuteDeferred
  <2>1. Head(batch) \in Commands /\ Tail(batch) \in Seq(Commands) /\ queue \in Seq(Commands)
    BY <1>1 DEF Places, TypeOK, ExecuteDeferred
  <2> QED
    BY <1>1, <2>1, ExecutesPlaces DEF ExecuteDeferred
<1>2. CASE ExecuteNext
  <2>1. Head(queue) \in Commands /\ Tail(queue) \in Seq(Commands) /\ batch \in Seq(Commands)
    BY <1>2 DEF Places, TypeOK, ExecuteNext
  <2> QED
    BY <1>2, <2>1, ExecutesPlaces DEF ExecuteNext
<1> QED
  BY <1>1, <1>2

\* A drain that is over leads back into the loop or to the last one.
LEMMA OverPlaces ==
  ASSUME Places, NEW r \in Ranks, pc[r] = "drain", DrainOver(r)
  PROVE  /\ pc' \in [Ranks -> {"train", "sync", "drain", "ended"}] /\ ending' \subseteq Ranks
         /\ InLoop'
         /\ pc'[r] # "drain" /\ Done(r)' = Turn(r) /\ Done(r) = Turn(r) - 1
         /\ Turn(r) \in Nat
         /\ \A s \in Ranks : s # r => pc'[s] = pc[s] /\ Done(s)' = Done(s) /\ Turn(s)' = Turn(s)
<1>1. /\ round[r] \in Nat /\ round[r] <= MaxRounds /\ round[r] > 0 /\ round' = round
      /\ MaxRounds \in Nat /\ round \in [Ranks -> 0..MaxRounds]
  BY BoundsAssumption DEF Places, TypeOK, InLoop, DrainOver
<1>2. pc' \in [Ranks -> {"train", "sync", "drain", "ended"}] /\ ending' \subseteq Ranks
  BY DEF Places, TypeOK, DrainOver
<1>3. \A s \in Ranks : s # r => pc'[s] = pc[s] /\ (s \in ending' <=> s \in ending)
  BY DEF Places, TypeOK, DrainOver
<1>4. \A s \in Ranks : s # r => Done(s)' = Done(s) /\ Turn(s)' = Turn(s)
  BY <1>1, <1>3 DEF Done, Turn
<1>5. Turn(r) \in Nat /\ Done(r) = Turn(r) - 1
  BY <1>1 DEF Done, Turn
<1>6. InLoop
  BY DEF Places
<1>7. CASE r \in ending
  <2>1. pc'[r] = "ended" /\ r \in ending'
    BY <1>7 DEF Places, TypeOK, DrainOver
  <2> QED
    <3>1. Done(r)' = Turn(r)
      BY <1>1, <1>7, <2>1 DEF Done, Turn
    <3>2. InLoop'
      BY <1>1, <1>3, <1>6, <2>1 DEF InLoop
    <3> QED
      BY <1>2, <1>3, <1>4, <1>5, <2>1, <3>1, <3>2
<1>8. CASE r \notin ending /\ Leaves(r)
  <2>1. pc'[r] = "sync" /\ r \in ending'
    BY <1>8 DEF Places, TypeOK, DrainOver
  <2> QED
    <3>1. Done(r)' = Turn(r)
      BY <1>1, <1>8, <2>1 DEF Done, Turn
    <3>2. InLoop'
      BY <1>1, <1>3, <1>6, <2>1 DEF InLoop
    <3> QED
      BY <1>2, <1>3, <1>4, <1>5, <2>1, <3>1, <3>2
<1>9. CASE r \notin ending /\ ~Leaves(r)
  <2>1. pc'[r] = "train" /\ r \notin ending' /\ round[r] # MaxRounds
    BY <1>9 DEF Places, TypeOK, DrainOver, Leaves
  <2> QED
    <3>1. Done(r)' = Turn(r)
      BY <1>1, <1>9, <2>1 DEF Done, Turn
    <3>2. InLoop'
      BY <1>1, <1>3, <1>6, <2>1 DEF InLoop
    <3> QED
      BY <1>2, <1>3, <1>4, <1>5, <2>1, <3>1, <3>2
<1> QED
  BY <1>7, <1>8, <1>9

\* A broadcast ends where the log does.
LEMMA BroadcastPlaces ==
  ASSUME Places, Broadcast
  PROVE  Places'
<1>1. 0 \in Ranks /\ Replicas \subseteq Ranks /\ 0 \notin Replicas /\ Len(log) \in Nat
  BY RanksAssumption DEF Ranks, Places, TypeOK
<1>2. /\ pc[0] = "drain" /\ DrainOver(0) /\ sent' = Append(sent, Len(log))
      /\ UNCHANGED <<polling, round, state, issued, queue, deferred, batch, log, applied, settings>>
  BY DEF Broadcast, DrainOver, brokerVars
<1>3. /\ sent \in Seq(0..Len(log)) /\ sent' \in Seq(0..Len(log)) /\ Len(sent') = Len(sent) + 1
      /\ Len(sent) \in Nat
      /\ sent'[Len(sent) + 1] = Len(log)
      /\ \A i \in 1..Len(sent) : sent'[i] = sent[i]
  BY <1>1, <1>2 DEF Places, TypeOK
<1>4. /\ pc' \in [Ranks -> {"train", "sync", "drain", "ended"}] /\ ending' \subseteq Ranks
      /\ InLoop'
      /\ pc'[0] # "drain" /\ Done(0)' = Turn(0) /\ Done(0) = Turn(0) - 1 /\ Turn(0) \in Nat
      /\ \A s \in Replicas : pc'[s] = pc[s] /\ Done(s)' = Done(s) /\ Turn(s)' = Turn(s)
  BY <1>1, <1>2, OverPlaces
<1>5. TypeOK'
  BY <1>2, <1>3, <1>4 DEF Places, TypeOK
<1>6. MainIsAhead'
  <2>1. Len(sent') = Done(0)'
    BY <1>3, <1>4 DEF Places, MainIsAhead
  <2>2. Upto(Len(sent))' = Len(log)
    BY <1>3 DEF Upto
  <2> QED
    BY <1>2, <2>1, <2>2 DEF Places, MainIsAhead
<1>7. \A r \in Replicas : Done(r) \in Nat /\ Turn(r) \in Nat
  <2>1. \A r \in Replicas : round[r] \in Nat
    BY <1>1, BoundsAssumption DEF Places, TypeOK
  <2>2. \A r \in Replicas : pc[r] \in {"sync", "drain"} => round[r] > 0
    BY <1>1 DEF Places, InLoop
  <2> QED
    <3> SUFFICES ASSUME NEW r \in Replicas PROVE Done(r) \in Nat /\ Turn(r) \in Nat
      OBVIOUS
    <3>1. Turn(r) \in Nat /\ (pc[r] \in {"sync", "drain"} => Turn(r) > 0)
      BY <2>1, <2>2 DEF Turn
    <3> QED
      BY <3>1 DEF Done
<1>8. \A n \in Nat : n <= Len(sent) => Upto(n)' = Upto(n)
  BY <1>3 DEF Upto
<1>9. OthersFollow'
  BY <1>2, <1>3, <1>4, <1>7, <1>8 DEF Places, OthersFollow
<1> QED
  BY <1>4, <1>5, <1>6, <1>9 DEF Places

LEMMA AllAppliedPlaces ==
  ASSUME Places, NEW r \in Ranks, AllApplied(r)
  PROVE  Places'
<1>1. 0 \in Ranks /\ Replicas \subseteq Ranks /\ 0 \notin Replicas /\ r \in Replicas
  BY RanksAssumption DEF Ranks, AllApplied
<1>2. /\ pc[r] = "drain" /\ DrainOver(r) /\ applied[r] = Upto(Turn(r))
      /\ UNCHANGED <<polling, round, state, issued, queue, deferred, drainVars>>
  BY DEF AllApplied, DrainOver, brokerVars
<1>3. /\ pc' \in [Ranks -> {"train", "sync", "drain", "ended"}] /\ ending' \subseteq Ranks
      /\ InLoop'
      /\ pc'[r] # "drain" /\ Done(r)' = Turn(r)
      /\ \A s \in Ranks : s # r => pc'[s] = pc[s] /\ Done(s)' = Done(s) /\ Turn(s)' = Turn(s)
  BY <1>2, OverPlaces
<1>4. TypeOK'
  BY <1>2, <1>3 DEF Places, TypeOK, drainVars
<1>5. \A n : Upto(n)' = Upto(n)
  BY <1>2 DEF Upto, drainVars
<1>6. MainIsAhead'
  BY <1>1, <1>2, <1>3, <1>5 DEF Places, MainIsAhead, drainVars
<1>7. OthersFollow'
  BY <1>1, <1>2, <1>3, <1>5 DEF Places, OthersFollow, drainVars
<1> QED
  BY <1>3, <1>4, <1>6, <1>7 DEF Places

LEMMA ApplyPlaces ==
  ASSUME Places, NEW r \in Ranks, ApplyNext(r)
  PROVE  Places' /\ applied[r] + 1 \in 1..Len(log) /\ log[applied[r] + 1] \in Commands
<1>1. 0 \in Ranks /\ Replicas \subseteq Ranks /\ 0 \notin Replicas /\ r \in Replicas
  BY RanksAssumption DEF Ranks, ApplyNext
<1>2. /\ pc[r] = "drain" /\ applied[r] < Upto(Turn(r))
      /\ state' = [state EXCEPT ![r] = Handled(@, log[applied[r] + 1])]
      /\ applied' = [applied EXCEPT ![r] = @ + 1]
      /\ UNCHANGED <<polling, pc, round, ending, issued, queue, deferred, batch, log, sent, settings>>
  BY DEF ApplyNext, loopVars, brokerVars
<1>3. Upto(Turn(r)) \in 0..Len(log)
  <2>1. round[r] \in Nat /\ round[r] > 0 /\ Turn(r) <= Len(sent)
    BY <1>1, <1>2, BoundsAssumption DEF Places, TypeOK, InLoop, OthersFollow
  <2>2. sent \in Seq(0..Len(log)) /\ Len(sent) \in Nat
    BY DEF Places, TypeOK
  <2>3. Turn(r) \in 1..Len(sent)
    BY <2>1, <2>2 DEF Turn
  <2>4. sent[Turn(r)] \in 0..Len(log)
    BY <2>2, <2>3, ElementOfSeq
  <2> QED
    BY <2>2, <2>3, <2>4 DEF Upto
<1>4. applied[r] \in Nat /\ Len(log) \in Nat /\ applied[r] + 1 \in 1..Len(log)
  <2>1. applied[r] \in 0..Len(log) /\ Len(log) \in Nat
    BY DEF Places, TypeOK
  <2> QED
    BY <1>2, <1>3, <2>1
<1>5. log[applied[r] + 1] \in Commands
  BY <1>4 DEF Places, TypeOK
<1>6. state' \in [Ranks -> RankStates] /\ applied' \in [Ranks -> 0..Len(log)]
  <2>1. Handled(state[r], log[applied[r] + 1]) \in RankStates
    BY <1>5, HandledType DEF Places, TypeOK
  <2> QED
    BY <1>2, <1>4, <2>1 DEF Places, TypeOK
<1>7. TypeOK'
  BY <1>2, <1>6 DEF Places, TypeOK
<1>8. \A s \in Ranks : Done(s)' = Done(s) /\ Turn(s)' = Turn(s)
  BY <1>2 DEF Done, Turn
<1>9. \A n : Upto(n)' = Upto(n)
  BY <1>2 DEF Upto
<1>10. InLoop' /\ MainIsAhead' /\ OthersFollow'
  BY <1>1, <1>2, <1>8, <1>9 DEF Places, TypeOK, InLoop, MainIsAhead, OthersFollow
<1> QED
  BY <1>4, <1>5, <1>7, <1>10 DEF Places

LEMMA StepPlaces ==
  ASSUME Places, [Next]_vars
  PROVE  Places'
<1>1. CASE UNCHANGED vars
  <2>1. UNCHANGED <<loopVars, drainVars>> /\ TypeOK'
    BY <1>1 DEF vars, loopVars, brokerVars, drainVars, Places, TypeOK
  <2> QED
    BY <2>1, AsidePlaces
<1>2. CASE Main
  BY <1>2, BeginPlaces, ExecutePlaces, BroadcastPlaces DEF Main
<1>3. ASSUME NEW r \in Ranks, ApplyReplicated(r)
      PROVE  Places'
  BY <1>3, ReceivePlaces, ApplyPlaces, AllAppliedPlaces DEF ApplyReplicated
<1> QED
  BY <1>1, <1>2, <1>3, EnqueuePlaces, TrainPlaces, PollerPlaces DEF Next

-----------------------------------------------------------------------------
(***************************************************************************)
(* What the ranks have set.                                                *)
(***************************************************************************)

\* A step runs one handler on one rank, or none.
LEMMA HandlerSteps ==
  ASSUME Places, [Next]_vars
  PROVE  \/ UNCHANGED state
         \/ \E s \in Ranks, c \in Commands : state' = [state EXCEPT ![s] = Handled(@, c)]
<1>1. CASE ExecuteDeferred \/ ExecuteNext
  BY <1>1, ExecutePlaces DEF Executes, Ranks
<1>2. ASSUME NEW s \in Ranks, ApplyNext(s)
      PROVE  \E c \in Commands : state' = [state EXCEPT ![s] = Handled(@, c)]
  BY <1>2, ApplyPlaces DEF ApplyNext
<1>3. ASSUME NEW s \in Ranks, PollerExecutes(s)
      PROVE  \E c \in Commands : state' = [state EXCEPT ![s] = Handled(@, c)]
  <2>1. Head(queue) \in Commands
    BY <1>3 DEF PollerExecutes, Claims, Places, TypeOK
  <2> QED
    BY <1>3, <2>1 DEF PollerExecutes
<1>4. \/ UNCHANGED state
      \/ ExecuteDeferred \/ ExecuteNext
      \/ \E s \in Ranks : ApplyNext(s) \/ PollerExecutes(s)
  BY DEF Next, vars, Enqueue, TrainStep, Main, BeginDrain, Broadcast, DrainOver,
     ApplyReplicated, Receive, AllApplied, PollerDefers
<1> QED
  BY <1>1, <1>2, <1>3, <1>4

\* A limit that is set stays set.
LEMMA LimitsStay ==
  ASSUME Places, [Next]_vars, Unlimited'
  PROVE  Unlimited
<1>1. polling' = polling
  BY DEF Next, vars, Enqueue, TrainStep, Main, BeginDrain, ExecuteDeferred, ExecuteNext, Executes,
     Broadcast, DrainOver, ApplyReplicated, Receive, ApplyNext, AllApplied, PollerExecutes,
     PollerDefers, Claims
<1>2. ASSUME NEW r \in Ranks, state[r].max # None
      PROVE  state'[r].max # None
  <2>1. CASE UNCHANGED state
    BY <1>2, <2>1
  <2>2. ASSUME NEW s \in Ranks, NEW c \in Commands, state' = [state EXCEPT ![s] = Handled(@, c)]
        PROVE  state'[r].max # None
    BY <1>2, <2>2, HandledType DEF Places, TypeOK
  <2> QED
    BY <2>1, <2>2, HandlerSteps
<1> QED
  BY <1>1, <1>2 DEF Unlimited

\* Where nothing was saved and nothing is, nothing is saved afterwards.
LEMMA NothingSavedStays ==
  ASSUME NoRollback, Places, NothingSaved, [Next]_vars
  PROVE  NothingSaved'
<1> SUFFICES ASSUME "restore_checkpoint" \in Kinds, NEW r \in Ranks
             PROVE  state'[r].saved = None
  BY DEF NothingSaved
<1>1. "save_checkpoint" \notin Kinds /\ state[r].saved = None /\ state \in [Ranks -> RankStates]
  BY DEF NoRollback, NothingSaved, Places, TypeOK
<1>2. ASSUME NEW s \in Ranks, NEW c \in Commands, state' = [state EXCEPT ![s] = Handled(@, c)]
      PROVE  state'[r].saved = None
  BY <1>1, <1>2, HandledSaves
<1> QED
  BY <1>1, <1>2, HandlerSteps

\* Only a handler changes what a rank has set.
LEMMA AsideSame ==
  ASSUME SameAtSamePlace, Unlimited, UNCHANGED <<state, log, applied, settings>>
  PROVE  SameAtSamePlace'
BY DEF SameAtSamePlace, LogMakes

\* Of what rank 0 executes it replicates all that changes its settings.
LEMMA ExecutesSame ==
  ASSUME IInv, Unlimited, NEW c \in Commands, Executes(c)
  PROVE  SameAtSamePlace'
<1>1. 0 \in Ranks /\ log \in Seq(Commands) /\ Len(log) \in Nat
  BY DEF Ranks, IInv, Places, TypeOK
<1>2. /\ LogMakes(Len(log))
      /\ \A r \in Ranks : Settings(state[r]) = settings[applied[r] + 1]
  BY DEF IInv, SameAtSamePlace
<1>3. /\ state \in [Ranks -> RankStates] /\ applied \in [Ranks -> 0..Len(log)]
      /\ applied[0] = Len(log) /\ settings \in Seq([lr : Levels, max : Levels \cup {None}])
      /\ Len(settings) = Len(log) + 1
  BY DEF IInv, Places, TypeOK, MainIsAhead
<1>4. /\ state' = [state EXCEPT ![0] = Handled(state[0], c)]
      /\ Settings(state'[0]) =
           IF Replicated(c) THEN Changed(settings[Len(log) + 1], c) ELSE settings[Len(log) + 1]
  <2>1. Settings(state[0]) = settings[Len(log) + 1] /\ state[0] \in RankStates
    BY <1>1, <1>2, <1>3
  <2>2. state' = [state EXCEPT ![0] = Handled(state[0], c)]
    BY DEF Executes
  <2>3. state'[0] = Handled(state[0], c)
    BY <1>1, <1>3, <2>2
  <2> QED
    BY <1>1, <2>1, <2>2, <2>3, HandledSettings DEF IInv, NothingSaved
<1>5. CASE Replicated(c)
  <2>1. /\ log' = Append(log, c)
        /\ settings' = Append(settings, Settings(state'[0]))
        /\ applied' = [applied EXCEPT ![0] = @ + 1]
    BY <1>5 DEF Executes
  <2>2. /\ Len(log') = Len(log) + 1 /\ log'[Len(log) + 1] = c
        /\ \A i \in 1..Len(log) : log'[i] = log[i]
    BY <1>1, <2>1
  <2>3. /\ settings'[Len(log) + 2] = Settings(state'[0])
        /\ \A i \in 1..(Len(log) + 1) : settings'[i] = settings[i]
    <3>1. state'[0] \in RankStates
      BY <1>1, <1>3, <1>4, HandledType
    <3>2. Settings(state'[0]) \in [lr : Levels, max : Levels \cup {None}]
      BY <3>1 DEF Settings, RankStates
    <3> QED
      BY <1>1, <1>3, <2>1, <3>2
  <2>4. \A i \in 1..(Len(log) + 1) :
          Replicated(log'[i]) /\ settings'[i + 1] = Changed(settings'[i], log'[i])
    <3> SUFFICES ASSUME NEW i \in 1..(Len(log) + 1)
                 PROVE  Replicated(log'[i]) /\ settings'[i + 1] = Changed(settings'[i], log'[i])
      OBVIOUS
    <3>1. CASE i \in 1..Len(log)
      <4>1. settings'[i + 1] = settings[i + 1] /\ settings'[i] = settings[i] /\ log'[i] = log[i]
        BY <1>1, <2>2, <2>3, <3>1
      <4> QED
        BY <1>2, <3>1, <4>1 DEF LogMakes
    <3>2. CASE i = Len(log) + 1
      BY <1>1, <1>4, <1>5, <2>2, <2>3, <3>2
    <3> QED
      BY <1>1, <3>1, <3>2
  <2>5. ASSUME NEW r \in Ranks
        PROVE  Settings(state'[r]) = settings'[applied'[r] + 1]
    <3>1. CASE r = 0
      BY <1>1, <1>3, <2>1, <2>3, <3>1
    <3>2. CASE r # 0
      <4>1. state'[r] = state[r] /\ applied'[r] = applied[r] /\ applied[r] \in 0..Len(log)
        BY <1>3, <1>4, <2>1, <3>2
      <4> QED
        BY <1>1, <1>2, <2>3, <4>1
    <3> QED
      BY <3>1, <3>2
  <2> QED
    BY <2>2, <2>4, <2>5 DEF SameAtSamePlace, LogMakes
<1>6. CASE ~Replicated(c)
  <2>1. UNCHANGED <<log, settings, applied>>
    BY <1>6 DEF Executes
  <2>2. \A r \in Ranks : Settings(state'[r]) = Settings(state[r])
    BY <1>1, <1>2, <1>3, <1>4, <1>6
  <2> QED
    BY <1>2, <2>1, <2>2 DEF SameAtSamePlace, LogMakes
<1> QED
  BY <1>5, <1>6

\* The others do with their settings what rank 0 did.
LEMMA ApplySame ==
  ASSUME IInv, Unlimited, NEW r \in Ranks, ApplyNext(r)
  PROVE  SameAtSamePlace'
<1> DEFINE i == applied[r] + 1
<1>1. i \in 1..Len(log) /\ log[i] \in Commands /\ Places'
  BY ApplyPlaces DEF IInv
<1>2. /\ LogMakes(Len(log))
      /\ \A s \in Ranks : Settings(state[s]) = settings[applied[s] + 1]
  BY DEF IInv, SameAtSamePlace
<1>3. /\ state \in [Ranks -> RankStates] /\ applied \in [Ranks -> 0..Len(log)] /\ Len(log) \in Nat
      /\ state' = [state EXCEPT ![r] = Handled(state[r], log[i])]
      /\ applied' = [applied EXCEPT ![r] = i]
      /\ log' = log /\ settings' = settings
  BY DEF IInv, Places, TypeOK, ApplyNext
<1>4. Settings(Handled(state[r], log[i])) = settings[i + 1]
  <2>1. Settings(state[r]) = settings[i] /\ state[r] \in RankStates
    BY <1>2, <1>3
  <2>2. Replicated(log[i]) /\ settings[i + 1] = Changed(settings[i], log[i])
    BY <1>1, <1>2 DEF LogMakes
  <2> QED
    BY <1>1, <2>1, <2>2, HandledSettings DEF IInv, NothingSaved
<1>5. \A s \in Ranks : Settings(state'[s]) = settings[applied'[s] + 1]
  BY <1>2, <1>3, <1>4
<1> QED
  BY <1>2, <1>3, <1>5 DEF SameAtSamePlace, LogMakes

\* A poller that sets a limit sets it on its own rank.
LEMMA PollerSame ==
  ASSUME IInv, NEW r \in Ranks, PollerExecutes(r), Unlimited, Unlimited'
  PROVE  SameAtSamePlace'
<1>1. /\ polling /\ polling' = polling /\ SafeAsync(Head(queue)) /\ Head(queue) \in Commands
      /\ state \in [Ranks -> RankStates]
      /\ state' = [state EXCEPT ![r] = Handled(state[r], Head(queue))]
      /\ UNCHANGED <<log, applied, settings>>
  BY DEF PollerExecutes, Claims, IInv, Places, TypeOK, drainVars
<1>2. state'[r].max = None
  BY <1>1 DEF Unlimited
<1>3. Head(queue).type = "stop_training"
  BY <1>1, <1>2, HandledType DEF SafeAsync
<1>4. \A s \in Ranks : Settings(state'[s]) = Settings(state[s])
  BY <1>1, <1>3 DEF Handled, StopTraining, Settings, RankStates
<1> QED
  BY <1>1, <1>4 DEF IInv, SameAtSamePlace, LogMakes

LEMMA StepSame ==
  ASSUME IInv, [Next]_vars
  PROVE  SameAtSamePlace'
<1> SUFFICES ASSUME Unlimited'
             PROVE  SameAtSamePlace'
  BY DEF SameAtSamePlace
<1>1. Unlimited /\ SameAtSamePlace /\ Places
  BY LimitsStay DEF IInv
<1>2. CASE ExecuteDeferred \/ ExecuteNext
  BY <1>1, <1>2, ExecutePlaces, ExecutesSame
<1>3. ASSUME NEW r \in Ranks, ApplyNext(r)
      PROVE  SameAtSamePlace'
  BY <1>1, <1>3, ApplySame
<1>4. ASSUME NEW r \in Ranks, PollerExecutes(r)
      PROVE  SameAtSamePlace'
  BY <1>1, <1>4, PollerSame
<1>5. \/ UNCHANGED <<state, log, applied, settings>>
      \/ ExecuteDeferred \/ ExecuteNext
      \/ \E r \in Ranks : ApplyNext(r) \/ PollerExecutes(r)
  BY DEF Next, vars, drainVars, Enqueue, TrainStep, Main, BeginDrain, Broadcast, DrainOver,
     ApplyReplicated, Receive, AllApplied, PollerDefers, Claims
<1> QED
  BY <1>1, <1>2, <1>3, <1>4, <1>5, AsideSame

LEMMA InitSame == Init => NothingSaved /\ SameAtSamePlace
BY DEF Init, NothingSaved, SameAtSamePlace, LogMakes, Settings

-----------------------------------------------------------------------------
\* Where the ranks are and how far each is in the log, for any commands.
THEOREM PlacesInvariant == Spec => []Places
BY InitPlaces, StepPlaces, PTL DEF Spec

\* The state has its type: no rank takes more steps than there are, and none
\* applies what rank 0 has not executed.
THEOREM TypeCorrect == Spec => []TypeOK
BY PlacesInvariant, PTL DEF Places

\* What the theorem below rests on.
THEOREM InductiveInvariant ==
  ASSUME NoRollback
  PROVE  Spec => []IInv
<1>1. ASSUME IInv, [Next]_vars
      PROVE  IInv'
  BY <1>1, StepPlaces, StepSame, NothingSavedStays DEF IInv
<1>2. Init => IInv
  BY InitPlaces, InitSame DEF IInv
<1> QED
  BY <1>1, <1>2, PTL DEF Spec

(***************************************************************************)
(* Unless the agent both saves and restores checkpoints, ranks about to    *)
(* take the same step have the same learning rate, but where with pollers  *)
(* one has a limit (drain_commands and _apply_replicated_commands in       *)
(* bridge.py): for any number of ranks, however commands, clamps and       *)
(* broadcasts follow upon each other.                                      *)
(***************************************************************************)
THEOREM RanksTrainAlike ==
  ASSUME NoRollback
  PROVE  Spec => []SameUnlessLimited
<1>1. ASSUME IInv, Unlimited, NEW r \in Ranks, NEW s \in Ranks,
             pc[r] = "train", pc[s] = "train", round[r] = round[s]
      PROVE  state[r].lr = state[s].lr
  <2>1. ASSUME NEW q \in Ranks, pc[q] = "train"
        PROVE  applied[q] = Upto(round[q])
    <3>1. Done(q) = round[q]
      BY <1>1, <2>1 DEF Done, Turn, IInv, Places, InLoop
    <3>2. CASE q = 0
      BY <1>1, <2>1, <3>1, <3>2 DEF IInv, Places, MainIsAhead
    <3>3. CASE q # 0
      BY <1>1, <2>1, <3>1, <3>3 DEF IInv, Places, OthersFollow, Ranks
    <3> QED
      BY <3>2, <3>3
  <2>2. Settings(state[r]) = Settings(state[s])
    BY <1>1, <2>1 DEF IInv, SameAtSamePlace
  <2> QED
    BY <2>2 DEF Settings
<1>2. IInv => SameUnlessLimited
  BY <1>1 DEF SameUnlessLimited, SameMutations, Unlimited
<1> QED
  BY <1>2, InductiveInvariant, PTL
=============================================================================
