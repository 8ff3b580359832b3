------------------------------ MODULE Telemetry ------------------------------
(***************************************************************************)
(* What a training node tells the agent about samples and anomalies, and   *)
(* what it does with the samples the agent flags (TrainingBridge in        *)
(* bridge.py, ControlPlaneStore in controlplane.py).                       *)
(*                                                                         *)
(* The training thread collects the samples with the highest losses and    *)
(* the latest anomalies and pushes both to the broker, best effort: a      *)
(* push may be lost on the way there or on the way back.  A flag_samples   *)
(* command is executed by the training thread or by the poller, at the     *)
(* same time if need be; the user's callback runs on the training thread   *)
(* only, at the end of a drain.                                            *)
(***************************************************************************)
EXTENDS Anomalies

CONSTANTS
  Samples,       \* sample indices
  Losses,        \* finite per-sample losses
  MaxAnomalies,  \* anomalies the bridge remembers (50)
  Configurations \* [topk, hooked]: susp_topk and whether there is a callback
                 \* on_flagged_samples; and what this node meets: [losses, grads],
                 \* the losses and gradient norms of its batches, [events, flags],
                 \* bounds on how many anomalies are detected and how many
                 \* flag_samples the agent sends

ASSUME LossesAssumption == Losses \subseteq Nat \ {0} /\ NaN \notin Losses

ASSUME SamplesAssumption == IsFiniteSet(Samples) /\ MaxAnomalies \in Nat \ {0}

ASSUME ConfigurationsAssumption ==
  \A c \in Configurations :
    /\ c.topk \in Nat /\ c.events \in Nat /\ c.flags \in Nat
    /\ c.losses \ {NaN} \subseteq Int /\ c.grads \ {NaN, None} \subseteq Nat

VARIABLES
  config,      \* the configuration of this node
  mirrored,    \* the broker mirrors to SQLite
  pc,          \* where each thread is
  ending,      \* on_train_end has been called (_poll_stop)
  joined,      \* the poller had stopped when on_train_end went on
  susp,        \* _susp: sample -> loss
  worst,       \* highest loss of each sample since the last push that was
               \* acknowledged, 0 if there is none or nobody asks (history)
  detector,    \* _anomaly
  reported,    \* the verdict on the last batch, if it was bad and no checkpoint
               \* has been restored since (history)
  events,      \* anomalies detected so far
  anomalies,   \* _anomalies, each known by its number
  latest,      \* the telemetry the broker serves for this run
  flagsLeft,   \* flag_samples commands the agent has yet to send
  indices,     \* the indices of the command each thread is handling
  before,      \* what each handler found flagged
  flagged,     \* flagged_indices
  pendingFlags,  \* _pending_flag_indices
  toCall,      \* lists taken by _flush_flag_callbacks and not yet passed on
  called,      \* the samples passed to the callback
  dropped      \* the samples whose list was dropped because a callback raised

threadVars == <<config, mirrored, pc, ending, joined>>
suspectVars == <<susp, worst>>
anomalyVars == <<detector, reported, events, anomalies>>
reportVars == <<suspectVars, anomalyVars, latest>>
handlerVars == <<flagsLeft, indices, before, flagged>>
callbackVars == <<toCall, called, dropped>>
vars == <<threadVars, reportVars, handlerVars, pendingFlags, callbackVars>>

Threads == {"trainer", "poller"}

Nothing == [kind |-> "healthy", loss |-> None, grad |-> None]

Init ==
  /\ config \in Configurations
  /\ mirrored \in BOOLEAN
  /\ \E p \in {"poll", "off"} : pc = [trainer |-> "train", poller |-> p]
  /\ ending = FALSE
  /\ joined = FALSE
  /\ susp = <<>>
  /\ worst = [i \in Samples |-> 0]
  /\ detector = Fresh
  /\ reported = Nothing
  /\ events = 0
  /\ anomalies = <<>>
  /\ latest = None
  /\ flagsLeft = config.flags
  /\ indices = [t \in Threads |-> {}]
  /\ before = [t \in Threads |-> {}]
  /\ flagged = {}
  /\ pendingFlags = <<>>
  /\ toCall = <<>>
  /\ called = {}
  /\ dropped = {}

Goto(t, p) == pc' = [pc EXCEPT ![t] = p]

-----------------------------------------------------------------------------
(***************************************************************************)
(* One batch: on_batch_end with the losses of its samples, of which those  *)
(* that are not finite are skipped.                                        *)
(***************************************************************************)
\* Without a window nobody looks at them.
Batches ==
  IF config.topk = 0 THEN {<<>>}
  ELSE UNION {[S -> Losses \cup {NaN}] : S \in SUBSET Samples}

Finite(b) == {i \in DOMAIN b : b[i] # NaN}

Larger(x, y) == IF x > y THEN x ELSE y

\* The last loss of a sample counts (a plausible mistake, used by no
\* specification, like the other Bug_ definitions).
Bug_Merged(m, b) ==
  [i \in DOMAIN m \cup Finite(b) |-> IF i \in Finite(b) THEN b[i] ELSE m[i]]

Merged(m, b) ==
  [i \in DOMAIN m \cup Finite(b) |->
     IF i \notin Finite(b) THEN m[i]
     ELSE IF i \notin DOMAIN m THEN b[i] ELSE Larger(b[i], m[i])]

\* The window is not cut.
Bug_Top(m, k) == {m}

\* The k entries of m with the highest losses: any, where losses are equal.
Top(m, k) ==
  IF Cardinality(DOMAIN m) <= k THEN {m}
  ELSE {Restrict(m, S) : S \in {T \in SUBSET DOMAIN m :
          /\ Cardinality(T) = k
          /\ \A i \in T, j \in DOMAIN m \ T : m[i] >= m[j]}}

TrackSuspiciousLosses(b) ==
  \/ config.topk = 0 /\ UNCHANGED suspectVars
  \/ /\ config.topk > 0
     /\ susp' \in Top(Merged(susp, b), config.topk)
     /\ worst' = [i \in Samples |-> IF i \in Finite(b) THEN Larger(b[i], worst[i])
                                    ELSE worst[i]]

RecordAnomaly ==
  /\ events < config.events
  /\ events' = events + 1
  /\ anomalies' = LastOf(Append(anomalies, events + 1), MaxAnomalies)

\* AnomalyDetector.update, and _record_anomaly if it found something.
Examine(loss, grad) ==
  LET kind == Verdict(detector, loss, grad) IN
  /\ detector' = Updated(detector, loss, grad)
  /\ IF kind = "healthy"
       THEN reported' = Nothing /\ UNCHANGED <<events, anomalies>>
       ELSE reported' = [kind |-> kind, loss |-> loss, grad |-> grad] /\ RecordAnomaly

\* Telemetry and commands are due after some batches (apply_every_batches).
BatchEnd(b, loss, grad) ==
  /\ pc["trainer"] = "train"
  /\ TrackSuspiciousLosses(b)
  /\ Examine(loss, grad)
  /\ \E p \in {"train", "push"} : Goto("trainer", p)
  /\ UNCHANGED <<config, mirrored, ending, joined, latest, handlerVars, pendingFlags, callbackVars>>

EpochEnd ==
  /\ pc["trainer"] = "train"
  /\ Goto("trainer", "push")
  /\ UNCHANGED <<config, mirrored, ending, joined, reportVars, handlerVars, pendingFlags, callbackVars>>

(***************************************************************************)
(* on_train_end: the poller is joined, but not for long; if it is in a     *)
(* handler then, it may still be there afterwards.                         *)
(***************************************************************************)
TrainEnd ==
  /\ pc["trainer"] = "train"
  /\ ending' = TRUE
  /\ \E j \in BOOLEAN :
       /\ joined' = j
       /\ j => pc["poller"] \in {"poll", "off"}
       /\ pc' = [trainer |-> "push", poller |-> IF j THEN "off" ELSE pc["poller"]]
  /\ UNCHANGED <<config, mirrored, reportVars, handlerVars, pendingFlags, callbackVars>>

PollerStops ==
  /\ ending /\ pc["poller"] = "poll"
  /\ Goto("poller", "off")
  /\ UNCHANGED <<config, mirrored, ending, joined, reportVars, handlerVars,
                 pendingFlags, callbackVars>>

-----------------------------------------------------------------------------
(***************************************************************************)
(* push_telemetry.  What was collected is forgotten once the broker is     *)
(* known to have it; a push of which nothing was heard is swallowed.       *)
(***************************************************************************)
PushOver ==
  /\ Goto("trainer", "drain")
  /\ UNCHANGED <<config, mirrored, ending, joined, anomalyVars,
                 handlerVars, pendingFlags, callbackVars>>

\* upTo: the anomalies detected by then (history).
BrokerStores == latest' = [samples |-> susp, anomalies |-> anomalies, upTo |-> events]

PushAcknowledged ==
  /\ pc["trainer"] = "push"
  /\ BrokerStores
  /\ susp' = <<>>
  /\ worst' = [i \in Samples |-> 0]
  /\ PushOver

PushFails ==
  /\ pc["trainer"] = "push"
  /\ BrokerStores \/ UNCHANGED latest
  /\ UNCHANGED <<susp, worst>>
  /\ PushOver

\* Telemetry is mirrored in the call that stores it.
BrokerRestarts ==
  /\ latest' = IF mirrored THEN latest ELSE None
  /\ UNCHANGED <<threadVars, suspectVars, anomalyVars,
                 handlerVars, pendingFlags, callbackVars>>

-----------------------------------------------------------------------------
(***************************************************************************)
(* A checkpoint is restored, on the training thread: by a command, in a    *)
(* drain, or by the user's loop.  The detector is reset, and knows no norm *)
(* nor loss of before; the anomalies listed so far stay.                   *)
(***************************************************************************)
RestoreCheckpoint ==
  /\ pc["trainer"] \in {"train", "drain"}
  /\ detector' = Fresh
  /\ reported' = Nothing
  /\ UNCHANGED <<threadVars, suspectVars, events, anomalies, latest, handlerVars,
                 pendingFlags, callbackVars>>

-----------------------------------------------------------------------------
(***************************************************************************)
(* flag_samples, by either thread.  The set of flagged samples is read,    *)
(* extended and read again without a lock.                                 *)
(***************************************************************************)
AfterFlag(t) == IF t = "trainer" THEN "drain" ELSE "poll"

\* The thread has claimed a flag_samples command; the poller goes on after
\* on_train_end if the join timed out.
FlagBegins(t, s) ==
  /\ flagsLeft > 0
  /\ pc[t] = AfterFlag(t)
  /\ flagsLeft' = flagsLeft - 1
  /\ indices' = [indices EXCEPT ![t] = s]
  /\ before' = [before EXCEPT ![t] = flagged]
  /\ Goto(t, "update")
  /\ UNCHANGED <<config, mirrored, ending, joined, reportVars, flagged, pendingFlags, callbackVars>>

FlagUpdates(t) ==
  /\ pc[t] = "update"
  /\ flagged' = flagged \cup indices[t]
  /\ Goto(t, "flag")
  /\ UNCHANGED <<config, mirrored, ending, joined, reportVars, flagsLeft, indices, before,
                 pendingFlags, callbackVars>>

NewIndices(t) == flagged \ before[t]

FlagQueues(t) ==
  /\ pc[t] = "flag"
  /\ pendingFlags' = IF NewIndices(t) # {} /\ config.hooked
                     THEN Append(pendingFlags, NewIndices(t)) ELSE pendingFlags
  /\ indices' = [indices EXCEPT ![t] = {}]
  /\ before' = [before EXCEPT ![t] = {}]
  /\ Goto(t, AfterFlag(t))
  /\ UNCHANGED <<config, mirrored, ending, joined, reportVars, flagsLeft, flagged,
                 callbackVars>>

(***************************************************************************)
(* The end of a drain: the lists queued so far are taken under the lock    *)
(* and passed to the callback one by one.  A callback that raises ends the *)
(* drain, and the lists after it are gone; the exception reaches the       *)
(* user's loop, which goes on or ends training.                            *)
(***************************************************************************)
Flush ==
  /\ pc["trainer"] = "drain"
  /\ toCall' = pendingFlags
  /\ pendingFlags' = <<>>
  /\ Goto("trainer", "call")
  /\ UNCHANGED <<config, mirrored, ending, joined, reportVars, handlerVars, called, dropped>>

AfterCalls == IF ending THEN "ended" ELSE "train"

CallbackReturns ==
  /\ pc["trainer"] = "call" /\ toCall # <<>>
  /\ called' = called \cup Head(toCall)
  /\ toCall' = Tail(toCall)
  /\ UNCHANGED <<threadVars, reportVars, handlerVars, pendingFlags, dropped>>

CallbackRaises ==
  /\ pc["trainer"] = "call" /\ toCall # <<>>
  /\ dropped' = dropped \cup UNION Range(toCall)
  /\ toCall' = <<>>
  /\ Goto("trainer", AfterCalls)
  /\ UNCHANGED <<config, mirrored, ending, joined, reportVars, handlerVars, pendingFlags, called>>

\* The lists are not taken but copied, and removed in the end.
Bug_FlushEnds ==
  /\ pc["trainer"] = "call" /\ toCall = <<>>
  /\ Goto("trainer", AfterCalls)
  /\ pendingFlags' = <<>>
  /\ UNCHANGED <<config, mirrored, ending, joined, reportVars, handlerVars, callbackVars>>

FlushEnds ==
  /\ pc["trainer"] = "call" /\ toCall = <<>>
  /\ Goto("trainer", AfterCalls)
  /\ UNCHANGED <<config, mirrored, ending, joined, reportVars, handlerVars, pendingFlags, callbackVars>>

-----------------------------------------------------------------------------
Trainer ==
  \/ \E b \in Batches, l \in config.losses, g \in config.grads : BatchEnd(b, l, g)
  \/ EpochEnd
  \/ TrainEnd
  \/ PushAcknowledged
  \/ PushFails
  \/ RestoreCheckpoint
  \/ Flush
  \/ CallbackReturns
  \/ CallbackRaises
  \/ FlushEnds

FlagSamples(t) ==
  \/ \E s \in SUBSET Samples : FlagBegins(t, s)
  \/ FlagUpdates(t)
  \/ FlagQueues(t)

Next ==
  \/ Trainer
  \/ \E t \in Threads : FlagSamples(t)
  \/ PollerStops
  \/ BrokerRestarts

Spec == Init /\ [][Next]_vars

-----------------------------------------------------------------------------
Windows == UNION {[S -> Losses] : S \in SUBSET Samples}

Numbers(s) == \A i \in DOMAIN s : s[i] \in 1..config.events

TypeOK ==
  /\ config \in Configurations
  /\ {mirrored, ending, joined} \subseteq BOOLEAN
  /\ pc["trainer"] \in {"train", "push", "drain", "update", "flag", "call", "ended"}
  /\ pc["poller"] \in {"poll", "update", "flag", "off"}
  /\ susp \in Windows /\ Cardinality(DOMAIN susp) <= config.topk
  /\ worst \in [Samples -> Losses \cup {0}]
  /\ Range(detector.grads) \subseteq config.grads \ {NaN, None}
  /\ Len(detector.grads) <= Window /\ detector.losses \in 0..Window
  /\ detector.best \in (config.losses \ {NaN}) \cup {None}
  /\ events \in 0..config.events
  /\ Numbers(anomalies) /\ Len(anomalies) <= MaxAnomalies
  /\ latest # None => latest.samples \in Windows /\ Numbers(latest.anomalies)
  /\ flagsLeft \in 0..config.flags
  /\ indices \in [Threads -> SUBSET Samples]
  /\ before \in [Threads -> SUBSET Samples]
  /\ UNION (Range(pendingFlags) \cup Range(toCall)) \subseteq flagged
  /\ called \cup dropped \subseteq flagged /\ flagged \subseteq Samples

(***************************************************************************)
(* "get_suspicious_samples(limit) returns the highest per-sample losses    *)
(* reported by the bridge" (docs/architecture.md): although the window     *)
(* forgets a sample as soon as topk others are worse, it always holds the  *)
(* worst samples since the last push that got through, each with its worst *)
(* loss, whatever the order in which losses come and pushes fail.          *)
(***************************************************************************)
SuspectsAreWorst ==
  config.topk > 0 =>
    /\ \A i \in DOMAIN susp : susp[i] = worst[i]
    /\ \A j \in Samples \ DOMAIN susp : worst[j] > 0 =>
         /\ Cardinality(DOMAIN susp) = config.topk
         /\ \A i \in DOMAIN susp : susp[i] >= worst[j]

(***************************************************************************)
(* The anomalies the agent reads are consecutive, and the latest that had  *)
(* been detected by then: the bound cuts off the oldest, and neither lost  *)
(* pushes nor restarts leave a gap.                                        *)
(***************************************************************************)
AnomaliesAreLatest ==
  latest # None =>
    LET n == Len(latest.anomalies) IN
    /\ n = MaxAnomalies \/ n = latest.upTo
    /\ \A i \in 1..n : latest.anomalies[i] = latest.upTo - n + i

(***************************************************************************)
(* "anomaly detection surfaces NaN/Inf/grad-explosion the moment it        *)
(* happens" (README.md), and for as long as it lasts: after an explosion   *)
(* a norm as large or larger is reported again, because explosions never   *)
(* become the norm they are compared with.  That ends when a checkpoint is *)
(* restored: a norm as large is then learned, unreported, until Warmup     *)
(* batches have been seen.                                                 *)
(***************************************************************************)
SustainedExplosion ==
  reported.kind = "grad_explosion" =>
    \A loss \in config.losses \ {NaN}, grad \in config.grads \ {NaN, None} :
      grad >= reported.grad => Verdict(detector, loss, grad) = "grad_explosion"

(***************************************************************************)
(* "flag_samples updates flagged_indices inline yet queues                 *)
(* on_flagged_samples" (.github/copilot-instructions.md): whichever        *)
(* threads handle commands at the same time, each flagged sample has been  *)
(* or will be passed to the callback, unless a callback raised; and after  *)
(* an orderly end none of them is still waiting for it.                    *)
(***************************************************************************)
FlagsReachCallback ==
  config.hooked =>
    flagged \ (called \cup dropped) \subseteq
      IF joined /\ pc["trainer"] = "ended" THEN {}
      ELSE UNION (Range(pendingFlags) \cup Range(toCall)
                  \cup {NewIndices(t) : t \in {u \in Threads : pc[u] = "flag"}})
=============================================================================
