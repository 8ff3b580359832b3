# A TLA+ model of agentic-optimizer

agentic-optimizer lets an LLM agent steer a training job while it runs. A
*control plane* (a FastAPI broker) holds a command queue; the agent puts
commands into it through an MCP server; a *training bridge* inside the training
process claims them, executes them against model, optimizer and loop, and posts
results. This directory states what that machinery promises, checks it with TLC
on small instances, and proves all of its safety properties with TLAPS for every
instance.

Source lines below are relative to `src/agentic_optimizer/`, those of the example
agent and job to `examples/`.

## 1. Inventory

| component | state | operations | hard because of |
|---|---|---|---|
| Command store (`controlplane.py` `ControlPlaneStore`) | commands with status, attempts, lease; a deque per run; SQLite mirror | enqueue, claim, complete, reads; every claim and command read first reclaims expired leases | late, lost and repeated results; leases racing results; entries in a queue that are stale; restart between the commits of one sweep; `max_attempts` |
| Broker HTTP application (`controlplane.py`) | the store, telemetry tables, waiters | command, telemetry, metrics and knob endpoints; long polling | restart, waiting |
| Control-plane client (`controlplane.py`) | none | one request per call; `wait_for_result` polls | a request lost on the way out or on the way back |
| Training bridge, command execution (`bridge.py`) | `_deferred`, poller thread, `_poll_stop`, handlers | `drain_commands` at sync points, poller, `_execute` with its two reports, `on_train_end` | two threads on one list and one queue; join that times out; deferred commands that outlive their lease; node restarts |
| Guardrails (`safety.py`, handlers in `bridge.py`) | bounds and `max_rel_change` per hyperparameter | `configure` (poller thread), `validate` (training thread) | `validate` reads piece by piece while `configure` writes piece by piece; order of the two limits |
| Distributed bridges (`bridge.py`, `distributed.py`) | one bridge per rank | rank 0 drains and broadcasts what it processed, others apply it | unmatched collectives; which commands are broadcast; a poller on every rank |
| Checkpoints and rollback (`bridge.py`) | `_checkpoints` dict, `_ckpt_blobs`, files | save, restore, evict | three places to keep in step through failures half way; re-saved ids; files of earlier processes |
| Other handlers (`bridge.py`) | knobs, training config, stop flag | set_knob, set_augmentation, set_scheduler, extend_training, run_evaluation, stop_training | run on one thread; only `stop_training` interacts (with DDP) |
| Telemetry, metrics, suspicious samples (`bridge.py`, `controlplane.py`) | sample window, flags, histories | push_telemetry, flag_samples | flags on two threads; callbacks that raise |
| Anomaly detector (`safety.py`) | loss and gradient windows | observe | thresholds at zero and negative losses |
| Legacy callback and driver (`callback.py`, `driver.py`) | state.json, control.json | background consultations | overlapping consultations over shared files |
| MCP server (`mcp_server.py`) | client, HPO advisor | one tool per command, `wait_for_result`, HPO tools | waits that give up on commands that are applied later; errors as answers; stale trial ids |
| HPO advisor (`optuna_advisor.py`) | `_live_trials`, Optuna's study | suggest, report, report_intermediate, best | two tables of trials; a study that is replaced |
| Example agent and job (`agent_sim.py`, `train_with_bridge.py`) | place in the script; the loop | set, save, restore, tune by the latest metrics; push and drain each epoch | the agent judges a change by metrics that may be older than it |
| Dev tunnel (`tunnel.py`) | a foreign process, its pipe, a queue of lines | start, stop, serve_with_tunnel | a process that hangs, exits or prints several URLs; a deadline; a reader thread |
| Profiler, GPU telemetry, contract, integrations, NoOpBridge | see PROJECT.json | | little or no interaction |

Interactions: agent -> MCP tools -> HTTP -> store (enqueue, read); bridge ->
HTTP -> store (claim, complete, telemetry); poller -> `_deferred` -> training
thread; rank 0 -> broadcast -> other ranks; poller -> guardrails -> training
thread. The store runs on one event loop whose handlers never await inside a
store call, so each store call is atomic with respect to the others; nothing on
the bridge's side is.

What makes each part correct, in one line each:

- store: a pending command is in its run's queue exactly once; deliveries are
  exclusive while a lease runs and stop once there is a result; a command is
  tried at most `max_attempts` times; first deliveries are in order; with the
  mirror none of this is affected by a restart; every command finishes.
- bridge: each delivery is executed at most once; done means applied; an
  orderly end strands nothing; every command is answered.
- guardrails: a change to a finite value never leads out of the bounds.
- DDP: all ranks apply the same mutations at the same step; nobody waits for ever.
- telemetry: the agent reads the worst samples and the latest anomalies, and
  what it flags reaches the user's callback.
- agent and job: the changes an agent sends add up in the order it sent them, a
  trial's change is measured under its own rate from its confirmation on, and neither side
  waits for ever.
- HPO advisor: its table and Optuna's study agree on which trials run.
- tunnel: starting it ends, with the right URL or an error; nothing is left running.
- checkpoints: what is listed can be restored; what is restored is what was
  saved; at most `max_checkpoints` are kept.

## 2. Modules

| module | stands for | abstract or detailed |
|---|---|---|
| `CommandLifecycle` | what the store promises for each command | abstract |
| `CommandStore` | `ControlPlaneStore` commands, leases, mirror | implements `CommandLifecycle` |
| `CommandStoreProofs` | theorems about it | proofs |
| `ControlLoop` | agent, broker, training thread and poller together | composes `CommandStore` |
| `ControlLoopProofs` | theorems about it, from those of `CommandStoreProofs` | proofs |
| `Guardrails`, `MCGuardrails` | `validate` raced by `configure` | detailed |
| `Replicas` | all ranks of a DDP job | detailed |
| `ReplicasProofs` | theorems about it | proofs |
| `Rollback` | what checkpoints promise | abstract |
| `Checkpoints`, `MCCheckpoints` | the three places of a checkpoint | implements `Rollback` |
| `CheckpointsProofs` | theorems about them | proofs |
| `Anomalies` | `AnomalyDetector.update` | operators |
| `Telemetry`, `MCTelemetry` | what a node reports, and the samples it is told to flag | detailed, uses `Anomalies` |
| `TelemetryProofs` | theorems about both | proofs |
| `Tunnel` | `DevTunnel` and the process it manages | detailed |
| `TunnelProofs` | theorems about it | proofs |
| `Consultation` | `AgenticCallback` and its drivers (the broker-less mode) | detailed |
| `ConsultationProofs` | theorems about it | proofs |
| `Advisor` | the HPO tools, `OptunaAdvisor` and its study | detailed |
| `Tuning` | scripted agent, broker, job and poller: a whole tuning session | composes `Advisor` with the broker and the bridge at a coarser grain |
| `TuningProofs` | theorems about `Guardrails`, `Advisor` and `Tuning` | proofs |

Definitions named `Bug_...` are plausible mistakes. No specification uses them:
each is put in the place of the definition after it to see that a property
fails, and stands before it for that reason.

### CommandStore
A command is numbered by its place in `created_at` order; `status`, `attempts`,
`left` (the time left of the lease, in ticks) and `pending` (the deques) are the
store's tables. Actions: `Enqueue`, `Claim`, `Complete`, `Peek` (the reads that
reclaim), `Tick`, `RestartFromDb`, `RestartEmpty`. `Claim` includes the reclaim
of expired leases and the dropping of stale queue entries, as the code does in
one call. A sweep commits its commands one at a time, newest first, so
`RestartFromDb` may find any newest part of a sweep on disk; in memory the sweep
is always whole. `mirrored` says whether there is a mirror at all; without it a
restart is `RestartEmpty`. `Complete` is enabled for delivered commands only, in whatever
status they are: this is the late or repeated result. Assumed: the broker's clock
does not go backwards, so `created_at` order is enqueue order, and SQLite
commits succeed.

### ControlLoop
Two threads share `_deferred`. `pc`, `hand`, `batch` are their program
counters and locals; each request to the broker is one store action that may or
may not happen while the client sees an exception (`RequestFails`,
`ReportRaises`, `ReportFailure`). Handlers are opaque: they return (`applied` counts)
or raise. `NodeRestarts` loses everything on the node. Assumed: a mirrored
store, one run per node, at most one process per run at a time.

### Guardrails
One hyperparameter. A positive value is known by its logarithm, an integer, so that
`current / factor` and `current * factor` are subtraction and addition. A value of zero or
less is a number below all of these (`NonPositive`); infinity and NaN are one value,
`NonFinite`. What `validate` does to each:

- a request that is not finite is returned as it is, before anything is looked at
  (`PassNonFinite`; `safety.py:125`, and `tests/test_safety.py:121-125` wants it so), so a
  command may set infinity or NaN whatever the bounds are;
- any other request is brought within the bounds (`ClampToBounds`);
- it is then held to the relative limit, if the current value is finite and positive
  (`FactorFound`); a current value that is not set (`grad_clip` at first) has no limit,
  and is `NonFinite` here.

Reads of `validate` (min, max, factor looked at, factor used twice) and writes of
`configure` (min, max, factor) are separate actions. Left out: limits that are not finite
numbers, and factors of zero or less, which `validate` takes for none.

`lowest`, `highest` and `sane` are history variables: the loosest bounds in force since the
change began, and whether the configuration was sensible at every moment since. By these
`ChangesRespectBounds` speaks of every race with `set_guardrails`: a setter that reads the minimum of one
configuration and the maximum of another keeps within what was in force meanwhile. Left out
is a configuration that makes no sense at some moment: a factor below 1, a minimum above
the maximum, or a new minimum that is written while the old, lower maximum still stands, when the
value may be set to either.

Because `max_rel_change` is applied last (`safety.py:149`), a value that a
schedule or narrowed bounds left far outside is led towards the bounds, not into
them, at one command; `mcp_server.py:590` ("Out-of-range values are clamped") says
more than that. `ChangesRespectBounds` states what the code does keep.

### Replicas
Handlers are reduced to learning rate, upper guardrail, latest checkpoint and
stop flag. `TrainStep` is the gradient all-reduce: a rank passes when all have
reached it. What rank 0 executes and replicates goes to the end of one `log`; a broadcast
is an element of `sent`, the place in `log` where it ends, and the n-th drain of
a rank takes the n-th broadcast and applies its part of the log command by command
(`applied`). `settings`, a history variable, is what rank 0 had set at each place of
the log. A poller's step (claim and execute or defer) is whole here,
its interleavings being the subject of `ControlLoop`. The queue hands out a command
once; a drain may end with commands left (a failed request). A handler raises on every rank alike or, for
`restore_checkpoint`, exactly where there is no checkpoint. A broadcast that
raises and is swallowed (`distributed.py:80`) is not modelled.

### Checkpoints
Handlers run on the training thread, one at a time, so a command is a step; what
varies is where it fails. `SaveRaises` (a `state_dict` raises), `SaveRefused`
(metrics that are not numbers), `SaveDiskFails` (blob kept in memory instead),
an `os.remove` that fails, `RestoreRaises` (half restored), `RestoreFindsNothing`.
A save meets at most one failure. `files` outlives the process.

The blob of a save that is refused stays in memory, in no entry, restorable by its
id and found by no eviction (`bridge.py:411`); it is `stray` in `Rollback`.

### Consultation
Consultations are named by their epoch; a decision by the agent that made it and
the snapshot it is about. The driver's steps (write `state.json`, look for
`control.json`, remove it, run the agent, read what it left) interleave with those of other
consultations, because with `async_mode` a consultation that outlasts its epoch
goes on beside the next. The agent is a foreign process: it may read, write,
print, hang, die or be killed by the timeout at any moment, and files of an earlier
process may be there at the start. `overlapping` is a history variable. Writing
and reading a file is one step each, so a torn file is an undecipherable one (`Empty`).

A consultation that outlasts its epoch may fill the result slot after a later one
did, so that its older decision is applied last (`callback.py:237`), although
`callback.py:114` says that the previous epoch's decision is applied first.
`DecisionsCount` therefore says that each decision is applied once, not in which order.

### Anomalies and Telemetry
`Anomalies` is the detector: `Verdict` is what `update` returns, `Updated` what it
remembers, `Ranked` the median taken apart. Numbers are integers; NaN and
infinity are one value, `NaN`.

`Telemetry` runs it batch by batch, beside the window of suspicious samples, the
list of anomalies and the pushes. A push may be lost on its way there
(`PushFails`, the broker has nothing) or back (the broker has it, the bridge does
not know). `flag_samples` is three steps, since `before`, `update` and the second
reading are three statements without a lock (`bridge.py:284`), run by the
training thread within a drain or by the poller; the join in `on_train_end` may time
out. `RestoreCheckpoint` resets the detector (`bridge.py:435`), from a command in a drain or
from the user's loop; a restore that raises half way does not get that far.
`worst` and `reported` are history variables. The window and the
detector do not touch each other or the flags, so each configuration of
`MCTelemetry` has one of them at work.

- The threshold of a divergence is a multiple of the best loss: at or below zero it
  is not worse than it, and a loss that improves may be reported to diverge
  (`safety.py:71`). No property is stated for it.
- After a restore the detector knows no norm: as large a norm as was reported before goes
  unreported until it has warmed up, and becomes what later ones are compared with.
  `SustainedExplosion` therefore ends at a restore.
- A callback that raises ends the drain and drops the lists after its own
  (`bridge.py:692`); these samples stay flagged. `FlagsReachCallback` counts them as `dropped`.
- Two handlers that overlap may both find a sample new; its callback is then
  called twice.

### Tunnel
`start()` looks at the clock (`Check`, `TimesOut`) and then at the queue
(`GetsLine`, `GetsEOF`, `GetsNothing`); the reader moves lines from a bounded pipe to the queue
until the URL is known, and drops them afterwards. The process is foreign: it prints any
lines, closes its output, exits, or ignores being asked to end. Lines are told apart by
what `parse_tunnel_url` makes of them; a `garbled` line is one that cannot be
decoded, on which the reader thread dies. Looking at `_startup_done` and putting a
line in the queue is one step, since a line put there too late is never read.

`NothingLeftRunning` has one exception, which the code has: in a `with` statement an
exception of `start()` is not followed by `stop()`, and when the output ends
before the process does, `start()` raises without having stopped it (`tunnel.py:304`).

### Advisor
A study is the sequence of its trials; a trial's id is its place in it. Optuna is
external: `Ask` appends a running trial with any value of the space, `Tell`
settles a trial once. `Suggest`, `SuggestRaises` (the space has a parameter of an
unknown type, found after Optuna was asked), `Report`, `ReportIntermediate` (the
pruner decides freely) and `Configure` are the tools; ids are any, so also those
of settled trials and of earlier studies. `best()` and `trials()` only read. A study
whose `storage` held trials before is not modelled.

`LiveTrialsRun` says which reports are passed on, not what they are about. Ids begin anew with each
study (`mcp_server.py:385`), so a late report for a trial of an earlier study is
credited to the trial that has its number now, if that one is live (`optuna_advisor.py:75`). The
model has this step, no document promises that it does not happen, and no property excludes it.

### Tuning
The agent of `examples/agent_sim.py` is a program counter `at` and a place `step` in
`RunAgent`, one item per call that can end the agent or change the job; calls that only format a
read and cannot fail the agent are left out. An item's `mode` is what the agent does with an error:
die of a `KeyError`, return it, or not look. `Send` is `_enqueue` with the wait
that follows; `Answered` and `GivesUp` are the ends of `wait_for_result`, whose deadline
may pass at any time. `Passes` goes on to the next place of the script that is
`Taken`, or to the trials: `Configures`, `Suggests`,
`Applies`, `ReadsMetrics`, `ReportsTrial`. `CallsHpoTool` is another user of the same
MCP server between two of these steps.

The job of `examples/train_with_bridge.py` is `Epoch`, then a push, then a drain
(`Hooks`), and at the end once more without metrics. `measured` is the
`train_loss` that the next push tells and the learning rate it was measured under; `latest` is the last
entry of the broker's `metric_history`, which a restart loses. The broker is
`CommandStore` reduced to one run, with leases that run out at any time.
`meant` is a history variable: the learning rate after each command if all were executed
as they were sent, which is what `LastWordWins` compares with.
Coarser than in `ControlLoop`: a handler and its report are one step, and so are
the claim of a command by the poller and its deferral. The poller may go on
until the job has ended, which covers a join that times out. Left out: the
scheduler (its `step_size` of 50 is chosen not to fire), `should_stop` (the script
never stops the job), hyperparameters other than `lr`. `extend_training` does not lengthen the job, because the loop looks at
`range(epochs)`.

The job starts with any rate: `--lr` is not held to the guardrails
(`train_with_bridge.py:243`), which bound what a command sets, and a restored checkpoint may bring
the first rate back (`Rates`). The run starts outside of the bounds.

`LastWordWins` and `FreshMeansOwn` have the condition `Orderly`. Without a
poller all commands wait in one line; with one, a deferred command is executed
ahead of, or after, those that the training thread claims, so an agent that did not wait
for its change to be confirmed may find an older change applied on top of a newer
one. The same happens when a command is delivered twice. TLC finds a
counterexample as soon as either half of the condition is dropped. It also finds
one if commands are given up after a single delivery (`MaxAttempts` = 1): a
change is then `failed` while the job still holds it, the agent takes that for an answer and
sends the next, and the older one is applied last. `reclaim_expired` is called with its
default of 5 only (`controlplane.py:195`), so `AttemptsAssumption` asks for more than one.

What the code does not keep, and no document promises: a trial is credited with the
latest entry of the metric history, whoever it belongs to. After the fixed sleep
of 0.6 s that entry may be of before the change (`agent_sim.py:156`), and if it holds
no `train_loss` the trial is credited with 1.0 (`agent_sim.py:130`).

## 3. Runs

All passing runs check deadlock except `replicas_broadcast`, `consult_files`,
`tunnel_startup` and `tuning`, whose loops end.

| run | question | bounds |
|---|---|---|
| `store` | all of the store's promises, with the mirror and without (chosen by the initial state), the refinement of `CommandLifecycle`, and liveness under fairness | 2 runs, 3 commands, 2 attempts, 2 ticks of lease: two commands in one queue with a third elsewhere, a sweep of up to three commands cut anywhere, redelivery and giving up, partially run leases |
| `loop` | trainer, poller, broker and agent together | 2 commands (one safe for the poller, one deferred), 2 attempts, lease of one tick: both threads can hold deliveries of one command |
| `guardrails_bounds` | a change keeps to the loosest bounds in force while it is made, however `set_guardrails` races it | zero, 3 positive levels and a value that is not finite; factors below, at and above 1 |
| `replicas_broadcast` | ranks stay together, with pollers on every rank too until one has set a limit; no rank waits for ever | 3 ranks, 2 commands, 2 steps |
| `checkpoints_rollback` | the three places implement `Rollback` | 3 ids, 2 values, 2 kept, symmetric in ids and values |
| `consult_files` | no consultation acts on leftovers, decisions count once, training is not held up | 5 epochs, every second one consulted: three consultations that may all overlap, and epochs in between that only apply |
| `telemetry_reports` | suspects, anomalies and flags reach those they are meant for | 3 samples in a window of 2, so that one is forgotten and comes back; 3 anomalies in a list of 2; a detector with a window of 3 after 2 batches of warm-up and factors of 2; 3 flag commands on two threads. Symmetric in samples |
| `tunnel_startup` | the tunnel starts or fails, with the right URL, and stops | 3 lines of 7 kinds, a pipe of 2: two URLs and a signal of readiness, or an accepted URL and a full pipe |
| `tuning` | a session of the scripted agent: do its changes add up, are metrics pushed after a confirmed change the trial's own, does it end | 3 epochs (a change confirmed in one is measured in the next and reported in the last), one trial, one fault (a lost request or answer, a lease that runs out, a restart, an HPO call out of turn) at any place, at most one unanswered command left behind while the job runs. `Taken` picks 7 of the 15 places of the script: every mode of call and every type of effect is among them, and the first calls, which repeat those, are not |

Three more runs end in a violation. Each states what a document or a comment says
of the code and shows that the code does otherwise:

| run | what is said | what happens |
|---|---|---|
| `loop_failure` | failed means that the handler failed (`bridge.py:716`) | the report of success is inside the `try` of the handler; if only its reply is lost, the fallback overwrites done with failed although the change was applied |
| `replicas_restore` | mutations are broadcast so that every replica applies the same change (`bridge.py:650`) | checkpoints are saved on rank 0 only but restored on every rank: the others fail and keep their state |
| `replicas_stop` | `stop_training` frees the GPU gracefully (`docs/architecture.md:95`) | it is not broadcast: rank 0 leaves and the others wait for it in the next step |

`SameUnlessLimited` leaves one case out, because in it the ranks do part: with
`poll_interval > 0` the poller of each rank claims commands (`bridge.py:531` starts
it without asking for rank 0) and executes `set_guardrails` on that rank alone, so
a change that is broadcast later is clamped there only. `docs/architecture.md:97`
says that only rank 0 drains the queue and that every rank applies the same
mutation at the same step. TLC finds the trace when `SameMutations` is checked
with `set_guardrails` among the kinds and pollers on: a limit of 1 taken by the
poller of rank 1, then a broadcast rate of 2.

### Fairness

- `CommandStore`: time passes (`WF(Tick)`) and the bridge of every run polls
  (`WF(Claim(r))`); results, reads and restarts may never come.
- `ControlLoop`: time passes; the agent reads (`wait_for_result` polls
  `get_command` until it has an answer); the training thread goes on
  (`drain_commands` is called every step, handlers return or raise); and of the
  claims that have something to receive infinitely often one gets through
  (`SF(TrainerReceives)`): a network that loses every answer leaves every
  command to `max_attempts`. Nothing is assumed of the poller, reports, restarts
  or the broker.
- `Replicas`: each rank that can go on does. Agent and pollers need not do anything.
- `Consultation`: the training loop and the driver's threads go on, the hard
  timeout of `subprocess.run` included; of the agent nothing is assumed.
- `Tuning`: the training loop goes on (`WF(JobNext)`: it never waits for the agent), and so
  does the agent, whose waits have deadlines (`WF(AgentNext)`). Nothing is assumed of
  the poller, of leases or of the broker.
- `Tunnel`: the threads go on and the deadline passes; of the process nothing is
  assumed.

## 4. Proofs

Every invariant and every action property of the passing runs, and both
refinements, are theorems: they hold for every value of the constants that satisfies
the assumptions named in the modules. An assumption says what kind of thing a constant is (a
number, a set that does not contain `None`) or what the code fixes, as the job's guardrails
(`MinLR <= MaxLR` in `RatesAssumption`; the rate the job starts with is any number). The two that
say more are `AttemptsAssumption` of `Tuning` (above) and the hypothesis of
`RanksTrainAlike` (below).

`CommandStoreProofs` proves, for all runs, numbers of commands, attempts and lengths of leases
(`BoundsAssumption`): `TypeCorrect`, `QueuesHoldPending`,
`FirstDeliveriesInOrder`, `DeliveriesAreExclusive`, `FinishedCommandsStay`, and
`StoreImplementsLifecycle`, the refinement of the abstract specification.

`QueueHoldsPending` is not inductive: it says nothing of the order inside a
queue and of the number of attempts. `IInv` adds that a pending or unfinished
command has been tried no more than its status allows, and that the commands
never delivered stand in each queue in creation order behind those that were.
The second is what a claim needs to keep `FirstDeliveryInOrder`, the first what
it needs to keep `attempts` within `MaxAttempts`. The argument for a claim, a
read and a restart has the same two parts: a reclaim (lemmas `ReclaimType`,
`ReclaimOneQueue`, `ReclaimQueue`) leaves a queue that satisfies the invariant,
and a delivery (`DeliverType`, `DeliverQueue`, `DeliverFirst`) from any such queue keeps it. The action
properties and the refinement rest on `CommandSteps`: every step is, for each
single command, one of the abstract lifecycle's steps or a stutter.

`ControlLoopProofs` proves, for any number of commands and deliveries, any lease
and any `SafeCmds` (`NodeAssumption`): `TypeCorrect`, `DeliveriesRunOnce`,
`DoneIsApplied`, `NothingIsStranded`, that is all the invariants of the run
`loop`, and `NodeUsesStore`, that the loop's steps are steps of `CommandStore`.
None of these invariants is inductive alone.

- `EachDeliveryRunsOnce` bounds what the node did and still has to do with a
  command by its deliveries. `Load` writes the bound as a sum over the two
  threads, `_deferred` and the batch; `LoadStep` shows that a step adds to it only
  by a delivery. Duplicates in the two lists are counted, so the list lemmas
  (`CopiesAppend`, `CopiesTail`) are about cardinalities.
- `WorkIsGivenOut` says that what a thread works on was handed out, and that
  what it is to report as a success was applied. A command taken from the batch
  was handed out because the bound of `EachDeliveryRunsOnce` leaves room for its copy.
  `DoneMeansApplied` needs the second part; the first lets the loop use the store
  as its theorems assume (`StoreStep`), so the store's own `IInv` is a conjunct of the loop's.
- `OrderlyEnd` says that the node that saw its poller stop only works off what it
  has, which gives `NothingStranded`.

`SameParts` and `SameActions` show that the two instances of the store, in
`ControlLoop` and in its proofs, have the same actions.

`CheckpointsProofs` proves, for any ids, states of the parts and limit
(`ConstantsAssumption`), `TypeCorrect`, `CheckpointsAreRestorable` and
`CheckpointsImplementRollback`. `ListedAreRestorable` is not inductive: it does
not say that an id is listed once, without which an eviction could remove the file of an
entry that stays, nor where the state of an entry is. `Consistent` says both
(`Distinct`, `Backed`). `WithoutFacts` and `EvictFacts` are about the list alone;
`Written` is the form that the three saves share. For the refinement
`WithoutKept` and `NewestFacts` show that popping and evicting commute with the
mapping (`Kept`, `Stray`), and `SameBlob` that a checkpoint which stays names the state it did.

`ConsultationProofs` proves, for any number of epochs and any interval,
`TypeCorrect`, `NothingIsLeftOver` (`NoLeftovers`) and `EveryDecisionCounts`
(`DecisionsCount`). `NoLeftovers` speaks of what a consultation returns; whether that is
its own was settled long before, when it wrote, looked and cleared. `FilesAreFresh`
follows it through these steps: once e has passed one of them, the file is of a
consultation that ran beside e. `ControlIsAboutNow` says the same of the agent behind the
file, and `LaunchedInOrder` that *beside* is a relation that only grows
(`OverlappingGrows`), so that none of this is undone by a later launch. For
`DecisionsCount`, `AppliedIsOver` and `TrainerKnows` say when the result slot is empty
(`SlotIsEmpty`): an un-overlapped result is taken from the slot before the next can come.

`ReplicasProofs` proves, for any ranks, rates, commands and steps, `TypeCorrect`
and `RanksTrainAlike` (`SameUnlessLimited`). `Places` counts: rank 0 broadcasts once in each
drain (`MainIsAhead`), and the n-th drain of another rank takes it to the end of
the n-th broadcast (`OthersFollow`), so ranks about to take the same step have applied
the same part of the log. `SameAtSamePlace` is the other half: a rank that is as far
in the log has set what rank 0 had set there, because a handler
depends on nothing but the settings and the command. That last point fails for
`restore_checkpoint`, whose effect depends on a checkpoint that only rank 0 has; the theorem
therefore assumes that the agent does not both save and restore checkpoints
(`NoRollback`; `NothingSaved` is then part of the invariant), and the run
`replicas_restore` shows what happens when it does.

`TelemetryProofs` proves, for any samples, losses, `susp_topk`, warm-up, window and
factors, `TypeCorrect`, `WindowHoldsTheWorst` (`SuspectsAreWorst`), `NoAnomalyIsMissing`
(`AnomaliesAreLatest`), `ExplosionsAreReportedOn` (`SustainedExplosion`) and
`FlaggedIsPassedOn` (`FlagsReachCallback`). What a push tells and what the handlers do
are apart, so the invariant is proved in two halves, `ReportInv` and `HandlerInv`.

- The window: a sample outside of it has a loss that is no larger than those inside.
  `MergedProperties` and `TopProperties` say what one batch does to that, `Displaced`
  that what comes into a full window has put out a loss that is no larger.
- The anomalies: `AnomaliesAreConsecutive`, the list is the end of all
  events, without a gap, whatever part of it a push told.
- The explosions: `ExplosionStands`, what was reported would still be reported, since
  what is reported is not learned (`LearnedProperties`), until a restore forgets it. `MedianIsThere` and
  `LargerExplodes` are about `Ranked` alone.
- The flags: every flagged sample is queued, taken or in the hands of a handler that
  found it new (`OnItsWay`); `HandlersEnd` says that the last drain leaves nothing behind
  if the poller had stopped by then.

`TunnelProofs` proves, for any number of lines, any pipe and any lag of the reader, `TypeCorrect`,
`NoGuess` (`RefusesToGuess`) and `ProcessIsGone` (`NothingLeftRunning`). A URL is chosen
by what `start()` has seen, whereas the property speaks of what the process printed.
`PipeIsRest` and `LinesInOrder` join them: printed lines are read, handed over and looked at in
order, with nothing lost until a URL is accepted, so that `seen` is the set of URLs in
the part that was looked at (`SeenIsOffered`). `ProcessEnds` says why the reader ended.

`TuningProofs` holds three groups. Of `Guardrails`, `GuardrailsTypeCorrect` and
`ChangesKeepToBounds`, for all levels, bounds and factors and any race of the two commands. The
inductive part says that the loosest bounds cover those in force and the minimum that was read
(`CoversMin`, `CoversMax`), that the clamped value is within them, and that from there it moves
only towards the current one (`Led`); `WriteStep` shows that a write of
`set_guardrails` undoes none of this. `ClampFacts`, `RaisedFacts` and `LoweredFacts` are the
arithmetic. A value that is not finite is let through, so nothing is proved about it. Of `Advisor`,
`TableFollowsStudy` (`LiveTrialsRun`), for any space, objective
values and number of trials: with the types it is inductive, since a
suggestion puts into the table only the trial it has just appended
(`AskAppends`), and a trial that is told its outcome changes alone (`TellSettles`) and leaves the table.

Of `Tuning`, for any part of the script, epochs, trials, faults and backlog:
`TuningTypeCorrect` (the rate is within the guardrails or the first one), `TunedTrialsRun`, `LastChangeWins` (`LastWordWins`) and
`FreshMetricsAreOwn` (`FreshMeansOwn`). The invariant comes in layers, each resting on those
before it:

- `Sound` holds whatever goes wrong: the broker's tables and queue agree
  (`BrokerOK`), a change that may yet be executed can be (`Executable`: the
  checkpoint a `restore_checkpoint` names was made, and before it), and the lists of the
  job and the place of the agent fit each other.
- `InOrder` holds while the session is `Orderly`, a condition that a step only ever
  ends (`OrderlyWas`). Without a poller no command is delivered before an older one that
  may yet be executed (`OneLine`); with one, a change of the rate that may yet be executed is the
  last command and the agent waits for it (`OneAtATime`). Hence when a change is executed, no
  newer one was (`NothingOvertakes`).
- `MeantOK` says that `meant` is moved by changes only, `Follows` that the rate is what
  was meant up to n as soon as all changes up to n are done and none after n was
  executed. For n the last command this is `LastWordWins`. A restore needs the same of the
  checkpoint it goes back to: `SavedFollow`, for the saves the agent can name.
- `Own`: from when a trial's change is done until the trial is reported no change
  may yet be executed, so the rate is the trial's, and whatever is measured,
  pushed and read since is measured under it.

Only model-checked: liveness (`EveryCommandFinishes`, `EveryCommandAnswered`, `AllRanksEnd`,
`TrainingEnds`, `StartEnds`, `OutputIsDrained`, `NeitherWaitsForEver`), since the
prover has no rules for fairness and `ENABLED`, and the three violations, which are traces.

## 5. Not modelled

- RNG state and tensor cloning in checkpoints; formats, headers, authentication
  and the body limit of the HTTP application; logging.
- SQLite errors (disk full), a clock that goes backwards.
- Two processes training the same run at a time.
- Handlers that only assign a value or call a hook of the user: they are the
  opaque handlers of `ControlLoop`.
- Knobs, throughput and the MLflow link of the telemetry; of the metric history all
  but its last entry; long polling with its waiters.
- A broadcast that raises and is swallowed (`distributed.py:80`): most backends
  abort the group.
- A tunnel whose process dies while the broker serves (`tunnel.py:404`): nobody
  looks at it again, and no document says that somebody does.
- `select_run`, by which one MCP server turns to another run.
- Minting of connect tokens and the files that hold them and the URL.
- Profiler and GPU telemetry (sequential arithmetic over wall-clock times), schema and JSON of `contract.py`,
  the framework adapters, `NoOpBridge`.

## 6. Plan

In this order; the first lines are done.

1. `CommandLifecycle`, `CommandStore`, its proofs; `ControlLoop`, its proofs. *done*
2. `Guardrails` and its proofs; `Replicas`; `Rollback`, `Checkpoints`, their proofs;
   `Consultation`. *done*
3. `Anomalies`, `Telemetry`; `Tunnel`. *done*
4. `Advisor` and its proofs; `Tuning`, with the metric history of the broker. *done*
5. Proofs of `Consultation`, `Replicas`, `Telemetry`, `Tunnel`, `Tuning`. *done*
6. Long polling with its waiters, in `ControlLoop`.
7. `Tuning` as a refinement of a broker of one run, so that the store's theorems
   carry over to it instead of being stated again in `BrokerOK`.
