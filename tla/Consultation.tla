---------------------------- MODULE Consultation ----------------------------
(***************************************************************************)
(* The broker-less mode: AgenticCallback (callback.py) consults a driver   *)
(* (driver.py) at the end of an epoch and applies its decision, at once or,  *)
(* with async_mode, at the end of a later epoch.  The Copilot driver       *)
(* writes state.json, removes control.json, runs the agent as a process of *)
(* its own and reads the control.json it may have left.  Background        *)
(* consultations that outlast their epoch run side by side, on the same    *)
(* two files and the same slot for the result.                             *)
(*                                                                         *)
(* A consultation and its snapshot are named by their epoch.  A decision   *)
(* is reduced to the agent it was made by and the snapshot it is about.    *)
(* Each snapshot is written, and each read, in one step.                   *)
(***************************************************************************)
EXTENDS Naturals, Sequences

CONSTANTS
  MaxEpochs,  \* epochs of the training loop
  Every,      \* optimize_every; 0: never
  None,       \* no file, no consultation, nothing read
  Empty,      \* the empty control; also what a malformed one is parsed to
  Earlier     \* an earlier process in the same directory

Epochs == 0..(MaxEpochs - 1)

Decision(e, about) == [by |-> e, about |-> about]
Decisions == [by : Epochs \cup {Earlier}, about : Epochs \cup {Earlier}]

ASSUME EpochsAssumption ==
  /\ MaxEpochs \in Nat /\ Every \in Nat
  /\ None # Empty /\ {None, Empty, Earlier} \cap Nat = {}
  /\ {None, Empty} \cap Decisions = {}

VARIABLES
  async,        \* async_mode
  driver,       \* which OptimizerDriver
  trainer,      \* where the training thread is
  epoch,        \* the epoch in progress
  latest,       \* _thread: the consultation launched last
  pending,      \* _pending_result: the consultation it is from
  pc,           \* where each consultation is
  overlapping,  \* the consultations that were running when each was launched
  stateFile,    \* the snapshot in state.json
  controlFile,  \* what control.json holds
  read,         \* the snapshot each agent has read
  out,          \* what each agent has printed
  result,       \* what each consultation returned
  applied       \* applied_controls: the consultations they are from

settings == <<async, driver>>
loopVars == <<trainer, epoch, latest>>
files == <<stateFile, controlFile>>
agents == <<read, out>>
vars == <<settings, loopVars, pending, pc, overlapping, files, agents, result, applied>>

Busy(e) == pc[e] \notin {"none", "over"}

Due(e) == Every > 0 /\ e % Every = 0

-----------------------------------------------------------------------------
Init ==
  /\ async \in BOOLEAN
  /\ driver \in {"copilot", "function"}
  /\ trainer = "train"
  /\ epoch = 0
  /\ latest = None
  /\ pending = None
  /\ pc = [e \in Epochs |-> "none"]
  /\ overlapping = [e \in Epochs |-> {}]
  /\ stateFile = Earlier
  /\ controlFile \in {None, Empty, Decision(Earlier, Earlier)}
  /\ read = [e \in Epochs |-> None]
  /\ out = [e \in Epochs |-> Empty]
  /\ result = [e \in Epochs |-> None]
  /\ applied = <<>>

-----------------------------------------------------------------------------
(***************************************************************************)
(* The training thread.                                                    *)
(***************************************************************************)
\* apply_control: an empty control is not recorded.
Apply(e, control) ==
  applied' = IF control \in {None, Empty} THEN applied ELSE Append(applied, e)

\* The slot is read but not cleared (a plausible mistake, used by no
\* specification, like the other Bug_ definitions).
Bug_ApplyPending ==
  /\ IF pending = None THEN UNCHANGED applied ELSE Apply(pending, result[pending])
  /\ UNCHANGED pending

\* _apply_pending_async.  Without async_mode the slot is never filled.
ApplyPending ==
  /\ IF pending = None THEN UNCHANGED applied ELSE Apply(pending, result[pending])
  /\ pending' = None

SkipEpoch ==
  /\ trainer = "train" /\ epoch < MaxEpochs /\ ~Due(epoch)
  /\ epoch' = epoch + 1
  /\ ApplyPending
  /\ UNCHANGED <<settings, trainer, latest, pc, overlapping, files, agents, result>>

\* on_epoch_end waits for the decision, or goes on with the next epoch.
Consult ==
  /\ trainer = "train" /\ epoch < MaxEpochs /\ Due(epoch)
  /\ epoch' = epoch + 1
  /\ ApplyPending
  /\ pc' = [pc EXCEPT ![epoch] = IF driver = "copilot" THEN "write" ELSE "call"]
  /\ overlapping' = [overlapping EXCEPT ![epoch] = {e \in Epochs : Busy(e)}]
  /\ \/ async /\ latest' = epoch /\ UNCHANGED trainer
     \/ ~async /\ trainer' = "wait" /\ UNCHANGED latest
  /\ UNCHANGED <<settings, files, agents, result>>

TrainEnd ==
  /\ trainer = "train"
  /\ trainer' = IF async THEN "join" ELSE "ended"
  /\ UNCHANGED <<settings, epoch, latest, pending, pc, overlapping, files, agents,
                 result, applied>>

\* The last decision is applied without waiting for it.
Bug_Join ==
  /\ trainer = "join"
  /\ ApplyPending
  /\ trainer' = "ended" /\ latest' = None
  /\ UNCHANGED <<settings, epoch, pc, overlapping, files, agents, result>>

\* Only the consultation launched last is waited for.
Join ==
  /\ trainer = "join"
  /\ latest # None => pc[latest] = "over"
  /\ ApplyPending
  /\ trainer' = "ended" /\ latest' = None
  /\ UNCHANGED <<settings, epoch, pc, overlapping, files, agents, result>>

-----------------------------------------------------------------------------
(***************************************************************************)
(* A consultation, in the training thread or in a thread of its own.       *)
(***************************************************************************)
\* Nothing of the agent is left but the files.
Forget(e) ==
  /\ read' = [read EXCEPT ![e] = None]
  /\ out' = [out EXCEPT ![e] = Empty]

\* optimize returns: the control is left in the slot, or applied.
Return(e, control) ==
  /\ pc' = [pc EXCEPT ![e] = "over"]
  /\ result' = [result EXCEPT ![e] = control]
  /\ \/ async /\ pending' = e /\ UNCHANGED <<trainer, applied>>
     \/ ~async /\ Apply(e, control) /\ trainer' = "train" /\ UNCHANGED pending
  /\ Forget(e)
  /\ UNCHANGED <<settings, epoch, latest, overlapping, files>>

\* The slot is filled although there is no control.
Bug_Raise(e) ==
  /\ pc' = [pc EXCEPT ![e] = "over"]
  /\ \/ async /\ pending' = e /\ UNCHANGED trainer
     \/ ~async /\ trainer' = "crashed" /\ UNCHANGED pending
  /\ Forget(e)
  /\ UNCHANGED <<settings, epoch, latest, overlapping, files, result, applied>>

\* optimize raises: so does the training loop, or the thread ends silently.
Raise(e) ==
  /\ pc' = [pc EXCEPT ![e] = "over"]
  /\ trainer' = IF async THEN trainer ELSE "crashed"
  /\ Forget(e)
  /\ UNCHANGED <<settings, epoch, latest, pending, overlapping, files, result, applied>>

\* FunctionDriver: a result that is no ControlSignal becomes the empty one.
CallFunction(e) ==
  /\ pc[e] = "call"
  /\ \/ \E control \in {Empty, Decision(e, e)} : Return(e, control)
     \/ Raise(e)

Goto(e, p) ==
  /\ pc' = [pc EXCEPT ![e] = p]
  /\ UNCHANGED <<settings, loopVars, pending, overlapping, result, applied>>

WriteState(e) ==
  /\ pc[e] = "write"
  /\ stateFile' = e
  /\ Goto(e, "look")
  /\ UNCHANGED <<controlFile, agents>>

\* The control of the previous consultation is left where it is.
Bug_LookForControl(e) ==
  /\ pc[e] = "look"
  /\ Goto(e, "start")
  /\ UNCHANGED <<files, agents>>

LookForControl(e) ==
  /\ pc[e] = "look"
  /\ Goto(e, IF controlFile = None THEN "start" ELSE "clear")
  /\ UNCHANGED <<files, agents>>

ClearControl(e) ==
  /\ pc[e] = "clear" /\ controlFile # None
  /\ controlFile' = None
  /\ Goto(e, "start")
  /\ UNCHANGED <<stateFile, agents>>

StartAgent(e) ==
  /\ pc[e] = "start"
  /\ Goto(e, "agent")
  /\ UNCHANGED <<files, agents>>

\* FileNotFoundError is answered with the empty control.
AgentMissing(e) == pc[e] = "start" /\ Return(e, Empty)

\* The file was cleared by another consultation after LookForControl, the
\* disk is full, or the agent may not be executed.
OptimizeRaises(e) ==
  /\ \/ pc[e] = "clear" /\ controlFile = None
     \/ pc[e] \in {"write", "start"}
  /\ Raise(e)

\* The agent, a foreign process: it may read, decide and exit when it likes.
AgentReads(e) ==
  /\ pc[e] = "agent" /\ read[e] = None
  /\ read' = [read EXCEPT ![e] = stateFile]
  /\ UNCHANGED <<settings, loopVars, pending, pc, overlapping, files, out, result, applied>>

AgentDecides(e) ==
  /\ pc[e] = "agent" /\ read[e] # None
  /\ \/ controlFile' \in {Empty, Decision(e, read[e])} /\ UNCHANGED out
     \/ out' = [out EXCEPT ![e] = Decision(e, read[e])] /\ UNCHANGED controlFile
  /\ UNCHANGED <<settings, loopVars, pending, pc, overlapping, stateFile, read, result, applied>>

AgentExits(e) ==
  /\ pc[e] = "agent"
  /\ Goto(e, "read")
  /\ UNCHANGED <<files, agents>>

\* subprocess.run is given no timeout.
Bug_TimeOut(e) == FALSE

\* The agent is killed; what it wrote is not looked at.
TimeOut(e) == pc[e] = "agent" /\ Return(e, Empty)

\* _read_control: what was printed counts only if there is no file.
ReadControl(e) ==
  /\ pc[e] = "read"
  /\ Return(e, IF controlFile = None THEN out[e] ELSE controlFile)

Driver(e) ==
  \/ CallFunction(e)
  \/ WriteState(e) \/ LookForControl(e) \/ ClearControl(e)
  \/ StartAgent(e) \/ AgentMissing(e) \/ OptimizeRaises(e)
  \/ TimeOut(e) \/ ReadControl(e)

Agent(e) == AgentReads(e) \/ AgentDecides(e) \/ AgentExits(e)

Loop == SkipEpoch \/ Consult \/ TrainEnd \/ Join

Next == Loop \/ \E e \in Epochs : Driver(e) \/ Agent(e)

Spec == Init /\ [][Next]_vars

\* The loop and the driver's threads go on; of the agent nothing is assumed.
Fairness == WF_vars(Loop) /\ \A e \in Epochs : WF_vars(Driver(e))

FairSpec == Spec /\ Fairness

-----------------------------------------------------------------------------
TypeOK ==
  /\ async \in BOOLEAN
  /\ driver \in {"copilot", "function"}
  /\ trainer \in {"train", "wait", "join", "ended", "crashed"}
  /\ epoch \in 0..MaxEpochs
  /\ latest \in Epochs \cup {None}
  /\ pending \in {e \in Epochs : result[e] # None} \cup {None}
  /\ pc \in [Epochs -> {"none", "call", "write", "look", "clear", "start",
                        "agent", "read", "over"}]
  /\ overlapping \in [Epochs -> SUBSET Epochs]
  /\ stateFile \in Epochs \cup {Earlier}
  /\ controlFile \in Decisions \cup {None, Empty}
  /\ read \in [Epochs -> Epochs \cup {None}]
  /\ out \in [Epochs -> Decisions \cup {Empty}]
  /\ result \in [Epochs -> Decisions \cup {None, Empty}]
  /\ applied \in Seq(Epochs)

AtOnce(d, e) ==
  /\ d \in Epochs
  /\ d = e \/ d \in overlapping[e] \/ e \in overlapping[d]

(***************************************************************************)
(* No leftovers: the decision a consultation returns was made by its own   *)
(* agent or by that of a consultation running at the same time, and from   *)
(* the snapshot of one that ran beside that agent, never from a file of an *)
(* earlier epoch or process, even if agents die half way, write nothing or *)
(* are timed out.  Where consultations do not overlap it is its own.       *)
(***************************************************************************)
NoLeftovers ==
  \A e \in Epochs : result[e] \notin {None, Empty} =>
    AtOnce(result[e].by, e) /\ AtOnce(result[e].about, result[e].by)

Overlap == \E e \in Epochs : overlapping[e] # {}

Increasing(s) == \A i, j \in DOMAIN s : i < j => s[i] < s[j]

Counts(e) == \E i \in DOMAIN applied : applied[i] = e

(***************************************************************************)
(* A decision is applied at most once, and never while it waits in the     *)
(* slot.  Where consultations do not overlap every decision is applied, in *)
(* the order of their epochs, the last of them before on_train_end is      *)
(* over.  One that outlasts its epoch may be applied on top of a later     *)
(* one.                                                                    *)
(***************************************************************************)
DecisionsCount ==
  /\ \A i, j \in DOMAIN applied : applied[i] = applied[j] => i = j
  /\ pending # None => ~Counts(pending)
  /\ ~Overlap =>
       /\ Increasing(applied)
       /\ \A e \in Epochs : result[e] \notin {None, Empty} =>
            Counts(e) \/ (pending = e /\ trainer # "ended")

(***************************************************************************)
(* "Hard timeout for each agent consultation" (driver.py): whatever the    *)
(* agent does, training is not held up for ever, neither at an epoch's end *)
(* nor in on_train_end.                                                    *)
(***************************************************************************)
TrainingEnds == <>(trainer \in {"ended", "crashed"})
=============================================================================
