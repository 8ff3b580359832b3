------------------------- MODULE ConsultationProofs -------------------------
(***************************************************************************)
(* Theorems about Consultation, for any number of epochs, any interval     *)
(* between consultations and any number of them running at the same time.  *)
(***************************************************************************)
EXTENDS Consultation, TLAPS, SequenceTheorems

-----------------------------------------------------------------------------
(***************************************************************************)
(* The invariant.                                                          *)
(***************************************************************************)

Launched(e) == pc[e] # "none"

\* Consultations are launched in the order of their epochs, and each knows
\* the earlier ones that are still running.
LaunchedInOrder ==
  \A e \in Epochs :
    /\ Launched(e) => e < epoch
    /\ ~Launched(e) => overlapping[e] = {}
    /\ \A d \in Epochs : e < d /\ Busy(e) /\ Launched(d) => e \in overlapping[d]

\* Without async_mode the training thread is in the only consultation there
\* is; with it, it remembers the last one until it has joined it.
TrainerKnows ==
  /\ ~async =>
       /\ pending = None /\ latest = None
       /\ \A e \in Epochs : Busy(e) => trainer = "wait" /\ epoch = e + 1
  /\ async =>
       /\ trainer \in {"train", "join", "ended"}
       /\ \A e \in Epochs :
            IF trainer = "ended" THEN Busy(e) => Overlap
            ELSE Launched(e) => latest # None /\ e <= latest /\ Launched(latest)

\* Somebody wrote state.json after e had been launched, and whoever left a
\* control since e looked for one did so while e was running.
FilesAreFresh ==
  \A e \in Epochs :
    /\ pc[e] \in {"look", "clear", "start", "agent", "read"} => AtOnce(stateFile, e)
    /\ pc[e] \in {"start", "agent", "read"} /\ controlFile \notin {None, Empty} =>
         AtOnce(controlFile.by, e)
    /\ read[e] # None => AtOnce(read[e], e)
    /\ out[e] # Empty => out[e].by = e /\ AtOnce(out[e].about, e)

\* What an agent of this process left in control.json is about a snapshot of
\* a consultation that ran beside it.
ControlIsAboutNow ==
  controlFile \notin {None, Empty} /\ controlFile.by \in Epochs =>
    AtOnce(controlFile.about, controlFile.by)

\* What is applied or waits in the slot was returned, and what came before
\* the one in the slot was there when a later consultation was launched.
AppliedIsOver ==
  /\ \A e \in Epochs : Counts(e) => pc[e] = "over"
  /\ pending # None => pc[pending] = "over"
  /\ \A e \in Epochs : pending # None /\ pending < e /\ Launched(e) => pending \in overlapping[e]
  /\ ~Overlap /\ pending # None => \A i \in DOMAIN applied : applied[i] < pending

IInv ==
  /\ TypeOK
  /\ LaunchedInOrder
  /\ TrainerKnows
  /\ FilesAreFresh
  /\ ControlIsAboutNow
  /\ NoLeftovers
  /\ AppliedIsOver
  /\ DecisionsCount

-----------------------------------------------------------------------------
(***************************************************************************)
(* What the steps have in common.                                          *)
(***************************************************************************)

BusyPlaces == {"call", "write", "look", "clear", "start", "agent", "read"}

\* A consultation goes on, or its agent does.
Working(e) ==
  /\ Busy(e)
  /\ \E p \in BusyPlaces : pc' = [pc EXCEPT ![e] = p]
  /\ UNCHANGED <<settings, loopVars, pending, overlapping, result, applied>>

\* A consultation returns what is no leftover.
Returning(e) ==
  /\ Busy(e)
  /\ \E control \in Decisions \cup {Empty} :
       /\ Return(e, control)
       /\ control # Empty =>
            AtOnce(control.by, e) /\ AtOnce(control.about, control.by)

Raising(e) == Busy(e) /\ Raise(e)

\* The values a model gives no meaning of their own are no epochs.
LEMMA Values ==
  /\ None # Empty /\ None \notin Decisions /\ Empty \notin Decisions
  /\ None \notin Epochs /\ Empty \notin Epochs /\ Earlier \notin Epochs
  /\ Epochs \subseteq Nat /\ MaxEpochs \in Nat
  /\ \A e \in Epochs : e < MaxEpochs
BY EpochsAssumption DEF Epochs

\* ReadControl returns no leftover: the file was written, or the output
\* printed, by an agent of its time.
LEMMA ControlIsFresh ==
  ASSUME IInv, NEW e \in Epochs, ReadControl(e)
  PROVE  Returning(e)
<1> DEFINE control == IF controlFile = None THEN out[e] ELSE controlFile
<1>1. Busy(e) /\ pc[e] = "read"
  BY DEF ReadControl, Busy
<1>2. control \in Decisions \cup {Empty} /\ Return(e, control)
  BY DEF ReadControl, IInv, TypeOK
<1>3. ASSUME control # Empty
      PROVE  AtOnce(control.by, e) /\ AtOnce(control.about, control.by)
  <2>1. CASE controlFile = None
    BY <1>3, <2>1 DEF IInv, FilesAreFresh, AtOnce
  <2>2. CASE controlFile # None
    BY <1>1, <1>3, <2>2 DEF IInv, FilesAreFresh, ControlIsAboutNow, AtOnce
  <2> QED
    BY <2>1, <2>2
<1> QED
  BY <1>1, <1>2, <1>3 DEF Returning

\* To the training loop a consultation works, returns or raises.
LEMMA ConsultationCases ==
  ASSUME IInv, NEW e \in Epochs, Driver(e) \/ Agent(e)
  PROVE  Working(e) \/ Returning(e) \/ Raising(e)
<1>0. pc \in [Epochs -> {"none", "over"} \cup BusyPlaces]
  BY DEF IInv, TypeOK, BusyPlaces
<1>1. CASE CallFunction(e)
  <2>1. CASE Raise(e)
    BY <1>1, <2>1 DEF CallFunction, Raising, Busy
  <2>2. CASE Return(e, Empty)
    BY <1>1, <2>2 DEF CallFunction, Returning, Busy
  <2>3. CASE Return(e, Decision(e, e))
    BY <1>1, <2>3 DEF CallFunction, Returning, Busy, Decision, Decisions, AtOnce
  <2> QED
    BY <1>1, <2>1, <2>2, <2>3 DEF CallFunction
<1>2. CASE WriteState(e) \/ LookForControl(e) \/ ClearControl(e) \/ StartAgent(e) \/ AgentExits(e)
  BY <1>2 DEF WriteState, LookForControl, ClearControl, StartAgent, AgentExits, Goto, Working,
     Busy, BusyPlaces
<1>3. CASE AgentReads(e) \/ AgentDecides(e)
  <2>1. pc' = [pc EXCEPT ![e] = "agent"] /\ Busy(e)
    BY <1>0, <1>3 DEF AgentReads, AgentDecides, Busy
  <2> QED
    BY <1>3, <2>1 DEF AgentReads, AgentDecides, Working, BusyPlaces
<1>4. CASE AgentMissing(e) \/ TimeOut(e)
  BY <1>4 DEF AgentMissing, TimeOut, Returning, Busy
<1>5. CASE OptimizeRaises(e)
  BY <1>5 DEF OptimizeRaises, Raising, Busy
<1>6. CASE ReadControl(e)
  BY <1>6, ControlIsFresh
<1> QED
  BY <1>1, <1>2, <1>3, <1>4, <1>5, <1>6 DEF Driver, Agent

LEMMA StepCases ==
  ASSUME IInv, Next
  PROVE  Loop \/ \E e \in Epochs : Working(e) \/ Returning(e) \/ Raising(e)
BY ConsultationCases DEF Next

\* Nothing but Consult changes what was running at a launch, and only of the
\* consultation it launches.
LEMMA OverlappingKept ==
  ASSUME IInv, [Next]_vars, ~Consult
  PROVE  overlapping' = overlapping
<1>1. CASE UNCHANGED vars
  BY <1>1 DEF vars
<1>2. CASE Loop
  BY <1>2 DEF Loop, SkipEpoch, TrainEnd, Join
<1>3. CASE \E e \in Epochs : Working(e) \/ Returning(e) \/ Raising(e)
  BY <1>3 DEF Working, Returning, Return, Raising, Raise
<1> QED
  BY <1>1, <1>2, <1>3, StepCases

\* So what ran at the same time did so once and for all.
LEMMA OverlappingGrows ==
  ASSUME IInv, [Next]_vars
  PROVE  /\ \A e \in Epochs : overlapping[e] \subseteq overlapping'[e]
         /\ \A d : \A e \in Epochs : AtOnce(d, e) => AtOnce(d, e)'
         /\ Overlap => Overlap'
<1>1. \A e \in Epochs : overlapping[e] \subseteq overlapping'[e]
  <2>1. CASE Consult
    BY <2>1 DEF Consult, IInv, TypeOK, LaunchedInOrder, Launched, Epochs
  <2>2. CASE ~Consult
    BY <2>2, OverlappingKept
  <2> QED
    BY <2>1, <2>2
<1> QED
  BY <1>1 DEF AtOnce, Overlap

\* Consultations that run at the same time know of it.
LEMMA BusyAtOnce ==
  ASSUME LaunchedInOrder, NEW d \in Epochs, NEW e \in Epochs, Busy(d), Busy(e)
  PROVE  AtOnce(d, e)
<1>1. Launched(d) /\ Launched(e)
  BY DEF Busy, Launched
<1>2. d < e \/ d = e \/ e < d
  BY Values
<1> QED
  BY <1>1, <1>2 DEF LaunchedInOrder, AtOnce

-----------------------------------------------------------------------------
(***************************************************************************)
(* Each part of the invariant is kept.                                     *)
(***************************************************************************)

LEMMA LaunchedInOrderKept ==
  ASSUME IInv, [Next]_vars
  PROVE  LaunchedInOrder'
<1>0. pc \in [Epochs -> {"none", "over"} \cup BusyPlaces] /\ epoch \in 0..MaxEpochs
      /\ overlapping \in [Epochs -> SUBSET Epochs]
  BY DEF IInv, TypeOK, BusyPlaces
<1>1. CASE Consult
  <2>1. /\ epoch \in Epochs /\ epoch' = epoch + 1
        /\ pc' = [pc EXCEPT ![epoch] = IF driver = "copilot" THEN "write" ELSE "call"]
        /\ overlapping' = [overlapping EXCEPT ![epoch] = {e \in Epochs : Busy(e)}]
    BY <1>0, <1>1, Values DEF Consult, Epochs
  <2>2. \A e \in Epochs : e # epoch => pc'[e] = pc[e] /\ overlapping'[e] = overlapping[e]
    BY <1>0, <2>1
  <2>3. \A e \in Epochs : Launched(e) => e < epoch
    BY DEF IInv, LaunchedInOrder
  <2>4. pc'[epoch] # "none"
    BY <1>0, <2>1 DEF BusyPlaces
  <2>5. \A e \in Epochs : /\ Launched(e)' => e < epoch + 1
                          /\ ~Launched(e)' => overlapping'[e] = {}
    BY <2>1, <2>2, <2>3, <2>4, Values DEF Launched, IInv, LaunchedInOrder
  <2>6. ASSUME NEW e \in Epochs, NEW d \in Epochs, e < d, Busy(e)', Launched(d)'
        PROVE  e \in overlapping'[d]
    <3>1. e < epoch /\ e # epoch
      BY <1>0, <2>1, <2>5, <2>6, Values
    <3>2. Busy(e)
      BY <2>2, <2>6, <3>1 DEF Busy
    <3>3. CASE d = epoch
      BY <1>0, <2>1, <3>2, <3>3
    <3>4. CASE d # epoch
      BY <2>2, <2>6, <3>2, <3>4 DEF Launched, IInv, LaunchedInOrder
    <3> QED
      BY <3>3, <3>4
  <2> QED
    BY <2>1, <2>5, <2>6 DEF LaunchedInOrder
<1>2. CASE ~Consult
  <2>1. overlapping' = overlapping
    BY <1>2, OverlappingKept
  <2>2. /\ epoch' \in {epoch, epoch + 1}
        /\ \A e \in Epochs : pc'[e] = pc[e] \/ (Busy(e) /\ pc'[e] # "none")
    <3>1. CASE UNCHANGED vars
      BY <3>1 DEF vars, loopVars
    <3>2. CASE Loop
      BY <1>2, <3>2 DEF Loop, SkipEpoch, TrainEnd, Join
    <3>3. CASE \E e \in Epochs : Working(e) \/ Returning(e) \/ Raising(e)
      BY <1>0, <3>3 DEF Working, Returning, Return, Raising, Raise, loopVars, BusyPlaces
    <3> QED
      BY <3>1, <3>2, <3>3, StepCases
  <2>3. \A e \in Epochs : /\ Launched(e)' <=> Launched(e)
                          /\ Busy(e)' => Busy(e)
    BY <2>2 DEF Launched, Busy
  <2> QED
    BY <1>0, <2>1, <2>2, <2>3, Values DEF IInv, LaunchedInOrder
<1> QED
  BY <1>1, <1>2

LEMMA TrainerKnowsKept ==
  ASSUME IInv, [Next]_vars
  PROVE  TrainerKnows'
<1>0. /\ pc \in [Epochs -> {"none", "over"} \cup BusyPlaces] /\ epoch \in 0..MaxEpochs
      /\ async \in BOOLEAN /\ latest \in Epochs \cup {None} /\ None \notin Epochs
      /\ trainer \in {"train", "wait", "join", "ended", "crashed"}
      /\ TrainerKnows
      /\ Overlap => Overlap'
  BY OverlappingGrows, Values DEF IInv, TypeOK, BusyPlaces
<1>1. CASE UNCHANGED vars
  <2>1. UNCHANGED <<async, pending, latest, trainer, epoch>> /\ pc' = pc
    BY <1>1 DEF vars, settings, loopVars
  <2> QED
    BY <1>0, <2>1 DEF TrainerKnows, Busy, Launched
<1>2. CASE SkipEpoch
  <2>1. /\ UNCHANGED <<async, latest, trainer>> /\ pc' = pc /\ trainer = "train"
        /\ pending' = None
    BY <1>2 DEF SkipEpoch, ApplyPending, settings
  <2> QED
    BY <1>0, <2>1 DEF TrainerKnows, Busy, Launched
<1>3. CASE Consult
  <2>1. /\ async' = async /\ pending' = None /\ trainer = "train" /\ epoch \in Epochs
        /\ epoch' = epoch + 1
        /\ pc' = [pc EXCEPT ![epoch] = IF driver = "copilot" THEN "write" ELSE "call"]
        /\ IF async THEN latest' = epoch /\ trainer' = trainer
           ELSE trainer' = "wait" /\ latest' = latest
    <3>1. CASE async
      BY <1>0, <1>3, <3>1, Values DEF Consult, ApplyPending, settings, Epochs
    <3>2. CASE ~async
      BY <1>0, <1>3, <3>2, Values DEF Consult, ApplyPending, settings, Epochs
    <3> QED
      BY <3>1, <3>2
  <2>2. \A e \in Epochs : e # epoch => pc'[e] = pc[e]
    BY <1>0, <2>1
  <2>3. pc'[epoch] # "none" /\ \A e \in Epochs : Launched(e) => e < epoch
    BY <1>0, <2>1 DEF Launched, BusyPlaces, IInv, LaunchedInOrder
  <2>4. \A e \in Epochs : Launched(e)' => e <= epoch
    BY <2>1, <2>2, <2>3, Values DEF Launched
  <2>5. CASE async
    BY <1>0, <2>1, <2>3, <2>4, <2>5, Values DEF TrainerKnows, Launched
  <2>6. CASE ~async
    <3>1. \A e \in Epochs : ~Busy(e)
      BY <1>0, <2>1, <2>6 DEF TrainerKnows
    <3>2. \A e \in Epochs : Busy(e)' => e = epoch
      BY <2>2, <3>1 DEF Busy
    <3> QED
      BY <1>0, <2>1, <2>6, <3>2 DEF TrainerKnows
  <2> QED
    BY <1>0, <2>5, <2>6
<1>4. CASE TrainEnd
  <2>1. /\ UNCHANGED <<async, latest, pending, epoch>> /\ pc' = pc /\ trainer = "train"
        /\ trainer' = IF async THEN "join" ELSE "ended"
    BY <1>4 DEF TrainEnd, settings
  <2> QED
    BY <1>0, <2>1 DEF TrainerKnows, Busy, Launched
<1>5. CASE Join
  <2>1. /\ async' = async /\ latest' = None /\ pending' = None /\ pc' = pc
        /\ trainer = "join" /\ trainer' = "ended"
        /\ latest # None => pc[latest] = "over"
    BY <1>5 DEF Join, ApplyPending, settings
  <2>2. ASSUME NEW e \in Epochs, async, Busy(e)
        PROVE  Overlap
    <3>1. Launched(e)
      BY <2>2 DEF Busy, Launched
    <3>2. latest \in Epochs /\ e <= latest /\ Launched(latest)
      BY <1>0, <2>1, <2>2, <3>1 DEF TrainerKnows
    <3>3. e < latest
      BY <2>1, <2>2, <3>2, Values DEF Busy
    <3>4. e \in overlapping[latest]
      BY <2>2, <3>2, <3>3 DEF IInv, LaunchedInOrder
    <3> QED
      BY <3>2, <3>4 DEF Overlap
  <2> QED
    BY <1>0, <2>1, <2>2 DEF TrainerKnows, Busy
<1>6. ASSUME NEW c \in Epochs, Working(c) \/ Returning(c) \/ Raising(c)
      PROVE  TrainerKnows'
  <2>1. /\ UNCHANGED <<async, latest, epoch>> /\ Busy(c)
        /\ \E p \in BusyPlaces \cup {"over"} : pc' = [pc EXCEPT ![c] = p]
    BY <1>6 DEF Working, Returning, Return, Raising, Raise, settings, loopVars
  <2>2. \A e \in Epochs : /\ Busy(e)' => Busy(e)
                          /\ Launched(e)' <=> Launched(e)
    BY <1>0, <2>1 DEF Busy, Launched, BusyPlaces
  <2>3. CASE Working(c)
    <3>1. UNCHANGED <<trainer, pending>>
      BY <2>3 DEF Working, loopVars
    <3> QED
      BY <1>0, <2>1, <2>2, <3>1 DEF TrainerKnows
  <2>4. CASE Returning(c) \/ Raising(c)
    <3>1. /\ async => trainer' = trainer
          /\ ~async => pending' = pending
          /\ pc' = [pc EXCEPT ![c] = "over"]
      BY <2>4 DEF Returning, Return, Raising, Raise
    <3>2. ~Busy(c)'
      BY <1>0, <3>1 DEF Busy
    <3>3. ~async => \A e \in Epochs : ~Busy(e)'
      BY <1>0, <2>1, <2>2, <3>2, Values DEF TrainerKnows
    <3> QED
      BY <1>0, <2>1, <2>2, <3>1, <3>3 DEF TrainerKnows
  <2> QED
    BY <1>6, <2>3, <2>4
<1> QED
  BY <1>1, <1>2, <1>3, <1>4, <1>5, <1>6, StepCases DEF Loop

LEMMA FilesAreFreshKept ==
  ASSUME IInv, [Next]_vars
  PROVE  FilesAreFresh' /\ ControlIsAboutNow'
<1>0. /\ pc \in [Epochs -> {"none", "over"} \cup BusyPlaces]
      /\ read \in [Epochs -> Epochs \cup {None}]
      /\ out \in [Epochs -> Decisions \cup {Empty}]
      /\ LaunchedInOrder
      /\ FilesAreFresh
      /\ ControlIsAboutNow
      /\ \A d : \A e \in Epochs : AtOnce(d, e) => AtOnce(d, e)'
  BY OverlappingGrows DEF IInv, TypeOK, BusyPlaces
<1> DEFINE Looking == {"look", "clear", "start", "agent", "read"}
           Started == {"start", "agent", "read"}
\* Where nobody touches the files and no agent reads or prints.
<1>1. ASSUME UNCHANGED <<files, agents>>,
             \A e \in Epochs : pc'[e] \in Looking => pc[e] \in Looking,
             \A e \in Epochs : pc'[e] \in Started =>
               pc[e] \in Started \/ controlFile = None
      PROVE  FilesAreFresh' /\ ControlIsAboutNow'
  BY <1>0, <1>1 DEF FilesAreFresh, ControlIsAboutNow, AtOnce, files, agents
<1>2. CASE UNCHANGED vars
  BY <1>1, <1>2 DEF vars
<1>3. CASE Loop
  BY <1>0, <1>1, <1>3 DEF Loop, SkipEpoch, Consult, TrainEnd, Join
<1>4. ASSUME NEW c \in Epochs,
             CallFunction(c) \/ AgentMissing(c) \/ OptimizeRaises(c) \/ TimeOut(c) \/ ReadControl(c)
      PROVE  FilesAreFresh' /\ ControlIsAboutNow'
  <2>1. /\ pc' = [pc EXCEPT ![c] = "over"] /\ UNCHANGED files
        /\ read' = [read EXCEPT ![c] = None] /\ out' = [out EXCEPT ![c] = Empty]
    BY <1>4 DEF CallFunction, AgentMissing, OptimizeRaises, TimeOut, ReadControl, Return,
       Raise, Forget
  <2> QED
    BY <1>0, <2>1 DEF FilesAreFresh, ControlIsAboutNow, AtOnce, files
<1>5. ASSUME NEW c \in Epochs, WriteState(c)
      PROVE  FilesAreFresh' /\ ControlIsAboutNow'
  <2>1. /\ pc[c] = "write" /\ pc' = [pc EXCEPT ![c] = "look"] /\ stateFile' = c
        /\ UNCHANGED <<controlFile, agents>>
    BY <1>5 DEF WriteState, Goto
  <2>2. \A e \in Epochs : Busy(e) => AtOnce(c, e)'
    BY <1>0, <2>1, BusyAtOnce DEF Busy
  <2>3. \A e \in Epochs : pc'[e] \in Looking => AtOnce(c, e)'
    BY <1>0, <2>1, <2>2 DEF Busy
  <2> QED
    BY <1>0, <2>1, <2>3 DEF FilesAreFresh, ControlIsAboutNow, AtOnce, agents
<1>6. ASSUME NEW c \in Epochs, LookForControl(c) \/ StartAgent(c) \/ AgentExits(c)
      PROVE  FilesAreFresh' /\ ControlIsAboutNow'
  BY <1>0, <1>1, <1>6 DEF LookForControl, StartAgent, AgentExits, Goto
<1>7. ASSUME NEW c \in Epochs, ClearControl(c)
      PROVE  FilesAreFresh' /\ ControlIsAboutNow'
  <2>1. /\ pc[c] = "clear" /\ pc' = [pc EXCEPT ![c] = "start"] /\ controlFile' = None
        /\ UNCHANGED <<stateFile, agents>>
    BY <1>7 DEF ClearControl, Goto
  <2> QED
    BY <1>0, <2>1 DEF FilesAreFresh, ControlIsAboutNow, AtOnce, agents
<1>8. ASSUME NEW c \in Epochs, AgentReads(c)
      PROVE  FilesAreFresh' /\ ControlIsAboutNow'
  <2>1. /\ pc[c] = "agent" /\ pc' = pc /\ read' = [read EXCEPT ![c] = stateFile]
        /\ UNCHANGED <<files, out>>
    BY <1>8 DEF AgentReads
  <2>2. AtOnce(stateFile, c)
    BY <1>0, <2>1 DEF FilesAreFresh
  <2> QED
    BY <1>0, <2>1, <2>2 DEF FilesAreFresh, ControlIsAboutNow, AtOnce, files
<1>9. ASSUME NEW c \in Epochs, AgentDecides(c)
      PROVE  FilesAreFresh' /\ ControlIsAboutNow'
  <2>1. /\ pc[c] = "agent" /\ pc' = pc /\ read[c] # None /\ UNCHANGED <<stateFile, read>>
    BY <1>9 DEF AgentDecides
  <2>2. AtOnce(read[c], c)
    BY <1>0, <2>1 DEF FilesAreFresh
  <2>3. \A e \in Epochs : Busy(e) => AtOnce(c, e)'
    BY <1>0, <2>1, BusyAtOnce DEF Busy
  <2>4. CASE controlFile' = Empty /\ UNCHANGED out
    BY <1>0, <2>1, <2>4 DEF FilesAreFresh, ControlIsAboutNow, AtOnce
  <2>5. CASE controlFile' = Decision(c, read[c]) /\ UNCHANGED out
    <3>1. controlFile'.by = c /\ controlFile'.about = read[c]
      BY <2>5 DEF Decision
    <3>2. ControlIsAboutNow'
      BY <1>0, <2>2, <3>1 DEF ControlIsAboutNow, AtOnce
    <3>3. \A e \in Epochs : pc'[e] \in Started => AtOnce(controlFile.by, e)'
      BY <2>1, <2>3, <3>1 DEF Busy, AtOnce
    <3> QED
      BY <1>0, <2>1, <2>5, <3>2, <3>3 DEF FilesAreFresh, AtOnce
  <2>6. CASE out' = [out EXCEPT ![c] = Decision(c, read[c])] /\ UNCHANGED controlFile
    <3>1. out'[c].by = c /\ out'[c].about = read[c]
      BY <1>0, <2>6 DEF Decision
    <3>2. ControlIsAboutNow'
      BY <1>0, <2>6 DEF ControlIsAboutNow, AtOnce
    <3> QED
      BY <1>0, <2>1, <2>2, <2>6, <3>1, <3>2 DEF FilesAreFresh, AtOnce
  <2> QED
    BY <1>9, <2>4, <2>5, <2>6 DEF AgentDecides
<1> QED
  BY <1>2, <1>3, <1>5, <1>6, <1>7, <1>8, <1>9, <1>4 DEF Next, Driver, Agent

LEMMA NoLeftoversKept ==
  ASSUME IInv, [Next]_vars
  PROVE  NoLeftovers'
<1>0. /\ result \in [Epochs -> Decisions \cup {None, Empty}]
      /\ NoLeftovers
      /\ \A d : \A e \in Epochs : AtOnce(d, e) => AtOnce(d, e)'
  BY OverlappingGrows DEF IInv, TypeOK
<1>1. CASE result' = result
  BY <1>0, <1>1 DEF NoLeftovers, AtOnce
<1>2. ASSUME NEW c \in Epochs, Returning(c)
      PROVE  NoLeftovers'
  <2>1. PICK control \in Decisions \cup {Empty} :
          /\ result' = [result EXCEPT ![c] = control]
          /\ control # Empty =>
               AtOnce(control.by, c) /\ AtOnce(control.about, control.by)
    BY <1>2 DEF Returning, Return
  <2> QED
    BY <1>0, <2>1 DEF NoLeftovers, AtOnce
<1>3. CASE Loop \/ UNCHANGED vars \/ \E e \in Epochs : Working(e) \/ Raising(e)
  BY <1>1, <1>3 DEF Loop, SkipEpoch, Consult, TrainEnd, Join, vars, Working, Raising, Raise
<1> QED
  BY <1>2, <1>3, StepCases

\* What one more entry in applied_controls changes.
LEMMA Applying ==
  ASSUME applied \in Seq(Epochs), NEW d \in Epochs, ~Counts(d), applied' = Append(applied, d),
         \A i, j \in DOMAIN applied : applied[i] = applied[j] => i = j
  PROVE  /\ applied' \in Seq(Epochs)
         /\ \A e \in Epochs : Counts(e)' <=> Counts(e) \/ e = d
         /\ \A i, j \in DOMAIN applied' : applied'[i] = applied'[j] => i = j
         /\ \A x \in Epochs : (\A i \in DOMAIN applied : applied[i] < x) /\ d < x =>
              \A i \in DOMAIN applied' : applied'[i] < x
         /\ Increasing(applied) /\ (\A i \in DOMAIN applied : applied[i] < d) => Increasing(applied)'
<1>1. /\ applied' \in Seq(Epochs)
      /\ DOMAIN applied = 1..Len(applied) /\ DOMAIN applied' = 1..(Len(applied) + 1)
      /\ Len(applied) \in Nat
      /\ applied'[Len(applied) + 1] = d
      /\ \A i \in DOMAIN applied : applied'[i] = applied[i] /\ i \in DOMAIN applied'
      /\ \A i \in DOMAIN applied' : i \in DOMAIN applied \/ i = Len(applied) + 1
      /\ Len(applied) + 1 \in DOMAIN applied' \ DOMAIN applied
  BY AppendProperties, LenProperties
<1>2. \A e \in Epochs : Counts(e)' <=> Counts(e) \/ e = d
  BY <1>1 DEF Counts
<1>3. \A i, j \in DOMAIN applied' : applied'[i] = applied'[j] => i = j
  BY <1>1 DEF Counts
<1>4. \A x \in Epochs : (\A i \in DOMAIN applied : applied[i] < x) /\ d < x =>
        \A i \in DOMAIN applied' : applied'[i] < x
  BY <1>1
<1>5. ASSUME Increasing(applied), \A i \in DOMAIN applied : applied[i] < d
      PROVE  Increasing(applied)'
  BY <1>1, <1>5 DEF Increasing
<1> QED
  BY <1>1, <1>2, <1>3, <1>4, <1>5

\* What Apply does for a decision that does not count yet.
LEMMA ApplyCounts ==
  ASSUME IInv, NEW d \in Epochs, ~Counts(d), NEW control \in Decisions \cup {None, Empty},
         Apply(d, control)
  PROVE  /\ applied' \in Seq(Epochs)
         /\ \A e \in Epochs : Counts(e) => Counts(e)'
         /\ \A e \in Epochs : Counts(e)' => Counts(e) \/ e = d
         /\ control \notin {None, Empty} => Counts(d)'
         /\ \A i, j \in DOMAIN applied' : applied'[i] = applied'[j] => i = j
         /\ Increasing(applied) /\ (\A i \in DOMAIN applied : applied[i] < d) => Increasing(applied)'
<1>1. CASE applied' = applied /\ control \in {None, Empty}
  BY <1>1 DEF IInv, TypeOK, DecisionsCount, Counts, Increasing
<1>2. CASE applied' = Append(applied, d)
  BY <1>2, Applying DEF IInv, TypeOK, DecisionsCount
<1> QED
  BY <1>1, <1>2 DEF Apply

\* What the next epoch or the end of training does to the slot.
LEMMA ApplyPendingCounts ==
  ASSUME IInv, ApplyPending
  PROVE  /\ applied' \in Seq(Epochs) /\ pending' = None
         /\ \A e \in Epochs : Counts(e) => Counts(e)'
         /\ \A e \in Epochs : Counts(e)' => Counts(e) \/ e = pending
         /\ \A e \in Epochs : pending = e /\ result[e] \notin {None, Empty} => Counts(e)'
         /\ \A i, j \in DOMAIN applied' : applied'[i] = applied'[j] => i = j
         /\ ~Overlap => Increasing(applied)'
<1>0. pending' = None /\ pending \in Epochs \cup {None} /\ None \notin Epochs
      /\ result \in [Epochs -> Decisions \cup {None, Empty}] /\ DecisionsCount /\ AppliedIsOver
      /\ applied \in Seq(Epochs)
  BY Values DEF ApplyPending, IInv, TypeOK
<1>1. CASE pending = None
  <2>1. applied' = applied
    BY <1>1 DEF ApplyPending
  <2> QED
    BY <1>0, <1>1, <2>1 DEF DecisionsCount, Counts, Increasing
<1>2. CASE pending # None
  <2>1. pending \in Epochs /\ ~Counts(pending) /\ Apply(pending, result[pending])
    BY <1>0, <1>2 DEF ApplyPending, DecisionsCount
  <2>2. ~Overlap => Increasing(applied) /\ \A i \in DOMAIN applied : applied[i] < pending
    BY <1>0, <1>2 DEF DecisionsCount, AppliedIsOver
  <2>3. result[pending] \in Decisions \cup {None, Empty}
    BY <1>0, <2>1
  <2> QED
    BY <1>0, <2>1, <2>2, <2>3, ApplyCounts
<1> QED
  BY <1>1, <1>2

\* The slot is filled only if it is empty, unless consultations overlap.
LEMMA SlotIsEmpty ==
  ASSUME IInv, NEW c \in Epochs, Busy(c), ~Overlap
  PROVE  /\ pending = None
         /\ \A i \in DOMAIN applied : applied[i] < c
         /\ trainer # "ended"
<1>0. /\ pending \in Epochs \cup {None} /\ applied \in Seq(Epochs) /\ async \in BOOLEAN
      /\ AppliedIsOver /\ LaunchedInOrder /\ TrainerKnows /\ Launched(c)
  BY DEF IInv, TypeOK, Busy, Launched
<1>1. ASSUME NEW d \in Epochs, pc[d] = "over"
      PROVE  d < c
  <2>1. Launched(d) /\ d # c
    BY <1>1 DEF Launched, Busy
  <2>2. ~(c < d)
    BY <1>0, <2>1 DEF LaunchedInOrder, Overlap
  <2> QED
    BY <2>1, <2>2, Values
<1>2. pending = None
  BY <1>0, <1>1 DEF AppliedIsOver, Overlap
<1>3. ASSUME NEW i \in DOMAIN applied
      PROVE  applied[i] < c
  <2>1. applied[i] \in Epochs /\ Counts(applied[i])
    BY <1>0, <1>3 DEF Counts
  <2> QED
    BY <1>0, <1>1, <2>1 DEF AppliedIsOver
<1>4. trainer # "ended"
  BY <1>0 DEF TrainerKnows
<1> QED
  BY <1>2, <1>3, <1>4

LEMMA DecisionsCountKept ==
  ASSUME IInv, [Next]_vars
  PROVE  AppliedIsOver' /\ DecisionsCount'
<1>0. /\ pc \in [Epochs -> {"none", "over"} \cup BusyPlaces]
      /\ pending \in Epochs \cup {None} /\ None \notin Epochs
      /\ result \in [Epochs -> Decisions \cup {None, Empty}]
      /\ applied \in Seq(Epochs) /\ async \in BOOLEAN
      /\ AppliedIsOver
      /\ DecisionsCount
      /\ \A e \in Epochs : overlapping[e] \subseteq overlapping'[e]
      /\ Overlap => Overlap'
  BY OverlappingGrows, Values DEF IInv, TypeOK, BusyPlaces
\* Nothing is returned or applied.
<1>1. ASSUME UNCHANGED <<pending, result, applied>>,
             \A e \in Epochs : pc[e] = "over" => pc'[e] = "over",
             \A e \in Epochs : Launched(e)' => Launched(e),
             trainer' # "ended" \/ trainer = "ended" \/ pending = None
      PROVE  AppliedIsOver' /\ DecisionsCount'
  <2>1. \A e \in Epochs : Counts(e)' <=> Counts(e)
    BY <1>1 DEF Counts
  <2>2. Increasing(applied)' <=> Increasing(applied)
    BY <1>1 DEF Increasing
  <2> QED
    BY <1>0, <1>1, <2>1, <2>2 DEF AppliedIsOver, DecisionsCount
<1>2. CASE UNCHANGED vars
  BY <1>1, <1>2 DEF vars, Launched, loopVars
<1>3. CASE TrainEnd
  <2>1. UNCHANGED <<pending, result, applied, pc>>
    BY <1>3 DEF TrainEnd
  <2>2. trainer' # "ended" \/ pending = None
    BY <1>0, <1>3 DEF TrainEnd, IInv, TrainerKnows
  <2> QED
    BY <1>1, <2>1, <2>2 DEF Launched
\* The slot is emptied: at the end of an epoch and of training.
<1>4. CASE SkipEpoch \/ Consult \/ Join
  <2>1. ApplyPending /\ result' = result
    BY <1>4 DEF SkipEpoch, Consult, Join
  <2>2. \A e \in Epochs : pc[e] = "over" => pc'[e] = "over"
    <3>1. CASE Consult
      <4>1. pc' = [pc EXCEPT ![epoch] = IF driver = "copilot" THEN "write" ELSE "call"]
        BY <3>1 DEF Consult
      <4>2. \A e \in Epochs : pc[e] = "over" => e < epoch
        BY DEF IInv, LaunchedInOrder, Launched
      <4>3. \A e \in Epochs : pc[e] = "over" => e # epoch
        BY <4>2, Values
      <4> QED
        BY <1>0, <4>1, <4>3
    <3>2. CASE SkipEpoch \/ Join
      BY <3>2 DEF SkipEpoch, Join
    <3> QED
      BY <1>4, <3>1, <3>2
  <2>3. pending # None => pc[pending] = "over"
    BY <1>0 DEF AppliedIsOver
  <2>4. AppliedIsOver'
    BY <1>0, <2>1, <2>2, <2>3, ApplyPendingCounts DEF AppliedIsOver
  <2>5. ~Overlap' => \A e \in Epochs : result'[e] \notin {None, Empty} => Counts(e)'
    BY <1>0, <2>1, ApplyPendingCounts DEF DecisionsCount
  <2> QED
    BY <1>0, <2>1, <2>4, <2>5, ApplyPendingCounts DEF DecisionsCount
<1>5. ASSUME NEW c \in Epochs, Returning(c)
      PROVE  AppliedIsOver' /\ DecisionsCount'
  <2>1. PICK control \in Decisions \cup {Empty} : Return(c, control)
    BY <1>5 DEF Returning
  <2>2. /\ Busy(c) /\ ~Counts(c)
        /\ pc' = [pc EXCEPT ![c] = "over"] /\ result' = [result EXCEPT ![c] = control]
        /\ overlapping' = overlapping
    BY <1>0, <1>5, <2>1 DEF Returning, Return, AppliedIsOver, Busy
  <2>3. \A e \in Epochs : Launched(e)' <=> Launched(e)
    BY <1>0, <2>2 DEF Launched, Busy
  <2>4. \A e \in Epochs : /\ pc[e] = "over" => pc'[e] = "over"
                          /\ e # c => result'[e] = result[e]
    BY <1>0, <2>2
  <2>5. pc'[c] = "over" /\ result'[c] = control
    BY <1>0, <2>2
  <2>6. ~Overlap => /\ pending = None
                    /\ \A i \in DOMAIN applied : applied[i] < c
                    /\ trainer # "ended"
    BY <2>2, SlotIsEmpty
  <2>7. CASE async
    <3>1. pending' = c /\ UNCHANGED <<applied, trainer>>
      BY <2>1, <2>7 DEF Return
    <3>2. \A e \in Epochs : Counts(e)' <=> Counts(e)
      BY <3>1 DEF Counts
    <3>3. \A e \in Epochs : c < e /\ Launched(e) => c \in overlapping[e]
      BY <2>2 DEF IInv, LaunchedInOrder
    <3>4. AppliedIsOver'
      BY <1>0, <2>2, <2>3, <2>4, <2>5, <2>6, <3>1, <3>2, <3>3 DEF AppliedIsOver
    <3>5. Increasing(applied)' <=> Increasing(applied)
      BY <3>1 DEF Increasing
    <3>6. ASSUME ~Overlap', NEW e \in Epochs, result'[e] \notin {None, Empty}
          PROVE  Counts(e)' \/ (pending' = e /\ trainer' # "ended")
      BY <1>0, <2>4, <2>6, <3>1, <3>2, <3>6 DEF DecisionsCount
    <3> QED
      BY <1>0, <2>2, <3>1, <3>2, <3>4, <3>5, <3>6 DEF DecisionsCount
  <2>8. CASE ~async
    <3>1. pending' = None /\ Apply(c, control)
      BY <2>1, <2>8 DEF Return, IInv, TrainerKnows
    <3>2. /\ \A e \in Epochs : Counts(e) => Counts(e)'
          /\ \A e \in Epochs : Counts(e)' => Counts(e) \/ e = c
          /\ control \notin {None, Empty} => Counts(c)'
          /\ \A i, j \in DOMAIN applied' : applied'[i] = applied'[j] => i = j
          /\ Increasing(applied) /\ (\A i \in DOMAIN applied : applied[i] < c) => Increasing(applied)'
      BY <2>2, <3>1, ApplyCounts
    <3>3. AppliedIsOver'
      BY <1>0, <2>4, <2>5, <3>1, <3>2 DEF AppliedIsOver
    <3>4. ASSUME ~Overlap', NEW e \in Epochs, result'[e] \notin {None, Empty}
          PROVE  Counts(e)'
      BY <1>0, <2>4, <2>5, <2>6, <3>2, <3>4 DEF DecisionsCount
    <3> QED
      BY <1>0, <2>6, <3>1, <3>2, <3>3, <3>4 DEF DecisionsCount
  <2> QED
    BY <1>0, <2>7, <2>8
<1>6. ASSUME NEW c \in Epochs, Working(c) \/ Raising(c)
      PROVE  AppliedIsOver' /\ DecisionsCount'
  <2>1. /\ UNCHANGED <<pending, result, applied>> /\ Busy(c)
        /\ \E p \in BusyPlaces \cup {"over"} : pc' = [pc EXCEPT ![c] = p]
        /\ trainer' \in {trainer, "crashed"}
    BY <1>6 DEF Working, Raising, Raise, loopVars
  <2>2. \A e \in Epochs : /\ pc[e] = "over" => pc'[e] = "over"
                          /\ Launched(e)' => Launched(e)
    BY <1>0, <2>1 DEF Busy, Launched
  <2> QED
    BY <1>1, <2>1, <2>2
<1> QED
  BY <1>2, <1>3, <1>4, <1>5, <1>6, StepCases DEF Loop

LEMMA TypeOKKept ==
  ASSUME IInv, [Next]_vars
  PROVE  TypeOK'
<1>0. TypeOK /\ FilesAreFresh
  BY DEF IInv
<1>1. CASE UNCHANGED vars
  BY <1>0, <1>1 DEF vars, settings, loopVars, files, agents, TypeOK
<1>2. CASE SkipEpoch
  <2>1. UNCHANGED <<settings, trainer, latest, pc, overlapping, files, agents, result>>
        /\ ApplyPending /\ epoch < MaxEpochs /\ epoch' = epoch + 1
    BY <1>2 DEF SkipEpoch
  <2> QED
    BY <1>0, <2>1, ApplyPendingCounts, Values DEF settings, files, agents, TypeOK
<1>3. CASE Join
  <2>1. UNCHANGED <<settings, epoch, pc, overlapping, files, agents, result>>
        /\ ApplyPending /\ trainer' = "ended" /\ latest' = None
    BY <1>3 DEF Join
  <2> QED
    BY <1>0, <2>1, ApplyPendingCounts DEF settings, files, agents, TypeOK
<1>4. CASE Consult
  <2>1. /\ UNCHANGED <<settings, files, agents, result>>
        /\ ApplyPending /\ epoch < MaxEpochs /\ epoch' = epoch + 1
        /\ pc' = [pc EXCEPT ![epoch] = IF driver = "copilot" THEN "write" ELSE "call"]
        /\ overlapping' = [overlapping EXCEPT ![epoch] = {e \in Epochs : Busy(e)}]
        /\ trainer' \in {trainer, "wait"} /\ latest' \in {latest, epoch}
    BY <1>4 DEF Consult
  <2>2. epoch \in Epochs /\ epoch' \in 0..MaxEpochs
    BY <1>0, <2>1, Values DEF TypeOK, Epochs
  <2>3. /\ UNCHANGED <<async, driver, stateFile, controlFile, read, out, result>>
        /\ pending' = None /\ applied' \in Seq(Epochs)
    BY <2>1, ApplyPendingCounts DEF settings, files, agents
  <2> QED
    BY <1>0, <2>1, <2>2, <2>3 DEF TypeOK
<1>5. CASE TrainEnd
  BY <1>0, <1>5 DEF TrainEnd, settings, files, agents, TypeOK
<1>6. ASSUME NEW c \in Epochs, Returning(c)
      PROVE  TypeOK'
  <2>1. PICK control \in Decisions \cup {Empty} : Return(c, control)
    BY <1>6 DEF Returning
  <2>2. ~Counts(c)
    BY <1>6 DEF Returning, Busy, IInv, AppliedIsOver
  <2>3. applied' \in Seq(Epochs)
    BY <1>0, <2>1, <2>2, ApplyCounts DEF Return, TypeOK
  <2>4. /\ UNCHANGED <<settings, epoch, latest, overlapping, files>>
        /\ pc' = [pc EXCEPT ![c] = "over"] /\ result' = [result EXCEPT ![c] = control]
        /\ read' = [read EXCEPT ![c] = None] /\ out' = [out EXCEPT ![c] = Empty]
        /\ pending' \in {pending, c} /\ trainer' \in {trainer, "train"}
    BY <2>1 DEF Return, Forget
  <2>5. control # None
    BY Values
  <2> QED
    BY <1>0, <2>3, <2>4, <2>5 DEF settings, files, TypeOK
<1>7. ASSUME NEW c \in Epochs, Raising(c)
      PROVE  TypeOK'
  <2>1. /\ UNCHANGED <<settings, epoch, latest, pending, overlapping, files, result, applied>>
        /\ pc' = [pc EXCEPT ![c] = "over"] /\ trainer' \in {trainer, "crashed"}
        /\ read' = [read EXCEPT ![c] = None] /\ out' = [out EXCEPT ![c] = Empty]
    BY <1>7 DEF Raising, Raise, Forget
  <2> QED
    BY <1>0, <2>1 DEF settings, files, TypeOK
<1>8. ASSUME NEW c \in Epochs, Working(c), stateFile' \in {stateFile, c},
             read' \in [Epochs -> Epochs \cup {None}],
             out' \in [Epochs -> Decisions \cup {Empty}],
             controlFile' \in Decisions \cup {None, Empty}
      PROVE  TypeOK'
  <2>1. PICK p \in BusyPlaces : pc' = [pc EXCEPT ![c] = p]
    BY <1>8 DEF Working
  <2>2. pc' \in [Epochs -> {"none", "over"} \cup BusyPlaces]
    BY <1>0, <2>1 DEF TypeOK, BusyPlaces
  <2>3. \A e \in Epochs : pc[e] = "over" => pc'[e] = "over"
    BY <1>0, <1>8, <2>1 DEF Working, Busy, TypeOK
  <2>4. UNCHANGED <<settings, loopVars, pending, overlapping, result, applied>>
    BY <1>8 DEF Working
  <2> QED
    BY <1>0, <1>8, <2>2, <2>3, <2>4 DEF BusyPlaces, settings, loopVars, TypeOK
<1>9. ASSUME NEW c \in Epochs, Working(c), Driver(c) \/ Agent(c)
      PROVE  TypeOK'
  <2>1. CASE WriteState(c) \/ LookForControl(c) \/ ClearControl(c) \/ StartAgent(c) \/ AgentExits(c)
    BY <1>0, <1>8, <1>9, <2>1
    DEF WriteState, LookForControl, ClearControl, StartAgent, AgentExits, files, agents, TypeOK
  <2>2. CASE AgentReads(c)
    <3>1. stateFile \in Epochs /\ read' = [read EXCEPT ![c] = stateFile]
          /\ UNCHANGED <<files, out>>
      BY <1>0, <2>2 DEF AgentReads, FilesAreFresh, AtOnce
    <3> QED
      BY <1>0, <1>8, <1>9, <3>1 DEF files, TypeOK
  <2>3. CASE AgentDecides(c)
    <3>1. read[c] \in Epochs /\ UNCHANGED <<stateFile, read>>
          /\ \/ controlFile' \in {Empty, Decision(c, read[c])} /\ UNCHANGED out
             \/ out' = [out EXCEPT ![c] = Decision(c, read[c])] /\ UNCHANGED controlFile
      BY <1>0, <2>3 DEF AgentDecides, TypeOK
    <3>2. Decision(c, read[c]) \in Decisions
      BY <3>1 DEF Decision, Decisions
    <3> QED
      BY <1>0, <1>8, <1>9, <3>1, <3>2 DEF TypeOK
  <2>4. CASE CallFunction(c) \/ AgentMissing(c) \/ OptimizeRaises(c) \/ TimeOut(c) \/ ReadControl(c)
    <3>1. pc'[c] = "over"
      BY <1>0, <2>4 DEF CallFunction, AgentMissing, OptimizeRaises, TimeOut, ReadControl, Return,
         Raise, TypeOK
    <3> QED
      BY <1>0, <1>9, <3>1 DEF Working, BusyPlaces, TypeOK
  <2> QED
    BY <1>9, <2>1, <2>2, <2>3, <2>4 DEF Driver, Agent
<1> QED
  BY <1>1, <1>2, <1>3, <1>4, <1>5, <1>6, <1>7, <1>9, ConsultationCases DEF Next, Loop

-----------------------------------------------------------------------------
(***************************************************************************)
(* The theorems.                                                           *)
(***************************************************************************)

LEMMA InitInvariant == Init => IInv
<1> SUFFICES ASSUME Init PROVE IInv
  OBVIOUS
<1>1. TypeOK
  BY Values DEF Init, TypeOK, Epochs, Decision, Decisions
<1>2. \A e \in Epochs : ~Counts(e) /\ ~Launched(e) /\ ~Busy(e)
  BY DEF Init, Counts, Launched, Busy
<1>3. LaunchedInOrder /\ TrainerKnows
  BY <1>2, Values DEF Init, LaunchedInOrder, TrainerKnows
<1>4. FilesAreFresh /\ ControlIsAboutNow /\ NoLeftovers
  BY Values DEF Init, FilesAreFresh, ControlIsAboutNow, NoLeftovers, Decision
<1>5. AppliedIsOver /\ DecisionsCount
  BY <1>2 DEF Init, AppliedIsOver, DecisionsCount, Increasing
<1> QED
  BY <1>1, <1>3, <1>4, <1>5 DEF IInv

\* The invariant holds of every state of the broker-less mode.
THEOREM InductiveInvariant == Spec => []IInv
<1>1. ASSUME IInv, [Next]_vars
      PROVE  IInv'
  BY <1>1, TypeOKKept, LaunchedInOrderKept, TrainerKnowsKept, FilesAreFreshKept,
     NoLeftoversKept, DecisionsCountKept DEF IInv
<1> QED
  BY <1>1, InitInvariant, PTL DEF Spec

\* The state has its type; what waits in the slot was returned.
THEOREM TypeCorrect == Spec => []TypeOK
BY InductiveInvariant, PTL DEF IInv

\* No consultation ever returns what an earlier one, or an earlier process,
\* left in the files, however many of them run at the same time.
THEOREM NothingIsLeftOver == Spec => []NoLeftovers
BY InductiveInvariant, PTL DEF IInv

\* A decision is applied at most once, and where consultations do not overlap
\* every one is, in order.
THEOREM EveryDecisionCounts == Spec => []DecisionsCount
BY InductiveInvariant, PTL DEF IInv
=============================================================================
