---------------------------- MODULE Checkpoints -----------------------------
(***************************************************************************)
(* save_checkpoint, restore_checkpoint and eviction (bridge.py).  The      *)
(* handlers run on the training thread, so each command is one step; what  *)
(* is hard is that a checkpoint lives in three places (_checkpoints,       *)
(* _ckpt_blobs and a file) and that saving, loading and removing may fail  *)
(* half way.  A checkpoint covers the parts that have a state_dict, in the *)
(* order in which they are loaded.                                         *)
(***************************************************************************)
EXTENDS Naturals, Sequences, FiniteSets

CONSTANTS
  Ids,             \* checkpoint ids
  Values,          \* states of a part
  MaxCheckpoints,  \* max_checkpoints; 0: no eviction
  None,            \* no blob, no file
  Broken           \* a file that torch.load cannot read

ASSUME ConstantsAssumption ==
  /\ MaxCheckpoints \in Nat
  /\ None # Broken /\ {None, Broken} \cap [{"model", "optimizer"} -> Values] = {}

Parts == {"model", "optimizer"}
States == [Parts -> Values]

VARIABLES
  disk,         \* checkpoint_dir is set
  live,         \* the state of each part of the running job
  checkpoints,  \* _checkpoints in dict order: ids, and whether info.path is set
  blobs,        \* _ckpt_blobs
  files,        \* the file <id>.pt, which outlives the process
  answer        \* the last command, if any, and what it reports

vars == <<disk, live, checkpoints, blobs, files, answer>>

Silent == [call |-> "none", ok |-> TRUE]
Reports(call, ok) == answer' = [call |-> call, ok |-> ok]

Listed(s, i) == \E k \in DOMAIN s : s[k].id = i

\* s after the entry of i was popped: the entries behind it move up.
Without(s, i) ==
  [k \in 1..(IF Listed(s, i) THEN Len(s) - 1 ELSE Len(s)) |->
     s[IF \E j \in 1..k : s[j].id = i THEN k + 1 ELSE k]]

-----------------------------------------------------------------------------
Init ==
  /\ disk \in BOOLEAN
  /\ live \in States
  /\ checkpoints = <<>>
  /\ blobs = [i \in Ids |-> None]
  /\ files = [i \in Ids |-> None]
  /\ answer = Silent

\* optimizer.step(), or a command that changes the job.
Train ==
  /\ live' \in States
  /\ answer' = Silent
  /\ UNCHANGED <<disk, checkpoints, blobs, files>>

(***************************************************************************)
(* _evict_checkpoints, with entries s, blobs b and files f as the save     *)
(* leaves them.  An os.remove that fails is ignored.                       *)
(***************************************************************************)
Evicted(s) ==
  IF MaxCheckpoints > 0 /\ Len(s) > MaxCheckpoints
  THEN SubSeq(s, 1, Len(s) - MaxCheckpoints) ELSE <<>>

OnDisk(s, i) == \E k \in DOMAIN s : s[k].id = i /\ s[k].path

Evict(s, b, f) ==
  /\ checkpoints' = SubSeq(s, Len(Evicted(s)) + 1, Len(s))
  /\ blobs' = [i \in Ids |-> IF Listed(Evicted(s), i) THEN None ELSE b[i]]
  /\ \E removed \in SUBSET {i \in Ids : OnDisk(Evicted(s), i)} :
       files' = [i \in Ids |-> IF i \in removed THEN None ELSE f[i]]

\* A dict update: an id that is there keeps its place (a plausible mistake,
\* used by no specification, like the other Bug_ definitions).
Bug_Recorded(i, path) ==
  IF Listed(checkpoints, i)
  THEN [k \in DOMAIN checkpoints |->
          IF checkpoints[k].id = i THEN [id |-> i, path |-> path] ELSE checkpoints[k]]
  ELSE Append(checkpoints, [id |-> i, path |-> path])

\* Popped first, so that the new entry is the last.
Recorded(i, path) == Append(Without(checkpoints, i), [id |-> i, path |-> path])

-----------------------------------------------------------------------------
SaveInMemory(i) ==
  /\ ~disk
  /\ Evict(Recorded(i, FALSE), [blobs EXCEPT ![i] = live], files)
  /\ Reports("save", TRUE)
  /\ UNCHANGED <<disk, live>>

SaveToDisk(i) ==
  /\ disk
  /\ Evict(Recorded(i, TRUE), [blobs EXCEPT ![i] = None], [files EXCEPT ![i] = live])
  /\ Reports("save", TRUE)
  /\ UNCHANGED <<disk, live>>

\* The path is kept although there is no such file.
Bug_SaveDiskFails(i) ==
  /\ disk
  /\ \E left \in {files[i], Broken} :
       Evict(Recorded(i, TRUE), [blobs EXCEPT ![i] = None], [files EXCEPT ![i] = left])
  /\ Reports("save", TRUE)
  /\ UNCHANGED <<disk, live>>

\* makedirs or torch.save raises, perhaps half way: the blob goes to memory.
SaveDiskFails(i) ==
  /\ disk
  /\ \E left \in {files[i], Broken} :
       Evict(Recorded(i, FALSE), [blobs EXCEPT ![i] = live], [files EXCEPT ![i] = left])
  /\ Reports("save", TRUE)
  /\ UNCHANGED <<disk, live>>

\* A state_dict raises after the old entry was popped.
SaveRaises(i) ==
  /\ checkpoints' = Without(checkpoints, i)
  /\ blobs' = [blobs EXCEPT ![i] = None]
  /\ Reports("save", FALSE)
  /\ UNCHANGED <<disk, live, files>>

\* Metrics that are not numbers are refused when all but the entry is done.
\* (A save meets at most one failure: torch.save does not fail here too.)
SaveRefused(i) ==
  /\ checkpoints' = Without(checkpoints, i)
  /\ \/ ~disk /\ blobs' = [blobs EXCEPT ![i] = live] /\ UNCHANGED files
     \/ disk /\ blobs' = [blobs EXCEPT ![i] = None] /\ files' = [files EXCEPT ![i] = live]
  /\ Reports("save", FALSE)
  /\ UNCHANGED <<disk, live>>

-----------------------------------------------------------------------------
\* A file is preferred to the copy in memory.
Bug_Blob(i) ==
  IF files[i] # None THEN files[i] ELSE blobs[i]

\* _load_blob
Blob(i) ==
  IF blobs[i] # None THEN blobs[i]
  ELSE IF OnDisk(checkpoints, i) THEN files[i] ELSE None

Loadable(i) == Blob(i) \notin {None, Broken}

\* The id restored: the one asked for, or the last in the dict.
Target(call, i) ==
  \/ call = "restore"
  \/ call = "restore_latest" /\ checkpoints # <<>> /\ i = checkpoints[Len(checkpoints)].id

\* What _load_blob returned is not looked at.
Bug_Restore(call, i) ==
  /\ Target(call, i)
  /\ live' = Blob(i)
  /\ Reports(call, TRUE)
  /\ UNCHANGED <<disk, checkpoints, blobs, files>>

Restore(call, i) ==
  /\ Target(call, i) /\ Loadable(i)
  /\ live' = Blob(i)
  /\ Reports(call, TRUE)
  /\ UNCHANGED <<disk, checkpoints, blobs, files>>

\* load_state_dict raises for the model, or for the optimizer.
RestoreRaises(call, i) ==
  /\ Target(call, i) /\ Loadable(i)
  /\ live' \in {live, [live EXCEPT !["model"] = Blob(i)["model"]]}
  /\ Reports(call, FALSE)
  /\ UNCHANGED <<disk, checkpoints, blobs, files>>

\* No such checkpoint, or torch.load raises.
RestoreFindsNothing(call) ==
  /\ \/ \E i \in Ids : Target(call, i) /\ ~Loadable(i)
     \/ call = "restore_latest" /\ checkpoints = <<>>
  /\ Reports(call, FALSE)
  /\ UNCHANGED <<disk, live, checkpoints, blobs, files>>

\* A new process has an empty bridge; the directory is as it was left.
ProcessRestarts ==
  /\ live' \in States
  /\ checkpoints' = <<>>
  /\ blobs' = [i \in Ids |-> None]
  /\ answer' = Silent
  /\ UNCHANGED <<disk, files>>

Next ==
  \/ Train
  \/ \E i \in Ids : SaveInMemory(i) \/ SaveToDisk(i) \/ SaveDiskFails(i)
                       \/ SaveRaises(i) \/ SaveRefused(i)
  \/ \E call \in {"restore", "restore_latest"} :
       \/ \E i \in Ids : Restore(call, i) \/ RestoreRaises(call, i)
       \/ RestoreFindsNothing(call)
  \/ ProcessRestarts

Spec == Init /\ [][Next]_vars

-----------------------------------------------------------------------------
TypeOK ==
  /\ disk \in BOOLEAN
  /\ live \in States
  /\ checkpoints \in Seq([id : Ids, path : BOOLEAN])
  /\ blobs \in [Ids -> States \cup {None}]
  /\ files \in [Ids -> States \cup {None, Broken}]
  /\ answer \in [call : {"none", "save", "restore", "restore_latest"}, ok : BOOLEAN]

(***************************************************************************)
(* Every checkpoint that is listed can be restored, and at most            *)
(* MaxCheckpoints are: neither evictions nor saves that fail half way      *)
(* leave one of the three places out of step with the others.              *)
(***************************************************************************)
ListedAreRestorable ==
  /\ \A i \in Ids : Listed(checkpoints, i) => Loadable(i)
  /\ MaxCheckpoints > 0 => Len(checkpoints) <= MaxCheckpoints

\* The checkpoints, and what else is in memory, as Rollback speaks of them.
Kept ==
  [k \in DOMAIN checkpoints |->
     [id |-> checkpoints[k].id, state |-> Blob(checkpoints[k].id)]]

Stray == [i \in Ids |-> IF Listed(checkpoints, i) THEN None ELSE blobs[i]]

(***************************************************************************)
(* The three places together implement the promise of Rollback ("The       *)
(* bridge keeps the last max_checkpoints", docs/architecture.md): what is  *)
(* restored is what was live at the latest save of that id, whatever is    *)
(* left on disk by earlier saves and processes, and the latest checkpoint  *)
(* is the one saved last, also when it was saved again.                    *)
(***************************************************************************)
Promise == INSTANCE Rollback WITH Max <- MaxCheckpoints, kept <- Kept, stray <- Stray

ImplementsRollback == Promise!Spec
=============================================================================
