------------------------------ MODULE Rollback ------------------------------
(***************************************************************************)
(* What checkpoint and rollback promise: the last Max checkpoints saved    *)
(* are kept, one for each id and ordered by their latest save, and a       *)
(* restore that is answered with success has brought back what was live    *)
(* when the checkpoint it names, or the latest one, was saved.             *)
(***************************************************************************)
EXTENDS Naturals, Sequences

CONSTANTS
  Ids,     \* checkpoint ids
  Parts,   \* what a checkpoint covers: model, optimizer...
  Values,  \* states of a part
  Max,     \* checkpoints kept; 0: all
  None     \* no copy

VARIABLES
  live,   \* the state of each part of the running job
  kept,   \* the checkpoints, the latest save last
  stray,  \* copies made by saves that then failed, restorable by their id
  answer  \* what the last command, if any, was and reports

vars == <<live, kept, stray, answer>>

States == [Parts -> Values]

Answers == [call : {"none", "save", "restore", "restore_latest"}, ok : BOOLEAN]

Silent == [call |-> "none", ok |-> TRUE]

Reports(call, ok) == answer' = [call |-> call, ok |-> ok]

\* There is at most one checkpoint of i; those behind it move up.
Without(i) ==
  [k \in 1..(IF \E j \in DOMAIN kept : kept[j].id = i THEN Len(kept) - 1 ELSE Len(kept)) |->
     kept[IF \E j \in 1..k : kept[j].id = i THEN k + 1 ELSE k]]

Newest(s) == IF Max > 0 /\ Len(s) > Max THEN SubSeq(s, Len(s) - Max + 1, Len(s)) ELSE s

NoStray == [i \in Ids |-> None]

Init == live \in States /\ kept = <<>> /\ stray = NoStray /\ answer = Silent

Train == live' \in States /\ answer' = Silent /\ UNCHANGED <<kept, stray>>

Save(i) ==
  /\ kept' = Newest(Append(Without(i), [id |-> i, state |-> live]))
  /\ stray' = [stray EXCEPT ![i] = None]
  /\ Reports("save", TRUE)
  /\ UNCHANGED live

\* A save that fails takes the earlier checkpoint of that id with it.
Lose(i) ==
  /\ kept' = Without(i)
  /\ \E copy \in {None, live} : stray' = [stray EXCEPT ![i] = copy]
  /\ Reports("save", FALSE)
  /\ UNCHANGED live

Restore(i) ==
  /\ \/ \E k \in DOMAIN kept : kept[k].id = i /\ live' = kept[k].state
     \/ stray[i] # None /\ live' = stray[i]
  /\ Reports("restore", TRUE)
  /\ UNCHANGED <<kept, stray>>

RestoreLatest ==
  /\ kept # <<>> /\ live' = kept[Len(kept)].state
  /\ Reports("restore_latest", TRUE)
  /\ UNCHANGED <<kept, stray>>

Copies == {kept[k].state : k \in DOMAIN kept} \cup ({stray[i] : i \in Ids} \ {None})

\* A restore that fails may have brought back some of the parts.
Fail(call) ==
  /\ \/ UNCHANGED live
     \/ \E copy \in Copies, P \in SUBSET Parts :
          live' = [p \in Parts |-> IF p \in P THEN copy[p] ELSE live[p]]
  /\ Reports(call, FALSE)
  /\ UNCHANGED <<kept, stray>>

Restart == live' \in States /\ kept' = <<>> /\ stray' = NoStray /\ answer' = Silent

Next ==
  \/ Train
  \/ \E i \in Ids : Save(i) \/ Lose(i) \/ Restore(i)
  \/ RestoreLatest
  \/ Fail("restore") \/ Fail("restore_latest")
  \/ Restart

Spec == Init /\ [][Next]_vars
=============================================================================
