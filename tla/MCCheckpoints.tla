--------------------------- MODULE MCCheckpoints ----------------------------
(***************************************************************************)
(* Checkpoint ids are interchangeable, and so are the states of a part:    *)
(* nothing orders them and no liveness is checked, so permuting them is a  *)
(* sound reduction.                                                        *)
(***************************************************************************)
EXTENDS Checkpoints, TLC

DataSymmetry == Permutations(Ids) \cup Permutations(Values)
=============================================================================
