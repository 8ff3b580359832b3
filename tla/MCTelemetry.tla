---------------------------- MODULE MCTelemetry ----------------------------
(***************************************************************************)
(* Telemetry for TLC.  The parts of the module share no state, so each     *)
(* configuration has one of them at work: the window of suspects, the      *)
(* detector, the flags.                                                    *)
(***************************************************************************)
EXTENDS Telemetry, TLC

MCConfigurations ==
  {[topk |-> 2, hooked |-> FALSE, losses |-> {1, NaN}, grads |-> {None},
    events |-> 3, flags |-> 0],
   [topk |-> 0, hooked |-> FALSE, losses |-> {-1, 1, 3, NaN},
    grads |-> {1, 2, 4, NaN, None}, events |-> 1, flags |-> 0],
   [topk |-> 0, hooked |-> TRUE, losses |-> {1}, grads |-> {None},
    events |-> 0, flags |-> 3]}

SampleSymmetry == Permutations(Samples)
=============================================================================
