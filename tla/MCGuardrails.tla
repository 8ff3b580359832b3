---------------------------- MODULE MCGuardrails ----------------------------
(***************************************************************************)
(* Guardrails with zero, three positive values, and relative limits below, *)
(* at and above 1.                                                         *)
(***************************************************************************)
EXTENDS Guardrails

MCNonPositive == {-1}
MCFactors == {-1, 0, 1}
=============================================================================
