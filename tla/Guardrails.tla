----------------------------- MODULE Guardrails -----------------------------
(***************************************************************************)
(* Guardrails on one hyperparameter (safety.py and the set_hyperparameters *)
(* and set_guardrails handlers of bridge.py).  set_hyperparameters runs on *)
(* the training thread and reads the configuration piece by piece;         *)
(* set_guardrails is a safe command, so the poller may run it at the same  *)
(* time and writes the pieces one by one.  The optimizer's own schedule    *)
(* moves the value too, unguarded.                                         *)
(*                                                                         *)
(* A positive value is known by its logarithm, an integer: level k stands  *)
(* for b^k and the factor max_rel_change for b^f, so that dividing by the  *)
(* factor subtracts f.  f < 0 is a factor below 1.  A value that is zero   *)
(* or less stands in NonPositive, in its order, below all that a factor    *)
(* makes of a positive one.  Infinity and NaN are one value, NonFinite.    *)
(* Limits that are no finite numbers, and factors that are not positive    *)
(* (which validate takes for none), are left out.                          *)
(***************************************************************************)
EXTENDS Integers

CONSTANTS
  Levels,       \* positive values that are requested, configured or scheduled
  NonPositive,  \* values of zero or less
  NonFinite,    \* infinity or NaN; as the current value also one that is not set
  Factors,      \* values of max_rel_change
  Unset,        \* a limit that is not configured
  Keep          \* a limit that set_guardrails does not mention

ASSUME LevelsAssumption ==
  /\ Levels \subseteq Int /\ NonPositive \subseteq Int /\ Factors \subseteq Int
  /\ \A p \in NonPositive, l \in Levels, f \in Factors :
       p < l /\ p < l - f /\ p < l + f
  /\ Unset \notin Int /\ Keep \notin Int /\ NonFinite \notin Int
  /\ Unset # Keep /\ Unset # NonFinite /\ Keep # NonFinite

VARIABLES
  value,     \* the hyperparameter, as the optimizer has it
  min, max,  \* its bounds
  factor,    \* max_rel_change
  setter,    \* set_hyperparameters in progress: where, value so far, minimum read
  config,    \* set_guardrails in progress: the next piece to write
  \* History, read by the property alone: what was in force since the setter began.
  lowest,    \* the least minimum (Unset if there was none at some time)
  highest,   \* the greatest maximum (likewise)
  sane       \* the configuration was Sensible all the time

historyVars == <<lowest, highest, sane>>
guardrailsVars == <<value, min, max, factor, setter, config, historyVars>>

FiniteValues == Levels \cup NonPositive
AnyValue == FiniteValues \cup {NonFinite}

\* The bounds can be met and the factor allows no change or more.
Sensible == (min = Unset \/ max = Unset \/ min <= max) /\ (factor = Unset \/ factor >= 0)

-----------------------------------------------------------------------------
(***************************************************************************)
(* Guardrails.validate                                                     *)
(***************************************************************************)
Raised(v, lo) == IF lo # Unset /\ v < lo THEN lo ELSE v
Lowered(v, hi) == IF hi # Unset /\ v > hi THEN hi ELSE v

ClampToBounds(v, lo, hi) == Lowered(Raised(v, lo), hi)

-----------------------------------------------------------------------------
Idle == [at |-> "idle", val |-> NonFinite, lo |-> Unset]

\* Guardrails may be configured when the bridge is created.
GuardrailsInit ==
  /\ value \in AnyValue
  /\ min \in FiniteValues \cup {Unset}
  /\ max \in FiniteValues \cup {Unset}
  /\ factor \in Factors \cup {Unset}
  /\ setter = Idle
  /\ config = "idle"
  /\ lowest = Unset /\ highest = Unset /\ sane = TRUE

Request(v) ==
  /\ setter.at = "idle"
  /\ setter' = [at |-> "min", val |-> v, lo |-> Unset]
  /\ lowest' = min /\ highest' = max /\ sane' = Sensible
  /\ UNCHANGED <<value, min, max, factor, config>>

\* The handler is through: the change is made, or it has raised.
Finish ==
  /\ setter' = Idle
  /\ lowest' = Unset /\ highest' = Unset /\ sane' = TRUE
  /\ UNCHANGED <<min, max, factor, config>>

Apply(v) == value' = v /\ Finish

\* A value that is not finite is returned as it is, before anything is read.
PassNonFinite ==
  /\ setter.at = "min" /\ setter.val = NonFinite
  /\ Apply(NonFinite)

ReadMin ==
  /\ setter.at = "min" /\ setter.val # NonFinite
  /\ setter' = [setter EXCEPT !.at = "max", !.lo = min]
  /\ UNCHANGED <<value, min, max, factor, config, historyVars>>

\* Only the lower bound is applied (a plausible mistake, used by no
\* specification, like the other Bug_ definition).
Bug_ReadMax ==
  /\ setter.at = "max"
  /\ setter' = [at |-> "factor", val |-> Raised(setter.val, setter.lo), lo |-> Unset]
  /\ UNCHANGED <<value, min, max, factor, config, historyVars>>

\* The bounds are applied; a minimum above the maximum gives way to it.
ReadMax ==
  /\ setter.at = "max"
  /\ setter' = [at |-> "factor", val |-> ClampToBounds(setter.val, setter.lo, max), lo |-> Unset]
  /\ UNCHANGED <<value, min, max, factor, config, historyVars>>

\* max_rel_change is looked at first and read again, twice, to be used; it
\* limits a change of a value that is finite and positive.
FactorFound ==
  /\ setter.at = "factor" /\ factor # Unset /\ value \in Levels
  /\ setter' = [setter EXCEPT !.at = "lower"]
  /\ UNCHANGED <<value, min, max, factor, config, historyVars>>

ApplyUnlimited ==
  /\ setter.at = "factor"
  /\ factor = Unset \/ value \notin Levels
  /\ Apply(setter.val)

LimitDown ==
  /\ setter.at = "lower" /\ factor # Unset
  /\ setter' = [setter EXCEPT !.at = "upper", !.val = Raised(@, value - factor)]
  /\ UNCHANGED <<value, min, max, factor, config, historyVars>>

\* The model stops where a factor leads out of Levels.
ApplyLimited ==
  /\ setter.at = "upper" /\ factor # Unset
  /\ Lowered(setter.val, value + factor) \in FiniteValues
  /\ Apply(Lowered(setter.val, value + factor))

\* The factor was removed between two reads: the handler raises.
LimitRaises ==
  /\ setter.at \in {"lower", "upper"} /\ factor = Unset
  /\ Finish
  /\ UNCHANGED value

(***************************************************************************)
(* Guardrails.configure merges what the command mentions, a piece at a     *)
(* time (nothing looks at a piece of the command before it is written, so  *)
(* it is chosen there).                                                    *)
(***************************************************************************)
\* What the command does not mention is overwritten.
Bug_Replaced(old, new) == new

Merged(old, new) == IF new = Keep THEN old ELSE new

LowerOf(a, b) == IF a = Unset \/ b = Unset THEN Unset ELSE IF b < a THEN b ELSE a
HigherOf(a, b) == IF a = Unset \/ b = Unset THEN Unset ELSE IF b > a THEN b ELSE a

\* What is in force after this step counts for the setter at work.
Recorded ==
  IF setter.at = "idle"
  THEN UNCHANGED historyVars
  ELSE /\ lowest' = LowerOf(lowest, min')
       /\ highest' = HigherOf(highest, max')
       /\ sane' = (sane /\ Sensible')

StartConfig ==
  /\ config = "idle"
  /\ config' = "min"
  /\ UNCHANGED <<value, min, max, factor, setter, historyVars>>

WriteMin ==
  /\ config = "min"
  /\ \E lo \in FiniteValues \cup {Unset, Keep} : min' = Merged(min, lo)
  /\ config' = "max"
  /\ UNCHANGED <<value, max, factor, setter>>
  /\ Recorded

WriteMax ==
  /\ config = "max"
  /\ \E hi \in FiniteValues \cup {Unset, Keep} : max' = Merged(max, hi)
  /\ config' = "factor"
  /\ UNCHANGED <<value, min, factor, setter>>
  /\ Recorded

WriteFactor ==
  /\ config = "factor"
  /\ \E f \in Factors \cup {Unset, Keep} : factor' = Merged(factor, f)
  /\ config' = "idle"
  /\ UNCHANGED <<value, min, max, setter>>
  /\ Recorded

\* The learning-rate schedule of the training loop, between two commands.
Schedule ==
  /\ setter.at = "idle"
  /\ value' \in AnyValue
  /\ UNCHANGED <<min, max, factor, setter, config, historyVars>>

GuardrailsNext ==
  \/ \E v \in AnyValue : Request(v)
  \/ PassNonFinite \/ ReadMin \/ ReadMax
  \/ FactorFound \/ ApplyUnlimited
  \/ LimitDown \/ ApplyLimited \/ LimitRaises
  \/ StartConfig \/ WriteMin \/ WriteMax \/ WriteFactor
  \/ Schedule

GuardrailsSpec == GuardrailsInit /\ [][GuardrailsNext]_guardrailsVars

-----------------------------------------------------------------------------
GuardrailsTypeOK ==
  /\ value \in AnyValue
  /\ min \in FiniteValues \cup {Unset} /\ max \in FiniteValues \cup {Unset}
  /\ factor \in Factors \cup {Unset}
  /\ setter \in [at : {"idle", "min", "max", "factor", "lower", "upper"},
                 val : Int \cup {NonFinite}, lo : FiniteValues \cup {Unset}]
  /\ setter.at \in {"idle", "min"} => setter.val \in AnyValue
  /\ setter.at \in {"max", "factor"} => setter.val \in FiniteValues
  /\ setter.at \in {"lower", "upper"} => setter.val \in Int /\ value \in Levels
  /\ config \in {"idle", "min", "max", "factor"}
  /\ lowest \in FiniteValues \cup {Unset} /\ highest \in FiniteValues \cup {Unset}
  /\ sane \in BOOLEAN

Within(v, lo, hi) == (lo = Unset \/ lo <= v) /\ (hi = Unset \/ v <= hi)

(***************************************************************************)
(* What a set_hyperparameters command with a finite value sets is within   *)
(* the loosest bounds in force while it was at work, if the value it       *)
(* replaces was; from outside (the bounds were narrowed, or a schedule     *)
(* moved the value) it leads towards them and not past them.  This holds   *)
(* however its reads and the writes of set_guardrails interleave, as long  *)
(* as what is written so far stays sensible at every moment: a minimum     *)
(* that is written while the old, lower maximum still stands does not.  A  *)
(* value that is not finite is let through (PassNonFinite) and is held to  *)
(* no bound.                                                               *)
(***************************************************************************)
ChangesRespectBounds ==
  [][(ApplyUnlimited \/ ApplyLimited) /\ sane =>
       IF value = NonFinite
       THEN Within(value', lowest, highest)
       ELSE /\ Within(value, lowest, highest) => Within(value', lowest, highest)
            /\ highest # Unset /\ value > highest => Within(value', lowest, value)
            /\ lowest # Unset /\ value < lowest => Within(value', value, highest)
    ]_guardrailsVars
=============================================================================
