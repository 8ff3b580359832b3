----------------------------- MODULE TuningProofs -----------------------------
(***************************************************************************)
(* Theorems about how an agent tunes a run: the guardrails a change has to *)
(* pass, the advisor that suggests changes and is told of their outcome,   *)
(* and the tuning itself, from the commands that the agent sends to the    *)
(* metrics it reports.                                                     *)
(***************************************************************************)
EXTENDS Tuning, Guardrails, SequenceTheorems, FiniteSetTheorems, TLAPS

-----------------------------------------------------------------------------
(***************************************************************************)
(* Guardrails, for all levels, bounds and factors, and any race of a       *)
(* change with the writes of set_guardrails.                               *)
(***************************************************************************)

(***************************************************************************)
(* What the setter has read and made of its value, against the loosest     *)
(* bounds since it began (lowest and highest): these cover the bounds in   *)
(* force and the minimum it has read; its value is within them once it is  *)
(* clamped, and stays on the way from there to the value in use when it is *)
(* limited.                                                                *)
(***************************************************************************)
CoversMin(lo) == lowest = Unset \/ (lo # Unset /\ lowest <= lo)
CoversMax(hi) == highest = Unset \/ (hi # Unset /\ hi <= highest)

Led(v) ==
  /\ Within(value, lowest, highest) => Within(v, lowest, highest)
  /\ highest # Unset /\ value > highest => Within(v, lowest, value)
  /\ lowest # Unset /\ value < lowest => Within(v, value, highest)

SetterOK ==
  /\ setter.at # "idle" => CoversMin(min) /\ CoversMax(max)
  /\ sane /\ setter.at # "idle" => Sensible
  /\ setter.at = "max" => CoversMin(setter.lo)
  /\ sane /\ setter.at = "factor" => Within(setter.val, lowest, highest)
  /\ sane /\ setter.at \in {"lower", "upper"} => Led(setter.val)

GuardrailsInv == GuardrailsTypeOK /\ SetterOK

\* All bounds are integers or unset.
LEMMA BoundsAreInts ==
  ASSUME GuardrailsTypeOK
  PROVE  /\ FiniteValues \subseteq Int /\ Unset \notin Int
         /\ min \in Int \cup {Unset} /\ max \in Int \cup {Unset}
         /\ factor \in Int \cup {Unset}
         /\ lowest \in Int \cup {Unset} /\ highest \in Int \cup {Unset}
         /\ setter.lo \in Int \cup {Unset}
BY LevelsAssumption DEF GuardrailsTypeOK, FiniteValues

\* What ClampToBounds returns is the value itself or one of the bounds.
LEMMA ClampedType ==
  ASSUME NEW v \in FiniteValues, NEW lo \in FiniteValues \cup {Unset},
         NEW hi \in FiniteValues \cup {Unset}
  PROVE  ClampToBounds(v, lo, hi) \in FiniteValues
BY DEF ClampToBounds, Raised, Lowered

(***************************************************************************)
(* The bounds are read one after the other, and the minimum may have       *)
(* changed when the maximum is read: the value is within the loosest       *)
(* bounds all the same, if those in force can be met.                      *)
(***************************************************************************)
LEMMA ClampFacts ==
  ASSUME NEW v \in Int, NEW lo \in Int \cup {Unset}, NEW hi \in Int \cup {Unset},
         NEW least \in Int \cup {Unset}, NEW most \in Int \cup {Unset}, NEW mn \in Int \cup {Unset},
         least = Unset \/ (lo # Unset /\ least <= lo),
         least = Unset \/ (mn # Unset /\ least <= mn),
         most = Unset \/ (hi # Unset /\ hi <= most),
         mn = Unset \/ hi = Unset \/ mn <= hi
  PROVE  Within(ClampToBounds(v, lo, hi), least, most)
BY LevelsAssumption DEF ClampToBounds, Raised, Lowered, Within

\* The lower limit leads no further than the value in use.
LEMMA RaisedFacts ==
  ASSUME NEW v \in Int, NEW c \in Int, NEW f \in Int, f >= 0
  PROVE  LET w == Raised(v, c - f) IN
         w \in Int /\ ((v <= w /\ w <= c) \/ (c <= w /\ w <= v))
BY LevelsAssumption DEF Raised

\* Nor does the upper one.
LEMMA LoweredFacts ==
  ASSUME NEW v \in Int, NEW c \in Int, NEW f \in Int, f >= 0
  PROVE  LET w == Lowered(v, c + f) IN
         w \in Int /\ ((v <= w /\ w <= c) \/ (c <= w /\ w <= v))
BY LevelsAssumption DEF Lowered

\* What lies between a value that was led and the value in use is led too.
LEMMA LedBetween ==
  ASSUME GuardrailsTypeOK, value \in Int,
         NEW v \in Int, NEW w \in Int, Led(v),
         (v <= w /\ w <= value) \/ (value <= w /\ w <= v)
  PROVE  Led(w)
BY BoundsAreInts DEF Led, Within

\* What is within the bounds is led.
LEMMA WithinIsLed ==
  ASSUME GuardrailsTypeOK, value \in Int, NEW v \in Int, Within(v, lowest, highest)
  PROVE  Led(v)
BY BoundsAreInts DEF Led, Within

-----------------------------------------------------------------------------
\* Values are configured at most, and no setter is at work.
LEMMA GuardrailsInitInv == GuardrailsInit => GuardrailsInv
BY DEF GuardrailsInit, GuardrailsInv, GuardrailsTypeOK, SetterOK, Idle, AnyValue

\* When the handler is through the history is cleared.
LEMMA FinishStep ==
  ASSUME GuardrailsInv, Finish, value' \in AnyValue
  PROVE  GuardrailsInv'
BY DEF GuardrailsInv, GuardrailsTypeOK, SetterOK, Finish, Idle, AnyValue

(***************************************************************************)
(* A write of set_guardrails: the loosest bounds now cover those it has    *)
(* put in force, and whatever they covered before.                         *)
(***************************************************************************)
LEMMA WriteStep ==
  ASSUME GuardrailsInv, Recorded, UNCHANGED <<value, setter>>,
         min' \in FiniteValues \cup {Unset}, max' \in FiniteValues \cup {Unset},
         factor' \in Factors \cup {Unset}, config' \in {"idle", "min", "max", "factor"}
  PROVE  GuardrailsInv'
<1>1. CASE setter.at = "idle"
  BY <1>1 DEF GuardrailsInv, GuardrailsTypeOK, SetterOK, Recorded, historyVars
<1>2. CASE setter.at # "idle"
  <2>1. /\ lowest' = LowerOf(lowest, min') /\ highest' = HigherOf(highest, max')
        /\ sane' = (sane /\ Sensible')
    BY <1>2 DEF Recorded
  <2>2. /\ FiniteValues \subseteq Int /\ Unset \notin Int
        /\ lowest \in FiniteValues \cup {Unset} /\ highest \in FiniteValues \cup {Unset}
        /\ setter.lo \in Int \cup {Unset}
    BY BoundsAreInts DEF GuardrailsInv, GuardrailsTypeOK
  <2>3. /\ lowest' \in FiniteValues \cup {Unset}
        /\ lowest' = Unset \/ (min' # Unset /\ lowest # Unset /\ lowest' <= min' /\ lowest' <= lowest)
    BY <2>1, <2>2 DEF LowerOf
  <2>4. /\ highest' \in FiniteValues \cup {Unset}
        /\ highest' = Unset \/ (max' # Unset /\ highest # Unset /\ max' <= highest' /\ highest <= highest')
    BY <2>1, <2>2 DEF HigherOf
  <2>5. GuardrailsTypeOK'
    BY <2>1, <2>3, <2>4 DEF GuardrailsInv, GuardrailsTypeOK
  <2>6. CoversMin(min)' /\ CoversMax(max)' /\ (sane' => Sensible')
    BY <2>1, <2>3, <2>4 DEF CoversMin, CoversMax
  <2>7. setter'.at = "max" => CoversMin(setter.lo)'
    BY <2>2, <2>3 DEF GuardrailsInv, SetterOK, CoversMin
  <2>8. ASSUME sane', setter'.at = "factor" PROVE Within(setter.val, lowest, highest)'
    <3>1. setter.val \in Int /\ Within(setter.val, lowest, highest)
      BY <2>1, <2>2, <2>8 DEF GuardrailsInv, GuardrailsTypeOK, SetterOK
    <3>2. QED
      BY <2>2, <2>3, <2>4, <3>1 DEF Within
  <2>9. ASSUME sane', setter'.at \in {"lower", "upper"} PROVE Led(setter.val)'
    <3>1. setter.val \in Int /\ value \in Int /\ Led(setter.val)
      BY <2>1, <2>2, <2>9 DEF GuardrailsInv, GuardrailsTypeOK, SetterOK, FiniteValues
    <3>2. value' = value /\ setter'.val = setter.val
      OBVIOUS
    <3>3. QED
      BY <2>2, <2>3, <2>4, <3>1, <3>2 DEF Led, Within
  <2>10. QED
    BY <2>5, <2>6, <2>7, <2>8, <2>9 DEF GuardrailsInv, SetterOK
<1>3. QED
  BY <1>1, <1>2

\* A change is asked for; the history begins with what is in force.
LEMMA RequestStep ==
  ASSUME GuardrailsInv, NEW v \in AnyValue, Request(v)
  PROVE  GuardrailsInv'
<1>1. /\ setter' = [at |-> "min", val |-> v, lo |-> Unset]
      /\ lowest' = min /\ highest' = max /\ sane' = Sensible
      /\ UNCHANGED <<value, min, max, factor, config>>
  BY DEF Request
<1>2. GuardrailsTypeOK'
  <2>1. v \in Int \cup {NonFinite} /\ Sensible \in BOOLEAN
    BY BoundsAreInts DEF GuardrailsInv, AnyValue, Sensible
  <2>2. QED
    BY <1>1, <2>1 DEF GuardrailsInv, GuardrailsTypeOK
<1>3. Sensible' = Sensible
  BY <1>1 DEF Sensible
<1>4. CoversMin(min)' /\ CoversMax(max)'
  BY <1>1, BoundsAreInts DEF GuardrailsInv, CoversMin, CoversMax
<1>5. QED
  BY <1>1, <1>2, <1>3, <1>4 DEF GuardrailsInv, SetterOK

\* The reads of validate up to the change.
LEMMA ReadStep ==
  ASSUME GuardrailsInv, ReadMin \/ ReadMax \/ FactorFound \/ LimitDown
  PROVE  GuardrailsInv'
<1> USE DEF GuardrailsInv
<1>1. UNCHANGED <<value, min, max, factor, config, lowest, highest, sane>>
  BY DEF ReadMin, ReadMax, FactorFound, LimitDown, historyVars
<1>2. /\ CoversMin(min)' = CoversMin(min) /\ CoversMax(max)' = CoversMax(max)
      /\ Sensible' = Sensible
  BY <1>1 DEF CoversMin, CoversMax, Sensible
<1>3. setter.at # "idle" /\ CoversMin(min) /\ CoversMax(max) /\ (sane => Sensible)
  BY DEF ReadMin, ReadMax, FactorFound, LimitDown, SetterOK
<1>4. FiniteValues \subseteq Int
  BY BoundsAreInts
<1>5. CASE ReadMin
  <2>1. setter' = [at |-> "max", val |-> setter.val, lo |-> min] /\ setter.val \in FiniteValues
    BY <1>5 DEF ReadMin, GuardrailsTypeOK, AnyValue
  <2>2. CoversMin(setter.lo)'
    BY <1>1, <1>3, <2>1 DEF CoversMin
  <2>3. GuardrailsTypeOK'
    BY <1>1, <2>1 DEF GuardrailsTypeOK
  <2>4. QED
    BY <1>1, <1>2, <1>3, <2>1, <2>2, <2>3 DEF SetterOK
<1>6. CASE ReadMax
  <2>1. /\ setter.at = "max" /\ setter.val \in FiniteValues /\ CoversMin(setter.lo)
        /\ setter' = [at |-> "factor", val |-> ClampToBounds(setter.val, setter.lo, max),
                      lo |-> Unset]
    BY <1>6 DEF ReadMax, GuardrailsTypeOK, SetterOK
  <2>2. PICK w : w = ClampToBounds(setter.val, setter.lo, max)
    OBVIOUS
  <2>3. w \in FiniteValues
    BY <2>1, <2>2, ClampedType DEF GuardrailsTypeOK
  <2>4. sane => Within(w, lowest, highest)
    BY <1>3, <1>4, <2>1, <2>2, BoundsAreInts, ClampFacts DEF CoversMin, CoversMax, Sensible
  <2>5. QED
    <3>1. setter' = [at |-> "factor", val |-> w, lo |-> Unset] /\ w \in Int
      BY <1>4, <2>1, <2>2, <2>3
    <3>2. GuardrailsTypeOK'
      BY <1>1, <2>3, <3>1 DEF GuardrailsTypeOK
    <3>3. sane' => Within(setter.val, lowest, highest)'
      BY <1>1, <2>4, <3>1 DEF Within
    <3>4. QED
      BY <1>1, <1>2, <1>3, <3>1, <3>2, <3>3 DEF SetterOK
<1>7. CASE FactorFound
  <2>1. /\ setter.at = "factor" /\ setter.val \in FiniteValues /\ value \in Levels
        /\ setter' = [at |-> "lower", val |-> setter.val, lo |-> setter.lo]
    BY <1>7 DEF FactorFound, GuardrailsTypeOK
  <2>2. sane => Led(setter.val)
    BY <1>4, <2>1, WithinIsLed DEF SetterOK, FiniteValues
  <2>3. sane' => Led(setter.val)'
    BY <1>1, <2>1, <2>2 DEF Led, Within
  <2>4. QED
    <3>1. GuardrailsTypeOK'
      BY <1>1, <1>4, <2>1 DEF GuardrailsTypeOK
    <3>2. QED
      BY <1>1, <1>2, <1>3, <2>1, <2>3, <3>1 DEF SetterOK
<1>8. CASE LimitDown
  <2>1. /\ setter.at = "lower" /\ setter.val \in Int /\ value \in Levels /\ value \in Int
        /\ factor \in Int
    BY <1>4, <1>8, BoundsAreInts DEF LimitDown, GuardrailsTypeOK, FiniteValues
  <2>2. PICK w : w = Raised(setter.val, value - factor)
    OBVIOUS
  <2>3. w \in Int
    BY <2>1, <2>2 DEF Raised
  <2>4. setter' = [at |-> "upper", val |-> w, lo |-> setter.lo]
    BY <1>8, <2>2 DEF LimitDown, GuardrailsTypeOK
  <2>5. ASSUME sane PROVE Led(w)
    <3>1. factor >= 0 /\ Led(setter.val)
      BY <1>3, <2>1, <2>5, LevelsAssumption DEF Sensible, SetterOK
    <3>2. (setter.val <= w /\ w <= value) \/ (value <= w /\ w <= setter.val)
      BY <2>1, <2>2, <3>1, RaisedFacts
    <3>3. QED
      BY <2>1, <2>3, <3>1, <3>2, LedBetween
  <2>6. sane' => Led(setter.val)'
    BY <1>1, <2>4, <2>5 DEF Led, Within
  <2>7. QED
    <3>1. GuardrailsTypeOK'
      BY <1>1, <2>1, <2>3, <2>4 DEF GuardrailsTypeOK
    <3>2. QED
      BY <1>1, <1>2, <1>3, <2>4, <2>6, <3>1 DEF SetterOK
<1>9. QED
  BY <1>5, <1>6, <1>7, <1>8

\* Every step of the setter, of set_guardrails and of the schedule keeps it.
LEMMA GuardrailsStepInv == GuardrailsInv /\ [GuardrailsNext]_guardrailsVars => GuardrailsInv'
<1> SUFFICES ASSUME GuardrailsInv, [GuardrailsNext]_guardrailsVars PROVE GuardrailsInv'
  OBVIOUS
<1>1. ASSUME NEW v \in AnyValue, Request(v) PROVE GuardrailsInv'
  BY <1>1, RequestStep
<1>2. CASE PassNonFinite
  BY <1>2, FinishStep DEF PassNonFinite, Apply, AnyValue
<1>3. CASE ReadMin \/ ReadMax \/ FactorFound \/ LimitDown
  BY <1>3, ReadStep
<1>4. CASE ApplyUnlimited
  <2>1. setter.val \in AnyValue
    BY <1>4 DEF ApplyUnlimited, GuardrailsInv, GuardrailsTypeOK, AnyValue
  <2>2. QED
    BY <1>4, <2>1, FinishStep DEF ApplyUnlimited, Apply
<1>5. CASE ApplyLimited
  BY <1>5, FinishStep DEF ApplyLimited, Apply, AnyValue
<1>6. CASE LimitRaises
  BY <1>6, FinishStep DEF LimitRaises, GuardrailsInv, GuardrailsTypeOK
<1>7. CASE StartConfig
  BY <1>7 DEF StartConfig, historyVars, GuardrailsInv, GuardrailsTypeOK, SetterOK,
     CoversMin, CoversMax, Sensible, Led, Within
<1>8. CASE WriteMin
  <2>1. min' \in FiniteValues \cup {Unset}
    BY <1>8 DEF WriteMin, Merged, GuardrailsInv, GuardrailsTypeOK
  <2>2. QED
    BY <1>8, <2>1, WriteStep DEF WriteMin, GuardrailsInv, GuardrailsTypeOK
<1>9. CASE WriteMax
  <2>1. max' \in FiniteValues \cup {Unset}
    BY <1>9 DEF WriteMax, Merged, GuardrailsInv, GuardrailsTypeOK
  <2>2. QED
    BY <1>9, <2>1, WriteStep DEF WriteMax, GuardrailsInv, GuardrailsTypeOK
<1>10. CASE WriteFactor
  <2>1. factor' \in Factors \cup {Unset}
    BY <1>10 DEF WriteFactor, Merged, GuardrailsInv, GuardrailsTypeOK
  <2>2. QED
    BY <1>10, <2>1, WriteStep DEF WriteFactor, GuardrailsInv, GuardrailsTypeOK
<1>11. CASE Schedule
  BY <1>11 DEF Schedule, historyVars, GuardrailsInv, GuardrailsTypeOK, SetterOK
<1>12. CASE UNCHANGED guardrailsVars
  BY <1>12 DEF guardrailsVars, historyVars, GuardrailsInv, GuardrailsTypeOK, SetterOK,
     CoversMin, CoversMax, Sensible, Led, Within
<1>13. QED
  BY <1>1, <1>2, <1>3, <1>4, <1>5, <1>6, <1>7, <1>8, <1>9, <1>10, <1>11, <1>12
  DEF GuardrailsNext

\* The types, and what the setter knows, whatever comes between its steps.
THEOREM GuardrailsInvariant == GuardrailsSpec => []GuardrailsInv
BY GuardrailsInitInv, GuardrailsStepInv, PTL DEF GuardrailsSpec

\* The types of the bounds, the setter and the history of its bounds.
THEOREM GuardrailsTypeCorrect == GuardrailsSpec => []GuardrailsTypeOK
BY GuardrailsInvariant, PTL DEF GuardrailsInv

(***************************************************************************)
(* Whatever set_guardrails does meanwhile, a change to a finite value      *)
(* under a configuration that is sensible throughout does not lead out of  *)
(* the bounds, and one from outside leads towards them.                    *)
(***************************************************************************)
THEOREM ChangesKeepToBounds == GuardrailsSpec => ChangesRespectBounds
<1> DEFINE Respects ==
      (ApplyUnlimited \/ ApplyLimited) /\ sane =>
         IF value = NonFinite
         THEN Within(value', lowest, highest)
         ELSE /\ Within(value, lowest, highest) => Within(value', lowest, highest)
              /\ highest # Unset /\ value > highest => Within(value', lowest, value)
              /\ lowest # Unset /\ value < lowest => Within(value', value, highest)
<1>1. ASSUME GuardrailsInv PROVE Respects
  <2> SUFFICES ASSUME ApplyUnlimited \/ ApplyLimited, sane
               PROVE  /\ value = NonFinite => Within(value', lowest, highest)
                      /\ value # NonFinite =>
                           /\ Within(value, lowest, highest) => Within(value', lowest, highest)
                           /\ highest # Unset /\ value > highest => Within(value', lowest, value)
                           /\ lowest # Unset /\ value < lowest => Within(value', value, highest)
    OBVIOUS
  <2>1. GuardrailsTypeOK /\ FiniteValues \subseteq Int /\ Unset \notin Int /\ Levels \subseteq Int
    BY <1>1, BoundsAreInts, LevelsAssumption DEF GuardrailsInv
  <2>2. CASE ApplyUnlimited
    <3>1. value' = setter.val /\ setter.val \in Int /\ Within(setter.val, lowest, highest)
      BY <1>1, <2>1, <2>2 DEF ApplyUnlimited, Apply, GuardrailsInv, GuardrailsTypeOK, SetterOK
    <3>2. value # NonFinite => value \in Int
      BY <2>1 DEF GuardrailsTypeOK, AnyValue
    <3>3. value # NonFinite => Led(setter.val)
      BY <2>1, <3>1, <3>2, WithinIsLed
    <3>4. QED
      BY <3>1, <3>3 DEF Led
  <2>3. CASE ApplyLimited
    <3>1. /\ value \in Int /\ setter.val \in Int /\ Led(setter.val) /\ factor \in Int
          /\ factor >= 0 /\ value' = Lowered(setter.val, value + factor)
      BY <1>1, <2>1, <2>3, LevelsAssumption
      DEF ApplyLimited, Apply, GuardrailsInv, GuardrailsTypeOK, SetterOK, Sensible
    <3>2. PICK w : w = Lowered(setter.val, value + factor)
      OBVIOUS
    <3>3. w \in Int /\ ((setter.val <= w /\ w <= value) \/ (value <= w /\ w <= setter.val))
      BY <3>1, <3>2, LoweredFacts
    <3>4. Led(w)
      BY <2>1, <3>1, <3>3, LedBetween
    <3>5. value # NonFinite
      BY <3>1, LevelsAssumption
    <3>6. QED
      BY <3>1, <3>2, <3>4, <3>5 DEF Led
  <2>4. QED
    BY <2>2, <2>3
<1>2. QED
  BY <1>1, GuardrailsInvariant, PTL DEF GuardrailsSpec, ChangesRespectBounds

-----------------------------------------------------------------------------
(***************************************************************************)
(* Advisor.  LiveTrialsRun is inductive together with the types: whatever  *)
(* the order in which the HPO tools are called, and with whatever trial    *)
(* ids.                                                                    *)
(***************************************************************************)

AdvisorInv == AdvisorTypeOK /\ LiveTrialsRun

\* A new table is empty.
LEMMA AdvisorInitInv == AdvisorInit => AdvisorInv
<1> SUFFICES ASSUME AdvisorInit PROVE AdvisorInv
  OBVIOUS
<1>1. study \in Seq(Trials)
  BY DEF AdvisorInit
<1>2. Len(study) <= MaxAsked
  BY AdvisorAssumption DEF AdvisorInit
<1>3. configured \in BOOLEAN /\ live = {}
  BY DEF AdvisorInit
<1> QED
  BY <1>1, <1>2, <1>3 DEF AdvisorInv, AdvisorTypeOK, LiveTrialsRun

\* A trial that Optuna is asked for joins the study as one of Trials; the
\* others stay as they are.
LEMMA AskAppends ==
  ASSUME study \in Seq(Trials), NEW p \in Space, Ask(p)
  PROVE  /\ study' \in Seq(Trials)
         /\ Len(study') = Len(study) + 1
         /\ study'[Len(study) + 1].state = "RUNNING"
         /\ \A t \in DOMAIN study : study'[t] = study[t]
<1>1. [lr |-> p, state |-> "RUNNING", value |-> None] \in Trials
  BY DEF Trials
<1> QED
  BY <1>1 DEF Ask

\* Telling a trial of the study its outcome changes that trial alone.
LEMMA TellSettles ==
  ASSUME study \in Seq(Trials), NEW t \in DOMAIN study,
         NEW state \in {"COMPLETE", "PRUNED"}, NEW v \in Values, Tell(t, state, v)
  PROVE  /\ study' \in Seq(Trials)
         /\ Len(study') = Len(study)
         /\ \A u \in DOMAIN study : u # t => study'[u] = study[u]
<1>1. CASE study[t].state = "RUNNING"
  <2>1. study' = [study EXCEPT ![t] = [study[t] EXCEPT !.state = state, !.value = v]]
    BY <1>1 DEF Tell
  <2>2. [study[t] EXCEPT !.state = state, !.value = v] \in Trials
    <3>1. study[t] \in Trials
      OBVIOUS
    <3> QED
      BY <3>1 DEF Trials
  <2> QED
    BY <2>1, <2>2
<1>2. CASE study[t].state # "RUNNING"
  BY <1>2 DEF Tell
<1> QED
  BY <1>1, <1>2

\* A trial that is asked for, whether or not it enters the table, is running.
LEMMA SuggestPreserves ==
  ASSUME AdvisorInv, NEW p \in Space, Suggest(p) \/ SuggestRaises(p)
  PROVE  AdvisorInv'
<1>1. study \in Seq(Trials) /\ Len(study) < MaxAsked /\ Ask(p)
  BY DEF AdvisorInv, AdvisorTypeOK, Suggest, SuggestRaises
<1>2. live' \subseteq live \cup {Len(study) + 1}
  BY DEF Suggest, SuggestRaises
<1>3. /\ study' \in Seq(Trials)
      /\ Len(study') = Len(study) + 1
      /\ study'[Len(study) + 1].state = "RUNNING"
      /\ \A t \in DOMAIN study : study'[t] = study[t]
  BY <1>1, AskAppends
<1>4. AdvisorTypeOK'
  <2>1. configured' \in BOOLEAN
    BY DEF AdvisorInv, AdvisorTypeOK, Suggest, SuggestRaises
  <2>2. Len(study) \in Nat
    BY <1>1
  <2>3. Len(study') <= MaxAsked /\ live' \subseteq Ids
    BY <1>1, <1>2, <1>3, <2>2, AdvisorAssumption DEF AdvisorInv, AdvisorTypeOK, Ids
  <2> QED
    BY <1>3, <2>1, <2>3 DEF AdvisorTypeOK
<1>5. LiveTrialsRun'
  BY <1>1, <1>2, <1>3 DEF AdvisorInv, LiveTrialsRun
<1> QED
  BY <1>4, <1>5 DEF AdvisorInv

\* A trial that is settled is no longer in the table.
LEMMA SettlePreserves ==
  ASSUME AdvisorInv, NEW t, NEW state \in {"COMPLETE", "PRUNED"}, NEW v \in Values,
         Settle(t, state, v)
  PROVE  AdvisorInv'
<1>1. study \in Seq(Trials) /\ t \in DOMAIN study /\ Tell(t, state, v)
  BY DEF AdvisorInv, AdvisorTypeOK, LiveTrialsRun, Settle
<1>2. /\ study' \in Seq(Trials)
      /\ Len(study') = Len(study)
      /\ \A u \in DOMAIN study : u # t => study'[u] = study[u]
  BY <1>1, TellSettles
<1>3. AdvisorTypeOK'
  BY <1>1, <1>2, AdvisorAssumption DEF AdvisorInv, AdvisorTypeOK, Settle
<1>4. LiveTrialsRun'
  BY <1>1, <1>2 DEF AdvisorInv, LiveTrialsRun, Settle
<1> QED
  BY <1>3, <1>4 DEF AdvisorInv

\* Every call of a tool keeps the invariant.
LEMMA AdvisorStepInv ==
  ASSUME AdvisorInv, [AdvisorNext]_advisorVars
  PROVE  AdvisorInv'
<1>1. CASE Configure
  BY <1>1, AdvisorAssumption DEF Configure, AdvisorInv, AdvisorTypeOK, LiveTrialsRun
<1>2. ASSUME NEW p \in Space, Suggest(p) \/ SuggestRaises(p)
      PROVE  AdvisorInv'
  BY <1>2, SuggestPreserves
<1>3. CASE UNCHANGED advisorVars
  BY <1>3 DEF advisorVars, AdvisorInv, AdvisorTypeOK, LiveTrialsRun
<1>4. ASSUME NEW t \in Ids, NEW v \in Values, Report(t, v) \/ ReportIntermediate(t, v)
      PROVE  AdvisorInv'
  <2>1. \/ UNCHANGED advisorVars
        \/ Settle(t, "COMPLETE", v) \/ Settle(t, "PRUNED", v)
    BY <1>4 DEF Report, ReportIntermediate
  <2> QED
    BY <1>3, <2>1, SettlePreserves
<1> QED
  BY <1>1, <1>2, <1>3, <1>4 DEF AdvisorNext

(***************************************************************************)
(* The types of the study and LiveTrialsRun hold in every behaviour of     *)
(* the tools.                                                              *)
(***************************************************************************)
THEOREM AdvisorInvariant == AdvisorSpec => []AdvisorInv
<1>1. AdvisorInv /\ [AdvisorNext]_advisorVars => AdvisorInv'
  BY AdvisorStepInv
<1> QED
  BY <1>1, AdvisorInitInv, PTL DEF AdvisorSpec

(***************************************************************************)
(* A trial in _live_trials is running in the study in use, however the     *)
(* tools are called (optuna_advisor.py): study.tell is never refused for a *)
(* trial that the table lets through.  Which study the caller means is not *)
(* known: ids begin anew with each.                                        *)
(***************************************************************************)
THEOREM TableFollowsStudy == AdvisorSpec => []LiveTrialsRun
<1>1. AdvisorInv => LiveTrialsRun
  BY DEF AdvisorInv
<1> QED
  BY <1>1, AdvisorInvariant, PTL
-----------------------------------------------------------------------------
(***************************************************************************)
(* Tuning, for every job, agent, number of faults and of epochs.  First    *)
(* what holds whatever goes wrong.                                         *)
(***************************************************************************)

Types == {RunAgent[i].type : i \in DOMAIN RunAgent}
Args == Int \cup {RunAgent[i].arg : i \in DOMAIN RunAgent}
Commanded == [type : Types, arg : Args]
Statuses == {"pending", "in_progress", "done", "failed", "unknown"}
Entries == [push : Nat, loss : Losses \cup {None}, under : Rates \cup {None}]

Cmds == 1..Len(sent)
Holds(s, c) == \E i \in DOMAIN s : s[i] = c
Once(s) == \A i, j \in DOMAIN s : i # j => s[i] # s[j]
InHand(c) == Holds(batch, c) \/ Holds(deferred, c) \/ Holds(hand, c)
Changes(c) == sent[c].type \in Changing
IsSaved(s) == s \in Cmds /\ sent[s].type = "save_checkpoint" /\ s \in DOMAIN saved

\* The broker's tables have one entry for each command.
BrokerTypes ==
  /\ sent \in Seq(Commanded)
  /\ status \in Seq(Statuses) /\ Len(status) = Len(sent)
  /\ delivered \in Seq(0..MaxAttempts) /\ Len(delivered) = Len(sent)
  /\ meant \in Seq(Rates) /\ Len(meant) = Len(sent) + 1
  /\ queue \in Seq(Cmds)

\* A command that was never delivered has no answer; one that waits may still
\* be delivered.
Deliveries ==
  \A c \in Cmds :
    /\ delivered[c] = 0 => status[c] \in {"pending", "unknown"}
    /\ status[c] = "pending" => delivered[c] < MaxAttempts

\* The queue holds what is pending, once, and what was never delivered in the
\* order of sending.
QueueOK ==
  /\ Once(queue)
  /\ \A c \in Cmds : status[c] = "pending" <=> Holds(queue, c)
  /\ \A i, j \in DOMAIN queue :
       i < j /\ delivered[queue[i]] = 0 /\ delivered[queue[j]] = 0 => queue[i] < queue[j]

BrokerOK == BrokerTypes /\ Deliveries /\ QueueOK

\* The changes of the rate can be executed, whenever that is.
Executable ==
  \A c \in Cmds :
    /\ sent[c].type = "set_hyperparameters" => sent[c].arg \in Int
    /\ sent[c].type = "restore_checkpoint" => IsSaved(sent[c].arg) /\ sent[c].arg < c

JobTypes ==
  /\ lr \in Rates
  /\ polled \in BOOLEAN
  /\ jobAt \in {"train", "push", "drain", "claim", "ended"} /\ epoch \in 0..Epochs
  /\ measured \in [loss : Losses \cup {None}, under : Rates \cup {None}]
  /\ batch \in Seq(Cmds) /\ deferred \in Seq(Cmds) /\ hand \in Seq(Cmds)
  /\ \A s \in DOMAIN saved : saved[s] \in Rates

JobOK ==
  /\ \A c \in Cmds :
       /\ InHand(c) => delivered[c] > 0
       /\ Holds(hand, c) => sent[c].type \in SafeTypes
       /\ status[c] = "done" /\ sent[c].type = "save_checkpoint" => c \in DOMAIN saved
  /\ batch # <<>> => jobAt = "claim"
  /\ ~polled => deferred = <<>> /\ hand = <<>>
  /\ measured.loss # None => jobAt = "push"

AgentTypes ==
  /\ at \in {"start", "script", "wait", "configure", "suggest", "apply", "read", "report",
             "done", "crashed"}
  /\ step \in Taken \cup {0, Len(RunAgent) + 1}
  /\ trial \in [id : Ids, lr : Space] \cup {None}
  /\ latest \in Entries \cup {None} /\ reading \in Entries \cup {None}
  /\ pushes \in Nat /\ seen \in Nat \cup {None}
  /\ patient \in BOOLEAN

AgentOK ==
  /\ at = "script" => step \in Taken
  /\ IF at = "wait" THEN Len(sent) > 0 /\ waiting = Len(sent) ELSE waiting = None
  /\ at \in {"start", "script", "configure", "suggest"} => trial = None
  /\ at \in {"apply", "read", "report"} => trial # None
  /\ at = "wait" /\ trial # None =>
       sent[waiting].type = "set_hyperparameters" /\ sent[waiting].arg = trial.lr
  /\ checkpoint # None => IsSaved(checkpoint)
  /\ latest # None => latest.push <= pushes

Sound ==
  /\ AdvisorInv
  /\ BrokerOK /\ Executable
  /\ JobTypes /\ JobOK
  /\ AgentTypes /\ AgentOK

-----------------------------------------------------------------------------
(***************************************************************************)
(* Lists of commands.                                                      *)
(***************************************************************************)
\* A list of commands is one of more commands.
LEMMA WiderSeq ==
  ASSUME NEW m \in Nat, NEW n \in Nat, m <= n, NEW s \in Seq(1..m)
  PROVE  s \in Seq(1..n)
<1>1. 1..m \subseteq 1..n
  OBVIOUS
<1> QED
  BY <1>1, SeqMonotonic

\* What is appended is the last entry.
LEMMA AppendFacts ==
  ASSUME NEW S, NEW s \in Seq(S), NEW x \in S
  PROVE  /\ Append(s, x) \in Seq(S) /\ Len(s) \in Nat
         /\ Len(Append(s, x)) = Len(s) + 1
         /\ DOMAIN s = 1..Len(s) /\ DOMAIN Append(s, x) = 1..(Len(s) + 1)
         /\ Append(s, x)[Len(s) + 1] = x
         /\ \A i \in 1..Len(s) : Append(s, x)[i] = s[i]
         /\ \A c : Holds(Append(s, x), c) <=> Holds(s, c) \/ c = x
         /\ Once(s) /\ ~Holds(s, x) => Once(Append(s, x))
<1>1. /\ Append(s, x) \in Seq(S) /\ Len(s) \in Nat
      /\ Len(Append(s, x)) = Len(s) + 1
      /\ Append(s, x)[Len(s) + 1] = x
      /\ \A i \in 1..Len(s) : Append(s, x)[i] = s[i]
  BY AppendProperties, LenProperties
<1>2. DOMAIN s = 1..Len(s) /\ DOMAIN Append(s, x) = 1..(Len(s) + 1)
  BY <1>1, LenProperties
<1>3. \A c : Holds(Append(s, x), c) <=> Holds(s, c) \/ c = x
  <2> DEFINE t == Append(s, x)
             n == Len(s)
  <2>1. /\ n \in Nat /\ DOMAIN s = 1..n /\ DOMAIN t = 1..(n + 1)
        /\ t[n + 1] = x /\ \A i \in 1..n : t[i] = s[i]
    BY <1>1, <1>2
  <2> HIDE DEF t, n
  <2>2. \A c : Holds(t, c) <=> Holds(s, c) \/ c = x
    BY <2>1 DEF Holds
  <2> QED
    BY <2>2 DEF t
<1>4. Once(s) /\ ~Holds(s, x) => Once(Append(s, x))
  <2> DEFINE t == Append(s, x)
             n == Len(s)
  <2>1. /\ n \in Nat /\ DOMAIN s = 1..n /\ DOMAIN t = 1..(n + 1)
        /\ t[n + 1] = x /\ \A i \in 1..n : t[i] = s[i]
    BY <1>1, <1>2
  <2> HIDE DEF t, n
  <2>2. Once(s) /\ ~Holds(s, x) => Once(t)
    BY <2>1 DEF Holds, Once
  <2> QED
    BY <2>2 DEF t
<1> QED
  BY <1>1, <1>2, <1>3, <1>4

\* The head and what is behind it.
LEMMA TailFacts ==
  ASSUME NEW S, NEW s \in Seq(S), s # <<>>
  PROVE  /\ Tail(s) \in Seq(S) /\ Len(s) \in Nat \ {0} /\ Len(Tail(s)) = Len(s) - 1
         /\ DOMAIN s = 1..Len(s) /\ DOMAIN Tail(s) = 1..(Len(s) - 1)
         /\ \A i \in 1..(Len(s) - 1) : Tail(s)[i] = s[i + 1]
         /\ Head(s) = s[1] /\ Head(s) \in S
         /\ \A c : Holds(s, c) <=> Holds(Tail(s), c) \/ c = Head(s)
         /\ Once(s) => Once(Tail(s)) /\ ~Holds(Tail(s), Head(s))
<1>1. /\ Tail(s) \in Seq(S) /\ Len(s) \in Nat \ {0} /\ Len(Tail(s)) = Len(s) - 1
      /\ DOMAIN s = 1..Len(s) /\ DOMAIN Tail(s) = 1..(Len(s) - 1)
      /\ \A i \in 1..(Len(s) - 1) : Tail(s)[i] = s[i + 1]
      /\ Head(s) = s[1] /\ Head(s) \in S
  BY HeadTailProperties, LenProperties, EmptySeq
<1>2. DEFINE t == Tail(s)
             n == Len(s)
             h == Head(s)
<1>3. /\ n \in Nat \ {0} /\ DOMAIN s = 1..n /\ DOMAIN t = 1..(n - 1)
      /\ h = s[1] /\ \A i \in 1..(n - 1) : t[i] = s[i + 1]
  BY <1>1
<1> HIDE DEF t, n, h
<1>4. \A c : Holds(s, c) => Holds(t, c) \/ c = h
  <2> SUFFICES ASSUME NEW i \in 1..n, i # 1 PROVE Holds(t, s[i])
    BY <1>3 DEF Holds
  <2>1. i - 1 \in 1..(n - 1) /\ t[i - 1] = s[i]
    BY <1>3
  <2> QED
    BY <1>3, <2>1 DEF Holds
<1>5. \A c : Holds(t, c) \/ c = h => Holds(s, c)
  <2>1. Holds(s, h)
    BY <1>3 DEF Holds
  <2>2. \A i \in 1..(n - 1) : i + 1 \in 1..n /\ t[i] = s[i + 1]
    BY <1>3
  <2> QED
    BY <1>3, <2>1, <2>2 DEF Holds
<1>6. Once(s) => Once(t) /\ ~Holds(t, h)
  <2> SUFFICES ASSUME Once(s) PROVE Once(t) /\ ~Holds(t, h)
    OBVIOUS
  <2>1. \A i, j \in 1..n : i # j => s[i] # s[j]
    BY <1>3 DEF Once
  <2>2. \A i \in 1..(n - 1) : t[i] = s[i + 1] /\ i + 1 \in 1..n /\ i + 1 # 1
    BY <1>3
  <2>3. Once(t)
    <3> SUFFICES ASSUME NEW i \in 1..(n - 1), NEW j \in 1..(n - 1), i # j PROVE t[i] # t[j]
      BY <1>3 DEF Once
    <3>1. i + 1 # j + 1
      OBVIOUS
    <3> QED
      BY <2>1, <2>2, <3>1
  <2>4. ~Holds(t, h)
    BY <1>3, <2>1, <2>2 DEF Holds
  <2> QED
    BY <2>3, <2>4
<1> QED
  BY <1>1, <1>4, <1>5, <1>6 DEF t, n, h

\* A list of one, and of none.
LEMMA SingleFacts ==
  /\ \A c, d : Holds(<<c>>, d) <=> d = c
  /\ \A d : ~Holds(<<>>, d)
  /\ \A c : Once(<<c>>)
  /\ Once(<<>>)
BY DEF Holds, Once

-----------------------------------------------------------------------------
(***************************************************************************)
(* The broker.                                                             *)
(***************************************************************************)
LEMMA ClampType == \A v \in Int : Clamp(v) \in Rates
BY RatesAssumption DEF Clamp, Rates

\* What may be sent.
Sendable(type, arg) ==
  /\ [type |-> type, arg |-> arg] \in Commanded
  /\ type = "set_hyperparameters" => arg \in Int
  /\ type = "restore_checkpoint" => IsSaved(arg)

\* A command that is sent is the last one, and waits behind the others.
LEMMA EnqueueFacts ==
  ASSUME BrokerOK, NEW type, NEW arg, Sendable(type, arg), Enqueue(type, arg)
  PROVE  /\ BrokerTypes'
         /\ Len(sent) \in Nat /\ Len(sent') = Len(sent) + 1
         /\ sent'[Len(sent) + 1] = [type |-> type, arg |-> arg]
         /\ status'[Len(sent) + 1] = "pending" /\ delivered'[Len(sent) + 1] = 0
         /\ meant'[Len(sent) + 2] = Meant(type, arg)
         /\ \A c \in Cmds : /\ sent'[c] = sent[c] /\ status'[c] = status[c]
                            /\ delivered'[c] = delivered[c]
         /\ \A n \in 1..(Len(sent) + 1) : meant'[n] = meant[n]
         /\ Append(queue, Len(sent) + 1) \in Seq(1..(Len(sent) + 1))
         /\ queue \in Seq(1..(Len(sent) + 1))
<1>1. /\ sent \in Seq(Commanded) /\ status \in Seq(Statuses) /\ delivered \in Seq(0..MaxAttempts)
      /\ Len(status) = Len(sent) /\ Len(delivered) = Len(sent)
      /\ meant \in Seq(Rates) /\ Len(meant) = Len(sent) + 1 /\ queue \in Seq(1..Len(sent))
  BY DEF BrokerOK, BrokerTypes, Cmds
<1>2. /\ sent' = Append(sent, [type |-> type, arg |-> arg]) /\ status' = Append(status, "pending")
      /\ delivered' = Append(delivered, 0) /\ queue' = Append(queue, Len(sent) + 1)
      /\ meant' = Append(meant, Meant(type, arg))
  BY DEF Enqueue
<1>3. /\ sent' \in Seq(Commanded) /\ Len(sent) \in Nat /\ Len(sent') = Len(sent) + 1
      /\ sent'[Len(sent) + 1] = [type |-> type, arg |-> arg]
      /\ \A c \in 1..Len(sent) : sent'[c] = sent[c]
  BY <1>1, <1>2, AppendFacts DEF Sendable
<1>4. /\ status' \in Seq(Statuses) /\ Len(status') = Len(sent) + 1
      /\ status'[Len(sent) + 1] = "pending"
      /\ \A c \in 1..Len(sent) : status'[c] = status[c]
  <2>1. "pending" \in Statuses
    BY DEF Statuses
  <2> QED
    BY <1>1, <1>2, <2>1, AppendFacts
<1>5. /\ delivered' \in Seq(0..MaxAttempts) /\ Len(delivered') = Len(sent) + 1
      /\ delivered'[Len(sent) + 1] = 0
      /\ \A c \in 1..Len(sent) : delivered'[c] = delivered[c]
  <2>1. 0 \in 0..MaxAttempts
    BY AttemptsAssumption
  <2> QED
    BY <1>1, <1>2, <2>1, AppendFacts
<1>6. Meant(type, arg) \in Rates
  <2>1. \A n \in 1..(Len(sent) + 1) : meant[n] \in Rates
    BY <1>1, <1>3, ElementOfSeq
  <2>2. CASE type = "set_hyperparameters"
    BY <2>2, ClampType DEF Meant, Sendable
  <2>3. CASE type = "restore_checkpoint"
    <3>1. arg + 1 \in 1..(Len(sent) + 1)
      BY <1>3, <2>3 DEF Sendable, IsSaved, Cmds
    <3> QED
      BY <2>1, <2>3, <3>1 DEF Meant
  <2>4. CASE type # "set_hyperparameters" /\ type # "restore_checkpoint"
    <3>1. Len(sent) + 1 \in 1..(Len(sent) + 1)
      BY <1>3
    <3> QED
      BY <2>1, <2>4, <3>1 DEF Meant
  <2> QED
    BY <2>2, <2>3, <2>4
<1>7. /\ meant' \in Seq(Rates) /\ Len(meant') = Len(sent) + 2
      /\ meant'[Len(sent) + 2] = Meant(type, arg)
      /\ \A n \in 1..(Len(sent) + 1) : meant'[n] = meant[n]
  <2>1. Len(meant) + 1 = Len(sent) + 2
    BY <1>1, <1>3
  <2> QED
    BY <1>1, <1>2, <1>6, <2>1, AppendFacts
<1>8. /\ Append(queue, Len(sent) + 1) \in Seq(1..(Len(sent) + 1))
      /\ queue \in Seq(1..(Len(sent) + 1))
  <2>1. queue \in Seq(1..(Len(sent) + 1)) /\ Len(sent) + 1 \in 1..(Len(sent) + 1)
    BY <1>1, <1>3, WiderSeq
  <2> QED
    BY <2>1, AppendFacts
<1> QED
  BY <1>1, <1>2, <1>3, <1>4, <1>5, <1>7, <1>8 DEF BrokerTypes, Cmds

\* What is sent keeps the broker's tables.
LEMMA EnqueueBroker ==
  ASSUME BrokerOK, NEW type, NEW arg, Sendable(type, arg), Enqueue(type, arg)
  PROVE  BrokerOK'
<1> DEFINE n == Len(sent)
<1>1. /\ BrokerTypes' /\ n \in Nat /\ Len(sent') = n + 1
      /\ status'[n + 1] = "pending" /\ delivered'[n + 1] = 0
      /\ \A c \in 1..n : status'[c] = status[c] /\ delivered'[c] = delivered[c]
      /\ Append(queue, n + 1) \in Seq(1..(n + 1)) /\ queue \in Seq(1..(n + 1))
  BY EnqueueFacts DEF Cmds
<1>2. queue' = Append(queue, n + 1)
  BY DEF Enqueue
<1>3. /\ \A i \in DOMAIN queue : queue[i] \in 1..n
      /\ Deliveries /\ QueueOK
  <2>1. queue \in Seq(1..n) /\ Deliveries /\ QueueOK
    BY DEF BrokerOK, BrokerTypes, Cmds
  <2> HIDE DEF n
  <2> QED
    BY <2>1, LenProperties, ElementOfSeq
<1> HIDE DEF n
<1>4. n + 1 \in 1..(n + 1)
  BY <1>1
<1>5. /\ DOMAIN queue = 1..Len(queue) /\ DOMAIN queue' = 1..(Len(queue) + 1)
      /\ Len(queue) \in Nat
      /\ queue'[Len(queue) + 1] = n + 1
      /\ \A i \in 1..Len(queue) : queue'[i] = queue[i]
      /\ \A c : Holds(queue', c) <=> Holds(queue, c) \/ c = n + 1
      /\ Once(queue) /\ ~Holds(queue, n + 1) => Once(queue')
  BY <1>1, <1>2, <1>4, AppendFacts
<1>6. ~Holds(queue, n + 1)
  BY <1>1, <1>3 DEF Holds
<1>7. Deliveries'
  <2> SUFFICES ASSUME NEW c \in 1..(n + 1)
               PROVE  /\ delivered'[c] = 0 => status'[c] \in {"pending", "unknown"}
                      /\ status'[c] = "pending" => delivered'[c] < MaxAttempts
    BY <1>1 DEF Deliveries, Cmds
  <2>1. CASE c = n + 1
    BY <1>1, <2>1, AttemptsAssumption
  <2>2. CASE c # n + 1
    <3>1. c \in 1..n
      BY <1>1, <2>2
    <3> QED
      BY <1>1, <1>3, <3>1 DEF Deliveries, Cmds, n
  <2> QED
    BY <2>1, <2>2
<1>8. QueueOK'
  <2>1. Once(queue)'
    BY <1>3, <1>5, <1>6 DEF QueueOK
  <2>2. \A c \in 1..(n + 1) : status'[c] = "pending" <=> Holds(queue, c)'
    <3> SUFFICES ASSUME NEW c \in 1..(n + 1)
                 PROVE  status'[c] = "pending" <=> Holds(queue', c)
      BY DEF Holds
    <3>1. CASE c = n + 1
      BY <1>1, <1>5, <3>1
    <3>2. CASE c # n + 1
      <4>1. c \in 1..n
        BY <1>1, <3>2
      <4> QED
        BY <1>1, <1>3, <1>5, <3>2, <4>1 DEF QueueOK, Cmds, n
    <3> QED
      BY <3>1, <3>2
  <2>3. ASSUME NEW i \in 1..(Len(queue) + 1), NEW j \in 1..(Len(queue) + 1), i < j,
               delivered'[queue'[i]] = 0, delivered'[queue'[j]] = 0
        PROVE  queue'[i] < queue'[j]
    <3>1. i \in 1..Len(queue) /\ queue'[i] = queue[i] /\ queue[i] \in 1..n
      BY <1>3, <1>5, <2>3
    <3>2. CASE j = Len(queue) + 1
      BY <1>1, <1>5, <3>1, <3>2
    <3>3. CASE j # Len(queue) + 1
      <4>1. j \in 1..Len(queue) /\ queue'[j] = queue[j] /\ queue[j] \in 1..n
        BY <1>3, <1>5, <2>3, <3>3
      <4>2. delivered[queue[i]] = 0 /\ delivered[queue[j]] = 0
        BY <1>1, <2>3, <3>1, <4>1
      <4>3. queue[i] < queue[j]
        BY <1>3, <1>5, <2>3, <3>1, <4>1, <4>2 DEF QueueOK
      <4> QED
        BY <3>1, <4>1, <4>3
    <3> QED
      BY <3>2, <3>3
  <2> QED
    BY <1>1, <1>5, <2>1, <2>2, <2>3 DEF QueueOK, Cmds
<1> QED
  BY <1>1, <1>7, <1>8 DEF BrokerOK

\* What can be executed can be executed with more checkpoints.
LEMMA EnqueueExecutable ==
  ASSUME BrokerOK, Executable, NEW type, NEW arg, Sendable(type, arg), Enqueue(type, arg),
         DOMAIN saved \subseteq DOMAIN saved'
  PROVE  Executable'
<1>1. /\ Len(sent) \in Nat /\ Len(sent') = Len(sent) + 1
      /\ sent'[Len(sent) + 1] = [type |-> type, arg |-> arg]
      /\ \A c \in 1..Len(sent) : sent'[c] = sent[c]
  BY EnqueueFacts DEF Cmds
<1> DEFINE Stays(s) == /\ s \in 1..(Len(sent) + 1) /\ s \in DOMAIN saved'
                       /\ sent'[s].type = "save_checkpoint"
<1>2. \A s : IsSaved(s) => Stays(s) /\ s < Len(sent) + 1
  BY <1>1 DEF IsSaved, Cmds
<1>3. ASSUME NEW c \in 1..(Len(sent) + 1)
      PROVE  /\ sent'[c].type = "set_hyperparameters" => sent'[c].arg \in Int
             /\ sent'[c].type = "restore_checkpoint" => Stays(sent'[c].arg) /\ sent'[c].arg < c
  <2> HIDE DEF Stays
  <2>1. CASE c = Len(sent) + 1
    BY <1>1, <1>2, <2>1 DEF Sendable
  <2>2. CASE c # Len(sent) + 1
    <3>1. c \in 1..Len(sent) /\ sent'[c] = sent[c]
      BY <1>1, <2>2
    <3> QED
      BY <1>2, <3>1 DEF Executable, Cmds
  <2> QED
    BY <2>1, <2>2
<1> QED
  BY <1>1, <1>3 DEF Executable, Cmds, IsSaved

\* A claim hands out the head of the queue, which waited; if it was never
\* delivered, nothing that was never delivered was sent before it.
LEMMA ClaimFacts ==
  ASSUME BrokerOK, ClaimNext
  PROVE  LET h == Head(queue) IN
         /\ BrokerOK' /\ UNCHANGED <<sent, meant>>
         /\ h \in Cmds /\ status[h] = "pending" /\ status'[h] = "in_progress"
         /\ delivered'[h] = delivered[h] + 1 /\ delivered[h] \in Nat
         /\ \A c \in Cmds : c # h => status'[c] = status[c] /\ delivered'[c] = delivered[c]
         /\ delivered[h] = 0 =>
              \A c \in Cmds : status[c] = "pending" /\ delivered[c] = 0 /\ c # h => h < c
<1> DEFINE h == Head(queue)
           t == Tail(queue)
           n == Len(queue)
<1>1. /\ queue # <<>> /\ queue' = t /\ UNCHANGED <<sent, meant>>
      /\ status' = [status EXCEPT ![h] = "in_progress"]
      /\ delivered' = [delivered EXCEPT ![h] = @ + 1]
  BY DEF ClaimNext, sentVars
<1>2. /\ sent \in Seq(Commanded) /\ status \in Seq(Statuses) /\ delivered \in Seq(0..MaxAttempts)
      /\ Len(status) = Len(sent) /\ Len(delivered) = Len(sent)
      /\ meant \in Seq(Rates) /\ Len(meant) = Len(sent) + 1 /\ queue \in Seq(Cmds)
      /\ Deliveries /\ QueueOK /\ Once(queue)
  BY DEF BrokerOK, BrokerTypes, QueueOK
<1>3. /\ t \in Seq(Cmds) /\ n \in Nat \ {0}
      /\ DOMAIN queue = 1..n /\ DOMAIN t = 1..(n - 1)
      /\ \A i \in 1..(n - 1) : t[i] = queue[i + 1]
      /\ h = queue[1] /\ h \in Cmds
      /\ \A c : Holds(queue, c) <=> Holds(t, c) \/ c = h
      /\ Once(t) /\ ~Holds(t, h)
  BY <1>1, <1>2, TailFacts
<1>4. Cmds' = Cmds /\ DOMAIN status = Cmds /\ DOMAIN delivered = Cmds
  BY <1>1, <1>2, LenProperties DEF Cmds
<1> HIDE DEF h, t, n
<1>5. status[h] = "pending" /\ delivered[h] \in Nat /\ delivered[h] < MaxAttempts
  <2>1. status[h] = "pending"
    BY <1>2, <1>3 DEF QueueOK
  <2>2. delivered[h] \in 0..MaxAttempts
    BY <1>2, <1>3, <1>4, ElementOfSeq DEF Cmds
  <2> QED
    BY <1>2, <1>3, <2>1, <2>2 DEF Deliveries
<1>6. /\ status'[h] = "in_progress" /\ delivered'[h] = delivered[h] + 1
      /\ \A c \in Cmds : c # h => status'[c] = status[c] /\ delivered'[c] = delivered[c]
  BY <1>1, <1>3, <1>4
<1>7. BrokerTypes'
  <2>1. status' \in Seq(Statuses) /\ Len(status') = Len(sent)
    <3>1. "in_progress" \in Statuses
      BY DEF Statuses
    <3> QED
      BY <1>1, <1>2, <1>3, <1>4, <3>1, ExceptSeq DEF Cmds
  <2>2. delivered' \in Seq(0..MaxAttempts) /\ Len(delivered') = Len(sent)
    <3>1. delivered[h] + 1 \in 0..MaxAttempts
      BY <1>5, AttemptsAssumption
    <3> QED
      BY <1>1, <1>2, <1>3, <1>4, <3>1, ExceptSeq DEF Cmds
  <2> QED
    BY <1>1, <1>2, <1>3, <1>4, <2>1, <2>2 DEF BrokerTypes
<1>8. Deliveries'
  <2> SUFFICES ASSUME NEW c \in Cmds
               PROVE  /\ delivered'[c] = 0 => status'[c] \in {"pending", "unknown"}
                      /\ status'[c] = "pending" => delivered'[c] < MaxAttempts
    BY <1>4 DEF Deliveries
  <2>1. CASE c = h
    BY <1>5, <1>6, <2>1
  <2>2. CASE c # h
    BY <1>2, <1>6, <2>2 DEF Deliveries
  <2> QED
    BY <2>1, <2>2
<1>9. QueueOK'
  <2>1. Once(queue)'
    BY <1>1, <1>3
  <2>2. \A c \in Cmds : status'[c] = "pending" <=> Holds(queue', c)
    <3> SUFFICES ASSUME NEW c \in Cmds PROVE status'[c] = "pending" <=> Holds(t, c)
      BY <1>1
    <3>1. status[c] = "pending" <=> Holds(queue, c)
      BY <1>2 DEF QueueOK
    <3> QED
      BY <1>3, <1>6, <3>1
  <2>3. ASSUME NEW i \in 1..(n - 1), NEW j \in 1..(n - 1), i < j,
               delivered'[t[i]] = 0, delivered'[t[j]] = 0
        PROVE  t[i] < t[j]
    <3>1. /\ i + 1 \in DOMAIN queue /\ j + 1 \in DOMAIN queue /\ i + 1 < j + 1
          /\ t[i] = queue[i + 1] /\ t[j] = queue[j + 1]
      BY <1>3, <2>3
    <3>2. t[i] \in Cmds /\ t[i] # h /\ t[j] \in Cmds /\ t[j] # h
      <4>1. t[i] \in Cmds /\ t[j] \in Cmds
        BY <1>3, ElementOfSeq
      <4>2. Holds(t, t[i]) /\ Holds(t, t[j])
        BY <1>3 DEF Holds
      <4> QED
        BY <1>3, <4>1, <4>2
    <3>3. delivered[queue[i + 1]] = 0 /\ delivered[queue[j + 1]] = 0
      BY <1>6, <2>3, <3>1, <3>2
    <3> QED
      BY <1>2, <3>1, <3>3 DEF QueueOK
  <2> QED
    BY <1>1, <1>3, <1>4, <2>1, <2>2, <2>3 DEF QueueOK
<1>10. ASSUME delivered[h] = 0, NEW c \in Cmds, status[c] = "pending", delivered[c] = 0, c # h
       PROVE  h < c
  <2>1. PICK i \in DOMAIN queue : queue[i] = c
    BY <1>2, <1>10 DEF QueueOK, Holds
  <2>2. 1 \in DOMAIN queue /\ 1 < i
    BY <1>3, <1>10, <2>1
  <2> QED
    BY <1>2, <1>3, <1>10, <2>1, <2>2 DEF QueueOK
<1>11. BrokerOK'
  BY <1>7, <1>8, <1>9 DEF BrokerOK
<1> QED
  BY <1>1, <1>3, <1>5, <1>6, <1>10, <1>11 DEF h

\* Without one entry a queue without doubles holds all the others.
LEMMA WithoutFacts ==
  ASSUME NEW S, queue \in Seq(S), Once(queue), NEW i \in DOMAIN queue
  PROVE  /\ Without(i) \in Seq(S) /\ Once(Without(i))
         /\ \A c : Holds(Without(i), c) <=> Holds(queue, c) /\ c # queue[i]
         /\ \A j, k \in DOMAIN Without(i) : j < k =>
              \E l, m \in DOMAIN queue : l < m /\ Without(i)[j] = queue[l] /\ Without(i)[k] = queue[m]
<1> DEFINE n == Len(queue)
           From(k) == IF k < i THEN k ELSE k + 1
           w == Without(i)
<1>1. /\ n \in Nat /\ DOMAIN queue = 1..n /\ i \in 1..n
      /\ \A k \in 1..n : queue[k] \in S
  BY LenProperties, ElementOfSeq
<1>2. n - 1 \in Nat /\ w = [k \in 1..(n - 1) |-> queue[From(k)]]
  BY <1>1 DEF Without
<1>3. \A k \in 1..(n - 1) : From(k) \in 1..n /\ From(k) # i
  BY <1>1
<1>4. \A j, k \in 1..(n - 1) : j < k => From(j) < From(k)
  BY <1>1
<1>5. \A l \in 1..n : l # i => \E k \in 1..(n - 1) : From(k) = l
  <2> SUFFICES ASSUME NEW l \in 1..n, l # i PROVE \E k \in 1..(n - 1) : From(k) = l
    OBVIOUS
  <2>1. CASE l < i
    <3>1. l \in 1..(n - 1) /\ From(l) = l
      BY <1>1, <2>1
    <3> QED
      BY <3>1
  <2>2. CASE l > i
    <3>1. l - 1 \in 1..(n - 1) /\ From(l - 1) = l
      BY <1>1, <2>2
    <3> QED
      BY <3>1
  <2> QED
    BY <1>1, <2>1, <2>2
<1>6. \A l, m \in 1..n : l # m => queue[l] # queue[m]
  BY <1>1 DEF Once
<1> HIDE DEF n, From, w
<1>7. DOMAIN w = 1..(n - 1) /\ \A k \in 1..(n - 1) : w[k] = queue[From(k)]
  BY <1>2
<1>8. w \in Seq(S)
  <2>1. w \in [1..(n - 1) -> S]
    BY <1>1, <1>2, <1>3
  <2> QED
    BY <1>2, <2>1, SeqDef
<1>9. Once(w)
  <2> SUFFICES ASSUME NEW j \in 1..(n - 1), NEW k \in 1..(n - 1), j # k PROVE w[j] # w[k]
    BY <1>7 DEF Once
  <2>1. From(j) # From(k)
    <3>1. j < k \/ k < j
      BY <1>2
    <3> QED
      BY <1>1, <1>3, <1>4, <3>1
  <2> QED
    BY <1>3, <1>6, <1>7, <2>1
<1>10. \A c : Holds(w, c) <=> Holds(queue, c) /\ c # queue[i]
  <2>1. ASSUME NEW k \in 1..(n - 1) PROVE Holds(queue, w[k]) /\ w[k] # queue[i]
    BY <1>1, <1>3, <1>6, <1>7 DEF Holds
  <2>2. ASSUME NEW l \in 1..n, queue[l] # queue[i] PROVE Holds(w, queue[l])
    <3>1. PICK k \in 1..(n - 1) : From(k) = l
      BY <1>5, <2>2
    <3> QED
      BY <1>7, <3>1 DEF Holds
  <2> QED
    BY <1>1, <1>7, <2>1, <2>2 DEF Holds
<1> DEFINE InFront(j, k) == \E l, m \in DOMAIN queue : l < m /\ w[j] = queue[l] /\ w[k] = queue[m]
<1>11. ASSUME NEW j \in 1..(n - 1), NEW k \in 1..(n - 1), j < k
       PROVE  InFront(j, k)
  <2>1. /\ From(j) \in DOMAIN queue /\ From(k) \in DOMAIN queue
        /\ w[j] = queue[From(j)] /\ w[k] = queue[From(k)]
    BY <1>1, <1>3, <1>7
  <2>2. From(j) < From(k)
    BY <1>4, <1>11
  <2> QED
    BY <2>1, <2>2
<1>12. \A j, k \in DOMAIN w : j < k => InFront(j, k)
  <2> HIDE DEF InFront
  <2> QED
    BY <1>7, <1>11
<1>13. w = Without(i)
  BY DEF w
<1> HIDE DEF w
<1>14. Without(i) \in Seq(S) /\ Once(Without(i))
  BY <1>8, <1>9, <1>13
<1>15. \A c : Holds(Without(i), c) <=> Holds(queue, c) /\ c # queue[i]
  BY <1>10, <1>13
<1>16. \A j, k \in DOMAIN Without(i) : j < k =>
         \E l, m \in DOMAIN queue : l < m /\ Without(i)[j] = queue[l] /\ Without(i)[k] = queue[m]
  BY <1>12, <1>13
<1> QED
  BY <1>14, <1>15, <1>16

\* A result is recorded for a command that was delivered, unless the broker
\* has forgotten it.
LEMMA CompleteFacts ==
  ASSUME BrokerOK, NEW c \in Cmds, delivered[c] > 0, NEW s \in {"done", "failed"},
         Complete(c, s), UNCHANGED <<sentVars, delivered>>
  PROVE  /\ BrokerOK'
         /\ status'[c] = IF status[c] = "unknown" THEN "unknown" ELSE s
         /\ \A d \in Cmds : d # c => status'[d] = status[d]
<1>1. /\ sent \in Seq(Commanded) /\ status \in Seq(Statuses) /\ delivered \in Seq(0..MaxAttempts)
      /\ Len(status) = Len(sent) /\ Len(delivered) = Len(sent)
      /\ meant \in Seq(Rates) /\ Len(meant) = Len(sent) + 1 /\ queue \in Seq(Cmds)
      /\ Deliveries /\ QueueOK /\ Once(queue)
  BY DEF BrokerOK, BrokerTypes, QueueOK
<1>2. /\ sent' = sent /\ meant' = meant /\ delivered' = delivered
      /\ Cmds' = Cmds /\ DOMAIN status = Cmds
  BY <1>1, LenProperties DEF sentVars, Cmds
<1>3. CASE status[c] = "unknown"
  <2>1. status' = status /\ queue' = queue
    BY <1>3 DEF Complete
  <2> QED
    BY <1>2, <1>3, <2>1 DEF BrokerOK, BrokerTypes, Deliveries, QueueOK
<1>4. CASE status[c] # "unknown"
  <2>1. status' = [status EXCEPT ![c] = s]
    BY <1>4 DEF Complete
  <2>2. /\ status'[c] = s /\ \A d \in Cmds : d # c => status'[d] = status[d]
        /\ status' \in Seq(Statuses) /\ Len(status') = Len(sent)
    <3>1. s \in Statuses
      BY DEF Statuses
    <3> QED
      BY <1>1, <1>2, <2>1, <3>1, ExceptSeq DEF Cmds
  <2>3. Deliveries'
    BY <1>1, <1>2, <2>2 DEF Deliveries
  <2>4. queue' \in Seq(Cmds) /\ QueueOK'
    <3>1. CASE status[c] = "pending"
      <4>1. PICK i \in DOMAIN queue : queue[i] = c /\ queue' = Without(i)
        BY <1>4, <3>1 DEF Complete
      <4>2. /\ queue' \in Seq(Cmds) /\ Once(queue')
            /\ \A d : Holds(queue', d) <=> Holds(queue, d) /\ d # c
            /\ \A j, k \in DOMAIN queue' : j < k =>
                 \E l, m \in DOMAIN queue :
                   l < m /\ queue'[j] = queue[l] /\ queue'[k] = queue[m]
        BY <1>1, <4>1, WithoutFacts
      <4>3. \A d \in Cmds : status'[d] = "pending" <=> Holds(queue', d)
        BY <1>1, <2>2, <4>2 DEF QueueOK
      <4>4. \A j, k \in DOMAIN queue' :
              j < k /\ delivered[queue'[j]] = 0 /\ delivered[queue'[k]] = 0 => queue'[j] < queue'[k]
        BY <1>1, <4>2 DEF QueueOK
      <4> QED
        BY <1>2, <4>2, <4>3, <4>4 DEF QueueOK
    <3>2. CASE status[c] # "pending"
      <4>1. queue' = queue
        BY <1>4, <3>2 DEF Complete
      <4> QED
        BY <1>1, <1>2, <2>2, <3>2, <4>1 DEF QueueOK
    <3> QED
      BY <3>1, <3>2
  <2> QED
    BY <1>1, <1>2, <1>4, <2>2, <2>3, <2>4 DEF BrokerOK, BrokerTypes
<1> QED
  BY <1>3, <1>4

\* A command whose lease ran out goes back to the head of the queue, or is
\* given up after its last delivery.
LEMMA ExpireFacts ==
  ASSUME BrokerOK, NEW c \in Cmds, LeaseExpires(c)
  PROVE  /\ BrokerOK' /\ UNCHANGED <<sent, meant, delivered>>
         /\ status[c] = "in_progress" /\ delivered[c] > 0
         /\ \/ status'[c] = "pending"
            \/ status'[c] = "failed" /\ delivered[c] >= MaxAttempts
         /\ \A d \in Cmds : d # c => status'[d] = status[d]
<1>1. /\ sent \in Seq(Commanded) /\ status \in Seq(Statuses) /\ delivered \in Seq(0..MaxAttempts)
      /\ Len(status) = Len(sent) /\ Len(delivered) = Len(sent)
      /\ meant \in Seq(Rates) /\ Len(meant) = Len(sent) + 1 /\ queue \in Seq(Cmds)
      /\ Deliveries /\ QueueOK /\ Once(queue)
  BY DEF BrokerOK, BrokerTypes, QueueOK
<1>2. /\ sent' = sent /\ meant' = meant /\ delivered' = delivered
      /\ Cmds' = Cmds /\ DOMAIN status = Cmds /\ status[c] = "in_progress"
  BY <1>1, LenProperties DEF sentVars, Cmds, LeaseExpires
<1>3. delivered[c] \in 0..MaxAttempts /\ delivered[c] # 0
  <2>1. delivered[c] \in 0..MaxAttempts
    BY <1>1, ElementOfSeq DEF Cmds
  <2>2. delivered[c] # 0
    BY <1>1, <1>2 DEF Deliveries
  <2> QED
    BY <2>1, <2>2
<1>4. ~Holds(queue, c)
  BY <1>1, <1>2 DEF QueueOK
<1>5. ASSUME NEW s \in {"pending", "failed"}, status' = [status EXCEPT ![c] = s]
      PROVE  /\ status'[c] = s /\ \A d \in Cmds : d # c => status'[d] = status[d]
             /\ status' \in Seq(Statuses) /\ Len(status') = Len(sent)
  <2>1. s \in Statuses
    BY DEF Statuses
  <2> QED
    BY <1>1, <1>2, <1>5, <2>1, ExceptSeq DEF Cmds
<1>6. CASE delivered[c] < MaxAttempts
  <2>1. status' = [status EXCEPT ![c] = "pending"] /\ queue' = <<c>> \o queue
    BY <1>6 DEF LeaseExpires
  <2>2. /\ status'[c] = "pending" /\ \A d \in Cmds : d # c => status'[d] = status[d]
        /\ status' \in Seq(Statuses) /\ Len(status') = Len(sent)
    BY <1>5, <2>1
  <2>3. DEFINE q == <<c>> \o queue
               n == Len(queue)
  <2>4. /\ q \in Seq(Cmds) /\ n \in Nat /\ DOMAIN q = 1..(n + 1) /\ DOMAIN queue = 1..n
        /\ q[1] = c /\ \A i \in 1..n : q[i + 1] = queue[i]
    <3>1. <<c>> \in Seq(Cmds) /\ Len(<<c>>) = 1 /\ <<c>>[1] = c
      OBVIOUS
    <3>2. /\ q \in Seq(Cmds) /\ Len(q) = 1 + n /\ n \in Nat
          /\ \A i \in 1..(1 + n) : q[i] = IF i <= 1 THEN <<c>>[i] ELSE queue[i - 1]
      BY <1>1, <3>1, ConcatProperties, LenProperties
    <3>3. DOMAIN q = 1..(n + 1) /\ DOMAIN queue = 1..n
      BY <1>1, <3>2, LenProperties
    <3>4. q[1] = c
      BY <3>1, <3>2
    <3>5. ASSUME NEW i \in 1..n PROVE q[i + 1] = queue[i]
      <4>1. i + 1 \in 1..(1 + n) /\ ~(i + 1 <= 1) /\ (i + 1) - 1 = i
        BY <3>2
      <4> QED
        BY <3>2, <4>1
    <3> QED
      BY <3>2, <3>3, <3>4, <3>5
  <2>5. queue' = q
    BY <2>1
  <2> HIDE DEF q, n
  <2>6. \A i \in 1..(n + 1) : i # 1 => i - 1 \in 1..n /\ q[i] = queue[i - 1]
    <3> SUFFICES ASSUME NEW i \in 1..(n + 1), i # 1 PROVE i - 1 \in 1..n /\ q[i] = queue[i - 1]
      OBVIOUS
    <3>1. i - 1 \in 1..n /\ (i - 1) + 1 = i
      BY <2>4
    <3> QED
      BY <2>4, <3>1
  <2>7. \A d : Holds(q, d) <=> d = c \/ Holds(queue, d)
    <3>1. Holds(q, c)
      <4>1. 1 \in 1..(n + 1)
        BY <2>4
      <4> QED
        BY <2>4, <4>1 DEF Holds
    <3>2. ASSUME NEW i \in 1..n PROVE Holds(q, queue[i])
      <4>1. i + 1 \in 1..(n + 1)
        BY <2>4
      <4> QED
        BY <2>4, <4>1 DEF Holds
    <3>3. ASSUME NEW i \in 1..(n + 1), i # 1 PROVE Holds(queue, q[i])
      BY <2>4, <2>6, <3>3 DEF Holds
    <3>4. ASSUME NEW d, Holds(q, d) PROVE d = c \/ Holds(queue, d)
      <4>1. PICK i \in 1..(n + 1) : q[i] = d
        BY <2>4, <3>4 DEF Holds
      <4> QED
        BY <2>4, <3>3, <4>1
    <3>5. ASSUME NEW d, Holds(queue, d) PROVE Holds(q, d)
      <4>1. PICK i \in 1..n : queue[i] = d
        BY <2>4, <3>5 DEF Holds
      <4> QED
        BY <3>2, <4>1
    <3> QED
      BY <3>1, <3>4, <3>5
  <2>8. Once(q)
    <3>1. ASSUME NEW i \in 1..(n + 1), NEW j \in 1..(n + 1), i < j PROVE q[i] # q[j]
      <4>1. j - 1 \in 1..n /\ q[j] = queue[j - 1]
        BY <2>4, <2>6, <3>1
      <4>2. CASE i = 1
        BY <1>4, <2>4, <4>1, <4>2 DEF Holds
      <4>3. CASE i # 1
        <5>1. i - 1 \in 1..n /\ q[i] = queue[i - 1] /\ i - 1 # j - 1
          BY <2>4, <2>6, <3>1, <4>3
        <5> QED
          BY <1>1, <2>4, <4>1, <5>1 DEF Once
      <4> QED
        BY <4>2, <4>3
    <3> SUFFICES ASSUME NEW i \in 1..(n + 1), NEW j \in 1..(n + 1), i # j PROVE q[i] # q[j]
      BY <2>4 DEF Once
    <3>2. i < j \/ j < i
      BY <2>4
    <3> QED
      BY <3>1, <3>2
  <2>9. QueueOK'
    <3>1. \A d \in Cmds : status'[d] = "pending" <=> Holds(q, d)
      <4> SUFFICES ASSUME NEW d \in Cmds PROVE status'[d] = "pending" <=> Holds(q, d)
        OBVIOUS
      <4>1. status[d] = "pending" <=> Holds(queue, d)
        BY <1>1 DEF QueueOK
      <4> QED
        BY <2>2, <2>7, <4>1
    <3>2. ASSUME NEW i \in 1..(n + 1), NEW j \in 1..(n + 1), i < j,
                 delivered[q[i]] = 0, delivered[q[j]] = 0
          PROVE  q[i] < q[j]
      <4>1. i # 1 /\ i - 1 \in 1..n /\ q[i] = queue[i - 1]
        BY <1>3, <2>4, <2>6, <3>2
      <4>2. j - 1 \in 1..n /\ q[j] = queue[j - 1] /\ i - 1 < j - 1
        BY <2>4, <2>6, <3>2, <4>1
      <4>3. i - 1 \in DOMAIN queue /\ j - 1 \in DOMAIN queue
        BY <2>4, <4>1, <4>2
      <4>4. queue[i - 1] < queue[j - 1]
        BY <1>1, <3>2, <4>1, <4>2, <4>3 DEF QueueOK
      <4> QED
        BY <4>1, <4>2, <4>4
    <3> QED
      BY <1>2, <2>4, <2>5, <2>8, <3>1, <3>2 DEF QueueOK
  <2>10. Deliveries'
    BY <1>1, <1>2, <1>3, <1>6, <2>2 DEF Deliveries
  <2> QED
    BY <1>1, <1>2, <1>3, <2>2, <2>4, <2>5, <2>9, <2>10 DEF BrokerOK, BrokerTypes
<1>7. CASE ~(delivered[c] < MaxAttempts)
  <2>1. status' = [status EXCEPT ![c] = "failed"] /\ queue' = queue
    BY <1>7 DEF LeaseExpires
  <2>2. /\ status'[c] = "failed" /\ \A d \in Cmds : d # c => status'[d] = status[d]
        /\ status' \in Seq(Statuses) /\ Len(status') = Len(sent)
    BY <1>5, <2>1
  <2>3. Deliveries'
    BY <1>1, <1>2, <1>3, <2>2 DEF Deliveries
  <2>4. QueueOK'
    BY <1>1, <1>2, <2>1, <2>2 DEF QueueOK
  <2> QED
    BY <1>1, <1>2, <1>3, <1>7, <2>1, <2>2, <2>3, <2>4, AttemptsAssumption DEF BrokerOK, BrokerTypes
<1> QED
  BY <1>6, <1>7

\* A restart loses nothing of a command, or everything.
LEMMA RestartFacts ==
  ASSUME BrokerOK, BrokerRestarts
  PROVE  /\ BrokerOK' /\ UNCHANGED <<sent, meant, delivered>>
         /\ \A c \in Cmds : status'[c] \in {status[c], "unknown"}
<1>1. /\ sent \in Seq(Commanded) /\ status \in Seq(Statuses) /\ delivered \in Seq(0..MaxAttempts)
      /\ Len(status) = Len(sent) /\ Len(delivered) = Len(sent) /\ Len(sent) \in Nat
      /\ meant \in Seq(Rates) /\ Len(meant) = Len(sent) + 1 /\ queue \in Seq(Cmds)
      /\ Deliveries /\ QueueOK /\ Once(queue)
  BY LenProperties DEF BrokerOK, BrokerTypes, QueueOK
<1>2. /\ sent' = sent /\ meant' = meant /\ delivered' = delivered
      /\ Cmds' = Cmds /\ DOMAIN sent = Cmds
  BY <1>1, LenProperties DEF sentVars, Cmds, BrokerRestarts
<1>3. CASE RestartMirrored
  <2> DEFINE P == {c \in Cmds : status[c] = "pending"}
             n == Cardinality(P)
  <2>1. status' = status /\ queue' \in OldestFirst(P)
    BY <1>2, <1>3 DEF RestartMirrored
  <2>2. n \in Nat
    <3>1. IsFiniteSet(Cmds)
      BY <1>1, FS_Interval DEF Cmds
    <3> QED
      BY <3>1, FS_Subset, FS_CardinalityType
  <2>3. /\ queue' \in [1..n -> P]
        /\ \A c \in P : \E i \in 1..n : queue'[i] = c
        /\ \A i, j \in 1..n : i < j => queue'[i] < queue'[j]
    BY <2>1 DEF OldestFirst
  <2>4. queue' \in Seq(Cmds)
    <3>1. queue' \in [1..n -> Cmds]
      BY <2>3
    <3> HIDE DEF n
    <3> QED
      BY <2>2, <3>1, SeqDef
  <2>5. QueueOK'
    <3>1. DOMAIN queue' = 1..n
      BY <2>3
    <3>2. \A i \in 1..n : queue'[i] \in P /\ queue'[i] \in Int
      BY <2>3 DEF Cmds
    <3> HIDE DEF n
    <3>3. Once(queue')
      <4> SUFFICES ASSUME NEW i \in 1..n, NEW j \in 1..n, i # j PROVE queue'[i] # queue'[j]
        BY <3>1 DEF Once
      <4>1. i < j \/ j < i
        BY <2>2
      <4> QED
        BY <2>3, <3>2, <4>1
    <3>4. \A c \in Cmds : status[c] = "pending" <=> Holds(queue', c)
      BY <2>3, <3>1, <3>2 DEF Holds
    <3> QED
      BY <1>2, <2>1, <2>3, <3>1, <3>3, <3>4 DEF QueueOK
  <2>6. Deliveries'
    BY <1>1, <1>2, <2>1 DEF Deliveries
  <2> QED
    BY <1>1, <1>2, <2>1, <2>4, <2>5, <2>6 DEF BrokerOK, BrokerTypes
<1>4. CASE RestartEmpty
  <2>1. status' = [c \in Cmds |-> "unknown"] /\ queue' = <<>>
    BY <1>2, <1>4 DEF RestartEmpty
  <2>2. status' \in Seq(Statuses) /\ Len(status') = Len(sent) /\ queue' \in Seq(Cmds)
    BY <1>1, <2>1 DEF Cmds, Statuses
  <2>3. \A c \in Cmds : status'[c] = "unknown"
    BY <2>1
  <2>4. DOMAIN queue' = {} /\ \A c : ~Holds(queue', c)
    BY <2>1 DEF Holds
  <2>5. Deliveries'
    BY <1>2, <2>3 DEF Deliveries
  <2>6. QueueOK'
    BY <1>2, <2>3, <2>4 DEF QueueOK, Once
  <2> QED
    BY <1>1, <1>2, <2>2, <2>3, <2>5, <2>6 DEF BrokerOK, BrokerTypes
<1> QED
  BY <1>3, <1>4 DEF BrokerRestarts

-----------------------------------------------------------------------------
(***************************************************************************)
(* The steps of the agent.                                                 *)
(***************************************************************************)

\* What the script has the agent do.
LEMMA ScriptFacts ==
  ASSUME NEW i \in Taken
  PROVE  /\ RunAgent[i].type \in Types /\ RunAgent[i].arg \in Args
         /\ RunAgent[i].mode \in {"ask", "call", "tell", "read"}
         /\ RunAgent[i].type = "set_hyperparameters" => RunAgent[i].arg \in Int
         /\ RunAgent[i].type \in Changing => RunAgent[i].mode \in {"ask", "call"}
<1>1. i \in DOMAIN RunAgent
  BY TakenAssumption
<1>2. RunAgent[i].type \in Types /\ RunAgent[i].arg \in Args
  BY <1>1 DEF Types, Args
<1>3. i \in 1..15
  BY <1>1 DEF RunAgent
<1>4. RunAgent[i].mode \in {"ask", "call", "tell", "read"}
  BY <1>3 DEF RunAgent, Item
<1>5. RunAgent[i].type = "set_hyperparameters" => RunAgent[i].arg \in Int
  BY <1>3, RatesAssumption DEF RunAgent, Item
<1>6. RunAgent[i].type \in Changing => RunAgent[i].mode \in {"ask", "call"}
  BY <1>3 DEF RunAgent, Item, Changing
<1> QED
  BY <1>2, <1>4, <1>5, <1>6

\* The next place of the script, or the trials.
LEMMA PassesFacts ==
  ASSUME NEW i, Passes(i)
  PROVE  /\ step' \in Taken \cup {0, Len(RunAgent) + 1}
         /\ \/ at' = "script" /\ step' \in Taken
            \/ at' = "configure"
BY DEF Passes

\* What does not depend on the agent stays as it is when nothing else moves.
LEMMA OthersStay ==
  ASSUME Sound, UNCHANGED <<brokerVars, jobVars>>
  PROVE  /\ BrokerOK' /\ Executable' /\ JobTypes' /\ JobOK' /\ UNCHANGED sent
         /\ \A s : IsSaved(s)' <=> IsSaved(s)
<1>1. /\ sent' = sent /\ meant' = meant /\ status' = status /\ delivered' = delivered
      /\ queue' = queue
      /\ polled' = polled /\ jobAt' = jobAt /\ epoch' = epoch /\ lr' = lr /\ saved' = saved
      /\ measured' = measured /\ deferred' = deferred /\ batch' = batch /\ hand' = hand
  BY DEF brokerVars, sentVars, jobVars
<1>2. BrokerOK'
  BY <1>1 DEF Sound, BrokerOK, BrokerTypes, Deliveries, QueueOK, Cmds, Holds, Once
<1>3. Executable' /\ \A s : IsSaved(s)' <=> IsSaved(s)
  BY <1>1 DEF Sound, Executable, IsSaved, Cmds
<1>4. JobTypes' /\ JobOK'
  BY <1>1 DEF Sound, JobTypes, JobOK, Cmds, InHand, Holds
<1> QED
  BY <1>1, <1>2, <1>3, <1>4

\* A step of the agent alone, which leaves it somewhere sound.
LEMMA AgentSound ==
  ASSUME Sound, UNCHANGED <<brokerVars, metricVars, jobVars>>,
         AdvisorInv', AgentTypes',
         at' = "script" => step' \in Taken,
         at' # "wait" /\ waiting' = None,
         at' \in {"start", "script", "configure", "suggest"} => trial' = None,
         at' \in {"apply", "read", "report"} => trial' # None,
         checkpoint' # None => IsSaved(checkpoint')
  PROVE  Sound'
<1>1. /\ BrokerOK' /\ Executable' /\ JobTypes' /\ JobOK' /\ UNCHANGED sent
      /\ saved' = saved /\ latest' = latest /\ pushes' = pushes
  BY OthersStay DEF metricVars, jobVars
<1>2. AgentOK'
  BY <1>1 DEF Sound, AgentOK, IsSaved, Cmds
<1> QED
  BY <1>1, <1>2 DEF Sound

\* The agent waits for the last command, or for none.
LEMMA WaitingFacts ==
  ASSUME Sound
  PROVE  /\ Len(sent) \in Nat
         /\ at = "wait" => waiting \in Cmds /\ waiting = Len(sent)
         /\ at # "wait" => waiting = None
BY LenProperties DEF Sound, BrokerOK, BrokerTypes, AgentOK, Cmds

\* The agent is on its way once it has seen telemetry.
LEMMA StartsSound == ASSUME Sound, Starts PROVE Sound'
<1>1. /\ at = "start" /\ waiting' = None /\ trial' = trial /\ checkpoint' = checkpoint
      /\ reading' = reading /\ seen' = seen /\ patient' = patient
      /\ UNCHANGED <<brokerVars, metricVars, jobVars, advisorVars>>
  BY WaitingFacts DEF Starts, Crash
<1>2. /\ step' \in Taken \cup {0, Len(RunAgent) + 1}
      /\ at' \in {"done", "script", "configure", "crashed"}
      /\ at' = "script" => step' \in Taken
  BY PassesFacts DEF Starts, Crash, Sound, AgentTypes
<1>3. AdvisorInv'
  BY <1>1, AdvisorStepInv DEF Sound
<1>4. AgentTypes' /\ trial' = None
  BY <1>1, <1>2 DEF Sound, AgentTypes, AgentOK, metricVars
<1> QED
  BY <1>1, <1>2, <1>3, <1>4, AgentSound DEF Sound, AgentOK

\* Past the command: the agent is then where its trial has it.
LEMMA ProceedFacts ==
  ASSUME Sound, at \in {"script", "wait"}, Proceed
  PROVE  /\ step' \in Taken \cup {0, Len(RunAgent) + 1}
         /\ \/ trial = None /\ at' = "script" /\ step' \in Taken
            \/ trial = None /\ at' = "configure"
            \/ trial # None /\ at = "wait" /\ at' = "read"
BY PassesFacts DEF Proceed, Sound, AgentTypes, AgentOK

\* Reading from the broker changes nothing there.
LEMMA ReadsSound == ASSUME Sound, Reads PROVE Sound'
<1>1. /\ at = "script" /\ waiting' = None /\ trial' = trial /\ checkpoint' = checkpoint
      /\ reading' = reading /\ seen' = seen /\ patient' = patient /\ trial = None
      /\ UNCHANGED <<brokerVars, metricVars, jobVars, advisorVars>>
  BY WaitingFacts DEF Reads, Crash, Sound, AgentOK
<1>2. /\ step' \in Taken \cup {0, Len(RunAgent) + 1}
      /\ at' \in {"script", "configure", "crashed"}
      /\ at' = "script" => step' \in Taken
  <2>1. CASE Proceed
    BY <1>1, <2>1, ProceedFacts
  <2>2. CASE Crash
    BY <2>2 DEF Crash, Sound, AgentTypes
  <2> QED
    BY <2>1, <2>2 DEF Reads
<1>3. AdvisorInv'
  BY <1>1, AdvisorStepInv DEF Sound
<1>4. AgentTypes'
  BY <1>1, <1>2 DEF Sound, AgentTypes, metricVars
<1> QED
  BY <1>1, <1>2, <1>3, <1>4, AgentSound DEF Sound, AgentOK

\* What is skipped of the script is behind the agent.
LEMMA SkipsSound == ASSUME Sound, Skips PROVE Sound'
<1>1. /\ at = "script" /\ waiting' = None /\ trial' = trial /\ checkpoint' = checkpoint
      /\ reading' = reading /\ seen' = seen /\ patient' = patient /\ trial = None
      /\ UNCHANGED <<brokerVars, metricVars, jobVars, advisorVars>>
  BY WaitingFacts DEF Skips, Sound, AgentOK
<1>2. /\ step' \in Taken \cup {0, Len(RunAgent) + 1}
      /\ at' \in {"script", "configure"}
      /\ at' = "script" => step' \in Taken
  BY PassesFacts DEF Skips
<1>3. AdvisorInv'
  BY <1>1, AdvisorStepInv DEF Sound
<1>4. AgentTypes'
  BY <1>1, <1>2 DEF Sound, AgentTypes, metricVars
<1> QED
  BY <1>1, <1>2, <1>3, <1>4, AgentSound DEF Sound, AgentOK

\* A checkpoint that was reported done is there to go back to.
LEMMA AnsweredSound == ASSUME Sound, Answered PROVE Sound'
<1>1. /\ at = "wait" /\ waiting' = None /\ trial' = trial
      /\ reading' = reading /\ patient' = patient
      /\ seen' \in {pushes, None}
      /\ UNCHANGED <<brokerVars, metricVars, jobVars, advisorVars>>
  BY DEF Answered
<1>2. /\ step' \in Taken \cup {0, Len(RunAgent) + 1}
      /\ \/ trial = None /\ at' = "script" /\ step' \in Taken
         \/ trial = None /\ at' = "configure"
         \/ trial # None /\ at' = "read"
  BY <1>1, ProceedFacts DEF Answered
<1>3. AdvisorInv'
  BY <1>1, AdvisorStepInv DEF Sound
<1>4. AgentTypes'
  BY <1>1, <1>2 DEF Sound, AgentTypes, metricVars
<1>5. checkpoint' # None => IsSaved(checkpoint')
  <2>1. waiting \in Cmds
    BY <1>1, WaitingFacts
  <2>2. CASE checkpoint' = checkpoint
    BY <2>2 DEF Sound, AgentOK
  <2>3. CASE checkpoint' # checkpoint
    <3>1. /\ checkpoint' = waiting /\ status[waiting] = "done"
          /\ sent[waiting].type = "save_checkpoint"
      BY <2>3 DEF Answered
    <3> QED
      BY <2>1, <3>1 DEF IsSaved, Sound, JobOK
  <2> QED
    BY <2>2, <2>3
<1> QED
  BY <1>1, <1>2, <1>3, <1>4, <1>5, AgentSound

\* Giving up leaves no command awaited.
LEMMA GivesUpSound == ASSUME Sound, GivesUp PROVE Sound'
<1>1. /\ at = "wait" /\ waiting' = None /\ trial' = trial /\ checkpoint' = checkpoint
      /\ reading' = reading /\ patient' \in BOOLEAN /\ seen' = None
      /\ UNCHANGED <<brokerVars, metricVars, jobVars, advisorVars>>
  BY DEF GivesUp, Sound, AgentTypes
<1>2. /\ step' \in Taken \cup {0, Len(RunAgent) + 1}
      /\ \/ trial = None /\ at' = "script" /\ step' \in Taken
         \/ trial = None /\ at' = "configure"
         \/ trial # None /\ at' = "read"
  BY <1>1, ProceedFacts DEF GivesUp
<1>3. AdvisorInv'
  BY <1>1, AdvisorStepInv DEF Sound
<1>4. AgentTypes'
  BY <1>1, <1>2 DEF Sound, AgentTypes, metricVars
<1> QED
  BY <1>1, <1>2, <1>3, <1>4, AgentSound DEF Sound, AgentOK

\* The study is fresh, or there is none.
LEMMA ConfiguresSound == ASSUME Sound, Configures PROVE Sound'
<1>1. /\ at = "configure" /\ at' \in {"suggest", "done"} /\ step' = step
      /\ waiting' = None /\ trial' = trial /\ trial = None /\ checkpoint' = checkpoint
      /\ reading' = reading /\ seen' = seen /\ patient' = patient
      /\ UNCHANGED <<brokerVars, metricVars, jobVars>>
  BY WaitingFacts DEF Configures, Sound, AgentOK
<1>2. AdvisorInv'
  BY AdvisorStepInv DEF Configures, Sound, AdvisorNext
<1>3. AgentTypes'
  BY <1>1 DEF Sound, AgentTypes, metricVars
<1> QED
  BY <1>1, <1>2, <1>3, AgentSound DEF Sound, AgentOK

\* The trial that is suggested is one of the study, and in the space.
LEMMA SuggestsSound == ASSUME Sound, Suggests PROVE Sound'
<1>1. /\ at = "suggest" /\ step' = step /\ waiting' = None /\ trial = None
      /\ checkpoint' = checkpoint
      /\ reading' = reading /\ seen' = seen /\ patient' = patient
      /\ UNCHANGED <<brokerVars, metricVars, jobVars>>
  BY WaitingFacts DEF Suggests, Sound, AgentOK
<1>2. CASE tried = HpoTrials
  <2>1. at' = "done" /\ UNCHANGED <<trial, advisorVars>>
    BY <1>2 DEF Suggests
  <2>2. AdvisorInv'
    BY <2>1, AdvisorStepInv DEF Sound
  <2>3. AgentTypes'
    BY <1>1, <2>1 DEF Sound, AgentTypes, metricVars
  <2> QED
    BY <1>1, <2>1, <2>2, <2>3, AgentSound DEF Sound, AgentOK
<1>3. CASE tried # HpoTrials
  <2>1. PICK p \in Space : Suggest(p) /\ trial' = [id |-> Len(study) + 1, lr |-> p] /\ at' = "apply"
    BY <1>3 DEF Suggests
  <2>2. AdvisorInv'
    BY <2>1, AdvisorStepInv DEF Sound, AdvisorNext
  <2>3. trial' \in [id : Ids, lr : Space] /\ trial' # None
    <3>1. Len(study) \in Nat /\ Len(study) < MaxAsked
      BY <2>1, LenProperties DEF Suggest, Sound, AdvisorInv, AdvisorTypeOK
    <3>2. Len(study) + 1 \in Ids
      BY <3>1, AdvisorAssumption DEF Ids
    <3> QED
      BY <2>1, <3>2, NoneAssumption
  <2>4. AgentTypes'
    BY <1>1, <2>1, <2>3 DEF Sound, AgentTypes, metricVars
  <2> QED
    BY <1>1, <2>1, <2>2, <2>3, <2>4, AgentSound DEF Sound, AgentOK
<1> QED
  BY <1>2, <1>3

\* What is read is what the broker has, or nothing.
LEMMA ReadsMetricsSound == ASSUME Sound, ReadsMetrics PROVE Sound'
<1>1. /\ at = "read" /\ at' = "report" /\ step' = step /\ waiting' = None /\ trial' = trial
      /\ checkpoint' = checkpoint /\ trial # None
      /\ reading' \in {latest, None} /\ seen' = seen /\ patient' = patient
      /\ UNCHANGED <<brokerVars, metricVars, jobVars, advisorVars>>
  BY WaitingFacts DEF ReadsMetrics, Sound, AgentOK
<1>2. AdvisorInv'
  BY <1>1, AdvisorStepInv DEF Sound
<1>3. AgentTypes'
  BY <1>1 DEF Sound, AgentTypes, metricVars
<1> QED
  BY <1>1, <1>2, <1>3, AgentSound DEF Sound, AgentOK

\* What a trial is told is one of the values, and ends it.
LEMMA ReportsTrialSound == ASSUME Sound, ReportsTrial PROVE Sound'
<1>1. /\ at = "report" /\ at' = "suggest" /\ step' = step /\ waiting' = None /\ trial' = None
      /\ checkpoint' = checkpoint /\ trial # None
      /\ reading' = None /\ seen' = None /\ patient' = patient
      /\ UNCHANGED <<brokerVars, metricVars, jobVars>>
  BY WaitingFacts DEF ReportsTrial, Sound, AgentOK
<1>2. AdvisorInv'
  <2>1. Objective \in Values
    BY ObjectivesAssumption DEF Objective, Sound, AgentTypes, Entries
  <2>2. trial.id \in Ids
    BY <1>1 DEF Sound, AgentTypes
  <2>3. AdvisorNext
    BY <2>1, <2>2 DEF ReportsTrial, AdvisorNext
  <2> QED
    BY <2>3, AdvisorStepInv DEF Sound
<1>3. AgentTypes'
  BY <1>1 DEF Sound, AgentTypes, metricVars
<1> QED
  BY <1>1, <1>2, <1>3, AgentSound DEF Sound, AgentOK

\* Other calls of the HPO tools touch the advisor alone.
LEMMA CallsHpoToolSound == ASSUME Sound, CallsHpoTool PROVE Sound'
<1>1. UNCHANGED <<brokerVars, metricVars, jobVars, agentVars>>
  BY DEF CallsHpoTool
<1>2. AdvisorInv'
  BY AdvisorStepInv DEF CallsHpoTool, Sound
<1>3. BrokerOK' /\ Executable' /\ JobTypes' /\ JobOK' /\ UNCHANGED sent
  BY <1>1, OthersStay
<1>4. AgentTypes' /\ AgentOK'
  BY <1>1, <1>3 DEF Sound, AgentTypes, AgentOK, agentVars, metricVars, jobVars, IsSaved, Cmds
<1> QED
  BY <1>2, <1>3, <1>4 DEF Sound

\* Sending: the agent waits for the command, or goes on without.
LEMMA SendFacts ==
  ASSUME Sound, NEW type, NEW arg, NEW mode \in {"ask", "call", "tell"},
         type \in Changing => mode \in {"ask", "call"},
         \/ at = "script"
         \/ at = "apply" /\ mode = "ask",
         Send(type, arg, mode)
  PROVE  /\ UNCHANGED <<metricVars, jobVars, advisorVars>>
         /\ UNCHANGED <<checkpoint, trial, reading, seen>>
         /\ Enqueue(type, arg) \/ UNCHANGED brokerVars
         /\ step' \in Taken \cup {0, Len(RunAgent) + 1}
         /\ patient' \in BOOLEAN /\ (patient' => patient)
         /\ \/ /\ Enqueue(type, arg)
               /\ at' = "wait" /\ waiting' = Len(sent) + 1
            \/ /\ type \in Changing => ~patient'
               /\ waiting' = None
               /\ \/ at' = "crashed"
                  \/ at' = "configure" /\ at = "script"
                  \/ at' = "script" /\ at = "script" /\ step' \in Taken
<1>1. /\ UNCHANGED <<metricVars, jobVars, advisorVars>>
      /\ UNCHANGED <<checkpoint, trial, reading, seen>>
      /\ Enqueue(type, arg) \/ UNCHANGED brokerVars
  BY DEF Send
<1>2. waiting = None /\ step \in Taken \cup {0, Len(RunAgent) + 1} /\ patient \in BOOLEAN
      /\ (at = "script" => trial = None)
  BY WaitingFacts DEF Sound, AgentTypes, AgentOK
<1>3. CASE Proceed /\ at = "script" /\ UNCHANGED waiting /\ (type \notin Changing \/ ~patient')
           /\ patient' \in BOOLEAN /\ (patient' => patient)
  BY <1>1, <1>2, <1>3, ProceedFacts
<1>4. CASE Crash /\ (type \notin Changing \/ ~patient') /\ patient' \in BOOLEAN /\ (patient' => patient)
  BY <1>1, <1>2, <1>4 DEF Crash
<1>5. CASE /\ Enqueue(type, arg) /\ at' = "wait" /\ waiting' = Len(sent) + 1
           /\ UNCHANGED <<step, patient>>
  BY <1>1, <1>2, <1>5
<1>6. \/ patient' = patient
      \/ patient' = (patient /\ type \notin Changing)
  BY DEF Send
<1>7. patient' \in BOOLEAN /\ (patient' => patient)
  <2>1. CASE patient' = patient
    BY <1>2, <2>1
  <2>2. CASE patient' = (patient /\ type \notin Changing)
    <3>1. patient' \in BOOLEAN
      BY <2>2, Zenon
    <3>2. patient' => patient
      BY <2>2, Zenon
    <3> QED
      BY <3>1, <3>2
  <2> QED
    BY <1>6, <2>1, <2>2
<1>8. CASE Enqueue(type, arg) /\ UNCHANGED patient /\ mode = "tell" /\ Proceed /\ UNCHANGED waiting
  BY <1>3, <1>7, <1>8
<1>9. CASE /\ patient' = (patient /\ type \notin Changing)
           /\ IF mode = "ask" THEN Crash ELSE Proceed /\ UNCHANGED waiting
  BY <1>2, <1>3, <1>4, <1>7, <1>9
<1> QED
  BY <1>5, <1>8, <1>9 DEF Send

\* What is enqueued is in no hand.
LEMMA EnqueueJob ==
  ASSUME Sound, NEW type, NEW arg, Sendable(type, arg), Enqueue(type, arg), UNCHANGED jobVars
  PROVE  /\ JobTypes' /\ JobOK'
         /\ \A c : InHand(c)' <=> InHand(c)
         /\ ~InHand(Len(sent) + 1)
<1> DEFINE n == Len(sent)
<1>1. /\ n \in Nat /\ Len(sent') = n + 1 /\ status'[n + 1] = "pending"
      /\ \A c \in 1..n : sent'[c] = sent[c] /\ status'[c] = status[c] /\ delivered'[c] = delivered[c]
  BY EnqueueFacts DEF Sound, Cmds
<1>2. /\ polled' = polled /\ jobAt' = jobAt /\ epoch' = epoch /\ lr' = lr /\ saved' = saved
      /\ measured' = measured /\ deferred' = deferred /\ batch' = batch /\ hand' = hand
  BY DEF jobVars
<1>3. batch \in Seq(1..n) /\ deferred \in Seq(1..n) /\ hand \in Seq(1..n)
  BY DEF Sound, JobTypes, Cmds
<1> HIDE DEF n
<1>4. \A s \in Seq(1..n) : s \in Seq(1..(n + 1)) /\ ~Holds(s, n + 1)
  <2> SUFFICES ASSUME NEW s \in Seq(1..n) PROVE s \in Seq(1..(n + 1)) /\ ~Holds(s, n + 1)
    OBVIOUS
  <2>1. s \in Seq(1..(n + 1))
    BY <1>1, WiderSeq
  <2>2. \A i \in DOMAIN s : s[i] \in 1..n
    BY LenProperties, ElementOfSeq
  <2> QED
    BY <1>1, <2>1, <2>2 DEF Holds
<1>5. JobTypes'
  BY <1>1, <1>2, <1>3, <1>4 DEF Sound, JobTypes, Cmds
<1>6. ~InHand(n + 1)
  BY <1>3, <1>4 DEF InHand
<1>7. \A c : InHand(c)' <=> InHand(c)
  BY <1>2 DEF InHand, Holds
<1>8. JobOK'
  <2> SUFFICES ASSUME NEW c \in 1..(n + 1)
               PROVE  /\ InHand(c) => delivered'[c] > 0
                      /\ Holds(hand, c) => sent'[c].type \in SafeTypes
                      /\ status'[c] = "done" /\ sent'[c].type = "save_checkpoint" => c \in DOMAIN saved
    BY <1>1, <1>2 DEF Sound, JobOK, Cmds, InHand, Holds
  <2>1. CASE c = n + 1
    BY <1>1, <1>6, <2>1 DEF InHand
  <2>2. CASE c # n + 1
    <3>1. c \in 1..n
      BY <1>1, <2>2
    <3> QED
      BY <1>1, <3>1 DEF Sound, JobOK, Cmds, n
  <2> QED
    BY <2>1, <2>2
<1> QED
  BY <1>5, <1>6, <1>7, <1>8 DEF n

\* Whatever comes of sending, the command can be executed.
LEMMA SendSound ==
  ASSUME Sound, NEW type, NEW arg, NEW mode \in {"ask", "call", "tell"},
         type \in Changing => mode \in {"ask", "call"},
         Sendable(type, arg),
         \/ at = "script"
         \/ at = "apply" /\ mode = "ask" /\ type = "set_hyperparameters" /\ arg = trial.lr,
         Send(type, arg, mode)
  PROVE  Sound'
<1>1. /\ UNCHANGED <<metricVars, jobVars, advisorVars>>
      /\ UNCHANGED <<checkpoint, trial, reading, seen>>
      /\ Enqueue(type, arg) \/ UNCHANGED brokerVars
      /\ step' \in Taken \cup {0, Len(RunAgent) + 1}
      /\ patient' \in BOOLEAN
      /\ \/ /\ Enqueue(type, arg)
            /\ at' = "wait" /\ waiting' = Len(sent) + 1
         \/ /\ waiting' = None
            /\ \/ at' = "crashed"
               \/ at' = "configure" /\ at = "script"
               \/ at' = "script" /\ at = "script" /\ step' \in Taken
  BY SendFacts
<1>2. AdvisorInv'
  BY <1>1, AdvisorStepInv DEF Sound
<1>3. saved' = saved /\ latest' = latest /\ pushes' = pushes
  BY <1>1 DEF jobVars, metricVars
<1>4. AgentTypes'
  BY <1>1, <1>3 DEF Sound, AgentTypes
<1>5. /\ BrokerOK' /\ Executable' /\ JobTypes' /\ JobOK'
      /\ \A s : IsSaved(s) => s \in Cmds' /\ sent'[s] = sent[s]
      /\ Enqueue(type, arg) => /\ Len(sent') = Len(sent) + 1 /\ Len(sent) \in Nat
                               /\ sent'[Len(sent) + 1] = [type |-> type, arg |-> arg]
  <2>1. CASE Enqueue(type, arg)
    <3>1. BrokerOK' /\ Executable' /\ JobTypes' /\ JobOK'
      BY <1>1, <1>3, <2>1, EnqueueBroker, EnqueueExecutable, EnqueueJob DEF Sound
    <3>2. /\ Len(sent') = Len(sent) + 1 /\ Len(sent) \in Nat
          /\ sent'[Len(sent) + 1] = [type |-> type, arg |-> arg]
          /\ \A c \in Cmds : sent'[c] = sent[c]
      BY <2>1, EnqueueFacts DEF Sound
    <3>3. Cmds \subseteq Cmds'
      BY <3>2 DEF Cmds
    <3> QED
      BY <3>1, <3>2, <3>3 DEF IsSaved
  <2>2. CASE UNCHANGED brokerVars
    <3>1. sent' = sent
      BY <2>2 DEF brokerVars, sentVars
    <3>2. BrokerOK' /\ Executable' /\ JobTypes' /\ JobOK'
      BY <1>1, <2>2, OthersStay
    <3> QED
      BY <3>1, <3>2, WaitingFacts DEF IsSaved, Cmds, Enqueue
  <2> QED
    BY <1>1, <2>1, <2>2
<1>6. checkpoint # None => IsSaved(checkpoint)'
  BY <1>1, <1>3, <1>5 DEF Sound, AgentOK, IsSaved
<1>7. at' = "wait" /\ trial # None => type = "set_hyperparameters" /\ arg = trial.lr
  BY <1>1 DEF Sound, AgentOK
<1>8. AgentOK'
  <2>1. checkpoint' # None => IsSaved(checkpoint)'
    BY <1>1, <1>6
  <2>2. at' = "wait" => /\ Len(sent') > 0 /\ waiting' = Len(sent')
                        /\ sent'[waiting'] = [type |-> type, arg |-> arg]
    BY <1>1, <1>5
  <2>3. at' # "wait" => waiting' = None
    BY <1>1
  <2>4. /\ at' = "script" => step' \in Taken
        /\ at' \in {"start", "script", "configure", "suggest"} => trial' = None
        /\ at' \notin {"apply", "read", "report"}
    BY <1>1 DEF Sound, AgentOK
  <2>5. latest' # None => latest'.push <= pushes'
    BY <1>3 DEF Sound, AgentOK
  <2> QED
    BY <1>1, <1>7, <2>1, <2>2, <2>3, <2>4, <2>5 DEF AgentOK
<1> QED
  BY <1>2, <1>4, <1>5, <1>8 DEF Sound

\* What the script sends may be sent, with the checkpoint in the place of "saved".
LEMMA SendsFacts ==
  ASSUME Sound, Sends
  PROVE  \E type, arg : \E mode \in {"ask", "call", "tell"} :
           /\ type \in Changing => mode \in {"ask", "call"}
           /\ Sendable(type, arg) /\ at = "script" /\ Send(type, arg, mode)
           /\ type = "restore_checkpoint" => arg = checkpoint
<1>1. at = "script" /\ step \in Taken
  BY DEF Sends, Sound, AgentOK
<1> DEFINE i == RunAgent[step]
           a == IF i.type = "restore_checkpoint" THEN checkpoint ELSE i.arg
<1>2. /\ i.mode # "read" /\ Send(i.type, a, i.mode)
      /\ i.type = "restore_checkpoint" => checkpoint # None
  BY DEF Sends
<1>3. /\ i.type \in Types /\ i.arg \in Args
      /\ i.mode \in {"ask", "call", "tell", "read"}
      /\ i.type = "set_hyperparameters" => i.arg \in Int
      /\ i.type \in Changing => i.mode \in {"ask", "call"}
  BY <1>1, ScriptFacts
<1> HIDE DEF i
<1>4. Sendable(i.type, a)
  <2>1. CASE i.type = "restore_checkpoint"
    <3>1. IsSaved(checkpoint)
      BY <1>2, <2>1 DEF Sound, AgentOK
    <3>2. checkpoint \in Args
      BY <3>1, WaitingFacts DEF IsSaved, Cmds, Args
    <3> QED
      BY <1>3, <2>1, <3>1, <3>2 DEF Sendable, Commanded
  <2>2. CASE i.type # "restore_checkpoint"
    BY <1>3, <2>2 DEF Sendable, Commanded
  <2> QED
    BY <2>1, <2>2
<1> QED
  BY <1>1, <1>2, <1>3, <1>4

\* What a trial tries may be sent.
LEMMA AppliesFacts ==
  ASSUME Sound, Applies
  PROVE  /\ Sendable("set_hyperparameters", trial.lr) /\ at = "apply"
         /\ Send("set_hyperparameters", trial.lr, "ask")
<1>1. at = "apply" /\ Send("set_hyperparameters", trial.lr, "ask")
  BY DEF Applies
<1>2. trial.lr \in Int
  BY <1>1, RatesAssumption DEF Sound, AgentTypes, AgentOK
<1>3. "set_hyperparameters" \in Types
  <2>1. 1 \in DOMAIN RunAgent /\ RunAgent[1].type = "set_hyperparameters"
    BY DEF RunAgent, Item
  <2> QED
    BY <2>1 DEF Types
<1> QED
  BY <1>1, <1>2, <1>3 DEF Sendable, Commanded, Args

\* In the script and in a trial alike.
LEMMA SendersSound == ASSUME Sound, Sends \/ Applies PROVE Sound'
<1>1. CASE Sends
  BY <1>1, SendsFacts, SendSound
<1>2. CASE Applies
  BY <1>2, AppliesFacts, SendSound
<1> QED
  BY <1>1, <1>2

(***************************************************************************)
(* The job, the poller and the broker.                                     *)
(***************************************************************************)
LEMMA HookFacts ==
  /\ Hooks[1] = "push" /\ After("push") = "drain"
  /\ After("drain") \in {"train", "ended"}
BY DEF Hooks, After, Return

\* What leaves the broker's tables alone leaves them in order.
LEMMA BrokerStays ==
  ASSUME BrokerOK, UNCHANGED brokerVars
  PROVE  BrokerOK' /\ UNCHANGED <<sent, meant, status, delivered, queue>>
BY DEF BrokerOK, BrokerTypes, Deliveries, QueueOK, Once, Holds, Cmds, brokerVars, sentVars

\* What neither sends a command nor loses a checkpoint keeps Sound if it keeps
\* the broker's part and the job's.
LEMMA JobSound ==
  ASSUME Sound, UNCHANGED <<sent, agentVars, advisorVars>>,
         BrokerOK', JobTypes', JobOK', \A s \in DOMAIN saved : s \in DOMAIN saved',
         latest' \in Entries \cup {None}, pushes' \in Nat,
         latest' # None => latest'.push <= pushes'
  PROVE  Sound'
<1>1. /\ at' = at /\ step' = step /\ waiting' = waiting /\ checkpoint' = checkpoint
      /\ trial' = trial /\ reading' = reading /\ seen' = seen /\ patient' = patient
      /\ sent' = sent
  BY DEF agentVars
<1>2. AdvisorInv'
  BY AdvisorStepInv DEF Sound
<1>3. \A s : IsSaved(s) => IsSaved(s)'
  BY <1>1 DEF IsSaved, Cmds
<1>4. Executable'
  <2>1. \A c \in Cmds : /\ sent[c].type = "set_hyperparameters" => sent[c].arg \in Int
                        /\ sent[c].type = "restore_checkpoint" =>
                             IsSaved(sent[c].arg) /\ sent[c].arg < c
    BY DEF Sound, Executable
  <2> DEFINE Stays(s) == s \in 1..Len(sent) /\ sent[s].type = "save_checkpoint" /\ s \in DOMAIN saved'
  <2>2. \A s : IsSaved(s) => Stays(s)
    BY DEF IsSaved, Cmds
  <2>3. \A c \in Cmds : /\ sent[c].type = "set_hyperparameters" => sent[c].arg \in Int
                        /\ sent[c].type = "restore_checkpoint" =>
                             Stays(sent[c].arg) /\ sent[c].arg < c
    BY <2>1, <2>2
  <2> QED
    BY <1>1, <2>3 DEF Executable, IsSaved, Cmds
<1>5. AgentTypes'
  BY <1>1 DEF Sound, AgentTypes
<1>6. AgentOK'
  <2>1. checkpoint' # None => IsSaved(checkpoint)'
    BY <1>1, <1>3 DEF Sound, AgentOK, IsSaved, Cmds
  <2> QED
    BY <1>1, <2>1 DEF Sound, AgentOK
<1> QED
  BY <1>2, <1>4, <1>5, <1>6 DEF Sound

\* What keeps the broker and the commands in hand.
LEMMA HandsSound ==
  ASSUME Sound, UNCHANGED <<brokerVars, agentVars, advisorVars, polled, lr, saved, hand>>,
         \A c : Holds(batch', c) \/ Holds(deferred', c) => Holds(batch, c) \/ Holds(deferred, c),
         batch' \in Seq(Cmds), deferred' \in Seq(Cmds), ~polled => deferred' = <<>>,
         batch' # <<>> => jobAt' = "claim",
         jobAt' \in {"train", "push", "drain", "claim", "ended"}, epoch' \in 0..Epochs,
         measured' \in [loss : Losses \cup {None}, under : Rates \cup {None}],
         measured'.loss # None => jobAt' = "push",
         latest' \in Entries \cup {None}, pushes' \in Nat,
         latest' # None => latest'.push <= pushes'
  PROVE  Sound'
<1>1. BrokerOK' /\ UNCHANGED <<sent, meant, status, delivered, queue>>
  BY BrokerStays DEF Sound
<1>2. JobTypes'
  BY <1>1 DEF Sound, JobTypes, Cmds
<1>3. \A c : InHand(c)' => InHand(c)
  BY DEF InHand, Holds
<1>4. JobOK'
  <2>1. \A c \in Cmds : /\ InHand(c) => delivered[c] > 0
                        /\ Holds(hand, c) => sent[c].type \in SafeTypes
                        /\ status[c] = "done" /\ sent[c].type = "save_checkpoint" => c \in DOMAIN saved
    BY DEF Sound, JobOK
  <2>2. \A c \in Cmds' : /\ InHand(c)' => delivered'[c] > 0
                         /\ Holds(hand', c) => sent'[c].type \in SafeTypes
                         /\ status'[c] = "done" /\ sent'[c].type = "save_checkpoint" =>
                              c \in DOMAIN saved'
    BY <1>1, <1>3, <2>1 DEF Cmds
  <2> QED
    BY <2>2 DEF Sound, JobOK
<1> QED
  BY <1>1, <1>2, <1>4, JobSound

\* An epoch, its push and the beginning of its drain.
LEMMA LoopSound == ASSUME Sound, Epoch \/ TrainEnds \/ PushTelemetry \/ BeginDrain PROVE Sound'
<1>1. /\ UNCHANGED <<brokerVars, agentVars, advisorVars, polled, lr, saved, hand>>
      /\ polled' = polled /\ hand' = hand
  BY DEF Epoch, TrainEnds, PushTelemetry, BeginDrain
<1>2. /\ lr \in Rates /\ jobAt \in {"train", "push", "drain", "claim", "ended"}
      /\ epoch \in 0..Epochs
      /\ measured \in [loss : Losses \cup {None}, under : Rates \cup {None}]
      /\ batch \in Seq(Cmds) /\ deferred \in Seq(Cmds)
      /\ batch # <<>> => jobAt = "claim"
      /\ ~polled => deferred = <<>>
      /\ latest \in Entries \cup {None} /\ pushes \in Nat
      /\ latest # None => latest.push <= pushes
  BY DEF Sound, JobTypes, JobOK, AgentTypes, AgentOK
<1>3. CASE Epoch
  <2>1. /\ jobAt = "train" /\ jobAt' = "push" /\ epoch' = epoch + 1 /\ epoch < Epochs
        /\ batch' = batch /\ deferred' = deferred /\ latest' = latest /\ pushes' = pushes
        /\ measured' \in [loss : Losses \cup {None}, under : Rates \cup {None}]
    BY <1>2, <1>3, HookFacts DEF Epoch, metricVars
  <2>2. epoch' \in 0..Epochs
    BY <1>2, <2>1, EpochsAssumption
  <2>3. batch' = <<>>
    BY <1>2, <2>1
  <2> QED
    BY <1>1, <1>2, <2>1, <2>2, <2>3, HandsSound
<1>4. CASE TrainEnds
  <2>1. /\ jobAt = "train" /\ jobAt' = "push" /\ epoch' = epoch /\ measured' = measured
        /\ batch' = batch /\ deferred' = deferred /\ latest' = latest /\ pushes' = pushes
    BY <1>4, HookFacts DEF TrainEnds, metricVars
  <2>2. batch' = <<>>
    BY <1>2, <2>1
  <2> QED
    BY <1>1, <1>2, <2>1, <2>2, HandsSound
<1>5. CASE PushTelemetry
  <2>1. /\ jobAt = "push" /\ jobAt' = "drain" /\ epoch' = epoch /\ measured' = Nothing
        /\ batch' = batch /\ deferred' = deferred
        /\ PushReceived \/ UNCHANGED metricVars
    BY <1>5, HookFacts DEF PushTelemetry
  <2>2. batch' = <<>>
    BY <1>2, <2>1
  <2>3. /\ measured' \in [loss : Losses \cup {None}, under : Rates \cup {None}]
        /\ measured'.loss = None
    BY <2>1 DEF Nothing
  <2>4. /\ latest' \in Entries \cup {None} /\ pushes' \in Nat
        /\ latest' # None => latest'.push <= pushes'
    <3>1. CASE UNCHANGED metricVars
      BY <1>2, <3>1 DEF metricVars
    <3>2. CASE PushReceived
      <4>1. pushes' = pushes + 1
        BY <3>2 DEF PushReceived
      <4>2. CASE latest' = latest
        <5>1. latest # None => latest.push \in Nat
          BY <1>2 DEF Entries
        <5> QED
          BY <1>2, <4>1, <4>2, <5>1
      <4>3. CASE latest' = [push |-> pushes + 1, loss |-> measured.loss, under |-> measured.under]
        <5>1. latest' \in Entries /\ latest'.push = pushes + 1
          BY <1>2, <4>3 DEF Entries
        <5> QED
          BY <1>2, <4>1, <5>1
      <4> QED
        BY <3>2, <4>2, <4>3 DEF PushReceived
    <3> QED
      BY <2>1, <3>1, <3>2
  <2> QED
    BY <1>1, <1>2, <2>1, <2>2, <2>3, <2>4, HandsSound
<1>6. CASE BeginDrain
  <2>1. /\ jobAt = "drain" /\ jobAt' = "claim" /\ epoch' = epoch /\ measured' = measured
        /\ batch' = deferred /\ deferred' = <<>> /\ latest' = latest /\ pushes' = pushes
    BY <1>6 DEF BeginDrain, metricVars
  <2>2. measured.loss = None
    BY <2>1 DEF Sound, JobOK
  <2>3. \A c : Holds(batch', c) \/ Holds(deferred', c) => Holds(batch, c) \/ Holds(deferred, c)
    BY <2>1, SingleFacts
  <2>4. <<>> \in Seq(Cmds)
    OBVIOUS
  <2> QED
    BY <1>1, <1>2, <2>1, <2>2, <2>3, <2>4, HandsSound
<1> QED
  BY <1>3, <1>4, <1>5, <1>6

\* What a report makes of the statuses.
LEMMA ReportsFacts ==
  ASSUME BrokerOK, NEW c \in Cmds, delivered[c] > 0, Reports(c), UNCHANGED <<sentVars, delivered>>
  PROVE  /\ BrokerOK' /\ UNCHANGED <<sent, meant, delivered>>
         /\ status'[c] \in {status[c], "done", "failed"}
         /\ \A d \in Cmds : d # c => status'[d] = status[d]
         /\ status'[c] = "done" => status[c] = "done" \/ Complete(c, "done")
<1>1. UNCHANGED <<sent, meant, delivered>>
  BY DEF sentVars
<1>2. CASE UNCHANGED <<status, queue>>
  BY <1>1, <1>2, BrokerStays DEF brokerVars
<1>3. ASSUME NEW s \in {"done", "failed"}, Complete(c, s)
      PROVE  /\ BrokerOK' /\ status'[c] \in {status[c], s}
             /\ \A d \in Cmds : d # c => status'[d] = status[d]
  BY <1>3, CompleteFacts
<1>4. CASE Complete(c, "done")
  BY <1>1, <1>3, <1>4
<1>5. CASE Complete(c, "failed")
  <2>1. /\ BrokerOK' /\ status'[c] \in {status[c], "failed"}
        /\ \A d \in Cmds : d # c => status'[d] = status[d]
    BY <1>3, <1>5
  <2> QED
    BY <1>1, <2>1
<1> QED
  BY <1>2, <1>4, <1>5 DEF Reports

\* A command that is claimed may go into a hand.
LEMMA ClaimedJob ==
  ASSUME Sound, ClaimNext
  PROVE  /\ BrokerOK' /\ UNCHANGED <<sent, meant>> /\ Cmds' = Cmds
         /\ Head(queue) \in Cmds
         /\ \A c \in Cmds : /\ InHand(c) \/ c = Head(queue) => delivered'[c] > 0
                            /\ status'[c] = "done" => status[c] = "done"
<1>1. /\ BrokerOK' /\ UNCHANGED <<sent, meant>>
      /\ Head(queue) \in Cmds /\ status'[Head(queue)] = "in_progress"
      /\ delivered'[Head(queue)] = delivered[Head(queue)] + 1 /\ delivered[Head(queue)] \in Nat
      /\ \A c \in Cmds : c # Head(queue) => status'[c] = status[c] /\ delivered'[c] = delivered[c]
  BY ClaimFacts DEF Sound
<1>2. Cmds' = Cmds
  BY <1>1 DEF Cmds
<1>3. \A c \in Cmds : InHand(c) => delivered[c] > 0
  BY DEF Sound, JobOK
<1>4. delivered'[Head(queue)] > 0
  BY <1>1
<1> QED
  BY <1>1, <1>2, <1>3, <1>4

\* Who claims a command has it in hand, or its answer is lost.
LEMMA ClaimsSound == ASSUME Sound, Claims \/ DrainEnds \/ PollerClaims PROVE Sound'
<1> DEFINE h == Head(queue)
<1>1. /\ UNCHANGED <<agentVars, advisorVars, metricVars>>
      /\ polled' = polled /\ epoch' = epoch /\ lr' = lr /\ saved' = saved /\ measured' = measured
      /\ latest' = latest /\ pushes' = pushes
  BY DEF Claims, DrainEnds, PollerClaims, metricVars
<1>2. /\ lr \in Rates /\ polled \in BOOLEAN /\ epoch \in 0..Epochs
      /\ jobAt \in {"train", "push", "drain", "claim", "ended"}
      /\ measured \in [loss : Losses \cup {None}, under : Rates \cup {None}]
      /\ batch \in Seq(Cmds) /\ deferred \in Seq(Cmds) /\ hand \in Seq(Cmds)
      /\ \A s \in DOMAIN saved : saved[s] \in Rates
      /\ \A c \in Cmds :
           /\ InHand(c) => delivered[c] > 0
           /\ Holds(hand, c) => sent[c].type \in SafeTypes
           /\ status[c] = "done" /\ sent[c].type = "save_checkpoint" => c \in DOMAIN saved
      /\ batch # <<>> => jobAt = "claim"
      /\ ~polled => deferred = <<>> /\ hand = <<>>
      /\ measured.loss # None => jobAt = "push"
      /\ latest \in Entries \cup {None} /\ pushes \in Nat
      /\ latest # None => latest.push <= pushes
  BY DEF Sound, JobTypes, JobOK, AgentTypes, AgentOK
<1>3. \/ ClaimNext
      \/ UNCHANGED brokerVars
  BY DEF Claims, DrainEnds, PollerClaims, brokerVars
<1>4. /\ BrokerOK' /\ sent' = sent /\ Cmds' = Cmds
      /\ \A c \in Cmds : /\ InHand(c) => delivered'[c] > 0
                         /\ status'[c] = "done" => status[c] = "done"
      /\ ClaimNext => h \in Cmds /\ delivered'[h] > 0
  <2>1. CASE ClaimNext
    BY <2>1, ClaimedJob
  <2>2. CASE UNCHANGED brokerVars
    <3>1. BrokerOK' /\ UNCHANGED <<sent, meant, status, delivered, queue>>
      BY <2>2, BrokerStays DEF Sound
    <3>2. ~ClaimNext
      <4> SUFFICES ASSUME ClaimNext PROVE FALSE
        OBVIOUS
      <4>1. h \in Cmds /\ status[h] = "pending" /\ status'[h] = "in_progress"
        BY ClaimFacts DEF Sound
      <4> QED
        BY <3>1, <4>1
    <3> QED
      BY <1>2, <3>1, <3>2 DEF Cmds
  <2> QED
    BY <1>3, <2>1, <2>2
<1> HIDE DEF h
<1>5. /\ batch' \in Seq(Cmds) /\ deferred' \in Seq(Cmds) /\ hand' \in Seq(Cmds)
      /\ jobAt' \in {"train", "push", "drain", "claim", "ended"}
      /\ batch' # <<>> => jobAt' = "claim"
      /\ ~polled => deferred' = <<>> /\ hand' = <<>>
      /\ measured.loss # None => jobAt' = "push"
      /\ \A c : Holds(batch', c) \/ Holds(deferred', c) \/ Holds(hand', c) =>
                  InHand(c) \/ (ClaimNext /\ c = h)
      /\ \A c : Holds(hand', c) => Holds(hand, c) \/ (c = h /\ sent[h].type \in SafeTypes)
  <2>1. CASE Claims
    <3>1. /\ jobAt = "claim" /\ jobAt' = jobAt /\ ClaimNext /\ batch' = <<h>>
          /\ deferred' = deferred /\ hand' = hand
      BY <2>1 DEF Claims, h
    <3>2. <<h>> \in Seq(Cmds)
      BY <1>4, <3>1
    <3>3. \A c : Holds(batch', c) => c = h
      BY <3>1, SingleFacts
    <3> QED
      BY <1>2, <3>1, <3>2, <3>3 DEF InHand
  <2>2. CASE DrainEnds
    <3>1. /\ jobAt = "claim" /\ jobAt' \in {"train", "ended"} /\ batch = <<>> /\ batch' = batch
          /\ deferred' = deferred /\ hand' = hand
      BY <2>2, HookFacts DEF DrainEnds
    <3> QED
      BY <1>2, <3>1 DEF InHand
  <2>3. CASE PollerClaims
    <3>1. /\ polled /\ jobAt' = jobAt /\ ClaimNext /\ batch' = batch
          /\ \/ sent[h].type \in SafeTypes /\ hand' = <<h>> /\ deferred' = deferred
             \/ deferred' = Append(deferred, h) /\ hand' = hand
      BY <2>3 DEF PollerClaims, h
    <3>2. CASE sent[h].type \in SafeTypes /\ hand' = <<h>> /\ deferred' = deferred
      <4>1. <<h>> \in Seq(Cmds)
        BY <1>4, <3>1
      <4>2. \A c : Holds(hand', c) => c = h
        BY <3>2, SingleFacts
      <4> QED
        BY <1>2, <3>1, <3>2, <4>1, <4>2 DEF InHand
    <3>3. CASE deferred' = Append(deferred, h) /\ hand' = hand
      <4>1. h \in Cmds
        BY <1>4, <3>1
      <4>2. /\ Append(deferred, h) \in Seq(Cmds)
            /\ \A c : Holds(Append(deferred, h), c) <=> Holds(deferred, c) \/ c = h
        BY <1>2, <4>1, AppendFacts
      <4> QED
        BY <1>2, <3>1, <3>3, <4>2 DEF InHand
    <3> QED
      BY <3>1, <3>2, <3>3
  <2> QED
    BY <2>1, <2>2, <2>3
<1>6. JobTypes'
  BY <1>1, <1>2, <1>4, <1>5 DEF JobTypes
<1>7. JobOK'
  <2>1. \A c \in Cmds : InHand(c)' => delivered'[c] > 0
    BY <1>4, <1>5 DEF InHand, Holds
  <2>2. \A c \in Cmds : Holds(hand', c) => sent[c].type \in SafeTypes
    BY <1>2, <1>5
  <2>3. \A c \in Cmds' : /\ InHand(c)' => delivered'[c] > 0
                         /\ Holds(hand', c) => sent'[c].type \in SafeTypes
                         /\ status'[c] = "done" /\ sent'[c].type = "save_checkpoint" =>
                              c \in DOMAIN saved'
    BY <1>1, <1>2, <1>4, <2>1, <2>2
  <2> QED
    BY <1>1, <1>5, <2>3 DEF JobOK
<1> QED
  BY <1>1, <1>2, <1>4, <1>6, <1>7, JobSound

\* What a handler makes of the rate is within the bounds, or the rate at first.
LEMMA ChangedFacts ==
  ASSUME Sound, NEW c \in Cmds
  PROVE  Changed(c) \in Rates
<1>1. CASE sent[c].type = "set_hyperparameters"
  BY <1>1, ClampType DEF Changed, Sound, Executable
<1>2. CASE sent[c].type = "restore_checkpoint"
  BY <1>2 DEF Changed, Sound, Executable, IsSaved, JobTypes
<1>3. CASE sent[c].type \notin {"set_hyperparameters", "restore_checkpoint"}
  BY <1>3 DEF Changed, Sound, JobTypes
<1> QED
  BY <1>1, <1>2, <1>3

\* What is left of the hands, and what was done, after an execution.
LEMMA ExecutesFacts ==
  ASSUME Sound, Executes
  PROVE  LET c == Head(batch) IN
         /\ c \in Cmds /\ delivered[c] > 0 /\ Holds(batch, c) /\ jobAt = "claim"
         /\ batch' \in Seq(Cmds) /\ \A d : Holds(batch, d) <=> Holds(batch', d) \/ d = c
         /\ Once(batch) => Once(batch') /\ ~Holds(batch', c)
         /\ lr' = Changed(c)
         /\ DOMAIN saved' = DOMAIN saved \cup {d \in {c} : sent[c].type = "save_checkpoint"}
         /\ sent[c].type = "save_checkpoint" => saved'[c] = lr
         /\ \A s \in DOMAIN saved : s = c \/ saved'[s] = saved[s]
         /\ sent[c].type # "save_checkpoint" => saved' = saved
         /\ BrokerOK' /\ UNCHANGED <<sent, meant, delivered>>
         /\ status'[c] \in {status[c], "done", "failed"}
         /\ \A d \in Cmds : d # c => status'[d] = status[d]
<1> DEFINE c == Head(batch)
<1>1. batch # <<>> /\ batch \in Seq(Cmds) /\ batch' = Tail(batch) /\ jobAt = "claim"
  BY DEF Executes, Sound, JobTypes, JobOK
<1>2. /\ c \in Cmds /\ Tail(batch) \in Seq(Cmds)
      /\ \A d : Holds(batch, d) <=> Holds(Tail(batch), d) \/ d = c
      /\ Once(batch) => Once(Tail(batch)) /\ ~Holds(Tail(batch), c)
  BY <1>1, TailFacts
<1>3. delivered[c] > 0
  BY <1>2 DEF Sound, JobOK, InHand
<1>4. /\ lr' = Changed(c)
      /\ saved' = IF sent[c].type = "save_checkpoint"
                  THEN [s \in DOMAIN saved \cup {c} |-> IF s = c THEN lr ELSE saved[s]]
                  ELSE saved
      /\ Reports(c) /\ UNCHANGED <<sentVars, delivered>>
  BY DEF Executes
<1> HIDE DEF c
<1>5. /\ BrokerOK' /\ UNCHANGED <<sent, meant, delivered>>
      /\ status'[c] \in {status[c], "done", "failed"}
      /\ \A d \in Cmds : d # c => status'[d] = status[d]
  BY <1>2, <1>3, <1>4, ReportsFacts DEF Sound
<1>6. /\ DOMAIN saved' = DOMAIN saved \cup {d \in {c} : sent[c].type = "save_checkpoint"}
      /\ sent[c].type = "save_checkpoint" => saved'[c] = lr
      /\ \A s \in DOMAIN saved : s = c \/ saved'[s] = saved[s]
      /\ sent[c].type # "save_checkpoint" => saved' = saved
  BY <1>4
<1> QED
  BY <1>1, <1>2, <1>3, <1>4, <1>5, <1>6 DEF c

\* The training thread leaves the rate within the bounds.
LEMMA ExecutesSound == ASSUME Sound, Executes PROVE Sound'
<1> DEFINE c == Head(batch)
<1>1. /\ UNCHANGED <<agentVars, advisorVars, metricVars>>
      /\ polled' = polled /\ epoch' = epoch /\ jobAt' = jobAt /\ measured' = measured
      /\ deferred' = deferred /\ hand' = hand
      /\ latest' = latest /\ pushes' = pushes
  BY DEF Executes, metricVars
<1>2. /\ c \in Cmds /\ Holds(batch, c) /\ jobAt = "claim"
      /\ batch' \in Seq(Cmds) /\ \A d : Holds(batch', d) => Holds(batch, d)
      /\ lr' = Changed(c)
      /\ DOMAIN saved' = DOMAIN saved \cup {d \in {c} : sent[c].type = "save_checkpoint"}
      /\ sent[c].type = "save_checkpoint" => saved'[c] = lr
      /\ \A s \in DOMAIN saved : s = c \/ saved'[s] = saved[s]
      /\ sent[c].type # "save_checkpoint" => saved' = saved
      /\ BrokerOK' /\ UNCHANGED <<sent, meant, delivered>>
      /\ \A d \in Cmds : d # c => status'[d] = status[d]
  BY ExecutesFacts
<1> HIDE DEF c
<1>3. lr \in Rates /\ lr' \in Rates /\ Cmds' = Cmds /\ sent' = sent /\ delivered' = delivered
  BY <1>2, ChangedFacts DEF Sound, JobTypes, Cmds
<1>4. \A s \in DOMAIN saved' : saved'[s] \in Rates
  BY <1>2, <1>3 DEF Sound, JobTypes
<1>5. JobTypes'
  BY <1>1, <1>2, <1>3, <1>4 DEF Sound, JobTypes
<1>6. JobOK'
  <2>1. \A d \in Cmds : /\ InHand(d) => delivered[d] > 0
                        /\ Holds(hand, d) => sent[d].type \in SafeTypes
                        /\ status[d] = "done" /\ sent[d].type = "save_checkpoint" => d \in DOMAIN saved
    BY DEF Sound, JobOK
  <2>2. \A d \in Cmds : InHand(d)' => InHand(d)
    BY <1>1, <1>2 DEF InHand, Holds
  <2>3. \A d \in Cmds : status'[d] = "done" /\ sent[d].type = "save_checkpoint" => d \in DOMAIN saved'
    BY <1>2, <2>1
  <2>4. \A d \in Cmds' : /\ InHand(d)' => delivered'[d] > 0
                         /\ Holds(hand', d) => sent'[d].type \in SafeTypes
                         /\ status'[d] = "done" /\ sent'[d].type = "save_checkpoint" =>
                              d \in DOMAIN saved'
    BY <1>1, <1>3, <2>1, <2>2, <2>3
  <2> QED
    BY <1>1, <1>2, <2>4 DEF Sound, JobOK
<1>7. /\ latest \in Entries \cup {None} /\ pushes \in Nat
      /\ latest # None => latest.push <= pushes
  BY DEF Sound, AgentTypes, AgentOK
<1> QED
  BY <1>1, <1>2, <1>3, <1>5, <1>6, <1>7, JobSound

\* What only touches the statuses, and makes nothing done but what is safe.
LEMMA StatusSound ==
  ASSUME Sound, BrokerOK', UNCHANGED <<sent, delivered, jobAt, polled, epoch, lr, saved, measured,
                                       deferred, batch, agentVars, advisorVars>>,
         hand' \in {hand, <<>>},
         latest' \in {latest, None}, pushes' = pushes,
         \A c \in Cmds : status'[c] = "done" => status[c] = "done" \/ sent[c].type \in SafeTypes
  PROVE  Sound'
<1>1. Cmds' = Cmds
  BY DEF Cmds
<1>2. \A d : Holds(hand', d) => Holds(hand, d)
  BY SingleFacts
<1>3. JobTypes'
  <2>1. <<>> \in Seq(Cmds)
    OBVIOUS
  <2> QED
    BY <1>1, <2>1 DEF Sound, JobTypes
<1>4. JobOK'
  <2>1. \A d \in Cmds : /\ InHand(d) => delivered[d] > 0
                        /\ Holds(hand, d) => sent[d].type \in SafeTypes
                        /\ status[d] = "done" /\ sent[d].type = "save_checkpoint" => d \in DOMAIN saved
    BY DEF Sound, JobOK
  <2>2. \A d \in Cmds : InHand(d)' => InHand(d)
    BY <1>2 DEF InHand, Holds
  <2>3. "save_checkpoint" \notin SafeTypes
    BY DEF SafeTypes
  <2>4. \A d \in Cmds' : /\ InHand(d)' => delivered'[d] > 0
                         /\ Holds(hand', d) => sent'[d].type \in SafeTypes
                         /\ status'[d] = "done" /\ sent'[d].type = "save_checkpoint" =>
                              d \in DOMAIN saved'
    BY <1>1, <1>2, <2>1, <2>2, <2>3
  <2> QED
    BY <2>4 DEF Sound, JobOK
<1>5. /\ latest' \in Entries \cup {None} /\ pushes' \in Nat
      /\ latest' # None => latest'.push <= pushes'
  BY DEF Sound, AgentTypes, AgentOK
<1> QED
  BY <1>3, <1>4, <1>5, JobSound

\* The poller executes only what changes neither rate nor checkpoints.
LEMMA PollerExecutesSound == ASSUME Sound, PollerExecutes PROVE Sound'
<1>1. hand # <<>> /\ hand \in Seq(Cmds) /\ Reports(Head(hand)) /\ hand' = <<>>
  BY DEF PollerExecutes, Sound, JobTypes
<1>2. Head(hand) \in Cmds /\ Holds(hand, Head(hand))
  BY <1>1, TailFacts
<1>3. delivered[Head(hand)] > 0 /\ sent[Head(hand)].type \in SafeTypes
  BY <1>2 DEF Sound, JobOK, InHand
<1>4. UNCHANGED <<sentVars, delivered>>
  BY DEF PollerExecutes
<1>5. /\ BrokerOK' /\ UNCHANGED <<sent, meant, delivered>>
      /\ \A d \in Cmds : d # Head(hand) => status'[d] = status[d]
  BY <1>1, <1>2, <1>3, <1>4, ReportsFacts DEF Sound
<1>6. latest' = latest /\ pushes' = pushes
  BY DEF PollerExecutes, metricVars
<1>7. UNCHANGED <<jobAt, polled, epoch, lr, saved, measured, deferred, batch, agentVars, advisorVars>>
  BY DEF PollerExecutes
<1> QED
  BY <1>1, <1>3, <1>5, <1>6, <1>7, StatusSound

\* A lease that runs out gives the command to the queue, or ends it.
LEMMA LeaseExpiresSound == ASSUME Sound, NEW c \in Cmds, LeaseExpires(c) PROVE Sound'
<1>1. /\ BrokerOK' /\ UNCHANGED <<sent, meant, delivered>>
      /\ status'[c] \in {"pending", "failed"}
      /\ \A d \in Cmds : d # c => status'[d] = status[d]
  BY ExpireFacts DEF Sound
<1>2. UNCHANGED <<metricVars, jobVars, agentVars, advisorVars>>
  BY DEF LeaseExpires
<1> QED
  BY <1>1, <1>2, StatusSound DEF metricVars, jobVars

\* A restart forgets, and makes nothing done.
LEMMA BrokerRestartsSound == ASSUME Sound, BrokerRestarts PROVE Sound'
<1>1. /\ BrokerOK' /\ UNCHANGED <<sent, meant, delivered>>
      /\ \A c \in Cmds : status'[c] \in {status[c], "unknown"}
  BY RestartFacts DEF Sound
<1>2. latest' = None /\ UNCHANGED <<pushes, jobVars, agentVars, advisorVars>>
  BY DEF BrokerRestarts
<1> QED
  BY <1>1, <1>2, StatusSound DEF jobVars

\* No command, no metrics, and the job about to train.
LEMMA InitSound == Init => Sound
<1> SUFFICES ASSUME Init PROVE Sound
  OBVIOUS
<1>1. /\ sent = <<>> /\ status = <<>> /\ delivered = <<>> /\ queue = <<>> /\ meant = <<InitialLR>>
      /\ batch = <<>> /\ deferred = <<>> /\ hand = <<>> /\ saved = <<>>
      /\ latest = None /\ pushes = 0 /\ polled \in BOOLEAN /\ jobAt = "train" /\ epoch = 0
      /\ lr = InitialLR /\ measured = Nothing
      /\ at = "start" /\ step = 0 /\ waiting = None /\ checkpoint = None /\ trial = None
      /\ reading = None /\ seen = None /\ patient = TRUE
  BY DEF Init
<1>2. /\ Cmds = {} /\ Len(sent) = 0 /\ Len(status) = 0 /\ Len(delivered) = 0
      /\ \A S : <<>> \in Seq(S)
  BY <1>1 DEF Cmds
<1>3. InitialLR \in Rates
  BY RatesAssumption DEF Rates
<1>4. meant \in Seq(Rates) /\ Len(meant) = 1
  BY <1>1, <1>3
<1>5. BrokerOK /\ Executable
  BY <1>1, <1>2, <1>4 DEF BrokerOK, BrokerTypes, Deliveries, QueueOK, Once, Executable
<1>6. JobTypes /\ JobOK
  BY <1>1, <1>2, <1>3, EpochsAssumption DEF JobTypes, JobOK, Nothing
<1>7. AgentTypes /\ AgentOK
  BY <1>1 DEF AgentTypes, AgentOK
<1>8. AdvisorInv
  BY AdvisorInitInv DEF Init
<1> QED
  BY <1>5, <1>6, <1>7, <1>8 DEF Sound

\* Every step of the system keeps Sound.
LEMMA SoundStays == Sound /\ [Next]_vars => Sound'
<1> SUFFICES ASSUME Sound, [Next]_vars PROVE Sound'
  OBVIOUS
<1>1. CASE JobNext
  BY <1>1, LoopSound, ClaimsSound, ExecutesSound DEF JobNext
<1>2. CASE PollerNext
  BY <1>2, ClaimsSound, PollerExecutesSound DEF PollerNext
<1>3. CASE AgentNext
  BY <1>3, StartsSound, SendersSound, ReadsSound, SkipsSound, AnsweredSound, GivesUpSound,
     ConfiguresSound, SuggestsSound, ReadsMetricsSound, ReportsTrialSound DEF AgentNext
<1>4. CASE BrokerNext
  <2>1. DOMAIN sent = Cmds
    BY LenProperties DEF Sound, BrokerOK, BrokerTypes, Cmds
  <2> QED
    BY <1>4, <2>1, BrokerRestartsSound, LeaseExpiresSound DEF BrokerNext
<1>5. CASE CallsHpoTool
  BY <1>5, CallsHpoToolSound
<1>6. CASE UNCHANGED vars
  <2>1. UNCHANGED <<brokerVars, agentVars, advisorVars, metricVars, jobVars>>
    BY <1>6 DEF vars
  <2>2. /\ lr \in Rates /\ epoch \in 0..Epochs
        /\ jobAt \in {"train", "push", "drain", "claim", "ended"}
        /\ measured \in [loss : Losses \cup {None}, under : Rates \cup {None}]
        /\ batch \in Seq(Cmds) /\ deferred \in Seq(Cmds)
        /\ batch # <<>> => jobAt = "claim"
        /\ ~polled => deferred = <<>>
        /\ measured.loss # None => jobAt = "push"
        /\ latest \in Entries \cup {None} /\ pushes \in Nat
        /\ latest # None => latest.push <= pushes
    BY DEF Sound, JobTypes, JobOK, AgentTypes, AgentOK
  <2> QED
    BY <2>1, <2>2, HandsSound DEF jobVars, metricVars
<1> QED
  BY <1>1, <1>2, <1>3, <1>4, <1>5, <1>6 DEF Next

(***************************************************************************)
(* The broker's tables, the job's hands and the agent's place fit each     *)
(* other in every behaviour, whatever is lost, expires or restarts:        *)
(* commands that can be executed whenever that is, in particular.          *)
(***************************************************************************)
THEOREM TuningSound == Spec => []Sound
BY InitSound, SoundStays, PTL DEF Spec

(***************************************************************************)
(* The types of the broker's tables, of the job and of the agent, that the *)
(* queue holds just the commands that are pending, and that every rate is  *)
(* within the guardrails but for the one the job starts with: whatever is  *)
(* lost, expires or restarts.                                              *)
(***************************************************************************)
THEOREM TuningTypeCorrect == Spec => []TypeOK
<1>1. Sound => TypeOK
  <2> SUFFICES ASSUME Sound PROVE TypeOK
    OBVIOUS
  <2>1. DOMAIN sent = Cmds
    BY LenProperties DEF Sound, BrokerOK, BrokerTypes, Cmds
  <2>2. \A c \in Cmds : status[c] \in Statuses /\ delivered[c] \in 0..MaxAttempts
    <3>1. DOMAIN status = Cmds /\ DOMAIN delivered = Cmds
      BY LenProperties DEF Sound, BrokerOK, BrokerTypes, Cmds
    <3> QED
      BY <3>1, LenProperties, ElementOfSeq DEF Sound, BrokerOK, BrokerTypes
  <2>3. \A c \in Cmds : status[c] = "pending" <=> \E i \in DOMAIN queue : queue[i] = c
    BY DEF Sound, BrokerOK, QueueOK, Holds
  <2>4. waiting # None => waiting \in DOMAIN sent
    BY <2>1, WaitingFacts
  <2>5. AdvisorTypeOK
    BY DEF Sound, AdvisorInv
  <2> QED
    BY <2>1, <2>2, <2>3, <2>4, <2>5
    DEF TypeOK, Statuses, Rates, Sound, JobTypes, AgentTypes
<1> QED
  BY <1>1, TuningSound, PTL

(***************************************************************************)
(* A trial in _live_trials is running in the study, too, when a run is     *)
(* tuned with them and other calls of the HPO tools come between           *)
(* (optuna_advisor.py, agent_sim.py).                                      *)
(***************************************************************************)
THEOREM TunedTrialsRun == Spec => []LiveTrialsRun
<1>1. Sound => LiveTrialsRun
  BY DEF Sound, AdvisorInv
<1> QED
  BY <1>1, TuningSound, PTL

-----------------------------------------------------------------------------
(***************************************************************************)
(* Tuning while no command was delivered twice, and where there is a       *)
(* poller the agent waited for each change of the rate: in which order     *)
(* commands are executed.                                                  *)
(***************************************************************************)
\* c may yet be executed without another delivery of what was delivered.
Live(c) == InHand(c) \/ (status[c] = "pending" /\ delivered[c] = 0)
NotYet(c) == delivered[c] = 0 \/ InHand(c)

Answers == \A c \in Cmds : status[c] \in {"done", "failed"} => ~InHand(c)

\* A command is in one hand, once.
Apart ==
  /\ Once(batch) /\ Once(deferred)
  /\ \A c : /\ Holds(batch, c) => ~Holds(deferred, c) /\ ~Holds(hand, c)
            /\ Holds(deferred, c) => ~Holds(hand, c)

\* Without a poller nothing overtakes; with one, a change of the rate that may
\* yet be executed is the last command, and the agent waits for it.
OneLine == ~polled => \A c, d \in Cmds : c < d /\ Live(c) => delivered[d] = 0
OneAtATime == polled => \A c \in Cmds : Changes(c) /\ Live(c) => at = "wait" /\ c = Len(sent)

Ordered == Answers /\ Apart /\ OneLine /\ OneAtATime
InOrder == Orderly => Ordered

\* No step makes a command live again, or one that was executed not executed.
Narrows == \A c \in Cmds : (Live(c)' => Live(c)) /\ (NotYet(c)' => NotYet(c))

\* Orderly, with Cmds for the domain of sent.
LEMMA OrderlyFacts ==
  ASSUME Sound
  PROVE  Orderly <=> (~polled \/ patient) /\ \A c \in Cmds : delivered[c] <= 1
<1>1. DOMAIN sent = Cmds
  BY LenProperties DEF Sound, BrokerOK, BrokerTypes, Cmds
<1> QED
  BY <1>1 DEF Orderly

\* The same after a step.
LEMMA OrderlyPrimed ==
  ASSUME Sound'
  PROVE  Orderly' <=> (~polled' \/ patient') /\ \A c \in Cmds' : delivered'[c] <= 1
<1>1. DOMAIN sent' = Cmds'
  BY LenProperties DEF Sound, BrokerOK, BrokerTypes, Cmds
<1> QED
  BY <1>1 DEF Orderly

\* The agent sends a command of the script, or the change of a trial.
Sending(type, arg, mode) ==
  /\ type \in Changing => mode \in {"ask", "call"}
  /\ \/ at = "script" /\ (type = "restore_checkpoint" => arg = checkpoint)
     \/ at = "apply" /\ mode = "ask" /\ type = "set_hyperparameters" /\ arg = trial.lr
  /\ Sendable(type, arg) /\ Send(type, arg, mode)

\* The two ways the agent sends.
LEMMA SendingFacts ==
  ASSUME Sound, Sends \/ Applies
  PROVE  \E type, arg : \E mode \in {"ask", "call", "tell"} : Sending(type, arg, mode)
<1>1. CASE Sends
  BY <1>1, SendsFacts DEF Sending
<1>2. CASE Applies
  <2>1. Sending("set_hyperparameters", trial.lr, "ask")
    BY <1>2, AppliesFacts DEF Sending
  <2> QED
    BY <2>1
<1> QED
  BY <1>1, <1>2

\* What every step leaves alone.
LEMMA StepFacts ==
  ASSUME Sound, [Next]_vars
  PROVE  /\ polled' = polled /\ (patient' => patient)
         /\ \A c \in Cmds : c \in Cmds' /\ sent'[c] = sent[c] /\ delivered[c] <= delivered'[c]
<1>1. Len(sent) \in Nat /\ \A c \in Cmds : delivered[c] \in Nat
  <2>1. DOMAIN delivered = Cmds
    BY LenProperties DEF Sound, BrokerOK, BrokerTypes, Cmds
  <2>2. \A c \in Cmds : delivered[c] \in 0..MaxAttempts
    BY <2>1, LenProperties, ElementOfSeq DEF Sound, BrokerOK, BrokerTypes
  <2> QED
    BY <2>2, WaitingFacts, AttemptsAssumption
<1>2. ASSUME sent' = sent, delivered' = delivered
      PROVE  \A c \in Cmds : c \in Cmds' /\ sent'[c] = sent[c] /\ delivered[c] <= delivered'[c]
  BY <1>1, <1>2 DEF Cmds
<1>3. ASSUME ClaimNext
      PROVE  \A c \in Cmds : c \in Cmds' /\ sent'[c] = sent[c] /\ delivered[c] <= delivered'[c]
  <2>1. /\ sent' = sent
        /\ delivered'[Head(queue)] = delivered[Head(queue)] + 1
        /\ \A c \in Cmds : c # Head(queue) => delivered'[c] = delivered[c]
    BY <1>3, ClaimFacts DEF Sound
  <2> QED
    BY <1>1, <2>1 DEF Cmds
<1>4. CASE JobNext \/ PollerNext
  <2>1. polled' = polled /\ UNCHANGED agentVars
    BY <1>4 DEF JobNext, PollerNext, Epoch, TrainEnds, PushTelemetry, BeginDrain, Claims, Executes,
                DrainEnds, PollerClaims, PollerExecutes
  <2>2. \/ ClaimNext
        \/ sent' = sent /\ delivered' = delivered
    BY <1>4 DEF JobNext, PollerNext, Epoch, TrainEnds, PushTelemetry, BeginDrain, Claims, Executes,
                DrainEnds, PollerClaims, PollerExecutes, brokerVars, sentVars
  <2> QED
    BY <1>2, <1>3, <2>1, <2>2 DEF agentVars
<1>5. CASE BrokerNext
  <2>1. UNCHANGED <<sentVars, delivered, jobVars, agentVars>>
    BY <1>5 DEF BrokerNext, BrokerRestarts, LeaseExpires
  <2>2. sent' = sent /\ delivered' = delivered /\ polled' = polled /\ patient' = patient
    BY <2>1 DEF sentVars, jobVars, agentVars
  <2> QED
    BY <1>2, <2>2
<1>6. CASE Sends \/ Applies
  <2>1. PICK type, arg : \E mode \in {"ask", "call", "tell"} : Sending(type, arg, mode)
    BY <1>6, SendingFacts
  <2>2. PICK mode \in {"ask", "call", "tell"} : Sending(type, arg, mode)
    BY <2>1
  <2>3. UNCHANGED jobVars /\ (patient' => patient) /\ (Enqueue(type, arg) \/ UNCHANGED brokerVars)
    BY <2>2, SendFacts DEF Sending
  <2>4. CASE Enqueue(type, arg)
    <3>1. /\ Len(sent') = Len(sent) + 1
          /\ \A c \in Cmds : sent'[c] = sent[c] /\ delivered'[c] = delivered[c]
      BY <2>2, <2>4, EnqueueFacts DEF Sound, Sending
    <3> QED
      BY <1>1, <2>3, <3>1 DEF Cmds, jobVars
  <2>5. CASE UNCHANGED brokerVars
    BY <1>2, <2>3, <2>5 DEF brokerVars, sentVars, jobVars
  <2> QED
    BY <2>3, <2>4, <2>5
<1>7. CASE /\ UNCHANGED <<brokerVars, jobVars>>
           /\ \/ patient' = patient
              \/ patient' = (patient /\ sent[waiting].type \notin Changing)
  <2>1. patient' => patient
    <3>1. CASE patient' = patient
      BY <3>1
    <3>2. CASE patient' = (patient /\ sent[waiting].type \notin Changing)
      BY <3>2, Zenon
    <3> QED
      BY <1>7, <3>1, <3>2
  <2> QED
    BY <1>2, <1>7, <2>1 DEF brokerVars, sentVars, jobVars
<1>8. CASE Starts \/ Reads \/ Skips \/ Answered \/ GivesUp \/ Configures \/ Suggests
           \/ ReadsMetrics \/ ReportsTrial
  BY <1>7, <1>8 DEF Starts, Reads, Skips, Answered, GivesUp, Configures, Suggests, ReadsMetrics,
                    ReportsTrial
<1>9. CASE CallsHpoTool
  BY <1>7, <1>9 DEF CallsHpoTool, agentVars
<1>10. CASE UNCHANGED vars
  BY <1>7, <1>10 DEF vars, agentVars
<1> QED
  BY <1>4, <1>5, <1>6, <1>8, <1>9, <1>10 DEF Next, AgentNext

\* What was out of order stays so.
LEMMA OrderlyWas == ASSUME Sound, [Next]_vars, Sound', Orderly' PROVE Orderly
<1>1. (~polled' \/ patient') /\ \A c \in Cmds' : delivered'[c] <= 1
  BY OrderlyPrimed
<1>2. \A c \in Cmds : delivered[c] \in Int /\ delivered'[c] \in Int
  <2>1. \A c \in Cmds : c \in Cmds'
    BY StepFacts
  <2>2. \A c \in Cmds : delivered[c] \in 0..MaxAttempts
    <3>1. DOMAIN delivered = Cmds
      BY LenProperties DEF Sound, BrokerOK, BrokerTypes, Cmds
    <3> QED
      BY <3>1, LenProperties, ElementOfSeq DEF Sound, BrokerOK, BrokerTypes
  <2>3. \A c \in Cmds' : delivered'[c] \in 0..MaxAttempts
    <3>1. DOMAIN delivered' = Cmds'
      BY LenProperties DEF Sound, BrokerOK, BrokerTypes, Cmds
    <3> QED
      BY <3>1, LenProperties, ElementOfSeq DEF Sound, BrokerOK, BrokerTypes
  <2> QED
    BY <2>1, <2>2, <2>3, AttemptsAssumption
<1>3. \A c \in Cmds : delivered[c] <= 1
  BY <1>1, <1>2, StepFacts
<1> QED
  BY <1>1, <1>3, StepFacts, OrderlyFacts

\* What a command that was delivered has, and one in hand.
LEMMA DeliveredFacts ==
  ASSUME Sound
  PROVE  \A c \in Cmds : /\ delivered[c] \in Nat
                         /\ delivered[c] = 0 => status[c] \in {"pending", "unknown"} /\ ~InHand(c)
<1>1. DOMAIN delivered = Cmds
  BY LenProperties DEF Sound, BrokerOK, BrokerTypes, Cmds
<1>2. \A c \in Cmds : delivered[c] \in Nat
  BY <1>1, LenProperties, ElementOfSeq, AttemptsAssumption DEF Sound, BrokerOK, BrokerTypes
<1> QED
  BY <1>2 DEF Sound, BrokerOK, Deliveries, JobOK

\* Steps that deliver nothing.
LEMMA NothingDelivered ==
  ASSUME Sound, Ordered, UNCHANGED <<sent, delivered, polled, at>>,
         Apart', Answers', \A c \in Cmds : InHand(c)' => InHand(c),
         \A c \in Cmds : status'[c] = "pending" => status[c] = "pending" \/ delivered[c] > 0
  PROVE  Ordered' /\ Narrows
<1>1. Cmds' = Cmds /\ sent' = sent /\ delivered' = delivered /\ polled' = polled /\ at' = at
  BY DEF Cmds
<1>2. \A c \in Cmds : delivered[c] \in Nat
  BY DeliveredFacts
<1>3. \A c \in Cmds : Live(c)' => Live(c)
  BY <1>1, <1>2 DEF Live
<1>4. \A c \in Cmds : NotYet(c)' => NotYet(c)
  BY <1>1 DEF NotYet
<1>5. OneLine'
  <2>1. ~polled => \A c, d \in Cmds : c < d /\ Live(c)' => delivered[d] = 0
    BY <1>3 DEF Ordered, OneLine
  <2> QED
    BY <1>1, <2>1 DEF OneLine
<1>6. OneAtATime'
  <2>1. polled => \A c \in Cmds : Changes(c) /\ Live(c)' => at = "wait" /\ c = Len(sent)
    BY <1>3 DEF Ordered, OneAtATime
  <2> QED
    BY <1>1, <2>1 DEF OneAtATime, Changes
<1> QED
  BY <1>3, <1>4, <1>5, <1>6 DEF Ordered, Narrows

\* The loop moves what is deferred into the batch.
LEMMA LoopOrder ==
  ASSUME Sound, Ordered, Epoch \/ TrainEnds \/ PushTelemetry \/ BeginDrain
  PROVE  Ordered' /\ Narrows /\ UNCHANGED <<sent, meant, status, lr, saved>>
<1>1. UNCHANGED <<brokerVars, polled, lr, saved, hand, at>>
  BY DEF Epoch, TrainEnds, PushTelemetry, BeginDrain, agentVars
<1>2. UNCHANGED <<sent, meant, status, delivered, polled, lr, saved, at>> /\ hand' = hand
  BY <1>1 DEF brokerVars, sentVars
<1>3. \/ batch' = batch /\ deferred' = deferred
      \/ batch = <<>> /\ batch' = deferred /\ deferred' = <<>>
  BY DEF Epoch, TrainEnds, PushTelemetry, BeginDrain, Sound, JobOK
<1>4. \A c : /\ Holds(batch', c) \/ Holds(deferred', c) => Holds(batch, c) \/ Holds(deferred, c)
             /\ Holds(batch', c) => ~Holds(deferred', c)
      /\ Once(batch') /\ Once(deferred')
  BY <1>3, SingleFacts DEF Ordered, Apart
<1>5. Apart'
  BY <1>2, <1>4 DEF Ordered, Apart
<1>6. \A c : InHand(c)' => InHand(c)
  BY <1>2, <1>4 DEF InHand, Holds
<1>7. Answers'
  BY <1>2, <1>6 DEF Ordered, Answers, Cmds
<1> QED
  BY <1>2, <1>5, <1>6, <1>7, NothingDelivered

\* Where a command that is claimed goes.
Claimed(h) ==
  \/ /\ batch = <<>> /\ batch' = <<h>> /\ UNCHANGED <<deferred, hand>>
  \/ /\ batch = <<>> /\ UNCHANGED <<batch, deferred, hand>>
  \/ /\ polled /\ hand = <<>> /\ hand' = <<h>> /\ UNCHANGED <<batch, deferred>>
     /\ sent[h].type \in SafeTypes
  \/ /\ polled /\ deferred' = Append(deferred, h) /\ UNCHANGED <<batch, hand>>

\* A command that was in no hand is in one at most.
LEMMA ClaimedApart ==
  ASSUME Sound, Ordered, NEW h \in Cmds, ~InHand(h), Claimed(h)
  PROVE  Apart' /\ \A c : InHand(c)' => InHand(c) \/ c = h
<1>1. /\ Once(batch) /\ Once(deferred) /\ deferred \in Seq(Cmds)
      /\ \A c : /\ Holds(batch, c) => ~Holds(deferred, c) /\ ~Holds(hand, c)
                /\ Holds(deferred, c) => ~Holds(hand, c)
      /\ ~Holds(batch, h) /\ ~Holds(deferred, h) /\ ~Holds(hand, h)
  BY DEF Ordered, Apart, InHand, Sound, JobTypes
<1>2. CASE batch = <<>> /\ batch' = <<h>> /\ UNCHANGED <<deferred, hand>>
  <2>1. /\ Once(batch') /\ \A c : Holds(batch', c) => c = h
        /\ deferred' = deferred /\ hand' = hand
    BY <1>2, SingleFacts
  <2> QED
    BY <1>1, <2>1 DEF Apart, InHand
<1>3. CASE batch = <<>> /\ UNCHANGED <<batch, deferred, hand>>
  BY <1>1, <1>3 DEF Apart, InHand
<1>4. CASE hand = <<>> /\ hand' = <<h>> /\ UNCHANGED <<batch, deferred>>
  <2>1. /\ \A c : Holds(hand', c) => c = h
        /\ deferred' = deferred /\ batch' = batch
    BY <1>4, SingleFacts
  <2> QED
    BY <1>1, <2>1 DEF Apart, InHand
<1>5. CASE deferred' = Append(deferred, h) /\ UNCHANGED <<batch, hand>>
  <2>1. /\ Once(deferred') /\ \A c : Holds(deferred', c) <=> Holds(deferred, c) \/ c = h
        /\ hand' = hand /\ batch' = batch
    BY <1>1, <1>5, AppendFacts
  <2> QED
    BY <1>1, <2>1 DEF Apart, InHand
<1> QED
  BY <1>2, <1>3, <1>4, <1>5 DEF Claimed

\* The first command of the queue goes out for the first time.
LEMMA ClaimOrder ==
  ASSUME Sound, Ordered, Orderly', Sound', ClaimNext, Claimed(Head(queue)), UNCHANGED <<polled, at>>
  PROVE  /\ Ordered' /\ Narrows /\ UNCHANGED <<sent, meant>>
         /\ \A c \in Cmds : status'[c] = "done" => status[c] = "done"
<1> DEFINE h == Head(queue)
<1>1. /\ sent' = sent /\ meant' = meant /\ Cmds' = Cmds
      /\ h \in Cmds /\ status[h] = "pending" /\ status'[h] = "in_progress"
      /\ delivered'[h] = delivered[h] + 1 /\ delivered[h] \in Nat
      /\ \A c \in Cmds : c # h => status'[c] = status[c] /\ delivered'[c] = delivered[c]
      /\ delivered[h] = 0 =>
           \A c \in Cmds : status[c] = "pending" /\ delivered[c] = 0 /\ c # h => h < c
  BY ClaimFacts DEF Sound, Cmds
<1>2. delivered'[h] <= 1
  BY <1>1, OrderlyPrimed
<1>3. delivered[h] = 0 /\ ~InHand(h)
  BY <1>1, <1>2, DeliveredFacts
<1>4. Claimed(h)
  OBVIOUS
<1> HIDE DEF h
<1>5. Apart' /\ \A c : InHand(c)' => InHand(c) \/ c = h
  BY <1>1, <1>3, <1>4, ClaimedApart
<1>6. Live(h) /\ NotYet(h)
  BY <1>1, <1>3 DEF Live, NotYet
<1>7. \A c \in Cmds : Live(c)' => Live(c)
  BY <1>1, <1>5, <1>6 DEF Live
<1>8. \A c \in Cmds : NotYet(c)' => NotYet(c)
  BY <1>1, <1>5, <1>6 DEF NotYet
<1>9. Answers'
  <2>1. \A c \in Cmds : status'[c] \in {"done", "failed"} => ~InHand(c)'
    BY <1>1, <1>5 DEF Ordered, Answers
  <2> QED
    BY <1>1, <2>1 DEF Answers
<1>10. OneLine'
  <2> SUFFICES ASSUME ~polled, NEW c \in Cmds, NEW d \in Cmds, c < d, Live(c)'
               PROVE  delivered'[d] = 0
    BY <1>1 DEF OneLine
  <2>1. Live(c) /\ delivered[d] = 0
    BY <1>7 DEF Ordered, OneLine
  <2>2. d # h
    <3> SUFFICES ASSUME d = h PROVE FALSE
      OBVIOUS
    <3>1. batch = <<>> /\ deferred = <<>> /\ hand = <<>>
      BY <1>4 DEF Claimed, Sound, JobOK
    <3>2. ~InHand(c)
      BY <3>1, SingleFacts DEF InHand
    <3>3. status[c] = "pending" /\ delivered[c] = 0 /\ c # h
      BY <2>1, <3>2 DEF Live, Cmds
    <3>4. h < c
      BY <1>1, <1>3, <3>3
    <3> QED
      BY <3>4 DEF Cmds
  <2> QED
    BY <1>1, <2>1, <2>2
<1>11. OneAtATime'
  <2>1. polled => \A c \in Cmds : Changes(c) /\ Live(c)' => at = "wait" /\ c = Len(sent)
    BY <1>7 DEF Ordered, OneAtATime
  <2> QED
    BY <1>1, <2>1 DEF OneAtATime, Changes
<1>12. \A c \in Cmds : status'[c] = "done" => status[c] = "done"
  BY <1>1
<1> QED
  BY <1>1, <1>5, <1>7, <1>8, <1>9, <1>10, <1>11, <1>12 DEF Ordered, Narrows

\* Who claims takes the first command, and leaves it in line.
LEMMA ClaimsOrder ==
  ASSUME Sound, Ordered, Orderly', Sound', Claims \/ DrainEnds \/ PollerClaims
  PROVE  /\ Ordered' /\ Narrows /\ UNCHANGED <<sent, meant, lr, saved>>
         /\ \A c \in Cmds : status'[c] = "done" => status[c] = "done"
<1>1. UNCHANGED <<polled, lr, saved, at>>
  BY DEF Claims, DrainEnds, PollerClaims, agentVars
<1>2. \/ ClaimNext /\ Claimed(Head(queue))
      \/ UNCHANGED <<brokerVars, batch, deferred, hand>>
  BY DEF Claims, DrainEnds, PollerClaims, Claimed
<1>3. CASE ClaimNext /\ Claimed(Head(queue))
  BY <1>1, <1>3, ClaimOrder
<1>4. CASE UNCHANGED <<brokerVars, batch, deferred, hand>>
  <2>1. UNCHANGED <<sent, meant, status, delivered, batch, deferred, hand>>
    BY <1>4 DEF brokerVars, sentVars
  <2>2. Apart' /\ \A c : InHand(c)' <=> InHand(c)
    BY <2>1 DEF Ordered, Apart, Once, Holds, InHand
  <2>3. Answers'
    BY <2>1, <2>2 DEF Ordered, Answers, Cmds
  <2> QED
    BY <1>1, <2>1, <2>2, <2>3, NothingDelivered
<1> QED
  BY <1>2, <1>3, <1>4

\* A command that is executed leaves the batch.
LEMMA ExecutesOrder ==
  ASSUME Sound, Ordered, Executes
  PROVE  /\ Ordered' /\ Narrows /\ UNCHANGED <<sent, meant, delivered>>
         /\ \A c \in Cmds : c = Head(batch) =>
              /\ InHand(c) /\ delivered[c] > 0
              /\ ~InHand(c)' /\ ~Live(c)' /\ ~NotYet(c)'
<1> DEFINE e == Head(batch)
<1>1. /\ e \in Cmds /\ delivered[e] > 0 /\ Holds(batch, e)
      /\ \A d : Holds(batch, d) <=> Holds(batch', d) \/ d = e
      /\ Once(batch) => Once(batch') /\ ~Holds(batch', e)
      /\ UNCHANGED <<sent, meant, delivered>>
      /\ status'[e] \in {status[e], "done", "failed"}
      /\ \A d \in Cmds : d # e => status'[d] = status[d]
  BY ExecutesFacts
<1>2. deferred' = deferred /\ hand' = hand /\ polled' = polled /\ at' = at
  BY DEF Executes, agentVars
<1> HIDE DEF e
<1>3. Cmds' = Cmds
  BY <1>1 DEF Cmds
<1>4. /\ \A c : InHand(c)' => InHand(c)
      /\ \A c : c = e => ~InHand(c)' /\ InHand(c)
      /\ Apart'
  BY <1>1, <1>2 DEF Ordered, Apart, InHand
<1>5. Answers'
  <2>1. \A c \in Cmds : status'[c] \in {"done", "failed"} => ~InHand(c)'
    BY <1>1, <1>4 DEF Ordered, Answers
  <2> QED
    BY <1>3, <2>1 DEF Answers
<1>6. \A c \in Cmds : status'[c] = "pending" => status[c] = "pending"
  BY <1>1
<1>7. Ordered' /\ Narrows
  BY <1>1, <1>2, <1>4, <1>5, <1>6, NothingDelivered
<1>8. \A c \in Cmds : c = e => delivered'[c] # 0
  BY <1>1
<1>9. \A c \in Cmds : c = e => ~Live(c)' /\ ~NotYet(c)'
  BY <1>4, <1>8 DEF Live, NotYet
<1> QED
  BY <1>1, <1>4, <1>7, <1>9 DEF e

\* The poller, leases and restarts.
LEMMA PollerExecutesOrder ==
  ASSUME Sound, Ordered, PollerExecutes
  PROVE  /\ Ordered' /\ Narrows /\ UNCHANGED <<sent, meant, lr, saved>>
         /\ \A c \in Cmds : status'[c] = "done" => status[c] = "done" \/ sent[c].type \in SafeTypes
<1> DEFINE e == Head(hand)
<1>1. /\ hand # <<>> /\ hand \in Seq(Cmds) /\ Reports(e) /\ hand' = <<>>
      /\ UNCHANGED <<sentVars, delivered, polled, lr, saved, batch, deferred, at>>
  BY DEF PollerExecutes, agentVars, Sound, JobTypes
<1>2. e \in Cmds /\ Holds(hand, e)
  BY <1>1, TailFacts
<1>3. delivered[e] > 0 /\ sent[e].type \in SafeTypes
  BY <1>2 DEF Sound, JobOK, InHand
<1>4. /\ UNCHANGED <<sent, meant, delivered>>
      /\ status'[e] \in {status[e], "done", "failed"}
      /\ \A d \in Cmds : d # e => status'[d] = status[d]
  BY <1>1, <1>2, <1>3, ReportsFacts DEF Sound
<1> HIDE DEF e
<1>5. /\ Apart' /\ \A c : InHand(c)' => InHand(c)
      /\ \A c : c = e => ~InHand(c)'
  <2>1. \A c : ~Holds(hand', c)
    BY <1>1, SingleFacts
  <2>2. batch' = batch /\ deferred' = deferred
    BY <1>1
  <2> QED
    BY <1>2, <2>1, <2>2 DEF Ordered, Apart, InHand
<1>6. Answers'
  <2>1. \A c \in Cmds : status'[c] \in {"done", "failed"} => ~InHand(c)'
    BY <1>4, <1>5 DEF Ordered, Answers
  <2>2. Cmds' = Cmds
    BY <1>4 DEF Cmds
  <2> QED
    BY <2>1, <2>2 DEF Answers
<1>7. \A c \in Cmds : status'[c] = "pending" => status[c] = "pending"
  BY <1>4
<1>8. Ordered' /\ Narrows
  BY <1>1, <1>4, <1>5, <1>6, <1>7, NothingDelivered
<1> QED
  BY <1>1, <1>3, <1>4, <1>8

\* A lease that runs out brings a command back, or the last delivery of more
\* than one has been made.
LEMMA BrokerOrder ==
  ASSUME Sound, Ordered, Orderly, BrokerNext
  PROVE  /\ Ordered' /\ Narrows /\ UNCHANGED <<sent, meant, lr, saved>>
         /\ \A c \in Cmds : status'[c] = "done" => status[c] = "done"
<1>1. DOMAIN sent = Cmds
  BY LenProperties DEF Sound, BrokerOK, BrokerTypes, Cmds
<1>2. UNCHANGED <<jobVars, agentVars>>
  BY DEF BrokerNext, BrokerRestarts, LeaseExpires
<1>3. UNCHANGED <<polled, lr, saved, at, batch, deferred, hand>>
  BY <1>2 DEF jobVars, agentVars
<1>4. Apart' /\ \A c : InHand(c)' <=> InHand(c)
  BY <1>3 DEF Ordered, Apart, Once, Holds, InHand
<1>5. /\ UNCHANGED <<sent, meant, delivered>>
      /\ \A c \in Cmds : /\ status'[c] \in {status[c], "unknown", "pending"}
                         /\ status'[c] = "pending" => status[c] = "pending" \/ delivered[c] > 0
  <2>1. CASE BrokerRestarts
    BY <2>1, RestartFacts DEF Sound
  <2>2. ASSUME NEW c \in Cmds, LeaseExpires(c)
        PROVE  /\ UNCHANGED <<sent, meant, delivered>>
               /\ \A d \in Cmds : /\ status'[d] \in {status[d], "unknown", "pending"}
                                  /\ status'[d] = "pending" => status[d] = "pending" \/ delivered[d] > 0
    <3>1. /\ UNCHANGED <<sent, meant, delivered>>
          /\ delivered[c] > 0
          /\ \/ status'[c] = "pending"
             \/ status'[c] = "failed" /\ delivered[c] >= MaxAttempts
          /\ \A d \in Cmds : d # c => status'[d] = status[d]
      BY <2>2, ExpireFacts DEF Sound
    <3>2. ~(delivered[c] >= MaxAttempts)
      <4>1. delivered[c] <= 1 /\ delivered[c] \in Nat
        BY OrderlyFacts, DeliveredFacts
      <4> QED
        BY <4>1, AttemptsAssumption
    <3> QED
      BY <3>1, <3>2
  <2> QED
    BY <1>1, <2>1, <2>2 DEF BrokerNext
<1>6. Answers'
  <2>1. \A c \in Cmds : status'[c] \in {"done", "failed"} => ~InHand(c)'
    BY <1>4, <1>5 DEF Ordered, Answers
  <2>2. Cmds' = Cmds
    BY <1>5 DEF Cmds
  <2> QED
    BY <2>1, <2>2 DEF Answers
<1>7. Ordered' /\ Narrows
  BY <1>3, <1>4, <1>5, <1>6, NothingDelivered
<1> QED
  BY <1>3, <1>5, <1>7

\* All of these together: every step that sends nothing and executes nothing in
\* the training thread.
LEMMA QuietOrder ==
  ASSUME Sound, Ordered, Orderly, Orderly', Sound',
         (JobNext /\ ~Executes) \/ PollerNext \/ BrokerNext
  PROVE  /\ Ordered' /\ Narrows /\ UNCHANGED <<sent, meant, lr, saved, agentVars>>
         /\ \A c \in Cmds : status'[c] = "done" => status[c] = "done" \/ sent[c].type \in SafeTypes
<1>1. UNCHANGED agentVars
  BY DEF JobNext, PollerNext, BrokerNext, Epoch, TrainEnds, PushTelemetry, BeginDrain, Claims,
         DrainEnds, PollerClaims, PollerExecutes, BrokerRestarts, LeaseExpires
<1>2. CASE Epoch \/ TrainEnds \/ PushTelemetry \/ BeginDrain
  BY <1>1, <1>2, LoopOrder
<1>3. CASE Claims \/ DrainEnds \/ PollerClaims
  BY <1>1, <1>3, ClaimsOrder
<1>4. CASE PollerExecutes
  BY <1>1, <1>4, PollerExecutesOrder
<1>5. CASE BrokerNext
  BY <1>1, <1>5, BrokerOrder
<1> QED
  BY <1>2, <1>3, <1>4, <1>5 DEF JobNext, PollerNext

\* The agent, when it sends nothing.
LEMMA AgentOrder ==
  ASSUME Sound, Ordered, Orderly', Sound', UNCHANGED <<brokerVars, jobVars>>,
         at # "wait" \/ UNCHANGED at \/ Answered \/ GivesUp
  PROVE  /\ Ordered' /\ Narrows /\ UNCHANGED <<sent, meant, status, delivered, lr, saved>>
         /\ \A c \in Cmds : (InHand(c)' <=> InHand(c)) /\ (Live(c)' <=> Live(c))
<1>1. UNCHANGED <<sent, meant, status, delivered, polled, lr, saved, batch, deferred, hand>>
  BY DEF brokerVars, sentVars, jobVars
<1>2. /\ Cmds' = Cmds /\ polled' = polled /\ sent' = sent
      /\ \A c : (InHand(c)' <=> InHand(c)) /\ (Live(c)' <=> Live(c)) /\ (NotYet(c)' <=> NotYet(c))
  BY <1>1 DEF Cmds, Holds, InHand, Live, NotYet
<1>3. Apart' /\ Answers' /\ OneLine'
  BY <1>1 DEF Ordered, Apart, Answers, OneLine, Once, Holds, InHand, Live, Cmds
<1>4. OneAtATime'
  <2>1. ASSUME polled, NEW c \in Cmds, Changes(c), Live(c)
        PROVE  at' = "wait" /\ c = Len(sent)
    <3>1. at = "wait" /\ c = Len(sent)
      BY <2>1 DEF Ordered, OneAtATime
    <3>2. waiting = c
      BY <3>1, WaitingFacts
    <3>3. ~Answered
      <4> SUFFICES ASSUME Answered PROVE FALSE
        OBVIOUS
      <4>1. status[c] \in {"done", "failed"}
        BY <3>2 DEF Answered
      <4>2. ~InHand(c)
        BY <2>1, <4>1 DEF Ordered, Answers
      <4> QED
        BY <2>1, <4>1, <4>2 DEF Live
    <3>4. ~GivesUp
      <4> SUFFICES ASSUME GivesUp PROVE FALSE
        OBVIOUS
      <4>1. patient' = (patient /\ sent[waiting].type \notin Changing)
        BY DEF GivesUp
      <4>2. patient'
        BY <1>1, <2>1, OrderlyPrimed
      <4>3. sent[waiting].type \notin Changing
        BY <4>1, <4>2, Zenon
      <4> QED
        BY <2>1, <3>2, <4>3 DEF Changes
    <3> QED
      BY <3>1, <3>3, <3>4
  <2>2. polled => \A c \in Cmds : Changes(c) /\ Live(c) => at' = "wait" /\ c = Len(sent)
    BY <2>1
  <2> QED
    BY <1>1, <1>2, <2>2 DEF OneAtATime, Changes
<1> QED
  BY <1>1, <1>2, <1>3, <1>4 DEF Ordered, Narrows

\* A command that is sent waits behind the others, and changes nothing for them.
LEMMA SendOrder ==
  ASSUME Sound, Ordered, Orderly', Sound',
         NEW type, NEW arg, NEW mode \in {"ask", "call", "tell"}, Sending(type, arg, mode)
  PROVE  Ordered' /\ Narrows /\ UNCHANGED <<lr, saved>>
<1> DEFINE n == Len(sent)
<1>1. /\ UNCHANGED jobVars
      /\ Enqueue(type, arg) \/ UNCHANGED brokerVars
      /\ \/ at' = "wait"
         \/ type \in Changing => ~patient'
      /\ at # "wait"
  BY SendFacts DEF Sending
<1>2. UNCHANGED <<polled, lr, saved, batch, deferred, hand>>
  BY <1>1 DEF jobVars
<1>3. CASE UNCHANGED brokerVars
  BY <1>1, <1>2, <1>3, AgentOrder
<1>4. CASE Enqueue(type, arg)
  <2>1. /\ n \in Nat /\ Len(sent') = n + 1
        /\ sent'[n + 1] = [type |-> type, arg |-> arg]
        /\ status'[n + 1] = "pending" /\ delivered'[n + 1] = 0
        /\ \A c \in Cmds : sent'[c] = sent[c] /\ status'[c] = status[c] /\ delivered'[c] = delivered[c]
    BY <1>4, EnqueueFacts DEF Sound, Sending
  <2> HIDE DEF n
  <2>2. Cmds = 1..n /\ Cmds' = 1..(n + 1)
    BY <2>1 DEF Cmds, n
  <2>3. \A c : InHand(c)' <=> InHand(c)
    BY <1>2 DEF InHand, Holds
  <2>4. \A c \in Cmds : (Live(c)' <=> Live(c)) /\ (NotYet(c)' <=> NotYet(c))
    BY <2>1, <2>3 DEF Live, NotYet
  <2>5. ~InHand(n + 1)
    <3>1. batch \in Seq(1..n) /\ deferred \in Seq(1..n) /\ hand \in Seq(1..n)
      BY <2>2 DEF Sound, JobTypes
    <3>2. \A s \in Seq(1..n) : ~Holds(s, n + 1)
      <4> SUFFICES ASSUME NEW s \in Seq(1..n) PROVE ~Holds(s, n + 1)
        OBVIOUS
      <4>1. \A i \in DOMAIN s : s[i] \in 1..n
        BY LenProperties, ElementOfSeq
      <4> QED
        BY <2>1, <4>1 DEF Holds
    <3> QED
      BY <3>1, <3>2 DEF InHand
  <2>6. Apart'
    BY <1>2 DEF Ordered, Apart, Once, Holds
  <2>7. Answers'
    <3>1. \A c \in 1..n : status'[c] \in {"done", "failed"} => ~InHand(c)'
      BY <2>1, <2>2, <2>3 DEF Ordered, Answers
    <3>2. \A c \in 1..(n + 1) : status'[c] \in {"done", "failed"} => ~InHand(c)'
      BY <2>1, <3>1
    <3> QED
      BY <2>2, <3>2 DEF Answers
  <2>8. OneLine'
    <3> SUFFICES ASSUME ~polled, NEW c \in 1..(n + 1), NEW d \in 1..(n + 1), c < d, Live(c)'
                 PROVE  delivered'[d] = 0
      BY <1>2, <2>2 DEF OneLine
    <3>1. CASE d = n + 1
      BY <2>1, <3>1
    <3>2. CASE d # n + 1
      <4>1. c \in Cmds /\ d \in Cmds
        BY <2>1, <2>2, <3>2
      <4>2. Live(c)
        BY <2>4, <4>1
      <4>3. delivered[d] = 0
        BY <4>1, <4>2 DEF Ordered, OneLine
      <4> QED
        BY <2>1, <4>1, <4>3
    <3> QED
      BY <3>1, <3>2
  <2>9. OneAtATime'
    <3> SUFFICES ASSUME polled, NEW c \in 1..(n + 1), sent'[c].type \in Changing, Live(c)'
                 PROVE  at' = "wait" /\ c = n + 1
      BY <1>2, <2>1, <2>2 DEF OneAtATime, Changes
    <3>1. c \notin Cmds
      <4> SUFFICES ASSUME c \in Cmds PROVE FALSE
        OBVIOUS
      <4>1. Changes(c) /\ Live(c)
        BY <2>1, <2>4 DEF Changes
      <4> QED
        BY <1>1, <4>1 DEF Ordered, OneAtATime
    <3>2. c = n + 1 /\ type \in Changing
      <4>1. c = n + 1
        BY <2>1, <2>2, <3>1
      <4> QED
        BY <2>1, <4>1
    <3>3. patient'
      BY <1>2, OrderlyPrimed
    <3> QED
      BY <1>1, <3>2, <3>3
  <2> QED
    BY <1>2, <2>4, <2>6, <2>7, <2>8, <2>9 DEF Ordered, Narrows
<1> QED
  BY <1>1, <1>3, <1>4

\* Neither the broker nor the job takes part.
AgentAlone ==
  /\ UNCHANGED <<brokerVars, jobVars>>
  /\ at # "wait" \/ UNCHANGED at \/ Answered \/ GivesUp
  /\ checkpoint' = checkpoint \/ Answered
  /\ at' = "wait" => UNCHANGED <<at, waiting>>

\* Each step executes in the training thread, or is another of the job, the
\* poller or the broker, or sends, or concerns the agent alone.
LEMMA StepKinds ==
  ASSUME Sound, [Next]_vars
  PROVE  \/ Executes
         \/ (JobNext /\ ~Executes) \/ PollerNext \/ BrokerNext
         \/ Sends \/ Applies
         \/ AgentAlone
<1>1. CASE Starts \/ Reads \/ Skips \/ Configures \/ Suggests \/ ReadsMetrics \/ ReportsTrial
  <2>1. UNCHANGED <<brokerVars, jobVars, checkpoint>> /\ at # "wait"
    BY <1>1 DEF Starts, Reads, Skips, Configures, Suggests, ReadsMetrics, ReportsTrial
  <2>2. CASE Starts \/ Skips
    BY <2>1, <2>2, PassesFacts DEF Starts, Skips, Crash, AgentAlone
  <2>3. CASE Reads
    <3>1. at = "script" /\ (Crash \/ Proceed)
      BY <2>3 DEF Reads
    <3>2. at' # "wait"
      BY <3>1, ProceedFacts DEF Crash
    <3> QED
      BY <2>1, <3>2 DEF AgentAlone
  <2>4. CASE Configures \/ Suggests \/ ReadsMetrics \/ ReportsTrial
    BY <2>1, <2>4 DEF Configures, Suggests, ReadsMetrics, ReportsTrial, AgentAlone
  <2> QED
    BY <1>1, <2>2, <2>3, <2>4
<1>2. CASE Answered \/ GivesUp
  <2>1. UNCHANGED <<brokerVars, jobVars>> /\ (checkpoint' = checkpoint \/ Answered)
    BY <1>2 DEF Answered, GivesUp
  <2>2. at = "wait" /\ Proceed
    BY <1>2 DEF Answered, GivesUp
  <2>3. at' # "wait"
    BY <2>2, ProceedFacts
  <2> QED
    BY <1>2, <2>1, <2>3 DEF AgentAlone
<1>3. CASE CallsHpoTool
  BY <1>3 DEF CallsHpoTool, agentVars, AgentAlone
<1>4. CASE UNCHANGED vars
  BY <1>4 DEF vars, agentVars, AgentAlone
<1> QED
  BY <1>1, <1>2, <1>3, <1>4 DEF Next, AgentNext

\* What was in order stays so as long as nothing is delivered twice.
LEMMA OrderedStays ==
  ASSUME Sound, [Next]_vars, Sound', InOrder, Orderly'
  PROVE  Orderly /\ Ordered /\ Ordered' /\ Narrows
<1>1. Orderly /\ Ordered
  BY OrderlyWas DEF InOrder
<1>2. CASE Executes
  BY <1>1, <1>2, ExecutesOrder
<1>3. CASE (JobNext /\ ~Executes) \/ PollerNext \/ BrokerNext
  BY <1>1, <1>3, QuietOrder
<1>4. CASE Sends \/ Applies
  <2>1. PICK type, arg : \E mode \in {"ask", "call", "tell"} : Sending(type, arg, mode)
    BY <1>4, SendingFacts
  <2> QED
    BY <1>1, <2>1, SendOrder
<1>5. CASE AgentAlone
  BY <1>1, <1>5, AgentOrder DEF AgentAlone
<1> QED
  BY <1>1, <1>2, <1>3, <1>4, <1>5, StepKinds

-----------------------------------------------------------------------------
(***************************************************************************)
(* What the commands are meant to make of the rate.                        *)
(***************************************************************************)
Unchanging(c, n) == \A d \in (c + 1)..n : ~Changes(d)

MeantOK ==
  /\ \A c \in Cmds :
       /\ sent[c].type = "set_hyperparameters" => meant[c + 1] = Clamp(sent[c].arg)
       /\ sent[c].type = "restore_checkpoint" => meant[c + 1] = meant[sent[c].arg + 1]
  /\ \A c, n \in 0..Len(sent) : c <= n /\ Unchanging(c, n) => meant[n + 1] = meant[c + 1]

\* A command that is sent says what is meant from then on.
LEMMA EnqueueMeant ==
  ASSUME Sound, MeantOK, NEW type, NEW arg, Sendable(type, arg), Enqueue(type, arg)
  PROVE  MeantOK'
<1> DEFINE n == Len(sent)
<1>1. /\ n \in Nat /\ Len(sent') = n + 1
      /\ sent'[n + 1] = [type |-> type, arg |-> arg]
      /\ meant'[n + 2] = Meant(type, arg)
      /\ \A c \in Cmds : sent'[c] = sent[c]
      /\ \A m \in 1..(n + 1) : meant'[m] = meant[m]
  BY EnqueueFacts DEF Sound
<1>2. Cmds = 1..n /\ Cmds' = 1..(n + 1)
  BY <1>1 DEF Cmds
<1>3. /\ type = "set_hyperparameters" => Meant(type, arg) = Clamp(arg)
      /\ type = "restore_checkpoint" => Meant(type, arg) = meant[arg + 1] /\ arg \in 1..n
      /\ type \notin Changing => Meant(type, arg) = meant[n + 1]
  BY <1>2 DEF Meant, Changing, Sendable, IsSaved
<1>4. \A c \in 1..n : sent[c].type = "restore_checkpoint" => sent[c].arg \in 1..n
  BY <1>2 DEF Sound, Executable, IsSaved
<1> HIDE DEF n
<1>5. ASSUME NEW c \in 1..(n + 1)
      PROVE  /\ sent'[c].type = "set_hyperparameters" => meant'[c + 1] = Clamp(sent'[c].arg)
             /\ sent'[c].type = "restore_checkpoint" => meant'[c + 1] = meant'[sent'[c].arg + 1]
  <2>1. CASE c = n + 1
    <3>1. meant'[c + 1] = Meant(type, arg) /\ sent'[c].type = type /\ sent'[c].arg = arg
      BY <1>1, <2>1
    <3>2. type = "restore_checkpoint" => meant'[arg + 1] = meant[arg + 1]
      BY <1>1, <1>3
    <3> QED
      BY <1>3, <3>1, <3>2
  <2>2. CASE c # n + 1
    <3>1. c \in 1..n
      BY <1>1, <2>2
    <3>2. sent'[c] = sent[c] /\ meant'[c + 1] = meant[c + 1]
      BY <1>1, <1>2, <3>1
    <3>3. sent[c].type = "restore_checkpoint" => meant'[sent[c].arg + 1] = meant[sent[c].arg + 1]
      BY <1>1, <1>4, <3>1
    <3> QED
      BY <1>2, <3>1, <3>2, <3>3 DEF MeantOK
  <2> QED
    BY <2>1, <2>2
<1>6. ASSUME NEW c \in 0..(n + 1), NEW m \in 0..(n + 1), c <= m, Unchanging(c, m)'
      PROVE  meant'[m + 1] = meant'[c + 1]
  <2>1. \A d \in (c + 1)..m : sent'[d].type \notin Changing
    BY <1>6 DEF Unchanging, Changes
  <2>2. \A k \in 0..n : c <= k /\ k <= m => meant'[k + 1] = meant'[c + 1]
    <3> SUFFICES ASSUME NEW k \in 0..n, c <= k, k <= m PROVE meant'[k + 1] = meant'[c + 1]
      OBVIOUS
    <3>1. c \in 0..n /\ \A d \in (c + 1)..k : d \in 1..n /\ d \in (c + 1)..m
      BY <1>1
    <3>2. Unchanging(c, k)
      BY <1>1, <1>2, <2>1, <3>1 DEF Unchanging, Changes
    <3>3. meant[k + 1] = meant[c + 1]
      BY <3>1, <3>2 DEF MeantOK, n
    <3>4. k + 1 \in 1..(n + 1) /\ c + 1 \in 1..(n + 1)
      BY <1>1, <3>1
    <3> QED
      BY <1>1, <3>3, <3>4
  <2>3. CASE m \in 0..n
    BY <1>1, <1>6, <2>2, <2>3
  <2>4. CASE m = n + 1 /\ c # n + 1
    <3>1. n \in 0..n /\ c <= n /\ n <= m /\ n + 1 \in (c + 1)..m
      BY <1>1, <2>4
    <3>2. meant'[n + 1] = meant'[c + 1]
      BY <2>2, <3>1
    <3>3. type \notin Changing
      BY <1>1, <2>1, <3>1
    <3>4. meant'[m + 1] = meant[n + 1] /\ meant'[n + 1] = meant[n + 1]
      BY <1>1, <1>3, <2>4, <3>3
    <3> QED
      BY <3>2, <3>4
  <2>5. CASE m = n + 1 /\ c = n + 1
    BY <2>5
  <2> QED
    BY <1>1, <2>3, <2>4, <2>5
<1> QED
  BY <1>1, <1>2, <1>5, <1>6 DEF MeantOK

\* No other step sends anything.
LEMMA NothingSent ==
  ASSUME Sound, [Next]_vars
  PROVE  \/ UNCHANGED <<sent, meant>>
         \/ \E type, arg : Sendable(type, arg) /\ Enqueue(type, arg)
<1>1. CASE Sends \/ Applies
  <2>1. PICK type, arg : \E mode \in {"ask", "call", "tell"} : Sending(type, arg, mode)
    BY <1>1, SendingFacts
  <2>2. Sendable(type, arg) /\ (Enqueue(type, arg) \/ UNCHANGED brokerVars)
    BY <2>1, SendFacts DEF Sending
  <2> QED
    BY <2>2 DEF brokerVars, sentVars
<1>2. CASE Executes
  BY <1>2 DEF Executes, sentVars
<1>3. CASE (JobNext /\ ~Executes) \/ PollerNext \/ BrokerNext
  BY <1>3 DEF JobNext, PollerNext, BrokerNext, Epoch, TrainEnds, PushTelemetry, BeginDrain, Claims,
              DrainEnds, ClaimNext, PollerClaims, PollerExecutes, BrokerRestarts, LeaseExpires,
              brokerVars, sentVars
<1>4. CASE AgentAlone
  BY <1>4 DEF AgentAlone, brokerVars, sentVars
<1> QED
  BY <1>1, <1>2, <1>3, <1>4, StepKinds

\* What was meant is settled when the command is sent.
LEMMA MeantStays == ASSUME Sound, MeantOK, [Next]_vars PROVE MeantOK'
<1>1. CASE UNCHANGED <<sent, meant>>
  BY <1>1 DEF MeantOK, Unchanging, Changes, Cmds
<1> QED
  BY <1>1, NothingSent, EnqueueMeant

(***************************************************************************)
(* What the rate is.  Up to some command every change is done, and none    *)
(* after it was executed yet: then the rate is what was meant there.  So   *)
(* is what is in a checkpoint that the agent can go back to, or will.      *)
(***************************************************************************)
Final(n) == \A c \in 1..n : Changes(c) => status[c] = "done"
NoneAfter(n) == \A c \in (n + 1)..Len(sent) : Changes(c) => NotYet(c)
RateFollows == \A n \in 0..Len(sent) : Final(n) /\ NoneAfter(n) => lr = meant[n + 1]

Restored(s) == \E d \in Cmds : sent[d].type = "restore_checkpoint" /\ sent[d].arg = s
AwaitedSave(s) == /\ at = "wait" /\ s = waiting
                  /\ sent[s].type = "save_checkpoint" /\ status[s] = "done"
Trusted(s) == s = checkpoint \/ Restored(s) \/ AwaitedSave(s)
SavedFollow == \A s \in Cmds : Trusted(s) => ~NotYet(s) /\ (Final(s) => saved[s] = meant[s + 1])

Follows == Orderly => RateFollows /\ SavedFollow

\* Steps that send nothing and execute nothing in the training thread.
LEMMA FollowsKept ==
  ASSUME Sound, RateFollows, SavedFollow, UNCHANGED <<sent, meant, lr, saved>>, Narrows,
         \A c \in Cmds : status'[c] = "done" => status[c] = "done" \/ sent[c].type \in SafeTypes,
         \A s \in Cmds : Trusted(s)' => Trusted(s)
  PROVE  RateFollows' /\ SavedFollow'
<1>1. /\ Len(sent) \in Nat /\ Cmds = 1..Len(sent) /\ Cmds' = Cmds
      /\ sent' = sent /\ meant' = meant /\ lr' = lr /\ saved' = saved
  BY WaitingFacts DEF Cmds
<1>2. \A n \in 0..Len(sent) : Final(n)' => Final(n)
  <2>1. Changing \cap SafeTypes = {}
    BY DEF Changing, SafeTypes
  <2>2. \A n \in 0..Len(sent) : 1..n \subseteq Cmds
    BY <1>1
  <2> QED
    BY <1>1, <2>1, <2>2 DEF Final, Changes
<1>3. \A n \in 0..Len(sent) : NoneAfter(n)' => NoneAfter(n)
  <2>1. \A n \in 0..Len(sent) : (n + 1)..Len(sent) \subseteq Cmds
    BY <1>1
  <2> QED
    BY <1>1, <2>1 DEF NoneAfter, Changes, Narrows
<1>4. RateFollows'
  <2>1. \A n \in 0..Len(sent) : Final(n)' /\ NoneAfter(n)' => lr = meant[n + 1]
    BY <1>2, <1>3 DEF RateFollows
  <2> QED
    BY <1>1, <2>1 DEF RateFollows
<1>5. SavedFollow'
  <2>1. Cmds \subseteq 0..Len(sent)
    BY <1>1
  <2>2. \A s \in Cmds : Trusted(s)' => ~NotYet(s)' /\ (Final(s)' => saved[s] = meant[s + 1])
    BY <1>2, <2>1 DEF SavedFollow, Narrows
  <2> QED
    BY <1>1, <2>2 DEF SavedFollow
<1> QED
  BY <1>4, <1>5

\* The job, the poller and the broker do not make a checkpoint trusted.
LEMMA QuietFollows ==
  ASSUME Sound, RateFollows, SavedFollow, UNCHANGED <<sent, meant, lr, saved, agentVars>>, Narrows,
         \A c \in Cmds : status'[c] = "done" => status[c] = "done" \/ sent[c].type \in SafeTypes
  PROVE  RateFollows' /\ SavedFollow'
<1>1. Cmds' = Cmds /\ sent' = sent /\ at' = at /\ waiting' = waiting /\ checkpoint' = checkpoint
  BY DEF Cmds, agentVars
<1>2. \A s \in Cmds : Trusted(s)' => Trusted(s)
  <2>1. "save_checkpoint" \notin SafeTypes
    BY DEF SafeTypes
  <2> QED
    BY <1>1, <2>1 DEF Trusted, Restored, AwaitedSave
<1> QED
  BY <1>2, FollowsKept

\* The agent goes back to a checkpoint only if it has seen it done.
LEMMA AgentFollows ==
  ASSUME Sound, Sound', RateFollows, SavedFollow, UNCHANGED <<sent, meant, status, lr, saved>>, Narrows,
         checkpoint' = checkpoint \/ AwaitedSave(checkpoint'),
         at' = "wait" => UNCHANGED <<at, waiting>>
  PROVE  RateFollows' /\ SavedFollow'
<1>1. Cmds' = Cmds /\ sent' = sent /\ status' = status
  BY DEF Cmds
<1>2. \A s \in Cmds : Trusted(s)' => Trusted(s)
  BY <1>1 DEF Trusted, Restored, AwaitedSave
<1> QED
  BY <1>2, FollowsKept

\* What is sent comes after all others; only what is trusted is restored.
LEMMA SendFollows ==
  ASSUME Sound, RateFollows, SavedFollow, Narrows,
         NEW type, NEW arg, NEW mode \in {"ask", "call", "tell"}, Sending(type, arg, mode),
         Enqueue(type, arg)
  PROVE  RateFollows' /\ SavedFollow'
<1>0. PICK n : n = Len(sent)
  OBVIOUS
<1>1. /\ n \in Nat /\ Len(sent') = n + 1
      /\ sent'[n + 1] = [type |-> type, arg |-> arg]
      /\ status'[n + 1] = "pending" /\ delivered'[n + 1] = 0
      /\ meant'[n + 2] = Meant(type, arg)
      /\ \A c \in Cmds : sent'[c] = sent[c] /\ status'[c] = status[c] /\ delivered'[c] = delivered[c]
      /\ \A m \in 1..(n + 1) : meant'[m] = meant[m]
  BY <1>0, EnqueueFacts DEF Sound, Sending
<1>2. Cmds = 1..n /\ Cmds' = 1..(n + 1)
  BY <1>0, <1>1 DEF Cmds
<1>3. /\ UNCHANGED jobVars /\ checkpoint' = checkpoint
      /\ at' = "wait" => waiting' = n + 1 \/ waiting' = None
      /\ type = "restore_checkpoint" => arg = checkpoint
  BY <1>0, SendFacts DEF Sending
<1>4. lr' = lr /\ saved' = saved
  BY <1>3 DEF jobVars
<1>5. \A c \in 1..n : ~NotYet(c) => ~NotYet(c)'
  BY <1>2 DEF Narrows
<1>6. \A c \in 1..n : NotYet(c)' => NotYet(c)
  BY <1>2 DEF Narrows
<1>7. type \notin Changing => Meant(type, arg) = meant[n + 1]
  BY <1>0 DEF Meant, Changing
<1>8. checkpoint # None => checkpoint \in 1..n
  BY <1>2 DEF Sound, AgentOK, IsSaved
<1>9. None \notin 1..(n + 1)
  BY <1>1, NoneAssumption
<1>10. \A d \in 1..n : sent[d].type = "restore_checkpoint" => sent[d].arg \in 1..n
  BY <1>2 DEF Sound, Executable, IsSaved
<1>11. type = "restore_checkpoint" => arg \in 1..n
  BY <1>2 DEF Sending, Sendable, IsSaved
<1>12. \A m \in 0..n : /\ Final(m) => lr = meant[m + 1] \/ ~NoneAfter(m)
  BY <1>0 DEF RateFollows
<1>13. \A s \in 1..n : Trusted(s) => ~NotYet(s) /\ (Final(s) => saved[s] = meant[s + 1])
  BY <1>2 DEF SavedFollow
<1>14. \A m \in 0..n : /\ Final(m)' => Final(m)
                       /\ NoneAfter(m)' => NoneAfter(m)
  <2> SUFFICES ASSUME NEW m \in 0..n
               PROVE  (Final(m)' => Final(m)) /\ (NoneAfter(m)' => NoneAfter(m))
    OBVIOUS
  <2>1. 1..m \subseteq 1..n /\ (m + 1)..n \subseteq 1..n /\ (m + 1)..n \subseteq (m + 1)..(n + 1)
    BY <1>1
  <2>2. Final(m)' => Final(m)
    BY <1>1, <1>2, <2>1 DEF Final, Changes
  <2>3. NoneAfter(m)' => NoneAfter(m)
    BY <1>0, <1>1, <1>2, <1>6, <2>1 DEF NoneAfter, Changes
  <2> QED
    BY <2>2, <2>3
<1>15. NoneAfter(n)
  BY <1>0, <1>1 DEF NoneAfter
<1>16. RateFollows'
  <2> SUFFICES ASSUME NEW m \in 0..(n + 1), Final(m)', NoneAfter(m)' PROVE lr = meant'[m + 1]
    BY <1>1, <1>4 DEF RateFollows
  <2>1. CASE m = n + 1
    <3>1. n \in 0..n /\ 1..n \subseteq 1..m /\ m \in 1..m
      BY <1>1, <2>1
    <3>2. Final(n)'
      BY <3>1 DEF Final
    <3>3. lr = meant[n + 1]
      BY <1>12, <1>14, <1>15, <3>1, <3>2
    <3>4. type \notin Changing
      <4>1. sent'[m].type \in Changing => status'[m] = "done"
        BY <3>1 DEF Final, Changes
      <4> QED
        BY <1>1, <2>1, <4>1
    <3> QED
      BY <1>1, <1>7, <2>1, <3>3, <3>4
  <2>2. CASE m # n + 1
    <3>1. m \in 0..n /\ m + 1 \in 1..(n + 1)
      BY <1>1, <2>2
    <3> QED
      BY <1>1, <1>12, <1>14, <3>1
  <2> QED
    BY <2>1, <2>2
<1>17. SavedFollow'
  <2> SUFFICES ASSUME NEW s \in 1..(n + 1), Trusted(s)'
               PROVE  ~NotYet(s)' /\ (Final(s)' => saved[s] = meant'[s + 1])
    BY <1>2, <1>4 DEF SavedFollow
  <2>1. ~AwaitedSave(s)'
    BY <1>1, <1>3, <1>9 DEF AwaitedSave
  <2>2. s \in 1..n /\ Trusted(s)
    <3>1. CASE s = checkpoint'
      BY <1>3, <1>8, <1>9, <3>1 DEF Trusted
    <3>2. CASE Restored(s)'
      <4>1. PICK d \in 1..(n + 1) : sent'[d].type = "restore_checkpoint" /\ sent'[d].arg = s
        BY <1>2, <3>2 DEF Restored
      <4>2. CASE d = n + 1
        BY <1>1, <1>3, <1>11, <4>1, <4>2 DEF Trusted
      <4>3. CASE d # n + 1
        <5>1. d \in 1..n /\ sent'[d] = sent[d]
          BY <1>1, <1>2, <4>3
        <5>2. Restored(s)
          BY <1>2, <4>1, <5>1 DEF Restored
        <5> QED
          BY <1>10, <4>1, <5>1, <5>2 DEF Trusted
      <4> QED
        BY <4>2, <4>3
    <3> QED
      BY <2>1, <3>1, <3>2 DEF Trusted
  <2>3. s \in 0..n /\ s + 1 \in 1..(n + 1)
    BY <1>1, <2>2
  <2> QED
    BY <1>1, <1>5, <1>13, <1>14, <2>2, <2>3
<1> QED
  BY <1>16, <1>17

\* A change of the rate that is executed is the last one delivered: no later one
\* is done.
LEMMA NothingOvertakes ==
  ASSUME Sound, Ordered, NEW c \in Cmds, Changes(c), InHand(c), NEW d \in Cmds, c < d
  PROVE  status[d] # "done" /\ NotYet(d)
<1>1. Live(c)
  BY DEF Live
<1>2. CASE ~polled
  <2>1. delivered[d] = 0
    BY <1>1, <1>2 DEF Ordered, OneLine
  <2> QED
    BY <2>1, DeliveredFacts DEF NotYet
<1>3. CASE polled
  <2>1. c = Len(sent)
    BY <1>1, <1>3 DEF Ordered, OneAtATime
  <2> QED
    BY <2>1 DEF Cmds
<1> QED
  BY <1>2, <1>3

\* What the handler makes of the rate is what was meant there, if all changes
\* before are done.
LEMMA ChangedAsMeant ==
  ASSUME Sound, MeantOK, SavedFollow, NEW c \in Cmds, Changes(c), Final(c - 1)
  PROVE  Changed(c) = meant[c + 1]
<1>1. CASE sent[c].type = "set_hyperparameters"
  BY <1>1 DEF Changed, MeantOK
<1>2. CASE sent[c].type = "restore_checkpoint"
  <2>1. PICK s : s = sent[c].arg
    OBVIOUS
  <2>2. s \in Cmds /\ s < c /\ Trusted(s)
    BY <1>2, <2>1 DEF Sound, Executable, IsSaved, Trusted, Restored
  <2>3. Final(s)
    <3>1. 1..s \subseteq 1..(c - 1)
      BY <2>2 DEF Cmds
    <3> QED
      BY <3>1 DEF Final
  <2>4. saved[s] = meant[s + 1]
    BY <2>2, <2>3 DEF SavedFollow
  <2> QED
    BY <1>2, <2>1, <2>4 DEF Changed, MeantOK
<1> QED
  BY <1>1, <1>2 DEF Changes, Changing

\* Executing in the training thread.
LEMMA ExecutesFollows ==
  ASSUME Sound, Ordered, MeantOK, RateFollows, SavedFollow, Executes
  PROVE  RateFollows' /\ SavedFollow'
<1>0. PICK e : e = Head(batch)
  OBVIOUS
<1>1. /\ e \in Cmds
      /\ lr' = Changed(e)
      /\ sent[e].type = "save_checkpoint" => saved'[e] = lr
      /\ DOMAIN saved \subseteq DOMAIN saved'
      /\ \A s \in DOMAIN saved : s = e \/ saved'[s] = saved[s]
      /\ sent[e].type # "save_checkpoint" => saved' = saved
      /\ UNCHANGED <<sent, meant, delivered>>
      /\ \A d \in Cmds : d # e => status'[d] = status[d]
  BY <1>0, ExecutesFacts
<1>2. /\ Narrows /\ InHand(e) /\ delivered[e] > 0 /\ ~NotYet(e)'
  BY <1>0, <1>1, ExecutesOrder
<1>3. at' = at /\ waiting' = waiting /\ checkpoint' = checkpoint
  BY DEF Executes, agentVars
<1>4. PICK n : n = Len(sent)
  OBVIOUS
<1>5. /\ n \in Nat /\ Cmds = 1..n /\ Cmds' = Cmds /\ sent' = sent /\ meant' = meant
      /\ Len(sent') = n
  BY <1>1, <1>4, WaitingFacts DEF Cmds
<1>6. \A c \in 1..n : NotYet(c)' => NotYet(c)
  BY <1>2, <1>5 DEF Narrows
<1>7. \A m \in 0..n : NoneAfter(m)' => NoneAfter(m)
  <2>1. \A m \in 0..n : (m + 1)..n \subseteq 1..n
    BY <1>5
  <2> QED
    BY <1>4, <1>5, <1>6, <2>1 DEF NoneAfter, Changes
<1>8. ASSUME NEW m \in 0..n, Final(m)', NoneAfter(m)'
      PROVE  lr' = meant[m + 1]
  <2>1. \A c \in 1..m : sent[c].type \in Changing => status'[c] = "done"
    BY <1>5, <1>8 DEF Final, Changes
  <2>2. CASE ~Changes(e)
    <3>1. Final(m)
      <4>1. \A c \in 1..m : Changes(c) => c \in Cmds /\ c # e
        BY <1>5, <2>2
      <4> QED
        BY <1>1, <2>1, <4>1 DEF Final, Changes
    <3>2. lr = meant[m + 1]
      BY <1>4, <1>7, <1>8, <3>1 DEF RateFollows
    <3>3. Changed(e) = lr
      BY <2>2 DEF Changed, Changes, Changing
    <3> QED
      BY <1>1, <3>2, <3>3
  <2>3. CASE Changes(e)
    <3>1. e <= m
      <4> SUFFICES ASSUME ~(e <= m) PROVE FALSE
        OBVIOUS
      <4>1. e \in (m + 1)..Len(sent')
        BY <1>1, <1>5
      <4>2. Changes(e)' => NotYet(e)'
        BY <1>8, <4>1 DEF NoneAfter
      <4> QED
        BY <1>2, <1>5, <2>3, <4>2 DEF Changes
    <3>2. Unchanging(e, m)
      <4> SUFFICES ASSUME NEW d \in (e + 1)..m, Changes(d) PROVE FALSE
        BY DEF Unchanging
      <4>1. d \in Cmds /\ e < d /\ d \in 1..m
        BY <1>1, <1>5
      <4>2. status[d] = "done"
        BY <1>1, <2>1, <4>1 DEF Changes
      <4> QED
        BY <1>1, <1>2, <2>3, <4>1, <4>2, NothingOvertakes
    <3>3. meant[m + 1] = meant[e + 1]
      <4>1. e \in 0..Len(sent) /\ m \in 0..Len(sent)
        BY <1>1, <1>4, <1>5
      <4> QED
        BY <3>1, <3>2, <4>1 DEF MeantOK
    <3>4. Final(e - 1)
      <4>1. \A c \in 1..(e - 1) : c \in 1..m /\ c \in Cmds /\ c # e
        BY <1>1, <1>5, <3>1
      <4> QED
        BY <1>1, <2>1, <4>1 DEF Final, Changes
    <3> QED
      BY <1>1, <2>3, <3>3, <3>4, ChangedAsMeant
  <2> QED
    BY <2>2, <2>3
<1>9. ASSUME NEW s \in 1..n, Trusted(s)'
      PROVE  ~NotYet(s)' /\ (Final(s)' => saved'[s] = meant[s + 1])
  <2>1. CASE s # e
    <3>1. status'[s] = status[s]
      BY <1>1, <1>5, <2>1
    <3>2. Trusted(s)
      BY <1>3, <1>5, <1>9, <3>1 DEF Trusted, Restored, AwaitedSave
    <3>3. ~NotYet(s) /\ (Final(s) => saved[s] = meant[s + 1])
      BY <1>5, <3>2 DEF SavedFollow
    <3>4. Final(s)' => Final(s)
      <4> SUFFICES ASSUME Final(s)', NEW c \in 1..s, Changes(c) PROVE status[c] = "done"
        BY DEF Final
      <4>1. c \in Cmds /\ status'[c] = "done"
        BY <1>5 DEF Final, Changes
      <4>2. c # e
        <5> SUFFICES ASSUME c = e PROVE FALSE
          OBVIOUS
        <5>1. e < s /\ s \in Cmds
          BY <1>5, <2>1
        <5> QED
          BY <1>1, <1>2, <3>3, <5>1, NothingOvertakes
      <4> QED
        BY <1>1, <4>1, <4>2
    <3>5. saved'[s] = saved[s]
      <4>1. s \in DOMAIN saved
        <5>1. CASE s = checkpoint
          BY <1>5, <5>1, NoneAssumption DEF Sound, AgentOK, IsSaved
        <5>2. CASE Restored(s)
          BY <5>2 DEF Restored, Sound, Executable, IsSaved
        <5>3. CASE AwaitedSave(s)
          BY <1>5, <5>3 DEF AwaitedSave, Sound, JobOK
        <5> QED
          BY <3>2, <5>1, <5>2, <5>3 DEF Trusted
      <4> QED
        BY <1>1, <2>1, <4>1
    <3> QED
      BY <1>6, <3>3, <3>4, <3>5
  <2>2. CASE s = e
    <3>1. ~Trusted(e)
      BY <1>1, <1>2 DEF SavedFollow, NotYet
    <3>2. AwaitedSave(e)'
      BY <1>3, <1>5, <1>9, <2>2, <3>1 DEF Trusted, Restored
    <3>3. e = n /\ sent[e].type = "save_checkpoint"
      BY <1>3, <1>4, <1>5, <3>2, WaitingFacts DEF AwaitedSave
    <3>4. saved'[e] = lr
      BY <1>1, <3>3
    <3>5. Final(e)' => lr = meant[e + 1]
      <4> SUFFICES ASSUME Final(e)' PROVE lr = meant[e + 1]
        OBVIOUS
      <4>1. "save_checkpoint" \notin Changing
        BY DEF Changing
      <4>2. Final(e)
        <5> SUFFICES ASSUME NEW c \in 1..e, Changes(c) PROVE status[c] = "done"
          BY DEF Final
        <5>1. c \in Cmds /\ status'[c] = "done"
          BY <1>1, <1>5 DEF Final, Changes
        <5>2. c # e
          BY <3>3, <4>1 DEF Changes
        <5> QED
          BY <1>1, <5>1, <5>2
      <4>3. NoneAfter(e)
        BY <1>4, <1>5, <3>3 DEF NoneAfter
      <4> QED
        BY <1>4, <1>5, <3>3, <4>2, <4>3 DEF RateFollows
    <3> QED
      BY <1>2, <2>2, <3>4, <3>5
  <2> QED
    BY <2>1, <2>2
<1>10. RateFollows'
  BY <1>5, <1>8 DEF RateFollows
<1>11. SavedFollow'
  BY <1>5, <1>9 DEF SavedFollow
<1> QED
  BY <1>10, <1>11

\* What the rate is follows what was meant, step by step.
LEMMA FollowsStays ==
  ASSUME Sound, InOrder, MeantOK, Follows, [Next]_vars, Sound', Orderly'
  PROVE  RateFollows' /\ SavedFollow'
<1>1. Orderly /\ Ordered /\ Ordered' /\ Narrows /\ RateFollows /\ SavedFollow
  BY OrderedStays DEF Follows
<1>2. CASE Executes
  BY <1>1, <1>2, ExecutesFollows
<1>3. CASE (JobNext /\ ~Executes) \/ PollerNext \/ BrokerNext
  <2>1. /\ UNCHANGED <<sent, meant, lr, saved, agentVars>>
        /\ \A c \in Cmds : status'[c] = "done" => status[c] = "done" \/ sent[c].type \in SafeTypes
    BY <1>1, <1>3, QuietOrder
  <2> QED
    BY <1>1, <2>1, QuietFollows
<1>4. CASE Sends \/ Applies
  <2>1. PICK type, arg : \E mode \in {"ask", "call", "tell"} : Sending(type, arg, mode)
    BY <1>4, SendingFacts
  <2>2. PICK mode \in {"ask", "call", "tell"} : Sending(type, arg, mode)
    BY <2>1
  <2>3. CASE Enqueue(type, arg)
    BY <1>1, <2>2, <2>3, SendFollows
  <2>4. CASE UNCHANGED brokerVars
    <3>1. /\ UNCHANGED <<jobVars, checkpoint>>
          /\ \/ at' = "wait" /\ Enqueue(type, arg)
             \/ at' # "wait"
      BY <2>2, SendFacts DEF Sending
    <3>2. UNCHANGED <<sent, meant, status, lr, saved>>
      BY <2>4, <3>1 DEF brokerVars, sentVars, jobVars
    <3> QED
      BY <1>1, <2>2, <2>3, <3>1, <3>2, AgentFollows
  <2> QED
    BY <2>2, <2>3, <2>4, SendFacts DEF Sending
<1>5. CASE AgentAlone
  <2>1. UNCHANGED <<sent, meant, status, lr, saved>>
    BY <1>5 DEF AgentAlone, brokerVars, sentVars, jobVars
  <2>2. checkpoint' = checkpoint \/ AwaitedSave(checkpoint')
    BY <1>5 DEF AgentAlone, Answered, AwaitedSave
  <2>3. at' = "wait" => UNCHANGED <<at, waiting>>
    BY <1>5 DEF AgentAlone
  <2> QED
    BY <1>1, <2>1, <2>2, <2>3, AgentFollows
<1> QED
  BY <1>2, <1>3, <1>4, <1>5, StepKinds

Tuned == Sound /\ InOrder /\ MeantOK /\ Follows

\* All of this holds in every behaviour.
LEMMA TuningFollows == Spec => []Tuned
<1>1. Init => Tuned
  <2> SUFFICES ASSUME Init PROVE Tuned
    OBVIOUS
  <2>1. Sound
    BY InitSound
  <2>2. /\ sent = <<>> /\ batch = <<>> /\ deferred = <<>> /\ hand = <<>>
        /\ meant = <<InitialLR>> /\ lr = InitialLR
    BY DEF Init
  <2>3. Cmds = {} /\ Len(sent) = 0
    BY <2>2 DEF Cmds
  <2>4. InOrder
    BY <2>2, <2>3, SingleFacts DEF InOrder, Ordered, Answers, Apart, OneLine, OneAtATime
  <2>5. MeantOK
    <3>1. \A c, n \in 0..0 : meant[n + 1] = meant[c + 1]
      BY <2>2
    <3> QED
      BY <2>3, <3>1 DEF MeantOK
  <2>6. RateFollows /\ SavedFollow
    BY <2>2, <2>3 DEF RateFollows, SavedFollow
  <2> QED
    BY <2>1, <2>4, <2>5, <2>6 DEF Tuned, Follows
<1>2. Tuned /\ [Next]_vars => Tuned'
  <2> SUFFICES ASSUME Tuned, [Next]_vars PROVE Tuned'
    OBVIOUS
  <2>1. Sound /\ InOrder /\ MeantOK /\ Follows
    BY DEF Tuned
  <2>2. Sound' /\ MeantOK'
    BY <2>1, SoundStays, MeantStays
  <2>3. InOrder'
    BY <2>1, <2>2, OrderedStays DEF InOrder
  <2>4. Follows'
    BY <2>1, <2>2, FollowsStays DEF Follows
  <2> QED
    BY <2>2, <2>3, <2>4 DEF Tuned
<1> QED
  BY <1>1, <1>2, PTL DEF Spec

(***************************************************************************)
(* Once every change is reported done, the learning rate is what the       *)
(* changes make of it in the order of sending: for any script, number of   *)
(* epochs, of faults and of trials, with a poller or without, as long as   *)
(* no command was delivered twice (agent_sim.py, bridge.py).               *)
(***************************************************************************)
THEOREM LastChangeWins == Spec => []LastWordWins
<1>1. Tuned => LastWordWins
  <2> SUFFICES ASSUME Tuned, Orderly,
                      \A c \in DOMAIN sent : sent[c].type \in Changing => status[c] = "done"
               PROVE  lr = meant[Len(sent) + 1]
    BY DEF LastWordWins
  <2>1. Sound /\ RateFollows
    BY DEF Tuned, Follows
  <2>2. Len(sent) \in Nat /\ DOMAIN sent = 1..Len(sent)
    BY <2>1, WaitingFacts, LenProperties DEF Sound, BrokerOK, BrokerTypes
  <2>3. Final(Len(sent)) /\ NoneAfter(Len(sent)) /\ Len(sent) \in 0..Len(sent)
    BY <2>2 DEF Final, NoneAfter, Changes
  <2> QED
    BY <2>1, <2>3 DEF RateFollows
<1> QED
  BY <1>1, TuningFollows, PTL

-----------------------------------------------------------------------------
(***************************************************************************)
(* Which metrics belong to a trial.  From when its change is done until it *)
(* is reported the rate is that of the trial, no change may yet be         *)
(* executed, and what is measured, pushed and read since is its own.       *)
(***************************************************************************)
Confirmed ==
  /\ trial # None
  /\ \/ at = "wait" /\ status[waiting] = "done"
     \/ at \in {"read", "report"} /\ seen # None

IsOwn(r) == r # None /\ r.loss # None /\ r.push > seen => r.under = Clamp(trial.lr)

Own ==
  Orderly /\ Confirmed =>
    /\ lr = Clamp(trial.lr)
    /\ measured.loss # None => measured.under = lr
    /\ \A c \in Cmds : Changes(c) => ~Live(c)
    /\ at # "wait" => IsOwn(latest)
    /\ at = "report" => IsOwn(reading)

\* A change that is done by the training thread is the trial's, and the last.
LEMMA ExecutesOwn ==
  ASSUME Sound, Ordered, Orderly, Own, Executes, Confirmed', Sound'
  PROVE  /\ lr' = Clamp(trial'.lr)
         /\ measured'.loss # None => measured'.under = lr'
         /\ \A c \in Cmds' : Changes(c)' => ~Live(c)'
         /\ at' # "wait" => IsOwn(latest)'
         /\ at' = "report" => IsOwn(reading)'
<1>0. PICK e : e = Head(batch)
  OBVIOUS
<1>1. /\ e \in Cmds /\ jobAt = "claim"
      /\ lr' = Changed(e)
      /\ UNCHANGED <<sent, meant, delivered>>
      /\ \A d \in Cmds : d # e => status'[d] = status[d]
  BY <1>0, ExecutesFacts
<1>2. /\ Narrows /\ InHand(e) /\ ~Live(e)'
  BY <1>0, <1>1, ExecutesOrder
<1>3. /\ at' = at /\ waiting' = waiting /\ trial' = trial /\ seen' = seen /\ reading' = reading
      /\ latest' = latest /\ measured' = measured
  BY DEF Executes, agentVars, metricVars
<1>4. measured.loss = None
  BY <1>1 DEF Sound, JobOK
<1>5. /\ Cmds' = Cmds /\ sent' = sent /\ Live(e)
  BY <1>1, <1>2 DEF Cmds, Live
<1>6. CASE Confirmed
  <2>1. /\ lr = Clamp(trial.lr) /\ \A c \in Cmds : Changes(c) => ~Live(c)
        /\ at # "wait" => IsOwn(latest)
        /\ at = "report" => IsOwn(reading)
    BY <1>6 DEF Own
  <2>2. ~Changes(e)
    BY <1>1, <1>5, <2>1
  <2>3. lr' = lr
    BY <1>1, <2>2 DEF Changed, Changes, Changing
  <2>4. \A c \in Cmds : Changes(c) => ~Live(c)'
    BY <1>2, <2>1 DEF Narrows
  <2> QED
    BY <1>3, <1>4, <1>5, <2>1, <2>3, <2>4 DEF IsOwn, Changes
<1>7. CASE ~Confirmed
  <2>1. at = "wait" /\ trial # None /\ status'[waiting] = "done" /\ status[waiting] # "done"
    BY <1>3, <1>7 DEF Confirmed
  <2>2. waiting \in Cmds /\ waiting = Len(sent)
    BY <2>1, WaitingFacts
  <2>3. e = waiting
    BY <1>1, <2>1, <2>2
  <2>4. sent[e].type = "set_hyperparameters" /\ sent[e].arg = trial.lr
    BY <2>1, <2>3 DEF Sound, AgentOK
  <2>5. lr' = Clamp(trial.lr)
    BY <1>1, <2>4 DEF Changed
  <2>6. \A c \in Cmds : Changes(c) => ~Live(c)'
    <3> SUFFICES ASSUME NEW c \in Cmds, Changes(c), Live(c)' PROVE FALSE
      OBVIOUS
    <3>1. Live(c) /\ c # e
      BY <1>2 DEF Narrows
    <3>2. c < e
      BY <2>2, <2>3, <3>1 DEF Cmds
    <3>3. CASE polled
      <4>1. c = Len(sent)
        BY <3>1, <3>3 DEF Ordered, OneAtATime
      <4> QED
        BY <2>2, <2>3, <3>1, <4>1
    <3>4. CASE ~polled
      <4>1. delivered[e] = 0
        BY <1>1, <3>1, <3>2, <3>4 DEF Ordered, OneLine
      <4> QED
        BY <1>1, <1>2, <4>1, DeliveredFacts
    <3> QED
      BY <3>3, <3>4
  <2> QED
    BY <1>3, <1>4, <1>5, <2>1, <2>5, <2>6 DEF Changes
<1> QED
  BY <1>6, <1>7

\* The rest of the job, the poller and the broker.
LEMMA QuietOwn ==
  ASSUME Sound, Own, Orderly, UNCHANGED <<sent, lr, agentVars>>, Narrows,
         \A c \in Cmds : status'[c] = "done" => status[c] = "done" \/ sent[c].type \in SafeTypes,
         measured' = measured \/ measured'.loss = None \/ measured'.under = lr,
         \/ latest' \in {latest, None}
         \/ latest' = [push |-> pushes + 1, loss |-> measured.loss, under |-> measured.under],
         Confirmed'
  PROVE  /\ lr' = Clamp(trial'.lr)
         /\ measured'.loss # None => measured'.under = lr'
         /\ \A c \in Cmds' : Changes(c)' => ~Live(c)'
         /\ at' # "wait" => IsOwn(latest)'
         /\ at' = "report" => IsOwn(reading)'
<1>1. /\ Cmds' = Cmds /\ sent' = sent /\ lr' = lr
      /\ at' = at /\ waiting' = waiting /\ trial' = trial /\ seen' = seen /\ reading' = reading
  BY DEF Cmds, agentVars
<1>2. Confirmed
  <2>1. CASE at = "wait"
    <3>1. trial # None /\ status'[waiting] = "done"
      BY <1>1, <2>1 DEF Confirmed
    <3>2. waiting \in Cmds /\ sent[waiting].type = "set_hyperparameters"
      BY <2>1, <3>1, WaitingFacts DEF Sound, AgentOK
    <3>3. "set_hyperparameters" \notin SafeTypes
      BY DEF SafeTypes
    <3> QED
      BY <2>1, <3>1, <3>2, <3>3 DEF Confirmed
  <2>2. CASE at # "wait"
    BY <1>1, <2>2 DEF Confirmed
  <2> QED
    BY <2>1, <2>2
<1>3. /\ lr = Clamp(trial.lr) /\ (measured.loss # None => measured.under = lr)
      /\ \A c \in Cmds : Changes(c) => ~Live(c)
      /\ at # "wait" => IsOwn(latest)
      /\ at = "report" => IsOwn(reading)
  BY <1>2 DEF Own
<1>4. \A c \in Cmds : Changes(c) => ~Live(c)'
  BY <1>3 DEF Narrows
<1>5. at # "wait" => IsOwn(latest)'
  <2>1. CASE latest' \in {latest, None}
    BY <1>1, <1>3, <2>1 DEF IsOwn
  <2>2. CASE latest' = [push |-> pushes + 1, loss |-> measured.loss, under |-> measured.under]
    <3>1. latest'.loss = measured.loss /\ latest'.under = measured.under
      BY <2>2
    <3> QED
      BY <1>1, <1>3, <3>1 DEF IsOwn
  <2> QED
    BY <2>1, <2>2
<1>6. at = "report" => IsOwn(reading)'
  BY <1>1, <1>3 DEF IsOwn
<1>7. measured'.loss # None => measured'.under = lr
  BY <1>3
<1> QED
  BY <1>1, <1>3, <1>4, <1>5, <1>6, <1>7 DEF Changes

\* The agent has a trial confirmed only by an answer, and looks afterwards.
LEMMA AgentOwn ==
  ASSUME Sound, Own, Orderly, UNCHANGED <<sent, status, lr, measured, latest, pushes>>,
         \A c \in Cmds : Live(c)' => Live(c),
         \/ UNCHANGED <<at, waiting, trial, seen, reading>>
         \/ Answered \/ ReadsMetrics
         \/ at' \notin {"wait", "read", "report"}
         \/ seen' = None /\ at' # "wait",
         Confirmed'
  PROVE  /\ lr' = Clamp(trial'.lr)
         /\ measured'.loss # None => measured'.under = lr'
         /\ \A c \in Cmds' : Changes(c)' => ~Live(c)'
         /\ at' # "wait" => IsOwn(latest)'
         /\ at' = "report" => IsOwn(reading)'
<1>1. Cmds' = Cmds /\ sent' = sent /\ status' = status /\ lr' = lr /\ measured' = measured
      /\ latest' = latest
  BY DEF Cmds
<1>2. CASE UNCHANGED <<at, waiting, trial, seen, reading>>
  <2>1. Confirmed
    BY <1>1, <1>2 DEF Confirmed
  <2> QED
    BY <1>1, <1>2, <2>1 DEF Own, IsOwn, Changes
<1>3. CASE Answered
  <2>1. at = "wait" /\ trial' = trial /\ trial # None
    BY <1>3 DEF Answered, Confirmed
  <2>2. at' = "read"
    BY <1>3, <2>1, ProceedFacts DEF Answered
  <2>3. status[waiting] = "done" /\ seen' = pushes
    BY <1>3, <2>2 DEF Answered, Confirmed
  <2>4. /\ lr = Clamp(trial.lr) /\ (measured.loss # None => measured.under = lr)
        /\ \A c \in Cmds : Changes(c) => ~Live(c)
    BY <2>1, <2>3 DEF Own, Confirmed
  <2>5. IsOwn(latest)'
    <3>1. latest # None => latest.push \in Nat /\ latest.push <= pushes /\ pushes \in Nat
      BY DEF Sound, AgentTypes, AgentOK, Entries
    <3>2. latest # None => ~(latest.push > pushes)
      BY <3>1
    <3> QED
      BY <1>1, <2>3, <3>2 DEF IsOwn
  <2> QED
    BY <1>1, <2>1, <2>2, <2>4, <2>5 DEF Changes
<1>4. CASE ReadsMetrics
  <2>1. /\ at = "read" /\ at' = "report" /\ reading' \in {latest, None}
        /\ trial' = trial /\ seen' = seen
    BY <1>4 DEF ReadsMetrics
  <2>2. Confirmed
    BY <2>1 DEF Confirmed
  <2>3. /\ lr = Clamp(trial.lr) /\ (measured.loss # None => measured.under = lr)
        /\ \A c \in Cmds : Changes(c) => ~Live(c)
        /\ IsOwn(latest)
    BY <2>1, <2>2 DEF Own
  <2> QED
    BY <1>1, <2>1, <2>3 DEF IsOwn, Changes
<1> QED
  BY <1>2, <1>3, <1>4 DEF Confirmed

\* A trial that is confirmed keeps its rate and its metrics.
LEMMA OwnStays == ASSUME Sound, InOrder, Own, [Next]_vars, Sound' PROVE Own'
<1> DEFINE Goal ==
      /\ lr' = Clamp(trial'.lr)
      /\ measured'.loss # None => measured'.under = lr'
      /\ \A c \in Cmds' : Changes(c)' => ~Live(c)'
      /\ at' # "wait" => IsOwn(latest)'
      /\ at' = "report" => IsOwn(reading)'
<1> SUFFICES ASSUME Orderly', Confirmed' PROVE Goal
  BY DEF Own
<1>1. Orderly /\ Ordered /\ Narrows
  BY OrderedStays
<1>2. CASE Executes
  BY <1>1, <1>2, ExecutesOwn
<1>3. CASE (JobNext /\ ~Executes) \/ PollerNext \/ BrokerNext
  <2>1. /\ UNCHANGED <<sent, lr, agentVars>>
        /\ \A c \in Cmds : status'[c] = "done" => status[c] = "done" \/ sent[c].type \in SafeTypes
    BY <1>1, <1>3, QuietOrder
  <2>2. /\ measured' = measured \/ measured'.loss = None \/ measured'.under = lr
        /\ \/ latest' \in {latest, None}
           \/ latest' = [push |-> pushes + 1, loss |-> measured.loss, under |-> measured.under]
    <3>1. CASE Epoch
      BY <3>1 DEF Epoch, metricVars
    <3>2. CASE PushTelemetry
      BY <3>2 DEF PushTelemetry, PushReceived, Nothing, metricVars
    <3>3. CASE TrainEnds \/ BeginDrain \/ Claims \/ DrainEnds \/ PollerNext
      BY <3>3 DEF TrainEnds, BeginDrain, Claims, DrainEnds, PollerNext, PollerClaims, PollerExecutes,
                  metricVars
    <3>4. CASE BrokerNext
      BY <3>4 DEF BrokerNext, BrokerRestarts, LeaseExpires, metricVars, jobVars
    <3> QED
      BY <1>3, <3>1, <3>2, <3>3, <3>4 DEF JobNext
  <2> QED
    BY <1>1, <2>1, <2>2, QuietOwn
<1>4. CASE Sends \/ Applies
  <2>1. PICK type, arg : \E mode \in {"ask", "call", "tell"} : Sending(type, arg, mode)
    BY <1>4, SendingFacts
  <2>2. /\ \/ /\ Enqueue(type, arg)
              /\ at' = "wait" /\ waiting' = Len(sent) + 1
           \/ at' \in {"crashed", "configure", "script"}
        /\ Sendable(type, arg)
    BY <2>1, SendFacts DEF Sending
  <2>3. Enqueue(type, arg) => status'[Len(sent) + 1] = "pending"
    BY <2>2, EnqueueFacts DEF Sound
  <2> QED
    BY <2>2, <2>3 DEF Confirmed
<1>5. CASE \/ Starts \/ Reads \/ Skips \/ Answered \/ GivesUp \/ Configures \/ Suggests
           \/ ReadsMetrics \/ ReportsTrial \/ CallsHpoTool \/ UNCHANGED vars
  <2>1. UNCHANGED <<brokerVars, metricVars, jobVars>>
    BY <1>5 DEF Starts, Reads, Skips, Answered, GivesUp, Configures, Suggests, ReadsMetrics,
                ReportsTrial, CallsHpoTool, vars
  <2>2. UNCHANGED <<sent, status, lr, measured, latest, pushes>>
    BY <2>1 DEF brokerVars, sentVars, metricVars, jobVars
  <2>3. \/ UNCHANGED <<at, waiting, trial, seen, reading>>
        \/ Answered \/ ReadsMetrics
        \/ at' \notin {"wait", "read", "report"}
        \/ seen' = None /\ at' # "wait"
    <3>1. CASE CallsHpoTool \/ UNCHANGED vars
      BY <3>1 DEF CallsHpoTool, vars, agentVars
    <3>2. CASE GivesUp
      BY <3>2, ProceedFacts DEF GivesUp
    <3>3. CASE Starts \/ Skips
      BY <3>3, PassesFacts DEF Starts, Skips, Crash
    <3>4. CASE Reads
      <4>1. at = "script" /\ (Crash \/ Proceed)
        BY <3>4 DEF Reads
      <4> QED
        BY <4>1, ProceedFacts DEF Crash
    <3>5. CASE Configures \/ Suggests \/ ReportsTrial
      BY <3>5 DEF Configures, Suggests, ReportsTrial
    <3> QED
      BY <1>5, <3>1, <3>2, <3>3, <3>4, <3>5
  <2>4. \A c \in Cmds : Live(c)' => Live(c)
    BY <1>1 DEF Narrows
  <2> QED
    BY <1>1, <2>2, <2>3, <2>4, AgentOwn
<1> QED
  BY <1>2, <1>3, <1>4, <1>5 DEF Next, AgentNext

(***************************************************************************)
(* Metrics pushed after the agent saw the change of its trial confirmed    *)
(* were measured under the rate of that trial, whatever is lost and with a *)
(* poller or without, as long as no command was delivered twice: what the  *)
(* trial is told belongs to it (agent_sim.py, bridge.py).                  *)
(***************************************************************************)
THEOREM FreshMetricsAreOwn == Spec => []FreshMeansOwn
<1>1. Init => Own
  BY DEF Init, Own, Confirmed
<1>2. Tuned /\ Own /\ [Next]_vars => Own'
  <2> SUFFICES ASSUME Tuned, Own, [Next]_vars PROVE Own'
    OBVIOUS
  <2>1. Sound /\ InOrder
    BY DEF Tuned
  <2>2. Sound'
    BY <2>1, SoundStays
  <2> QED
    BY <2>1, <2>2, OwnStays
<1>3. Tuned /\ Own => FreshMeansOwn
  <2> SUFFICES ASSUME Tuned, Own, at = "report", Orderly, seen # None, reading # None,
                      reading.loss # None, reading.push > seen
               PROVE  reading.under = Clamp(trial.lr)
    BY DEF FreshMeansOwn
  <2>1. trial # None
    BY DEF Tuned, Sound, AgentOK
  <2> QED
    BY <2>1 DEF Own, Confirmed, IsOwn
<1> QED
  BY <1>1, <1>2, <1>3, TuningFollows, PTL DEF Spec
=============================================================================
