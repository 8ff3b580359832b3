------------------------------ MODULE Anomalies ------------------------------
(***************************************************************************)
(* The anomaly detector (AnomalyDetector in safety.py), which looks at the *)
(* loss and the gradient norm of each batch.  A value that is reported is  *)
(* not remembered.  Of its window of losses only the length matters.       *)
(***************************************************************************)
EXTENDS Integers, Sequences, FiniteSets, Functions

CONSTANTS
  NaN,         \* a loss or norm that is not finite
  None,        \* no norm given, no loss seen
  Window,      \* batches remembered (50)
  Warmup,      \* batches before anything is compared (10)
  GradFactor,  \* grad_explosion_factor (8)
  LossFactor   \* loss_divergence_factor (4)

ASSUME DetectorAssumption ==
  /\ Window \in Nat \ {0} /\ Warmup \in Nat
  /\ GradFactor \in Nat \ {0} /\ LossFactor \in Nat \ {0}

\* A new detector, and one that was reset.
Fresh == [grads |-> <<>>, losses |-> 0, best |-> None]

\* The oldest are kept (a plausible mistake, used by no specification, like
\* the other Bug_ definitions).
Bug_LastOf(s, n) == IF Len(s) <= n THEN s ELSE SubSeq(s, 1, n)

\* What a list holds that is cut to its last n elements.
LastOf(s, n) == IF Len(s) <= n THEN s ELSE SubSeq(s, Len(s) - n + 1, Len(s))

\* The k-th smallest value in s.
Ranked(s, k) ==
  CHOOSE x \in Range(s) :
    /\ Cardinality({i \in DOMAIN s : s[i] < x}) < k
    /\ Cardinality({i \in DOMAIN s : s[i] <= x}) >= k

\* Twice statistics.median: the mean of the two in the middle, if s is even.
TwiceMedian(s) == Ranked(s, (Len(s) + 1) \div 2) + Ranked(s, Len(s) \div 2 + 1)

Explodes(d, grad) ==
  /\ grad # None /\ d.grads # <<>> /\ Len(d.grads) >= Warmup
  /\ 2 * grad > GradFactor * TwiceMedian(d.grads)

Diverges(d, loss) ==
  /\ d.best # None /\ d.losses >= Warmup
  /\ loss > LossFactor * d.best

\* The first thing wrong with a batch.
Verdict(d, loss, grad) ==
  IF loss = NaN THEN "bad_loss"
  ELSE IF grad = NaN THEN "bad_grad"
  ELSE IF Explodes(d, grad) THEN "grad_explosion"
  ELSE IF Diverges(d, loss) THEN "loss_divergence"
  ELSE "healthy"

Learned(d, loss, grad) ==
  [grads |-> IF grad = None THEN d.grads ELSE LastOf(Append(d.grads, grad), Window),
   losses |-> IF d.losses < Window THEN d.losses + 1 ELSE Window,
   best |-> IF d.best = None \/ loss < d.best THEN loss ELSE d.best]

\* What was reported is remembered, if it is a number.
Bug_Updated(d, loss, grad) ==
  IF NaN \in {loss, grad} THEN d ELSE Learned(d, loss, grad)

Updated(d, loss, grad) ==
  IF Verdict(d, loss, grad) = "healthy" THEN Learned(d, loss, grad) ELSE d
=============================================================================
