------------------------------- MODULE Advisor -------------------------------
(***************************************************************************)
(* The HPO tools of the MCP server (hpo_configure ... hpo_best in          *)
(* mcp_server.py) and the OptunaAdvisor behind them (optuna_advisor.py): a *)
(* study, kept by Optuna, and the advisor's own table of live trials.      *)
(* Trials are numbered by their place in the study.  The tools may be      *)
(* called in any order, with trial ids that are settled or of an earlier   *)
(* study.                                                                  *)
(***************************************************************************)
EXTENDS Integers, Sequences, FiniteSets

CONSTANTS
  Space,    \* what param_space allows: the values of the one parameter, lr
  Values,   \* objective values that may be reported (natural numbers)
  None,     \* no value
  MaxAsked  \* bound on the trials of a study

ASSUME AdvisorAssumption == MaxAsked \in Nat

VARIABLES
  configured, \* _HPO_ADVISOR is not None
  study,      \* the trials of the study, as Optuna keeps them
  live        \* _live_trials: ids of the trials that wait for their report

advisorVars == <<configured, study, live>>

AdvisorInit == configured = FALSE /\ study = <<>> /\ live = {}

-----------------------------------------------------------------------------
\* Optuna's study.  A trial is running until it is told once; a second
\* tell raises and changes nothing.
Ask(p) == study' = Append(study, [lr |-> p, state |-> "RUNNING", value |-> None])

Tell(t, state, v) ==
  study' = IF study[t].state = "RUNNING"
           THEN [study EXCEPT ![t].state = state, ![t].value = v]
           ELSE study

\* hpo_configure: a new study, and an advisor without live trials.  (Bug_...
\* are plausible mistakes that no specification uses.)
Bug_Configure == configured' = TRUE /\ study' = <<>> /\ UNCHANGED live

Configure == configured' = TRUE /\ study' = <<>> /\ live' = {}

Suggest(p) ==
  /\ configured /\ Len(study) < MaxAsked
  /\ Ask(p)
  /\ live' = live \cup {Len(study) + 1}
  /\ UNCHANGED configured

\* The specification of a parameter is bad: Optuna was asked before
\* _suggest_param raises, and the trial is in no table.
SuggestRaises(p) ==
  /\ configured /\ Len(study) < MaxAsked
  /\ Ask(p)
  /\ UNCHANGED <<configured, live>>

\* The trial stays in the table.
Bug_Report(t, v) ==
  /\ configured
  /\ IF t \in live
     THEN Tell(t, "COMPLETE", v) /\ UNCHANGED <<configured, live>>
     ELSE UNCHANGED advisorVars

\* The trial leaves the table and its outcome enters the study.
Settle(t, state, v) ==
  /\ t \in live
  /\ live' = live \ {t}
  /\ Tell(t, state, v)
  /\ UNCHANGED configured

\* An id that is not live is answered with an error.
Report(t, v) ==
  /\ configured
  /\ IF t \in live THEN Settle(t, "COMPLETE", v) ELSE UNCHANGED advisorVars

\* report_intermediate: the pruner decides; unknown ids are answered with an error.
ReportIntermediate(t, v) ==
  configured /\ (Settle(t, "PRUNED", v) \/ UNCHANGED advisorVars)

Ids == 1..MaxAsked

AdvisorNext ==
  \/ Configure
  \/ \E p \in Space : Suggest(p) \/ SuggestRaises(p)
  \/ \E t \in Ids, v \in Values : Report(t, v) \/ ReportIntermediate(t, v)

AdvisorSpec == AdvisorInit /\ [][AdvisorNext]_advisorVars

-----------------------------------------------------------------------------
Trials == [lr : Space, state : {"RUNNING", "COMPLETE", "PRUNED"}, value : Values \cup {None}]

AdvisorTypeOK ==
  /\ configured \in BOOLEAN
  /\ study \in Seq(Trials) /\ Len(study) <= MaxAsked
  /\ live \subseteq Ids

(***************************************************************************)
(* The advisor's table and Optuna's study are kept apart and written one   *)
(* after the other: a trial in the table is running, in the study that is  *)
(* now in use.  So Optuna never refuses a report that the advisor passes   *)
(* on, and the advisor refuses one for a trial of this study that is       *)
(* settled.  A late report for a trial of an earlier study is not told     *)
(* apart: ids begin anew with each study, and it is credited to the trial  *)
(* that now has the number, if that one is live.                           *)
(***************************************************************************)
LiveTrialsRun ==
  \A t \in live : t \in DOMAIN study /\ study[t].state = "RUNNING"
=============================================================================
