---------------------------- MODULE FeedbackLoop ----------------------------
(***************************************************************************)
(* Feedback and the actions it triggers, from ai_security/feedback_loop.py *)
(* Rates are fractions <<numerator, denominator>>.  An action is a call of *)
(* its callbacks with the metrics; computing these may divide by zero,     *)
(* which is caught with the callback's own exceptions, so nothing is       *)
(* called.  The queue and the history of texts are left out.               *)
(***************************************************************************)
EXTENDS Integers, Sequences

CONSTANTS Percent    \* the triggers: [false_positive_rate, prediction_accuracy, defense_effectiveness]

ASSUME PercentAssumption ==
  {Percent.false_positive_rate, Percent.prediction_accuracy, Percent.defense_effectiveness} \subseteq 0..100

VARIABLES
  metrics,     \* counts by kind of feedback
  reported     \* what the callbacks of each action got last, if anything: a sequence of 0 or 1

feedbackVars == <<metrics, reported>>

FeedbackKind ==
  {"correct_predictions", "wrong_predictions", "false_positives", "false_negatives",
   "effective_defenses", "ineffective_defenses", "system_performance"}
TriggeredAction == {"retrain_model", "adjust_strategy", "update_parameters"}

FeedbackInit ==
  /\ metrics = [k \in FeedbackKind |-> 0]
  /\ reported = [a \in TriggeredAction |-> << >>]

Predictions(m) == m["correct_predictions"] + m["wrong_predictions"]
Defenses(m) == m["effective_defenses"] + m["ineffective_defenses"]

\* The mistake CallbacksGetRates rules out: correct predictions alone count.
NegativesOfCorrect(m) == m["correct_predictions"] - m["false_negatives"]

\* total_negatives
Negatives(m) == m["false_positives"] + (m["correct_predictions"] - m["false_negatives"])

Above(n, d, percent) == d > 0 /\ 100 * n > percent * d
Below(n, d, percent) == d > 0 /\ 100 * n < percent * d

\* _check_action_triggers
Triggered(m) ==
  {a \in TriggeredAction :
     \/ a = "retrain_model" /\ Below(m["correct_predictions"], Predictions(m), Percent.prediction_accuracy)
     \/ a = "adjust_strategy" /\ Above(m["false_positives"], Negatives(m), Percent.false_positive_rate)
     \/ a = "update_parameters" /\ Below(m["effective_defenses"], Defenses(m), Percent.defense_effectiveness)}

\* get_metrics, when it returns.
MetricsRaise(m) == Predictions(m) > 0 /\ Negatives(m) = 0
Ratio(n, d, total) == IF total > 0 THEN <<n, d>> ELSE <<0, 1>>
GetMetrics(m) ==
  [prediction_accuracy   |-> Ratio(m["correct_predictions"], Predictions(m), Predictions(m)),
   false_positive_rate   |-> Ratio(m["false_positives"], Negatives(m), Predictions(m)),
   defense_effectiveness |-> Ratio(m["effective_defenses"], Defenses(m), Defenses(m)),
   metrics_detail        |-> m]

\* submit_feedback: a count goes up and every triggered action calls back.
SubmitFeedback(kind) ==
  LET m == [metrics EXCEPT ![kind] = @ + 1]
  IN  /\ metrics' = m
      /\ reported' = [a \in TriggeredAction |->
           IF a \in Triggered(m) /\ ~MetricsRaise(m) THEN <<GetMetrics(m)>> ELSE reported[a]]

FeedbackNext == \E kind \in FeedbackKind : SubmitFeedback(kind)
FeedbackSpec == FeedbackInit /\ [][FeedbackNext]_feedbackVars

-----------------------------------------------------------------------------
\* Callbacks are given rates: every fraction they get lies between 0 and 1, unless
\* more false negatives than correct predictions have been reported, when the rate of
\* false positives is negative or above 1; and what they are told to mend is amiss in
\* the metrics they are given (feedback_loop.py:128, 150, 168).
IsRate(r) == r[2] > 0 /\ 0 <= r[1] /\ r[1] <= r[2]
CallbacksGetRates ==
  \A a \in TriggeredAction : \A i \in DOMAIN reported[a] :
    LET got == reported[a][i]
        m == got.metrics_detail
    IN  m["false_negatives"] <= m["correct_predictions"] =>
          /\ IsRate(got.prediction_accuracy) /\ IsRate(got.false_positive_rate) /\ IsRate(got.defense_effectiveness)
          /\ a = "retrain_model" => got.prediction_accuracy[1] < got.prediction_accuracy[2]
          /\ a = "adjust_strategy" => m["false_positives"] > 0
          /\ a = "update_parameters" => m["ineffective_defenses"] > 0
=============================================================================
