----------------------------- MODULE MCSecurity -----------------------------
(* Three parts, one for each of the programs that share no state: the       *)
(* learning engine with two threads, the feedback loop, the defence levels. *)
EXTENDS LearningEngine, FeedbackLoop, AdaptiveDefense
CONSTANTS MostFeedback    \* bound on the count of each kind of feedback
VARIABLE part

vars == <<engineVars, feedbackVars, defenseVars, part>>

MCPercent == [false_positive_rate |-> 10, prediction_accuracy |-> 85, defense_effectiveness |-> 80]

\* What may happen to the engine: training that fails, restarts, or a long run.
Allowances ==
  {[collect |-> 3, feedback |-> 1, start |-> 1, stop |-> 0, tick |-> 2, fail |-> 1],
   [collect |-> 2, feedback |-> 0, start |-> 2, stop |-> 1, tick |-> 1, fail |-> 0],
   [collect |-> 3, feedback |-> 0, start |-> 1, stop |-> 1, tick |-> 3, fail |-> 0]}

MCInit ==
  /\ part \in {"engine", "feedback", "defense"}
  /\ EngineInit /\ FeedbackInit /\ DefenseInit
  /\ spare \in Allowances /\ (part # "engine" => spare.collect = 2)

EngineStep == part = "engine" /\ EngineNext /\ UNCHANGED <<feedbackVars, defenseVars, part>>
FeedbackStep ==
  /\ part = "feedback" /\ UNCHANGED <<engineVars, defenseVars, part>>
  /\ \E kind \in FeedbackKind : metrics[kind] < MostFeedback /\ SubmitFeedback(kind)
DefenseStep == part = "defense" /\ DefenseNext /\ UNCHANGED <<engineVars, feedbackVars, part>>

MCNext == EngineStep \/ FeedbackStep \/ DefenseStep

\* A thread runs, time passes, and scores keep being reported.
Runs(t) == part = "engine" /\ ThreadStep(t) /\ UNCHANGED <<feedbackVars, defenseVars, part>>
Reported ==
  /\ part = "defense" /\ UNCHANGED <<engineVars, feedbackVars, part>>
  /\ \E s \in Score : UpdateThreatLevel(s)
Passes == part = "defense" /\ Second /\ UNCHANGED <<engineVars, feedbackVars, part>>
MCSpec ==
  /\ MCInit /\ [][MCNext]_vars
  /\ \A t \in Thread : WF_vars(Runs(t))
  /\ WF_vars(Reported) /\ WF_vars(Passes)
=============================================================================
