--------------------------- MODULE LearningEngine ---------------------------
(***************************************************************************)
(* The self-learning engine, from ai_security/self_learning_engine.py: the *)
(* embedding program collects samples and feedback while a background      *)
(* thread trains.  stop waits 5 seconds for a thread that may sleep for    *)
(* 30, and a start meanwhile makes a second one.  A step of a thread runs  *)
(* from one use of shared state to the next; the sleep is the pause before *)
(* its next round.  A sample keeps the second it was taken in, whether it  *)
(* has features, and whether feedback labelled it.  The weights in use are *)
(* those of a version until training changes them, in place.  An           *)
(* evaluation finds any accuracy of a small scale.                         *)
(***************************************************************************)
EXTENDS Integers, Sequences, SequencesExt

CONSTANTS Thread,
          MinSamples,     \* min_samples_for_training
          MaxSamples,     \* max_training_samples
          Patience,       \* retraining_patience
          Threshold,      \* accuracy_improvement_threshold, in steps of the scale
          Accuracies      \* the scale

ASSUME EngineAssumption ==
  /\ MinSamples \in Nat \ {0} /\ MaxSamples \in Nat \ {0} /\ Patience \in Nat \ {0}
  /\ Threshold \in Nat \ {0} /\ Accuracies \subseteq Nat

VARIABLES
  training,    \* training_data: [at, complete, label]
  pending,     \* pending_feedback: [at, processed]
  versions,    \* model_versions: [id, accuracy, status]
  current,     \* current_model_version
  weights,     \* the version model_params were deployed as, or Undeployed
  phase,       \* current_phase
  due,         \* it is next_training_time or later
  active,      \* learning_active
  loop,        \* loop[t]: [pc, patience, kept, accuracy, id], where thread t stands
  clock,       \* the second it is
  doubled,     \* history: two threads have run at once
  spare        \* bound: what may still happen, by kind

data == <<training, pending>>
models == <<versions, current, weights>>
world == <<active, clock, doubled>>
engineVars == <<data, models, phase, due, loop, world, spare>>

Undeployed == -1

Use(kind) == spare[kind] > 0 /\ spare' = [spare EXCEPT ![kind] = @ - 1]
Off == [pc |-> "off", patience |-> 0, kept |-> << >>, accuracy |-> 0, id |-> 0]

EngineInit ==
  /\ training = << >> /\ pending = << >>
  /\ versions = <<[id |-> 0, accuracy |-> 0, status |-> "active"]>>
  /\ current = 0 /\ weights = 0
  /\ phase = "monitoring" /\ due = FALSE /\ loop = [t \in Thread |-> Off]
  /\ active = FALSE /\ clock = 0 /\ doubled = FALSE

-----------------------------------------------------------------------------
(* The embedding program.                                                  *)

\* collect_training_data keeps the newest samples.
Collect(complete) ==
  LET all == Append(training, [at |-> clock, complete |-> complete, label |-> FALSE])
  IN  /\ Use("collect")
      /\ training' = SubSeq(all, IF Len(all) > MaxSamples THEN Len(all) - MaxSamples + 1 ELSE 1, Len(all))
      /\ UNCHANGED <<pending, models, phase, due, loop, world>>

AddFeedback ==
  /\ Use("feedback") /\ pending' = Append(pending, [at |-> clock, processed |-> FALSE])
  /\ UNCHANGED <<training, models, phase, due, loop, world>>

\* start_learning_loop looks at the flag, not at the thread.
Start(t) ==
  /\ ~active /\ loop[t].pc = "off" /\ Use("start")
  /\ active' = TRUE /\ loop' = [loop EXCEPT ![t] = [Off EXCEPT !.pc = "top"]]
  /\ doubled' = (doubled \/ \E u \in Thread : loop[u].pc # "off")
  /\ UNCHANGED <<data, models, phase, due, clock>>

\* stop_learning_loop, whose wait may end before the thread does.
StopLearning ==
  /\ active /\ Use("stop") /\ active' = FALSE
  /\ UNCHANGED <<data, models, phase, due, loop, clock, doubled>>

\* Time passes, and training may come due.
Tick ==
  /\ Use("tick") /\ clock' = clock + 1 /\ due' \in {due, TRUE}
  /\ UNCHANGED <<data, models, phase, loop, active, doubled>>

-----------------------------------------------------------------------------
(* The thread.                                                             *)

On(t, pc) == loop[t].pc = pc
Goto(t, pc) == loop' = [loop EXCEPT ![t].pc = pc]

\* The loop ends when the flag is down.  A cycle begins when training is due and
\* there is enough data, or there has not been for several rounds.
LoopTop(t) ==
  LET waited == IF due /\ Len(training) < MinSamples THEN loop[t].patience + 1 ELSE 0
      cycles == due /\ (waited = 0 \/ waited >= Patience)
  IN  /\ On(t, "top")
      /\ loop' = [loop EXCEPT ![t].pc = IF ~active THEN "off" ELSE IF cycles THEN "cycle" ELSE "feedback",
                              ![t].patience = IF cycles THEN 0 ELSE IF due THEN waited ELSE @]
      /\ UNCHANGED <<data, models, phase, due, world, spare>>

\* Collection and preprocessing take the samples with features.  With too few of
\* them the cycle returns: the phase stays, and training stays due.
BeginCycle(t) ==
  LET kept == SelectSeq(training, LAMBDA d : d.complete)
  IN  /\ On(t, "cycle") /\ phase' = "preprocessing"
      /\ Goto(t, IF Len(kept) < MinSamples THEN "feedback" ELSE "train")
      /\ UNCHANGED <<data, models, due, world, spare>>

\* The mistake TrainingHappens rules out: the exception ends the thread.
FailedEndsThread(t) == Goto(t, "off")

\* An exception in the cycle, caught there.
Failed(t) == Goto(t, "feedback")

\* Training changes the weights in place.  It may fail on the way, as with features
\* of unequal length.
Train(t) ==
  /\ On(t, "train") /\ weights' = Undeployed
  /\ \/ phase' = "evaluation" /\ Goto(t, "evaluate") /\ UNCHANGED spare
     \/ phase' = "monitoring" /\ Failed(t) /\ Use("fail")
  /\ UNCHANGED <<data, versions, current, due, world>>

ShouldDeploy(accuracy) == accuracy - versions[current + 1].accuracy >= Threshold

\* Evaluation, on the training data, and the decision; current may point past the
\* list while the other thread deploys, which fails.
Evaluate(t) ==
  /\ On(t, "evaluate") /\ UNCHANGED <<data, models, due, world, spare>>
  /\ \E accuracy \in Accuracies :
       IF current + 1 \notin DOMAIN versions THEN phase' = "monitoring" /\ Failed(t)
       ELSE LET deploys == ShouldDeploy(accuracy)
            IN  /\ phase' = IF deploys THEN "deployment" ELSE "monitoring"
                /\ loop' = [loop EXCEPT ![t].pc = IF deploys THEN "archive" ELSE "finish", ![t].accuracy = accuracy]

\* The mistake ServedIsActive rules out: the former version stays active.
ArchivedNone == versions

Archived == [i \in DOMAIN versions |-> [versions[i] EXCEPT !.status = "archived"]]

\* _create_model_version takes its number, archives the others, becomes current ...
Archive(t) ==
  /\ On(t, "archive") /\ versions' = Archived /\ current' = Len(versions)
  /\ loop' = [loop EXCEPT ![t].pc = "append", ![t].id = Len(versions)]
  /\ UNCHANGED <<data, weights, phase, due, world, spare>>

\* ... and only then is in the list.
AppendVersion(t) ==
  /\ On(t, "append") /\ phase' = "monitoring" /\ weights' = loop[t].id /\ Goto(t, "finish")
  /\ versions' = Append(versions, [id |-> loop[t].id, accuracy |-> loop[t].accuracy, status |-> "active"])
  /\ UNCHANGED <<data, current, due, world, spare>>

\* The next training is scheduled, and the samples to keep are picked out ...
Finish(t) ==
  /\ On(t, "finish") /\ due' = FALSE
  /\ \E cutoff \in 0..clock :
       loop' = [loop EXCEPT ![t] = [Off EXCEPT !.pc = "cleanup", !.patience = loop[t].patience,
                                         !.kept = SelectSeq(training, LAMBDA d : d.at >= cutoff)]]
  /\ UNCHANGED <<data, models, phase, world, spare>>

\* ... and replace the list, with what was added to it in between.
Cleanup(t) ==
  /\ On(t, "cleanup") /\ training' = loop[t].kept
  /\ loop' = [loop EXCEPT ![t].pc = "feedback", ![t].kept = << >>]
  /\ UNCHANGED <<pending, models, phase, due, world, spare>>

\* _process_pending_feedback: each new feedback labels the first sample taken within
\* a second of the feedback, whichever sample it is about.
Labelled(seq, at) ==
  LET S == {i \in DOMAIN seq : seq[i].at = at}
  IN  IF S = {} THEN seq ELSE LET first == CHOOSE i \in S : \A j \in S : i <= j
                              IN  [seq EXCEPT ![first].label = TRUE]
ProcessFeedback(t) ==
  /\ On(t, "feedback") /\ Goto(t, "top")
  /\ training' = FoldSeq(LAMBDA f, seq : IF f.processed THEN seq ELSE Labelled(seq, f.at), training, pending)
  /\ pending' = [i \in DOMAIN pending |-> [pending[i] EXCEPT !.processed = TRUE]]
  /\ UNCHANGED <<models, phase, due, world, spare>>

ThreadStep(t) ==
  \/ LoopTop(t) \/ BeginCycle(t) \/ Train(t) \/ Evaluate(t) \/ Archive(t) \/ AppendVersion(t)
  \/ Finish(t) \/ Cleanup(t) \/ ProcessFeedback(t)

EngineNext ==
  \/ \E complete \in BOOLEAN : Collect(complete)
  \/ AddFeedback \/ StopLearning \/ Tick
  \/ \E t \in Thread : Start(t) \/ ThreadStep(t)

EngineSpec == EngineInit /\ [][EngineNext]_engineVars

-----------------------------------------------------------------------------
\* What the engine says it serves is what it serves: versions are numbered by their
\* places, only the one called current is active, and the weights in use are the ones
\* it was deployed with, or, after a training that was not deployed, the ones of no
\* version: they are in use all the same.  The exception is that two threads have run
\* at once, as stop does not wait for a sleeping one (lines 137, 198, 213, 469-491).
ServedIsActive ==
  (~doubled /\ \A t \in Thread : loop[t].pc # "append") =>
     /\ \A i \in DOMAIN versions : versions[i].id = i - 1 /\ (versions[i].status = "active" <=> i = current + 1)
     /\ weights \in {current, Undeployed}

\* When training is due and enough samples have features, it takes place, also after
\* a training that failed, as long as the loop is active and nobody removes samples
\* (self_learning_engine.py:141-232).
Ready == active /\ due /\ Len(SelectSeq(training, LAMBDA d : d.complete)) >= MinSamples
TrainingHappens == Ready ~> ~Ready
=============================================================================
