--------------------------- MODULE SecurityProofs ---------------------------
(***************************************************************************)
(* Proofs about the learning engine, for any number of samples, threads    *)
(* started one after another and scales of accuracy, and about the         *)
(* feedback loop, for any counts and triggers.                             *)
(***************************************************************************)
EXTENDS LearningEngine, FeedbackLoop, TLAPS

-----------------------------------------------------------------------------
(* Feedback.                                                               *)

Counts == [FeedbackKind -> Nat]

(* What a callback of action a may have been given.                        *)
Reportable(a, got) ==
  \E m \in Counts : got = GetMetrics(m) /\ a \in Triggered(m) /\ ~MetricsRaise(m)

FeedbackInv ==
  /\ metrics \in Counts
  /\ \A a \in TriggeredAction :
       reported[a] = << >> \/ \E got : reported[a] = <<got>> /\ Reportable(a, got)

LEMMA BelowMeansLess ==
  ASSUME NEW n \in Nat, NEW d \in Nat, NEW p \in 0..100, Below(n, d, p)
  PROVE  n < d
<1>1. p * d <= 100 * d  BY Z3
<1>2. 100 * n < p * d  BY DEF Below
<1>. QED  BY <1>1, <1>2

LEMMA AboveMeansSome ==
  ASSUME NEW n \in Nat, NEW d \in Int, NEW p \in 0..100, Above(n, d, p)
  PROVE  n > 0
<1>1. d > 0 /\ 100 * n > p * d  BY DEF Above
<1>2. p * d >= 0  BY <1>1, Z3
<1>. QED  BY <1>1, <1>2

LEMMA FeedbackInitial == FeedbackInit => FeedbackInv
BY DEF FeedbackInit, FeedbackInv, Counts

LEMMA FeedbackStep == FeedbackInv /\ [FeedbackNext]_feedbackVars => FeedbackInv'
<1>. SUFFICES ASSUME FeedbackInv, [FeedbackNext]_feedbackVars PROVE FeedbackInv'
  OBVIOUS
<1>1. CASE UNCHANGED feedbackVars  BY <1>1 DEF feedbackVars, FeedbackInv
<1>2. ASSUME NEW kind \in FeedbackKind, SubmitFeedback(kind) PROVE FeedbackInv'
  <2> DEFINE m == [metrics EXCEPT ![kind] = @ + 1]
  <2>1. m \in Counts  BY DEF FeedbackInv, Counts
  <2>2. metrics' = m
        /\ reported' = [a \in TriggeredAction |->
              IF a \in Triggered(m) /\ ~MetricsRaise(m) THEN <<GetMetrics(m)>> ELSE reported[a]]
    BY <1>2 DEF SubmitFeedback
  <2>. HIDE DEF m
  <2>3. ASSUME NEW a \in TriggeredAction
        PROVE  reported'[a] = << >> \/ \E got : reported'[a] = <<got>> /\ Reportable(a, got)
    <3>1. CASE a \in Triggered(m) /\ ~MetricsRaise(m)
      <4>1. reported'[a] = <<GetMetrics(m)>>  BY <2>2, <3>1
      <4>2. Reportable(a, GetMetrics(m))  BY <2>1, <3>1 DEF Reportable
      <4>. QED  BY <4>1, <4>2
    <3>2. CASE ~(a \in Triggered(m) /\ ~MetricsRaise(m))
      <4>1. reported'[a] = reported[a]  BY <2>2, <3>2
      <4>. QED  BY <4>1 DEF FeedbackInv
    <3>. QED  BY <3>1, <3>2
  <2>. QED  BY <2>1, <2>2, <2>3 DEF FeedbackInv
<1>. QED  BY <1>1, <1>2 DEF FeedbackNext

(* What may be reported are rates, with a reason for the action.           *)
LEMMA ReportedAreRates ==
  ASSUME NEW a \in TriggeredAction, NEW got, Reportable(a, got),
         got.metrics_detail["false_negatives"] <= got.metrics_detail["correct_predictions"]
  PROVE  /\ IsRate(got.prediction_accuracy) /\ IsRate(got.false_positive_rate)
         /\ IsRate(got.defense_effectiveness)
         /\ a = "retrain_model" => got.prediction_accuracy[1] < got.prediction_accuracy[2]
         /\ a = "adjust_strategy" => got.metrics_detail["false_positives"] > 0
         /\ a = "update_parameters" => got.metrics_detail["ineffective_defenses"] > 0
<1>1. PICK m \in Counts : got = GetMetrics(m) /\ a \in Triggered(m) /\ ~MetricsRaise(m)
  BY DEF Reportable
<1> DEFINE c == m["correct_predictions"]  w == m["wrong_predictions"]
           fp == m["false_positives"]     fn == m["false_negatives"]
           ed == m["effective_defenses"]  id == m["ineffective_defenses"]
<1>2. /\ c \in Nat /\ w \in Nat /\ fp \in Nat /\ fn \in Nat /\ ed \in Nat /\ id \in Nat
      /\ got.metrics_detail = m
  BY <1>1 DEF Counts, FeedbackKind, GetMetrics
<1>3. /\ got.prediction_accuracy = Ratio(c, Predictions(m), Predictions(m))
      /\ got.false_positive_rate = Ratio(fp, Negatives(m), Predictions(m))
      /\ got.defense_effectiveness = Ratio(ed, Defenses(m), Defenses(m))
  BY <1>1 DEF GetMetrics
<1>4. Predictions(m) = c + w /\ Defenses(m) = ed + id /\ Negatives(m) = fp + (c - fn)
  BY DEF Predictions, Defenses, Negatives
<1>5. fn <= c  BY <1>2
<1>6. MetricsRaise(m) <=> c + w > 0 /\ fp + (c - fn) = 0  BY <1>4 DEF MetricsRaise
<1>. HIDE DEF c, w, fp, fn, ed, id
<1>7. IsRate(got.prediction_accuracy) /\ IsRate(got.defense_effectiveness)
  BY <1>2, <1>3, <1>4 DEF Ratio, IsRate
<1>8. IsRate(got.false_positive_rate)
  BY <1>1, <1>2, <1>3, <1>4, <1>5, <1>6 DEF Ratio, IsRate
<1>9. ASSUME a = "retrain_model" PROVE got.prediction_accuracy[1] < got.prediction_accuracy[2]
  <2>1. Below(c, c + w, Percent.prediction_accuracy)
    BY <1>1, <1>4, <1>9 DEF Triggered, c
  <2>2. Percent.prediction_accuracy \in 0..100 /\ c + w \in Nat
    BY <1>2, PercentAssumption
  <2>3. c < c + w  BY <1>2, <2>1, <2>2, BelowMeansLess
  <2>. QED  BY <1>2, <1>3, <1>4, <2>3 DEF Ratio
<1>10. ASSUME a = "adjust_strategy" PROVE fp > 0
  <2>1. Above(fp, fp + (c - fn), Percent.false_positive_rate)
    BY <1>1, <1>4, <1>10 DEF Triggered, fp
  <2>. QED  BY <1>2, <2>1, AboveMeansSome, PercentAssumption
<1>11. ASSUME a = "update_parameters" PROVE id > 0
  <2>1. Below(ed, ed + id, Percent.defense_effectiveness)
    BY <1>1, <1>4, <1>11 DEF Triggered, ed
  <2>2. Percent.defense_effectiveness \in 0..100 /\ ed + id \in Nat
    BY <1>2, PercentAssumption
  <2>3. ed < ed + id  BY <1>2, <2>1, <2>2, BelowMeansLess
  <2>. QED  BY <1>2, <2>3
<1>. QED  BY <1>2, <1>7, <1>8, <1>9, <1>10, <1>11 DEF fp, id

(* However much feedback of whatever kinds has come: what callbacks are    *)
(* given are rates, and what they are to mend is amiss.                    *)
THEOREM CallbacksAlwaysGetRates == FeedbackSpec => []CallbacksGetRates
<1>1. FeedbackInv => CallbacksGetRates
  <2>. SUFFICES ASSUME FeedbackInv, NEW a \in TriggeredAction, NEW i \in DOMAIN reported[a],
                       reported[a][i].metrics_detail["false_negatives"]
                         <= reported[a][i].metrics_detail["correct_predictions"]
       PROVE  LET got == reported[a][i]
                  m == got.metrics_detail
              IN  /\ IsRate(got.prediction_accuracy) /\ IsRate(got.false_positive_rate) /\ IsRate(got.defense_effectiveness)
                  /\ a = "retrain_model" => got.prediction_accuracy[1] < got.prediction_accuracy[2]
                  /\ a = "adjust_strategy" => m["false_positives"] > 0
                  /\ a = "update_parameters" => m["ineffective_defenses"] > 0
    BY DEF CallbacksGetRates
  <2>1. PICK got : reported[a] = <<got>> /\ Reportable(a, got)
    <3>1. reported[a] # << >>  OBVIOUS
    <3>. QED  BY <3>1 DEF FeedbackInv
  <2>2. reported[a][i] = got  BY <2>1
  <2>. QED  BY <2>1, <2>2, ReportedAreRates
<1>. QED  BY <1>1, FeedbackInitial, FeedbackStep, PTL DEF FeedbackSpec

-----------------------------------------------------------------------------
(* The version that is served.                                             *)

Version == [id : Nat, accuracy : Nat, status : {"active", "archived"}]

Shape ==
  /\ versions \in Seq(Version) /\ current \in Nat
  /\ DOMAIN loop = Thread
  /\ \A t \in Thread : /\ DOMAIN loop[t] = {"pc", "patience", "kept", "accuracy", "id"}
                       /\ loop[t].accuracy \in Nat /\ loop[t].id \in Nat

(* One thread at a time is what the rest stands on.                        *)
Alone == \A t, u \in Thread : loop[t].pc # "off" /\ loop[u].pc # "off" => t = u

Appending(t) == loop[t].pc = "append"

(* Between two deployments, and in the middle of one.                      *)
Settled ==
  /\ current + 1 \in DOMAIN versions /\ weights \in {current, Undeployed}
  /\ \A i \in DOMAIN versions : versions[i].status = "active" <=> i = current + 1

Halfway(t) ==
  /\ current = Len(versions) /\ loop[t].id = Len(versions)
  /\ \A i \in DOMAIN versions : versions[i].status = "archived"

ServedInv ==
  /\ \A i \in DOMAIN versions : versions[i].id = i - 1
  /\ Alone
  /\ (\A t \in Thread : ~Appending(t)) => Settled
  /\ \A t \in Thread : Appending(t) => Halfway(t)

EngineInv == Shape /\ (doubled \/ ServedInv)

LEMMA EngineInitial == EngineInit => EngineInv
<1>. SUFFICES ASSUME EngineInit PROVE EngineInv  OBVIOUS
<1>1. Shape  BY DEF EngineInit, Shape, Off, Version
<1>2. \A i \in DOMAIN versions : versions[i].id = i - 1  BY DEF EngineInit
<1>3. Settled  BY DEF EngineInit, Settled
<1>4. \A t \in Thread : loop[t].pc = "off"  BY DEF EngineInit, Off
<1>. QED  BY <1>1, <1>2, <1>3, <1>4 DEF EngineInv, ServedInv, Alone, Appending

(* A thread that runs and does not deploy leaves the versions as they are. *)
LEMMA ThreadMoves ==
  ASSUME EngineInv, NEW t \in Thread, loop[t].pc \notin {"off", "append"}, doubled' = doubled,
         Shape', \A u \in Thread \ {t} : loop'[u].pc = loop[u].pc, loop'[t].pc # "append",
         UNCHANGED <<versions, current>>, weights' \in {weights, Undeployed}
  PROVE  EngineInv'
<1>1. CASE doubled  BY <1>1 DEF EngineInv
<1>2. CASE ~doubled
  <2>1. ServedInv  BY <1>2 DEF EngineInv
  <2>2. \A u \in Thread \ {t} : loop[u].pc = "off"  BY <2>1 DEF ServedInv, Alone
  <2>3. \A u \in Thread : ~Appending(u) /\ ~Appending(u)'  BY <2>2 DEF Appending
  <2>4. Alone'  BY <2>2 DEF Alone
  <2>5. Settled'  BY <2>1, <2>3 DEF ServedInv, Settled
  <2>. QED  BY <2>1, <2>3, <2>4, <2>5 DEF EngineInv, ServedInv
<1>. QED  BY <1>1, <1>2

LEMMA NobodyMoves == EngineInv /\ UNCHANGED <<loop, models, doubled>> => EngineInv'
BY DEF EngineInv, Shape, ServedInv, Alone, Appending, Settled, Halfway, models

LEMMA StartKeeps == ASSUME NEW t \in Thread, EngineInv, Start(t) PROVE EngineInv'
<1>1. Shape'  BY DEF EngineInv, Shape, Start, Off, models
<1>2. CASE doubled'  BY <1>1, <1>2 DEF EngineInv
<1>3. CASE ~doubled'
  <2>1. ~doubled /\ \A u \in Thread : loop[u].pc = "off"  BY <1>3 DEF Start
  <2>2. \A u \in Thread : loop'[u].pc = IF u = t THEN "top" ELSE "off"
    BY <2>1 DEF Start, Off, EngineInv, Shape
  <2>3. Alone' /\ \A u \in Thread : ~Appending(u) /\ ~Appending(u)'
    BY <2>1, <2>2 DEF Alone, Appending
  <2>4. ServedInv /\ UNCHANGED <<versions, current, weights>>
    BY <2>1 DEF EngineInv, Start, models
  <2>5. Settled'  BY <2>3, <2>4 DEF ServedInv, Settled
  <2>. QED  BY <1>1, <2>3, <2>4, <2>5 DEF EngineInv, ServedInv
<1>. QED  BY <1>2, <1>3

LEMMA ArchiveKeeps == ASSUME NEW t \in Thread, EngineInv, Archive(t) PROVE EngineInv'
<1>. USE DEF Archive, On
<1>1. Shape  BY DEF EngineInv
<1>2. Len(versions) \in Nat /\ DOMAIN versions = 1..Len(versions)  BY <1>1 DEF Shape
<1>3. /\ versions' \in Seq(Version) /\ Len(versions') = Len(versions) /\ DOMAIN versions' = DOMAIN versions
      /\ \A i \in DOMAIN versions : versions'[i].id = versions[i].id /\ versions'[i].status = "archived"
  <2> DEFINE archived(i) == [versions[i] EXCEPT !.status = "archived"]
  <2>1. \A i \in DOMAIN versions : archived(i) \in Version /\ archived(i).id = versions[i].id
                                   /\ archived(i).status = "archived"
    <3>. SUFFICES ASSUME NEW i \in DOMAIN versions
         PROVE  archived(i) \in Version /\ archived(i).id = versions[i].id /\ archived(i).status = "archived"
      OBVIOUS
    <3>1. versions[i] \in Version  BY <1>1, <1>2 DEF Shape
    <3>. QED  BY <3>1, SMTT(30) DEF Version
  <2>2. versions' = [i \in 1..Len(versions) |-> archived(i)]  BY <1>2 DEF Archived
  <2>. HIDE DEF archived
  <2>3. versions' \in Seq(Version) /\ Len(versions') = Len(versions)
    BY <1>2, <2>1, <2>2
  <2>. QED  BY <1>2, <2>1, <2>2, <2>3
<1>4. Shape'  BY <1>1, <1>2, <1>3 DEF Shape
<1>5. CASE doubled  BY <1>4, <1>5 DEF world, EngineInv
<1>6. CASE ~doubled
  <2>1. ServedInv  BY <1>6 DEF EngineInv
  <2>2. \A u \in Thread \ {t} : loop[u].pc = "off"  BY <2>1 DEF ServedInv, Alone
  <2>3. loop'[t].pc = "append" /\ loop'[t].id = Len(versions)
        /\ \A u \in Thread \ {t} : loop'[u].pc = "off"
    BY <1>1, <2>2 DEF Shape
  <2>4. Halfway(t)'  BY <1>3, <2>3 DEF Halfway
  <2>. QED  BY <1>3, <1>4, <2>1, <2>3, <2>4 DEF EngineInv, ServedInv, Alone, Appending
<1>. QED  BY <1>5, <1>6

LEMMA AppendKeeps == ASSUME NEW t \in Thread, EngineInv, AppendVersion(t) PROVE EngineInv'
<1>. USE DEF AppendVersion, On, Goto
<1>1. Shape  BY DEF EngineInv
<1> DEFINE new == [id |-> loop[t].id, accuracy |-> loop[t].accuracy, status |-> "active"]
           n == Len(versions)
<1>2. n \in Nat /\ DOMAIN versions = 1..n /\ new \in Version /\ versions' = Append(versions, new)
  BY <1>1 DEF Shape, Version
<1>. HIDE DEF new
<1>3. /\ versions' \in Seq(Version) /\ DOMAIN versions' = 1..(n + 1) /\ versions'[n + 1] = new
      /\ \A i \in 1..n : versions'[i] = versions[i]
  BY <1>1, <1>2 DEF Shape
<1>4. Shape'  BY <1>1, <1>3 DEF Shape
<1>5. CASE doubled  BY <1>4, <1>5 DEF world, EngineInv
<1>6. CASE ~doubled
  <2>1. ServedInv  BY <1>6 DEF EngineInv
  <2>2. Halfway(t)  BY <2>1 DEF ServedInv, Appending
  <2>3. \A u \in Thread \ {t} : loop[u].pc = "off"  BY <2>1 DEF ServedInv, Alone
  <2>4. loop'[t].pc = "finish" /\ \A u \in Thread \ {t} : loop'[u].pc = "off"
    BY <1>1, <2>3 DEF Shape
  <2>5. new.id = n /\ new.status = "active" /\ current' = n /\ weights' = n
    BY <2>2 DEF Halfway, new
  <2>6. \A i \in 1..(n + 1) : versions'[i].id = i - 1 /\ (versions'[i].status = "active" <=> i = n + 1)
    BY <1>2, <1>3, <2>1, <2>2, <2>5 DEF ServedInv, Halfway
  <2>7. Settled'  BY <1>2, <1>3, <2>5, <2>6 DEF Settled
  <2>. QED  BY <1>3, <1>4, <2>4, <2>6, <2>7 DEF EngineInv, ServedInv, Alone, Appending
<1>. QED  BY <1>5, <1>6

LEMMA EngineStep == EngineInv /\ [EngineNext]_engineVars => EngineInv'
<1>. SUFFICES ASSUME EngineInv, [EngineNext]_engineVars PROVE EngineInv'  OBVIOUS
<1>. USE DEF On, Goto, Failed, models, world
<1>1. CASE UNCHANGED engineVars  BY <1>1, NobodyMoves DEF engineVars
<1>2. ASSUME NEW complete \in BOOLEAN, Collect(complete) PROVE EngineInv'
  BY <1>2, NobodyMoves DEF Collect
<1>3. CASE AddFeedback  BY <1>3, NobodyMoves DEF AddFeedback
<1>4. CASE StopLearning  BY <1>4, NobodyMoves DEF StopLearning
<1>5. CASE Tick  BY <1>5, NobodyMoves DEF Tick
<1>6. ASSUME NEW t \in Thread, Start(t) \/ ThreadStep(t) PROVE EngineInv'
  <2>. USE <1>6
  <2>1. Shape  BY DEF EngineInv
  <2>2. CASE Start(t)  BY <2>2, StartKeeps
  <2>3. CASE LoopTop(t)
    <3>1. Shape' /\ loop'[t].pc # "append" /\ \A u \in Thread \ {t} : loop'[u].pc = loop[u].pc
      BY <2>1, <2>3 DEF LoopTop, Shape
    <3>. QED  BY <2>3, <3>1, ThreadMoves DEF LoopTop
  <2>4. CASE BeginCycle(t)
    <3>1. Shape' /\ loop'[t].pc # "append" /\ \A u \in Thread \ {t} : loop'[u].pc = loop[u].pc
      BY <2>1, <2>4 DEF BeginCycle, Shape
    <3>. QED  BY <2>4, <3>1, ThreadMoves DEF BeginCycle
  <2>5. CASE Train(t)
    <3>1. Shape' /\ loop'[t].pc # "append" /\ \A u \in Thread \ {t} : loop'[u].pc = loop[u].pc
      BY <2>1, <2>5 DEF Train, Shape
    <3>. QED  BY <2>5, <3>1, ThreadMoves DEF Train
  <2>6. CASE Evaluate(t)
    <3>1. PICK accuracy \in Accuracies :
            loop' = [loop EXCEPT ![t].pc = "feedback"]
            \/ \E pc \in {"archive", "finish"} :
                 loop' = [loop EXCEPT ![t].pc = pc, ![t].accuracy = accuracy]
      BY <2>6 DEF Evaluate
    <3>2. accuracy \in Nat  BY EngineAssumption
    <3>3. Shape' /\ loop'[t].pc # "append" /\ \A u \in Thread \ {t} : loop'[u].pc = loop[u].pc
      BY <2>1, <2>6, <3>1, <3>2 DEF Evaluate, Shape
    <3>. QED  BY <2>6, <3>3, ThreadMoves DEF Evaluate
  <2>7. CASE Archive(t)  BY <2>7, ArchiveKeeps
  <2>8. CASE AppendVersion(t)  BY <2>8, AppendKeeps
  <2>9. CASE Finish(t)
    <3>1. PICK kept : loop' = [loop EXCEPT ![t] = [Off EXCEPT !.pc = "cleanup",
                                 !.patience = loop[t].patience, !.kept = kept]]
      BY <2>9 DEF Finish
    <3>2. Shape' /\ loop'[t].pc # "append" /\ \A u \in Thread \ {t} : loop'[u].pc = loop[u].pc
      BY <2>1, <2>9, <3>1 DEF Finish, Shape, Off
    <3>. QED  BY <2>9, <3>2, ThreadMoves DEF Finish
  <2>10. CASE Cleanup(t)
    <3>1. Shape' /\ loop'[t].pc # "append" /\ \A u \in Thread \ {t} : loop'[u].pc = loop[u].pc
      BY <2>1, <2>10 DEF Cleanup, Shape
    <3>. QED  BY <2>10, <3>1, ThreadMoves DEF Cleanup
  <2>11. CASE ProcessFeedback(t)
    <3>1. Shape' /\ loop'[t].pc # "append" /\ \A u \in Thread \ {t} : loop'[u].pc = loop[u].pc
      BY <2>1, <2>11 DEF ProcessFeedback, Shape
    <3>. QED  BY <2>11, <3>1, ThreadMoves DEF ProcessFeedback
  <2>. QED
    BY <2>2, <2>3, <2>4, <2>5, <2>6, <2>7, <2>8, <2>9, <2>10, <2>11 DEF ThreadStep
<1>. QED  BY <1>1, <1>2, <1>3, <1>4, <1>5, <1>6 DEF EngineNext

(* While one thread at a time has run: outside a deployment the version    *)
(* called current is the active one, and its weights are in use unless a   *)
(* training since has changed them.                                        *)
THEOREM ServedAlwaysActive == EngineSpec => []ServedIsActive
<1>1. EngineInv => ServedIsActive
  BY DEF EngineInv, ServedInv, ServedIsActive, Appending, Settled
<1>. QED  BY <1>1, EngineInitial, EngineStep, PTL DEF EngineSpec
=============================================================================
