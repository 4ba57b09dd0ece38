----------------------------- MODULE MCRuntime -----------------------------
(***************************************************************************)
(* The ring buffer and the scheduler, which share no state: a behaviour    *)
(* runs one of them.                                                       *)
(***************************************************************************)
EXTENDS RingBuffer, Scheduler

VARIABLE part

runtimeVars == <<part, ringVars, vars>>

RuntimeInit == part \in {"ring", "scheduler"} /\ RingInit /\ Init

OnRing(Step) == part = "ring" /\ Step /\ UNCHANGED <<part, vars>>
OnScheduler(Step) == part = "scheduler" /\ Step /\ UNCHANGED <<part, ringVars>>

RuntimeNext == OnRing(RingNext) \/ OnScheduler(Next)

(* The fairness of RingBuffer!FairSpec and of Scheduler!Spec. *)
RuntimeSpec ==
  /\ RuntimeInit /\ [][RuntimeNext]_runtimeVars
  /\ WF_runtimeVars(OnRing(Propagate)) /\ WF_runtimeVars(OnRing(Pop))
  /\ \A s \in Submitter : WF_runtimeVars(OnScheduler(SubmitStep(s)))
  /\ \A w \in Worker : WF_runtimeVars(OnScheduler(WorkerStep(w)))
============================================================================
