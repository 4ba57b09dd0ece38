----------------------------- MODULE Scheduler -----------------------------
(***************************************************************************)
(* WorkStealingScheduler of scheduler.rs: worker threads with a queue      *)
(* each, threads that submit tasks, and the owner that shuts it all down.  *)
(*                                                                         *)
(* Every critical section is one step.  The mutexes of the queues and of   *)
(* the metrics are never held across a step; the one of the condition      *)
(* variable is held by a submitter from notify to the end of submit.       *)
(* wait_timeout may return at any time (10 ms).  Timing metrics and the    *)
(* priority of a task, which nothing reads, are left out.                  *)
(***************************************************************************)
EXTENDS Integers, Sequences, FiniteSets, SequencesExt

CONSTANTS
  NumWorkers,
  Submitter,        (* threads that hold a reference to the scheduler      *)
  MaxTasks          (* bound of the model: tasks submitted in all          *)

ASSUME SchedulerAssumption ==
  /\ NumWorkers \in Nat \ {0}
  /\ MaxTasks \in Nat
  /\ IsFiniteSet(Submitter)

(* Tasks are known by their ids, counted from 1.                           *)
Task == 1 .. MaxTasks
NoTask == 0

Worker == 0 .. NumWorkers - 1

VARIABLES
  queues,           (* Worker -> tasks, front first                        *)
  shutdown,
  metrics,          (* tasks_submitted, tasks_executed, tasks_stolen       *)
  wpc, spc,         (* where workers and submitters are                    *)
  held,             (* Worker -> the task it has taken                     *)
  victim,           (* Worker -> the queue it looks at next                *)
  arg,              (* Submitter -> the task it submits                    *)
  scan,             (* Submitter -> least_loaded_queue's iteration         *)
  next_id,          (* the id the next task gets                           *)
  ran, panicked     (* the tasks whose closure has returned or panicked    *)

workerVars == <<wpc, held, victim>>
submitVars == <<spc, arg, scan, next_id>>
vars == <<queues, shutdown, metrics, workerVars, submitVars, ran, panicked>>

NoScan == [at |-> 0, best |-> 0, len |-> 0]

Init ==
  /\ queues = [w \in Worker |-> <<>>]
  /\ shutdown = FALSE
  /\ metrics = [submitted |-> 0, executed |-> 0, stolen |-> 0]
  /\ wpc = [w \in Worker |-> "check"]
  /\ held = [w \in Worker |-> NoTask]
  /\ victim = [w \in Worker |-> 0]
  /\ spc = [s \in Submitter |-> "idle"]
  /\ arg = [s \in Submitter |-> NoTask]
  /\ scan = [s \in Submitter |-> NoScan]
  /\ next_id = 1
  /\ ran = {} /\ panicked = {}

CondvarFree == \A s \in Submitter : spc[s] # "count"

----------------------------------------------------------------------------
(* submit and submit_priority *)

(* shutdown consumes the scheduler: no submit starts after it.             *)
Submit(s) ==
  /\ spc[s] = "idle" /\ ~shutdown
  /\ next_id \in Task
  /\ next_id' = next_id + 1
  /\ arg' = [arg EXCEPT ![s] = next_id]
  /\ spc' = [spc EXCEPT ![s] = "scan"]
  /\ UNCHANGED <<queues, shutdown, metrics, workerVars, scan, ran, panicked>>

(* least_loaded_queue looks at one queue at a time; the first of the       *)
(* shortest wins.                                                          *)
SubmitScan(s) ==
  /\ spc[s] = "scan"
  /\ LET at == scan[s].at
         len == Len(queues[at])
         best == IF at = 0 \/ len < scan[s].len
                 THEN [at |-> at + 1, best |-> at, len |-> len]
                 ELSE [scan[s] EXCEPT !.at = at + 1]
     IN  /\ scan' = [scan EXCEPT ![s] = best]
         /\ spc' = [spc EXCEPT ![s] = IF at + 1 = NumWorkers THEN "push" ELSE "scan"]
  /\ UNCHANGED <<queues, shutdown, metrics, workerVars, arg, next_id, ran, panicked>>

SubmitPush(s) ==
  /\ spc[s] = "push"
  /\ queues' = [queues EXCEPT ![scan[s].best] = Append(@, arg[s])]
  /\ spc' = [spc EXCEPT ![s] = "notify"]
  /\ arg' = [arg EXCEPT ![s] = NoTask]
  /\ scan' = [scan EXCEPT ![s] = NoScan]
  /\ UNCHANGED <<shutdown, metrics, workerVars, next_id, ran, panicked>>

Parked == {w \in Worker : wpc[w] = "parked"}

(* notify_one (submit) wakes one parked worker, notify_all                 *)
(* (submit_priority) every one; a worker not yet parked misses the signal. *)
SubmitNotify(s) ==
  /\ spc[s] = "notify" /\ CondvarFree
  /\ \E woken \in {Parked} \cup {{w} : w \in Parked} :
       wpc' = [w \in Worker |-> IF w \in woken THEN "wake" ELSE wpc[w]]
  /\ spc' = [spc EXCEPT ![s] = "count"]
  /\ UNCHANGED <<queues, shutdown, metrics, held, victim, arg, scan, next_id, ran, panicked>>

SubmitCount(s) ==
  /\ spc[s] = "count"
  /\ metrics' = [metrics EXCEPT !.submitted = @ + 1]
  /\ spc' = [spc EXCEPT ![s] = "idle"]
  /\ UNCHANGED <<queues, shutdown, workerVars, arg, scan, next_id, ran, panicked>>

----------------------------------------------------------------------------
(* worker_loop *)

GoWorker(w, label) == wpc' = [wpc EXCEPT ![w] = label]

(* Faulty variant: the flag is not looked at. *)
WorkCheckNever(w) ==
  /\ wpc[w] = "check"
  /\ GoWorker(w, "own")
  /\ UNCHANGED <<queues, shutdown, metrics, held, victim, submitVars, ran, panicked>>

WorkCheck(w) ==
  /\ wpc[w] = "check"
  /\ GoWorker(w, IF shutdown THEN "stopped" ELSE "own")
  /\ UNCHANGED <<queues, shutdown, metrics, held, victim, submitVars, ran, panicked>>

(* pop_front of the worker's own queue *)
WorkOwn(w) ==
  /\ wpc[w] = "own"
  /\ IF queues[w] = <<>>
     THEN GoWorker(w, "steal") /\ UNCHANGED <<queues, held>>
     ELSE /\ held' = [held EXCEPT ![w] = Head(queues[w])]
          /\ queues' = [queues EXCEPT ![w] = Tail(@)]
          /\ GoWorker(w, "run")
  /\ UNCHANGED <<shutdown, metrics, victim, submitVars, ran, panicked>>

(* Faulty variant: the task stays in the victim's queue. *)
StolenFromKept(q) == q

(* What steal_back leaves of a queue. *)
StolenFrom(q) == Front(q)

(* One queue of the stealing loop; after the last one the worker parks.    *)
WorkSteal(w) ==
  /\ wpc[w] = "steal"
  /\ LET i == victim[w] IN
     IF i = NumWorkers
     THEN /\ GoWorker(w, "park")
          /\ victim' = [victim EXCEPT ![w] = 0]
          /\ UNCHANGED <<queues, held>>
     ELSE IF i = w \/ queues[i] = <<>>
     THEN victim' = [victim EXCEPT ![w] = i + 1] /\ UNCHANGED <<queues, held, wpc>>
     ELSE /\ held' = [held EXCEPT ![w] = Last(queues[i])]
          /\ queues' = [queues EXCEPT ![i] = StolenFrom(@)]
          /\ GoWorker(w, "stolen")
          /\ victim' = [victim EXCEPT ![w] = 0]
  /\ UNCHANGED <<shutdown, metrics, submitVars, ran, panicked>>

WorkStolen(w) ==
  /\ wpc[w] = "stolen"
  /\ metrics' = [metrics EXCEPT !.stolen = @ + 1]
  /\ GoWorker(w, "run")
  /\ UNCHANGED <<queues, shutdown, held, victim, submitVars, ran, panicked>>

(* The closure runs; if it panics the thread is gone.                      *)
WorkRun(w) ==
  /\ wpc[w] = "run"
  /\ \/ panicked' = panicked \cup {held[w]} /\ GoWorker(w, "dead") /\ UNCHANGED ran
     \/ ran' = ran \cup {held[w]} /\ GoWorker(w, "count") /\ UNCHANGED panicked
  /\ held' = [held EXCEPT ![w] = NoTask]
  /\ UNCHANGED <<queues, shutdown, metrics, victim, submitVars>>

WorkCount(w) ==
  /\ wpc[w] = "count"
  /\ metrics' = [metrics EXCEPT !.executed = @ + 1]
  /\ GoWorker(w, "check")
  /\ UNCHANGED <<queues, shutdown, held, victim, submitVars, ran, panicked>>

(* The flag the mutex guards is not consulted before waiting.              *)
WorkPark(w) ==
  /\ wpc[w] = "park" /\ CondvarFree
  /\ GoWorker(w, "parked")
  /\ UNCHANGED <<queues, shutdown, metrics, held, victim, submitVars, ran, panicked>>

(* Faulty variant: wait instead of wait_timeout. *)
TimeoutNever(w) == FALSE /\ UNCHANGED vars

Timeout(w) ==
  /\ wpc[w] = "parked"
  /\ GoWorker(w, "wake")
  /\ UNCHANGED <<queues, shutdown, metrics, held, victim, submitVars, ran, panicked>>

(* wait_timeout returns with the mutex, which is then released.            *)
WorkWake(w) ==
  /\ wpc[w] = "wake" /\ CondvarFree
  /\ GoWorker(w, "check")
  /\ UNCHANGED <<queues, shutdown, metrics, held, victim, submitVars, ran, panicked>>

----------------------------------------------------------------------------
(* shutdown owns the scheduler, so no submit is under way.  It stores the  *)
(* flag, notifies all, and joins the workers.                              *)
Shutdown ==
  /\ ~shutdown
  /\ \A s \in Submitter : spc[s] = "idle"
  /\ shutdown' = TRUE
  /\ wpc' = [w \in Worker |-> IF w \in Parked THEN "wake" ELSE wpc[w]]
  /\ UNCHANGED <<queues, metrics, held, victim, submitVars, ran, panicked>>

SubmitStep(s) ==
  \/ SubmitScan(s) \/ SubmitPush(s) \/ SubmitNotify(s) \/ SubmitCount(s)

WorkerStep(w) ==
  \/ WorkCheck(w) \/ WorkOwn(w) \/ WorkSteal(w) \/ WorkStolen(w) \/ WorkRun(w)
  \/ WorkCount(w) \/ WorkPark(w) \/ Timeout(w) \/ WorkWake(w)

Next ==
  \/ Shutdown
  \/ \E s \in Submitter : Submit(s) \/ SubmitStep(s)
  \/ \E w \in Worker : WorkerStep(w)

(* Running threads are scheduled, the mutexes are handed on fairly enough  *)
(* for every waiter to get them, closures return or panic.  Nobody has to  *)
(* submit anything or to shut the scheduler down.                          *)
Spec ==
  /\ Init /\ [][Next]_vars
  /\ \A s \in Submitter : WF_vars(SubmitStep(s))
  /\ \A w \in Worker : WF_vars(WorkerStep(w))
----------------------------------------------------------------------------
(* Properties *)

Queued == UNION {ToSet(queues[w]) : w \in Worker}
Submitting == {arg[s] : s \in {s \in Submitter : spc[s] \in {"scan", "push"}}}
Held == {held[w] : w \in {w \in Worker : held[w] # NoTask}}

(* The ids not given out yet. *)
Fresh == {t \in Task : t >= next_id}

(* Where task t is, or has ended. *)
Places(t) ==
  {<<"submitting", s>> : s \in {s \in Submitter : spc[s] \in {"scan", "push"} /\ arg[s] = t}}
  \cup (UNION {{<<"queued", w, i>> : i \in {i \in DOMAIN queues[w] : queues[w][i] = t}} : w \in Worker})
  \cup {<<"held", w>> : w \in {w \in Worker : held[w] = t}}
  \cup {<<"fresh">> : x \in Fresh \cap {t}}
  \cup {<<"ran">> : x \in ran \cap {t}} \cup {<<"panicked">> : x \in panicked \cap {t}}

(* Every task is in exactly one place: not submitted, being submitted, at  *)
(* one position of one queue, in the hands of one worker, or done.  So no  *)
(* task is lost and none runs twice, not even across stealing, a panic or  *)
(* shutdown (which leaves queued tasks where they are).                    *)
TasksAccounted ==
  /\ Submitting \cup Queued \cup Held \cup ran \cup panicked \subseteq Task
  /\ \A t \in Task : Cardinality(Places(t)) = 1

(* The counters agree with what has happened, up to the submitters and     *)
(* workers that have not got round to counting: in particular metrics()    *)
(* may report more tasks executed than submitted, by at most the number of *)
(* submitters between push and count.                                      *)
MetricsAccounted ==
  LET uncounted == {s \in Submitter : spc[s] \in {"notify", "count"}}
      counting == {w \in Worker : wpc[w] = "count"}
  IN  /\ metrics.executed + Cardinality(counting) = Cardinality(ran)
      /\ metrics.submitted + Cardinality(uncounted)
           = Cardinality(Task \ (Fresh \cup Submitting))

(* Tasks and their counters (scheduler.rs:150-251).                        *)
WorkAccounted == TasksAccounted /\ MetricsAccounted

AllGone == \A w \in Worker : wpc[w] \in {"stopped", "dead"}

(* A queued task is eventually run, in spite of wake-ups that come before  *)
(* the worker waits and of workers that die; unless the scheduler is shut  *)
(* down, which does not wait for the queues, or its last worker has died.  *)
QueuedTasksRun ==
  \A t \in Task : t \in Queued ~> (t \in ran \cup panicked \/ shutdown \/ AllGone)

(* shutdown returns: every worker stops, whatever it was doing.            *)
ShutdownReturns == shutdown ~> AllGone
============================================================================
