----------------------------- MODULE RingBuffer -----------------------------
(***************************************************************************)
(* RingBuffer<T, N> of lock_free.rs: one producer thread and one consumer  *)
(* thread on an array of N slots, one of which always stays free.          *)
(*                                                                         *)
(* Every atomic access and every slot access is a step of its own (a       *)
(* thread's load of the index only it writes is folded into its next       *)
(* step).  A store to the other side's index becomes visible some time     *)
(* later, stores in order: a load may return a stale index.  An acquire    *)
(* load orders what the loading thread does next after what the other      *)
(* thread did before the store it read; view and synced keep the two       *)
(* effects apart.                                                          *)
(***************************************************************************)
EXTENDS Integers, Sequences

CONSTANTS
  N,                (* length of the array                                 *)
  Value,            (* the values pushed                                   *)
  Nothing           (* an empty slot                                       *)

ASSUME RingAssumption == N \in Nat \ {0} /\ Nothing \notin Value

VARIABLES
  buffer,           (* slot -> Value or Nothing                               *)
  head, tail,       (* the two indexes, as their owners see them           *)
  view,             (* what the other thread's load of head/tail returns   *)
  synced,           (* the head/tail the other thread has acquired         *)
  pc,               (* where the two threads are                           *)
  val,              (* the producer's argument                             *)
  taken,            (* the consumer's local value                          *)
  got               (* what the last successful pop returned               *)

ringVars == <<buffer, head, tail, view, synced, pc, val, taken, got>>

Slot == 0 .. N - 1

RingInit ==
  /\ buffer = [i \in Slot |-> Nothing]
  /\ head = 0 /\ tail = 0
  /\ view = [head |-> 0, tail |-> 0]
  /\ synced = [head |-> 0, tail |-> 0]
  /\ pc = [producer |-> "idle", consumer |-> "idle"]
  /\ val = Nothing /\ taken = Nothing /\ got = Nothing

(* (i + 1) % N *)
Succ(i) == (i + 1) % N

(* Faulty variant: loads and stores of the indexes are Relaxed. *)
AcquiredRelaxed(old, seen) == old

(* Ordering::Acquire on a load that returned seen. *)
Acquired(old, seen) == seen

(* The stores of head and of tail reach the other thread one by one.       *)
Propagate ==
  /\ \/ view.head # head /\ view' = [view EXCEPT !.head = Succ(@)]
     \/ view.tail # tail /\ view' = [view EXCEPT !.tail = Succ(@)]
  /\ UNCHANGED <<buffer, head, tail, synced, pc, val, taken, got>>

----------------------------------------------------------------------------
(* push, the producer's side *)

(* Faulty variant: the buffer is full only when all N slots are. *)
FullWhenAllUsed(next_tail) == FALSE

(* The answer the producer's load of head gives: push returns false.       *)
Full(next_tail) == next_tail = view.head

PushCheck(v) ==
  /\ pc.producer = "idle"
  /\ synced' = [synced EXCEPT !.head = Acquired(@, view.head)]
  /\ IF Full(Succ(tail))
     THEN UNCHANGED <<pc, val>>
     ELSE pc' = [pc EXCEPT !.producer = "write"] /\ val' = v
  /\ UNCHANGED <<buffer, head, tail, view, taken, got>>

PushWrite ==
  /\ pc.producer = "write"
  /\ buffer' = [buffer EXCEPT ![tail] = val]
  /\ pc' = [pc EXCEPT !.producer = "publish"]
  /\ UNCHANGED <<head, tail, view, synced, val, taken, got>>

PushPublish ==
  /\ pc.producer = "publish"
  /\ tail' = Succ(tail)
  /\ pc' = [pc EXCEPT !.producer = "idle"]
  /\ UNCHANGED <<buffer, head, view, synced, val, taken, got>>

Push == PushWrite \/ PushPublish \/ \E v \in Value : PushCheck(v)

----------------------------------------------------------------------------
(* pop, the consumer's side *)

(* Faulty variant: pop looks at the tail it read last time, and reads it   *)
(* afresh only when there is something to take.                            *)
PopCheckCached ==
  /\ pc.consumer = "idle"
  /\ IF head = synced.tail
     THEN UNCHANGED <<pc, synced>>
     ELSE /\ synced' = [synced EXCEPT !.tail = Acquired(@, view.tail)]
          /\ pc' = [pc EXCEPT !.consumer = "take"]
  /\ UNCHANGED <<buffer, head, tail, view, val, taken, got>>

(* A pop that finds the buffer empty returns None at once.                 *)
PopCheck ==
  /\ pc.consumer = "idle"
  /\ synced' = [synced EXCEPT !.tail = Acquired(@, view.tail)]
  /\ pc' = IF head = view.tail THEN pc ELSE [pc EXCEPT !.consumer = "take"]
  /\ UNCHANGED <<buffer, head, tail, view, val, taken, got>>

PopTake ==
  /\ pc.consumer = "take"
  /\ taken' = buffer[head]
  /\ buffer' = [buffer EXCEPT ![head] = Nothing]
  /\ pc' = [pc EXCEPT !.consumer = "advance"]
  /\ UNCHANGED <<head, tail, view, synced, val, got>>

PopAdvance ==
  /\ pc.consumer = "advance"
  /\ head' = Succ(head)
  /\ got' = taken
  /\ pc' = [pc EXCEPT !.consumer = "idle"]
  /\ UNCHANGED <<buffer, tail, view, synced, val, taken>>

Pop == PopCheck \/ PopTake \/ PopAdvance

RingNext == Propagate \/ Push \/ Pop

RingSpec == RingInit /\ [][RingNext]_ringVars

(* A consumer that keeps calling pop; stores become visible in finite time *)
(* (both are progress guarantees of threads and of atomics).               *)
FairSpec == RingSpec /\ WF_ringVars(Propagate) /\ WF_ringVars(Pop)
----------------------------------------------------------------------------
(* Properties *)

TypeOK ==
  /\ buffer \in [Slot -> Value \cup {Nothing}]
  /\ head \in Slot /\ tail \in Slot
  /\ view \in [head : Slot, tail : Slot]
  /\ synced \in [head : Slot, tail : Slot]
  /\ pc \in [producer : {"idle", "write", "publish"},
             consumer : {"idle", "take", "advance"}]
  /\ val \in Value \cup {Nothing} /\ taken \in Value \cup {Nothing}
  /\ got \in Value \cup {Nothing}

(* The two threads never access one slot at a time, and each accesses a    *)
(* slot only after it has acquired an index that the other stored after    *)
(* its own last access: a slot, which is not atomic, is never raced for.   *)
RaceFree ==
  /\ pc.producer = "write" => Succ(tail) # synced.head
  /\ pc.consumer = "take" => head # synced.tail
  /\ pc.producer = "write" /\ pc.consumer = "take" => head # tail

(* Number of values held, and the slot of the k-th oldest.                 *)
Count == IF head <= tail THEN tail - head ELSE tail - head + N
SlotOf(k) == IF head + k - 1 < N THEN head + k - 1 ELSE head + k - 1 - N

(* The values held: a pop has not happened before it has moved head.       *)
Contents ==
  [k \in 1 .. Count |->
     IF k = 1 /\ pc.consumer = "advance" THEN taken ELSE buffer[SlotOf(k)]]

(* The ring buffer is a bounded FIFO queue of N - 1 values: whatever the   *)
(* interleaving and however stale the indexes the threads read, no value   *)
(* is lost, duplicated, reordered, overwritten or read before it is there. *)
Fifo == INSTANCE BoundedFifo WITH items <- Contents, Capacity <- N - 1
ImplementsFifo == Fifo!Spec

(* While anything is held, a pop completes sooner or later; as pops are in *)
(* FIFO order, every value pushed is eventually popped.                    *)
Delivered == Count > 0 ~> pc.consumer = "advance"
============================================================================
