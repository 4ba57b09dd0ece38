------------------------------ MODULE LockFree ------------------------------
(***************************************************************************)
(* The stack and the queue of lock_free.rs, which share nothing: a program *)
(* uses one of them, or the other.                                         *)
(***************************************************************************)
EXTENDS LockFreeStack

CONSTANTS Parts, Enqueuer, Dequeuer, QueueNode, Modes, Weak

VARIABLES part, mode, qHead, qTail, qLive, qNext, qValue, qPc, qNode, hd, tl, nx, taken, got

Queue == INSTANCE LockFreeQueue WITH
           Node <- QueueNode, head <- qHead, tail <- qTail, live <- qLive,
           next <- qNext, value <- qValue, pc <- qPc, node <- qNode

ASSUME Sharing == Queue!QueueAssumption

qVars == <<mode, qHead, qTail, qLive, qNext, qValue, qPc, qNode, hd, tl, nx, taken, got>>

EitherInit == part \in Parts /\ Init /\ Queue!Init
EitherNext ==
  \/ part = "stack" /\ Next /\ UNCHANGED <<qVars, part>>
  \/ part = "queue" /\ Queue!Next /\ UNCHANGED <<vars, part>>
EitherSpec == EitherInit /\ [][EitherNext]_<<vars, qVars, part>>

(* Stack and queue touch allocated nodes only, lose none, and the queue    *)
(* loses no value: lock_free.rs frees every node at once and takes values  *)
(* out of nodes before it knows whose they are.                            *)
MemorySafe ==
  /\ NoUseAfterFree /\ NodesAccounted
  /\ Queue!NoUseAfterFree /\ Queue!NodesAccounted /\ Queue!NoValueLost

(* The concurrent queue is a FIFO queue: an enqueue takes effect when it   *)
(* links its node, a dequeue when it moves the head (lock_free.rs:140-223).*)
ImplementsFifo == Queue!ImplementsFifo
=============================================================================
