----------------------------- MODULE MCLockFree -----------------------------
(***************************************************************************)
(* The stack and the queue with so few nodes that freed memory is soon     *)
(* reused.                                                                 *)
(***************************************************************************)
EXTENDS LockFree, TLC

Symmetry == {f @@ g @@ h : f \in Permutations(Node), g \in Permutations(QueueNode), h \in Permutations(Value)}
=============================================================================
