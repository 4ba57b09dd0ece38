----------------------------- MODULE AppendLog -----------------------------
(***************************************************************************)
(* What a store of blocks promises: blocks are only ever added, one at a   *)
(* time and each as a whole, and what has been added stays as it is.       *)
(***************************************************************************)
EXTENDS Sequences

CONSTANT Entry

VARIABLE log

Init == log = <<>>

Add(x) == log' = Append(log, x)

Next == \E x \in Entry : Add(x)

Spec == Init /\ [][Next]_log
============================================================================
