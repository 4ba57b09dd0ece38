----------------------------- MODULE LifoStack -----------------------------
(***************************************************************************)
(* What a stack shared by threads promises: a pop takes the value on top,  *)
(* and every value pushed is popped at most once.                          *)
(***************************************************************************)
EXTENDS Sequences

CONSTANTS Value, Nothing, Popper

VARIABLES
  items,            (* the values held, top first                          *)
  got               (* Popper -> what its last successful pop took         *)

Init == items = <<>> /\ got = [p \in Popper |-> Nothing]

Push(v) == items' = <<v>> \o items /\ got' = got

Pop(p) ==
  /\ items # <<>>
  /\ got' = [got EXCEPT ![p] = Head(items)]
  /\ items' = Tail(items)

Next == (\E v \in Value : Push(v)) \/ (\E p \in Popper : Pop(p))

Spec == Init /\ [][Next]_<<items, got>>
============================================================================
