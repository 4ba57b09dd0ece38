---------------------------- MODULE BoundedFifo ----------------------------
(***************************************************************************)
(* What a bounded queue promises its two users: values leave in the order  *)
(* in which they were put, each exactly once, and no more than Capacity    *)
(* are held at a time.                                                     *)
(***************************************************************************)
EXTENDS Integers, Sequences

CONSTANTS Value, Nothing, Capacity

VARIABLES
  items,            (* the values held, oldest first                       *)
  got               (* what the last successful Get returned               *)

Init == items = <<>> /\ got = Nothing

Put(v) ==
  /\ Len(items) < Capacity
  /\ items' = Append(items, v)
  /\ got' = got

Get ==
  /\ items # <<>>
  /\ got' = Head(items)
  /\ items' = Tail(items)

Next == Get \/ \E v \in Value : Put(v)

Spec == Init /\ [][Next]_<<items, got>>
============================================================================
