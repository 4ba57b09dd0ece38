--------------------------- MODULE LockFreeStack ---------------------------
(***************************************************************************)
(* LockFreeStack<T> of lock_free.rs (Treiber stack): threads that push and *)
(* threads that pop, each atomic access a step of its own.                 *)
(*                                                                         *)
(* Node is the memory the allocator hands out; a freed node may be handed  *)
(* out again at once.  Reading a freed node is undefined behaviour: its    *)
(* next field then reads as anything.  compare_exchange_weak may fail for  *)
(* no reason.  The accesses are sequentially consistent here: every store  *)
(* to head is a read-modify-write with Release, so a pop's Acquire load    *)
(* synchronises with the pushes of all the nodes it can reach.             *)
(***************************************************************************)
EXTENDS LinkedList, Functions

CONSTANTS Pusher, Popper, Node, Value, Null, None

ASSUME StackAssumption ==
  /\ Pusher \cap Popper = {}
  /\ Null \notin Node /\ None \notin Value
  /\ IsFiniteSet(Node)

VARIABLES
  head,             (* top node or Null                                    *)
  live,             (* the allocated nodes                                 *)
  next, value,      (* contents of the nodes                               *)
  pc,
  node,             (* Pusher -> new_node                                  *)
  old,              (* thread -> old_head                                  *)
  succ,             (* Popper -> next                                      *)
  result            (* Popper -> what its last successful pop returned     *)

vars == <<head, live, next, value, pc, node, old, succ, result>>

Thread == Pusher \cup Popper
Pointer == Node \cup {Null}

Init ==
  /\ head = Null /\ live = {}
  /\ next = [n \in Node |-> Null]
  /\ value = [n \in Node |-> None]
  /\ pc = [t \in Thread |-> "idle"]
  /\ node = [t \in Pusher |-> Null]
  /\ old = [t \in Thread |-> Null]
  /\ succ = [t \in Popper |-> Null]
  /\ result = [t \in Popper |-> None]

Goto(t, label) == pc' = [pc EXCEPT ![t] = label]

----------------------------------------------------------------------------
(* push *)

PushAlloc(t, v) ==
  /\ pc[t] = "idle"
  /\ \E n \in Node \ live :
       /\ live' = live \cup {n}
       /\ node' = [node EXCEPT ![t] = n]
       /\ value' = [value EXCEPT ![n] = v]
       /\ next' = [next EXCEPT ![n] = Null]
  /\ Goto(t, "link")
  /\ UNCHANGED <<head, old, succ, result>>

(* The new node is still private when its next field is set.               *)
PushLink(t) ==
  /\ pc[t] = "link"
  /\ old' = [old EXCEPT ![t] = head]
  /\ next' = [next EXCEPT ![node[t]] = head]
  /\ Goto(t, "push")
  /\ UNCHANGED <<head, live, value, node, succ, result>>

PushCAS(t) ==
  /\ pc[t] = "push"
  /\ \/ head = old[t] /\ head' = node[t] /\ Goto(t, "idle")
     \/ UNCHANGED head /\ Goto(t, "link")
  /\ UNCHANGED <<live, next, value, node, old, succ, result>>

----------------------------------------------------------------------------
(* pop *)

(* On an empty stack pop returns None and nothing changes.                 *)
PopLoad(t) ==
  /\ pc[t] = "idle"
  /\ head # Null
  /\ old' = [old EXCEPT ![t] = head]
  /\ Goto(t, "next")
  /\ UNCHANGED <<head, live, next, value, node, succ, result>>

PopNext(t) ==
  /\ pc[t] = "next"
  /\ \E n \in Pointer :
       /\ old[t] \in live => n = next[old[t]]
       /\ succ' = [succ EXCEPT ![t] = n]
  /\ Goto(t, "pop")
  /\ UNCHANGED <<head, live, next, value, node, old, result>>

(* Faulty variant: a failed exchange retries with the pointers it has. *)
PopCASStale(t) ==
  /\ pc[t] = "pop"
  /\ head' = succ[t] /\ Goto(t, "reclaim")
  /\ UNCHANGED <<live, next, value, node, old, succ, result>>

PopCAS(t) ==
  /\ pc[t] = "pop"
  /\ \/ head = old[t] /\ head' = succ[t] /\ Goto(t, "reclaim")
     \/ UNCHANGED head /\ Goto(t, "idle")
  /\ UNCHANGED <<live, next, value, node, old, succ, result>>

(* Box::from_raw: the value is moved out and the node freed.               *)
PopReclaim(t) ==
  /\ pc[t] = "reclaim"
  /\ result' = [result EXCEPT ![t] = value[old[t]]]
  /\ live' = live \ {old[t]}
  /\ Goto(t, "idle")
  /\ UNCHANGED <<head, next, value, node, old, succ>>

PushStep(t) == PushLink(t) \/ PushCAS(t) \/ \E v \in Value : PushAlloc(t, v)
PopStep(t) == PopLoad(t) \/ PopNext(t) \/ PopCAS(t) \/ PopReclaim(t)

Next == (\E t \in Pusher : PushStep(t)) \/ (\E t \in Popper : PopStep(t))

Spec == Init /\ [][Next]_vars
----------------------------------------------------------------------------
(* Properties *)

(* The nodes on the stack, top first.                                      *)
Walk == ListFrom(Node, Null, head, next)

Contents == [i \in DOMAIN Walk |-> value[Walk[i]]]

(* Types; a thread past its null check holds a node. *)
TypeOK ==
  /\ head \in Pointer /\ live \subseteq Node
  /\ next \in [Node -> Pointer] /\ value \in [Node -> Value \cup {None}]
  /\ pc \in [Thread -> {"idle", "link", "push", "next", "pop", "reclaim"}]
  /\ \A t \in Popper : pc[t] # "idle" => old[t] \in Node
  /\ node \in [Pusher -> Pointer] /\ old \in [Thread -> Pointer]
  /\ succ \in [Popper -> Pointer] /\ result \in [Popper -> Value \cup {None}]

(* "Safe to reclaim -- no other thread holds a reference": a thread about  *)
(* to read or free a node finds it still allocated.                        *)
NoUseAfterFree ==
  \A t \in Popper : pc[t] \in {"next", "reclaim"} => old[t] \in live

(* Every allocated node has exactly one owner: the stack, a push that has  *)
(* not published it, or a pop that has taken it off.  Nothing leaks and    *)
(* nothing is freed twice.                                                 *)
Pushing == {t \in Pusher : pc[t] \in {"link", "push"}}
Popped == {t \in Popper : pc[t] = "reclaim"}
NodesAccounted ==
  /\ live = Range(Walk) \cup {node[t] : t \in Pushing} \cup {old[t] : t \in Popped}
  /\ Cardinality(live) = Len(Walk) + Cardinality(Pushing) + Cardinality(Popped)

(* The concurrent stack is a stack: each operation takes effect at its     *)
(* successful exchange.                                                    *)
Lifo == INSTANCE LifoStack WITH
          items <- Contents, Nothing <- None,
          got <- [t \in Popper |-> IF pc[t] = "reclaim" THEN value[old[t]] ELSE result[t]]
ImplementsLifo == Lifo!Spec
============================================================================
