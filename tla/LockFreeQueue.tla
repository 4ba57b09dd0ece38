--------------------------- MODULE LockFreeQueue ---------------------------
(***************************************************************************)
(* LockFreeQueue<T> of lock_free.rs (after Michael and Scott): a linked    *)
(* list with a sentinel in front, each atomic access a step of its own.    *)
(*                                                                         *)
(* Node is the memory the allocator hands out, again as soon as it is      *)
(* freed; a freed node reads as anything and a write to it is lost.        *)
(* Accesses are sequentially consistent.  Weak says whether                *)
(* compare_exchange_weak can fail for no reason (it does on ARM and        *)
(* RISC-V, not on x86).                                                    *)
(*                                                                         *)
(* Modes are the ways of sharing the queue that are considered:            *)
(*   "pair"    one enqueuing and one dequeuing thread at the same time     *)
(*   "phases"  no dequeue while an enqueue is under way, nor two dequeues  *)
(*             (as in the module's tests, which join the enqueuers first)  *)
(*   "free"    anything                                                    *)
(***************************************************************************)
EXTENDS LinkedList, Functions

CONSTANTS Enqueuer, Dequeuer, Node, Value, Null, None, Modes, Weak

QueueAssumption ==
  /\ Enqueuer \cap Dequeuer = {}
  /\ Null \notin Node /\ None \notin Value
  /\ IsFiniteSet(Node) /\ Node # {}
  /\ Modes \subseteq {"pair", "phases", "free"}
  /\ Weak \in BOOLEAN

VARIABLES
  mode,             (* how the queue is shared, never changes              *)
  head, tail,       (* the two shared pointers                             *)
  live,             (* the allocated nodes                                 *)
  next, value,      (* contents of the nodes                               *)
  pc,
  node,             (* Enqueuer -> new_node                                *)
  hd, tl, nx,       (* thread -> its head, tail and next                   *)
  taken,            (* Dequeuer -> its value                               *)
  got               (* the last value a dequeue returned                   *)

shared == <<head, tail, live, next, value>>
vars == <<mode, head, tail, live, next, value, pc, node, hd, tl, nx, taken, got>>

Thread == Enqueuer \cup Dequeuer
Pointer == Node \cup {Null}

Init ==
  /\ mode \in Modes
  /\ \E sentinel \in Node : head = sentinel /\ tail = sentinel /\ live = {sentinel}
  /\ next = [n \in Node |-> Null]
  /\ value = [n \in Node |-> None]
  /\ pc = [t \in Thread |-> "idle"]
  /\ node = [t \in Enqueuer |-> Null]
  /\ hd = [t \in Thread |-> Null] /\ tl = [t \in Thread |-> Null]
  /\ nx = [t \in Thread |-> Null]
  /\ taken = [t \in Dequeuer |-> None]
  /\ got = None

Busy(threads) == {t \in threads : pc[t] # "idle"}

(* May thread t start an operation now? *)
MayStart(t) ==
  CASE mode = "pair" -> Busy(IF t \in Enqueuer THEN Enqueuer ELSE Dequeuer) = {}
                        /\ (t \in Enqueuer => t = CHOOSE e \in Enqueuer : TRUE)
    [] mode = "phases" -> Busy(Dequeuer) = {} /\ (t \in Dequeuer => Busy(Enqueuer) = {})
    [] mode = "free" -> TRUE

Goto(t, label) == pc' = [pc EXCEPT ![t] = label]

(* The pointers a load of n.next may return.                               *)
NextOf(n) == IF n \in live THEN {next[n]} ELSE Pointer

(* Whether compare_exchange_weak succeeds on a cell with this content.     *)
Outcomes(cell, expected) ==
  IF cell # expected THEN {FALSE} ELSE IF Weak THEN {TRUE, FALSE} ELSE {TRUE}

(* Compare-and-exchange of the tail, whose outcome the code ignores.       *)
SwingTail(expected, new) ==
  \E ok \in Outcomes(tail, expected) : tail' = IF ok THEN new ELSE tail

----------------------------------------------------------------------------
(* enqueue *)

EnqAlloc(t, v) ==
  /\ pc[t] = "idle" /\ MayStart(t)
  /\ \E n \in Node \ live :
       /\ live' = live \cup {n}
       /\ node' = [node EXCEPT ![t] = n]
       /\ value' = [value EXCEPT ![n] = v]
       /\ next' = [next EXCEPT ![n] = Null]
  /\ Goto(t, "e_tail")
  /\ UNCHANGED <<mode, head, tail, hd, tl, nx, taken, got>>

EnqTail(t) ==
  /\ pc[t] = "e_tail"
  /\ tl' = [tl EXCEPT ![t] = tail]
  /\ Goto(t, "e_next")
  /\ UNCHANGED <<mode, shared, node, hd, nx, taken, got>>

EnqNext(t) ==
  /\ pc[t] = "e_next"
  /\ \E n \in NextOf(tl[t]) : nx' = [nx EXCEPT ![t] = n]
  /\ Goto(t, "e_check")
  /\ UNCHANGED <<mode, shared, node, hd, tl, taken, got>>

(* The second load of the tail decides how the round goes on.              *)
EnqCheck(t) ==
  /\ pc[t] = "e_check"
  /\ Goto(t, IF tl[t] # tail THEN "e_tail"
             ELSE IF nx[t] = Null THEN "e_link" ELSE "e_help")
  /\ UNCHANGED <<mode, shared, node, hd, tl, nx, taken, got>>

(* Faulty variant: the node is linked behind whatever is there already. *)
EnqLinkBlind(t) ==
  /\ pc[t] = "e_link"
  /\ next' = [next EXCEPT ![tl[t]] = node[t]]
  /\ Goto(t, "e_swing")
  /\ UNCHANGED <<mode, head, tail, live, value, node, hd, tl, nx, taken, got>>

EnqLink(t) ==
  /\ pc[t] = "e_link"
  /\ \E n \in NextOf(tl[t]) : \E ok \in Outcomes(n, Null) :
       /\ next' = IF ok /\ tl[t] \in live THEN [next EXCEPT ![tl[t]] = node[t]] ELSE next
       /\ Goto(t, IF ok THEN "e_swing" ELSE "e_tail")
  /\ UNCHANGED <<mode, head, tail, live, value, node, hd, tl, nx, taken, got>>

EnqSwing(t) ==
  /\ pc[t] = "e_swing"
  /\ SwingTail(tl[t], node[t])
  /\ Goto(t, "idle")
  /\ UNCHANGED <<mode, head, live, next, value, node, hd, tl, nx, taken, got>>

EnqHelp(t) ==
  /\ pc[t] = "e_help"
  /\ SwingTail(tl[t], nx[t])
  /\ Goto(t, "e_tail")
  /\ UNCHANGED <<mode, head, live, next, value, node, hd, tl, nx, taken, got>>

----------------------------------------------------------------------------
(* dequeue *)

DeqHead(t) ==
  /\ pc[t] = "d_head" \/ (pc[t] = "idle" /\ MayStart(t))
  /\ hd' = [hd EXCEPT ![t] = head]
  /\ Goto(t, "d_tail")
  /\ UNCHANGED <<mode, shared, node, tl, nx, taken, got>>

DeqTail(t) ==
  /\ pc[t] = "d_tail"
  /\ tl' = [tl EXCEPT ![t] = tail]
  /\ Goto(t, "d_next")
  /\ UNCHANGED <<mode, shared, node, hd, nx, taken, got>>

DeqNext(t) ==
  /\ pc[t] = "d_next"
  /\ \E n \in NextOf(hd[t]) : nx' = [nx EXCEPT ![t] = n]
  /\ Goto(t, "d_check")
  /\ UNCHANGED <<mode, shared, node, hd, tl, taken, got>>

(* Faulty variant: a lagging tail is not advanced before the value behind  *)
(* it is taken.                                                            *)
DeqCheckNoHelp(t) ==
  /\ pc[t] = "d_check"
  /\ Goto(t, IF hd[t] # head THEN "d_head"
             ELSE IF nx[t] = Null THEN "idle" ELSE "d_take")
  /\ UNCHANGED <<mode, shared, node, hd, tl, nx, taken, got>>

(* The second load of the head, then: a value, empty (None is returned at  *)
(* once), or a tail that lags.                                             *)
DeqCheck(t) ==
  /\ pc[t] = "d_check"
  /\ Goto(t, IF hd[t] # head THEN "d_head"
             ELSE IF hd[t] # tl[t] THEN "d_take"
             ELSE IF nx[t] = Null THEN "idle" ELSE "d_help")
  /\ UNCHANGED <<mode, shared, node, hd, tl, nx, taken, got>>

DeqHelp(t) ==
  /\ pc[t] = "d_help"
  /\ SwingTail(tl[t], nx[t])
  /\ Goto(t, "d_head")
  /\ UNCHANGED <<mode, head, live, next, value, node, hd, tl, nx, taken, got>>

(* value.take() comes before the exchange that makes the node ours.        *)
DeqTake(t) ==
  /\ pc[t] = "d_take"
  /\ \E v \in IF nx[t] \in live THEN {value[nx[t]]} ELSE Value \cup {None} :
       taken' = [taken EXCEPT ![t] = v]
  /\ value' = IF nx[t] \in live THEN [value EXCEPT ![nx[t]] = None] ELSE value
  /\ Goto(t, "d_swing")
  /\ UNCHANGED <<mode, head, tail, live, next, node, hd, tl, nx, got>>

DeqSwing(t) ==
  /\ pc[t] = "d_swing"
  /\ \E ok \in Outcomes(head, hd[t]) :
       /\ head' = IF ok THEN nx[t] ELSE head
       /\ Goto(t, IF ok THEN "d_free" ELSE "d_head")
  /\ UNCHANGED <<mode, tail, live, next, value, node, hd, tl, nx, taken, got>>

DeqFree(t) ==
  /\ pc[t] = "d_free"
  /\ live' = live \ {hd[t]}
  /\ got' = taken[t]
  /\ Goto(t, "idle")
  /\ UNCHANGED <<mode, head, tail, next, value, node, hd, tl, nx, taken>>

EnqStep(t) ==
  \/ \E v \in Value : EnqAlloc(t, v)
  \/ EnqTail(t) \/ EnqNext(t) \/ EnqCheck(t) \/ EnqLink(t) \/ EnqSwing(t) \/ EnqHelp(t)

DeqStep(t) ==
  \/ DeqHead(t) \/ DeqTail(t) \/ DeqNext(t) \/ DeqCheck(t)
  \/ DeqHelp(t) \/ DeqTake(t) \/ DeqSwing(t) \/ DeqFree(t)

Next == (\E t \in Enqueuer : EnqStep(t)) \/ (\E t \in Dequeuer : DeqStep(t))

Spec == Init /\ [][Next]_vars
----------------------------------------------------------------------------
(* Properties *)

(* The list from head on: the sentinel, then the nodes that hold values.   *)
Walk == ListFrom(Node, Null, head, next)

(* A thread about to follow, write or free a pointer finds its target      *)
(* still allocated.                                                        *)
NoUseAfterFree ==
  /\ \A t \in Enqueuer : pc[t] \in {"e_next", "e_link"} => tl[t] \in live
  /\ \A t \in Dequeuer :
       /\ pc[t] \in {"d_next", "d_free"} => hd[t] \in live
       /\ pc[t] = "d_take" => nx[t] \in live

(* Every allocated node is on the list, in the hands of an enqueue that    *)
(* has not linked it, or of a dequeue that is about to free it: nothing    *)
(* leaks.  The tail is never left behind the head.                         *)
NodesAccounted ==
  /\ live = Range(Walk)
            \cup {node[t] : t \in {t \in Enqueuer :
                    pc[t] \in {"e_tail", "e_next", "e_check", "e_link", "e_help"}}}
            \cup {hd[t] : t \in {t \in Dequeuer : pc[t] = "d_free"}}
  /\ tail \in Range(Walk)

(* The dequeues that have taken the value of the first node.               *)
Takers == {t \in Dequeuer : pc[t] = "d_swing" /\ hd[t] = head}

(* No value is lost: the sentinel's value has been taken; every other node *)
(* on the list still has its value, or a dequeue about to make that node   *)
(* the sentinel holds it; and every dequeue that has moved the head has a  *)
(* value to return.                                                        *)
NoValueLost ==
  /\ value[head] = None
  /\ \A i \in 2 .. Len(Walk) :
       \/ value[Walk[i]] # None
       \/ \E t \in Takers : nx[t] = Walk[i] /\ taken[t] # None
  /\ \A t \in Dequeuer : pc[t] = "d_free" => taken[t] # None

(* The queue is a FIFO queue, never full: an enqueue takes effect when it  *)
(* links its node, a dequeue when it moves the head.                       *)
Contents ==
  [i \in 1 .. Len(Walk) - 1 |->
     IF i = 1 /\ Takers # {} THEN taken[CHOOSE t \in Takers : TRUE]
     ELSE value[Walk[i + 1]]]
Freeing == {t \in Dequeuer : pc[t] = "d_free"}
Fifo == INSTANCE BoundedFifo WITH
          items <- Contents, Nothing <- None, Capacity <- Cardinality(Node),
          got <- IF Freeing = {} THEN got ELSE taken[CHOOSE t \in Freeing : TRUE]
ImplementsFifo == Fifo!Spec
============================================================================
