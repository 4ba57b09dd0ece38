\* Two threads that push and one that pops; two that enqueue and one that dequeues, in the safe ways.
CONSTANTS
 Null = Null
 None = None
 Parts = {"stack", "queue"}
 Pusher = {p1, p2}
 Popper = {c1}
 Node = {n1, n2, n3}
 Value = {u, w}
 Enqueuer = {p1, p2}
 Dequeuer = {c1}
 QueueNode = {m1, m2, m3, m4}
 Modes = {"pair", "phases"}
 Weak = FALSE
SPECIFICATION EitherSpec
SYMMETRY Symmetry
INVARIANTS MemorySafe
PROPERTIES ImplementsLifo ImplementsFifo
