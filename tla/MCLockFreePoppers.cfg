\* Two threads that push and two that pop at the same time.
CONSTANTS
 Null = Null
 None = None
 Parts = {"stack"}
 Pusher = {p1, p2}
 Popper = {c1, c2}
 Node = {n1, n2, n3}
 Value = {u, w}
 Enqueuer = {p1}
 Dequeuer = {c1}
 QueueNode = {m1, m2}
 Modes = {"pair"}
 Weak = FALSE
SPECIFICATION EitherSpec
SYMMETRY Symmetry
INVARIANTS NoUseAfterFree
