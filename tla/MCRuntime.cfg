\* A ring of four slots (three values held) and two values: the indexes wrap, the buffer
\* fills and empties, and loads are stale by up to a whole round.  A scheduler of two
\* workers, two submitters and three tasks any of which may panic.
CONSTANTS
  N = 4
  Value = {u, w}
  Nothing = none
  NumWorkers = 2
  Submitter = {s1, s2}
  MaxTasks = 3
SPECIFICATION RuntimeSpec
INVARIANTS RaceFree WorkAccounted
PROPERTIES ImplementsFifo Delivered QueuedTasksRun ShutdownReturns
CHECK_DEADLOCK FALSE
