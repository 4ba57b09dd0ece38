\* Two threads, four transactions, a pool of three, four calls of add, of which the first runs
\* alone, and one expiry.
CONSTANTS
  thread_a = thread_a
  thread_b = thread_b
  alice = alice
  bob = bob
  Thread = {thread_a, thread_b}
  Tx <- MCTx
  AccountNonce <- MCAccountNonce
  ListId = {1, 2, 3, 4, 5}
  Capacity = 3
  TTL = 0
  MinGas = 1
  MaxGas = 4
  MaxTxs = 2
  MaxAdds = 4
  MaxClock = 1
SPECIFICATION MCSpec
SYMMETRY Symmetry
INVARIANTS PoolAccounted PendingListed SelectionSound
CHECK_DEADLOCK FALSE
