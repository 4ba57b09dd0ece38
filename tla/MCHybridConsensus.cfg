\* Two API threads, two validators, two blocks in a chain of up to three.
CONSTANTS
  a1 = a1
  a2 = a2
  v1 = v1
  v2 = v2
  Api = {a1, a2}
  Metrics <- MCMetrics
  Validator = {v1, v2}
  Stakes = {35}
  MinStake = 32
  Penalties = {20, 100}
  Zeros <- MCZeros
  Attempts = 2
  Draw <- MCDraw
  Scale = 3
  MaxDifficulty = 3
  Timestamps = {0, 4}
  MaxBlocks = 2
  MaxLength = 3
  MaxNonce = 2
  MaxChanges = 4
  MaxUpdates = 2
SPECIFICATION MCSpec
SYMMETRY Symmetry
INVARIANTS ChainIsTree
PROPERTIES WorkMeetsDifficulty MiningRightsFollow
CHECK_DEADLOCK FALSE
