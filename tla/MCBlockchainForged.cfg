\* The same engines; one adopts a chain that nobody has mined (finding 1).
CONSTANTS
  e1 = e1
  e2 = e2
  satoshi = satoshi
  alice = alice
  zero = zero
  t1 = t1
  t2 = t2
  t3 = t3
  Engine = {e1, e2}
  Address = {satoshi, alice}
  GenesisMiner = satoshi
  ZeroHash = zero
  Hash <- MCHash
  LeadingZeros <- MCLeadingZeros
  TxHash <- MCTxHash
  PairHash <- MCPairHash
  Tx <- MCTx
  Miner <- MCMiner
  Difficulty <- MCDifficulty
  GenesisTime <- MCGenesisTime
  Damaged <- MCDamaged
  PoolCapacity = 3
  BlockTxLimit = 2
  MaxAttempts = 1
  GenesisCredit = 1000000
  BlockReward = 50
  Time = {1}
  MaxHeight <- MCMaxHeight
  MaxRefused = 1
  Forks <- MCForks
SPECIFICATION Spec
INVARIANT ChainAlwaysValid
CHECK_DEADLOCK FALSE
