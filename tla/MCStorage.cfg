\* Five blocks on two branches, two crashes, one reader of pages of two blocks; all lists of
\* at most 7 leaves over 2 values; an account trie over four paths of three nibbles that
\* share prefixes of every length.
CONSTANTS
  g = g
  a1 = a1
  a2 = a2
  b1 = b1
  b2 = b2
  t1 = t1
  t2 = t2
  t3 = t3
  r1 = r1
  Block <- MCBlock
  Reader = {r1}
  Limit = 2
  MaxCrashes = 2
  ZeroHash = ZeroHash
  Hash <- MCIgnored
  LeadingZeros <- MCIgnored
  TxHash <- MCIgnored
  PairHash <- MCPairHash
  Tx = {}
  Leaf = {x, y}
  MaxLeaves = 7
  Address = {}
  Accounts = {"a", "b", "c", "d"}
  PathOf <- MCPathOf
  Nibble = {0, 1}
  MaxAmount = 1
  MaxTotal = 1
  MaxNonce = 1
SPECIFICATION StorageSpec
INVARIANTS AtomicUnlessTorn PagesLinked MerkleSound TrieSound
PROPERTIES ImplementsLog TransfersConserve
CHECK_DEADLOCK FALSE
