------------------------------- MODULE Chain -------------------------------
(***************************************************************************)
(* Chain management (satoshi-core/src/chain.rs): one Chain per engine,     *)
(* made of the main chain and the hash -> height index that serves lookups *)
(* by hash.  The struct's third field, forks, is never read or written.    *)
(* A call the code refuses with Err leaves the chain as it is: it is a     *)
(* stuttering step here.                                                   *)
(***************************************************************************)
EXTENDS Block

CONSTANTS
  Engine,           (* the engines (processes), each with its own chain    *)
  GenesisMiner,     (* "satoshi"                                           *)
  GenesisTime       (* Engine -> clock value when its genesis was built    *)

VARIABLES
  blocks,           (* Engine -> the main chain, genesis first             *)
  block_index,      (* Engine -> (block hash -> index)                     *)
  adopted           (* history: Engine -> the list of blocks its chain was *)
                    (* last replaced by; until then, genesis alone         *)

chainVars == <<blocks, block_index, adopted>>

ASSUME ChainAssumption ==
  /\ GenesisMiner \in Address
  /\ GenesisTime \in [Engine -> Nat]

Tip(bs) == bs[Len(bs)]

Height(bs) == Len(bs)

Genesis(e) == NewBlock(0, ZeroHash, <<>>, 0, 0, GenesisMiner, GenesisTime[e])

(* HashMap::insert *)
Insert(m, key, val) ==
  [k \in DOMAIN m \cup {key} |-> IF k = key THEN val ELSE m[k]]

ChainInit ==
  /\ blocks = [e \in Engine |-> <<Genesis(e)>>]
  /\ block_index = [e \in Engine |-> [h \in {Genesis(e).hash} |-> 0]]
  /\ adopted = blocks

(* Faulty variant: the block's hash is taken on trust. *)
ValidateBlockTrusting(bs, b) ==
  /\ b.header.index = Tip(bs).header.index + 1
  /\ b.header.prev_hash = Tip(bs).hash
  /\ b.header.difficulty > 0 => MeetsDifficulty(b)
  /\ b.header.merkle_root = MerkleRoot(b.transactions)

(* The checks validate_block makes on a candidate for the position after   *)
(* the tip of bs.                                                          *)
ValidateBlock(bs, b) ==
  /\ b.header.index = Tip(bs).header.index + 1
  /\ b.header.prev_hash = Tip(bs).hash
  /\ b.hash = Hash(b.header)
  /\ b.header.difficulty > 0 => MeetsDifficulty(b)
  /\ b.header.merkle_root = MerkleRoot(b.transactions)

(* Appending an already validated block to engine e's chain. *)
Extend(e, b) ==
  /\ blocks' = [blocks EXCEPT ![e] = Append(@, b)]
  /\ block_index' = [block_index EXCEPT ![e] = Insert(@, b.hash, b.header.index)]
  /\ UNCHANGED adopted

AddBlock(e, b) == ValidateBlock(blocks[e], b) /\ Extend(e, b)

(* get_block_by_hash: the index first, then the position it names.         *)
HasBlock(e, h) ==
  /\ h \in DOMAIN block_index[e]
  /\ block_index[e][h] + 1 \in DOMAIN blocks[e]

BlockByHash(e, h) == blocks[e][block_index[e][h] + 1]

(* What handle_fork checks of a candidate before it looks at its length.   *)
ForkLinked(fork) ==
  \A i \in 1 .. Len(fork) - 1 : fork[i + 1].header.prev_hash = fork[i].hash

(* The longest-chain rule. *)
ForkWins(bs, fork) == Len(fork) > Height(bs)

(* The map the loop of handle_fork leaves behind: the last block with a    *)
(* hash decides where the hash points.                                     *)
IndexOf(fork) ==
  [h \in {fork[i].hash : i \in DOMAIN fork} |->
     LET last == CHOOSE i \in DOMAIN fork :
                   /\ fork[i].hash = h
                   /\ \A j \in i + 1 .. Len(fork) : fork[j].hash # h
     IN  fork[last].header.index]

(* Faulty variant: the index is extended at a reorganisation, never cleared. *)
RebuiltIndexKeepsOld(old, fork) ==
  [h \in DOMAIN old \cup DOMAIN IndexOf(fork) |->
     IF h \in DOMAIN IndexOf(fork) THEN IndexOf(fork)[h] ELSE old[h]]

(* block_index.clear() and one insert per block of the fork. *)
RebuiltIndex(old, fork) == IndexOf(fork)

(* handle_fork checks nothing else of a fork: neither the blocks' hashes,  *)
(* their work and Merkle roots, nor their numbers, nor where it starts.    *)
HandleFork(e, fork) ==
  /\ fork # <<>>
  /\ ForkLinked(fork)
  /\ ForkWins(blocks[e], fork)
  /\ block_index' = [block_index EXCEPT ![e] = RebuiltIndex(@, fork)]
  /\ blocks' = [blocks EXCEPT ![e] = fork]
  /\ adopted' = [adopted EXCEPT ![e] = fork]

----------------------------------------------------------------------------
(* What a chain must satisfy.  validate_chain checks the first three       *)
(* conjuncts of Follows; validate_block also the work and the Merkle root. *)

Follows(prev, b) ==
  /\ b.header.index = prev.header.index + 1
  /\ b.header.prev_hash = prev.hash
  /\ b.hash = Hash(b.header)

WellFormed(b) ==
  /\ b.header.difficulty > 0 => MeetsDifficulty(b)
  /\ b.header.merkle_root = MerkleRoot(b.transactions)

(* Numbered from 0, hashed, linked, worked for: each block after the first *)
(* would have passed add_block on those before it.                         *)
ValidBlocks(bs) ==
  /\ bs # <<>>
  /\ \A i \in 1 .. Len(bs) : bs[i].header.index = i - 1 /\ bs[i].hash = Hash(bs[i].header)
  /\ \A i \in 2 .. Len(bs) : Follows(bs[i - 1], bs[i]) /\ WellFormed(bs[i])

(* Whatever mixture of mining, received blocks (damaged ones included) and *)
(* reorganisations built a chain, it is the fork adopted last and blocks   *)
(* that passed every check on top of it, each linked to the one before.    *)
(* Only a fork can bring in a block that is wrong: a chain is valid        *)
(* throughout exactly if the fork it grew from was (chain.rs:75, :193).    *)
ValidChain ==
  \A e \in Engine :
    /\ Len(adopted[e]) <= Len(blocks[e])
    /\ \A i \in 1 .. Len(adopted[e]) : blocks[e][i] = adopted[e][i]
    /\ \A i \in 2 .. Len(blocks[e]) : blocks[e][i].header.prev_hash = blocks[e][i - 1].hash
    /\ \A i \in Len(adopted[e]) + 1 .. Len(blocks[e]) :
         Follows(blocks[e][i - 1], blocks[e][i]) /\ WellFormed(blocks[e][i])
    /\ ValidBlocks(adopted[e]) <=> ValidBlocks(blocks[e])

(* The index knows the blocks on the main chain and no others: a           *)
(* reorganisation leaves no stale entry behind.  On a chain whose fork was *)
(* valid a lookup by hash gives the right block (chain.rs:176).            *)
LookupSound ==
  \A e \in Engine :
    /\ DOMAIN block_index[e] = {blocks[e][i].hash : i \in DOMAIN blocks[e]}
    /\ ValidBlocks(adopted[e]) =>
         \A i \in DOMAIN blocks[e] :
           /\ HasBlock(e, blocks[e][i].hash)
           /\ BlockByHash(e, blocks[e][i].hash) = blocks[e][i]

(* Chain and index together, through every block and reorganisation.       *)
ChainSound == ValidChain /\ LookupSound

(* A hash stands for a whole history: two engines (or one) that have a     *)
(* block with the same hash have it in the same place and the same headers *)
(* before it, if the forks they grew from were valid, whatever each has    *)
(* mined, received damaged or adopted (what makes prev_hash checks enough).*)
HistoriesAgree ==
  \A d, e \in Engine :
    ValidBlocks(adopted[d]) /\ ValidBlocks(adopted[e]) =>
      \A i \in 1 .. Len(blocks[d]), j \in 1 .. Len(blocks[e]) :
        blocks[d][i].hash = blocks[e][j].hash =>
          i = j /\ \A k \in 1 .. i : blocks[d][k].header = blocks[e][k].header

(* "The blockchain -- ordered list of validated blocks" (chain.rs:37; "     *)
(* Validate fork internally" at :198; the longest valid chain wins,        *)
(* ARCHITECTURE.md:150): the code does not keep to it (finding 1).         *)
ChainAlwaysValid == \A e \in Engine : ValidBlocks(blocks[e])
============================================================================
