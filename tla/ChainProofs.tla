---------------------------- MODULE ChainProofs ----------------------------
(***************************************************************************)
(* Proofs about BlockchainCore, for any number of engines, any difficulty, *)
(* any damage to blocks in transit, any chains others make up for          *)
(* handle_fork, and any hash function without collisions; and about        *)
(* MerkleTree, for any list of leaves.                                     *)
(*                                                                         *)
(* What an engine holds is the fork it adopted last and blocks that passed *)
(* add_block on top of it (Grown).  Of a fork nothing can be assumed; what *)
(* is proved of a chain is what it inherits from the fork and what each    *)
(* block adds.  A fork may have been anyone's, so every chain ever seen    *)
(* must at least be a list of numbered blocks.  A lookup is right only     *)
(* because the block at position i of a valid chain has index i - 1, which *)
(* add_block checks against the tip alone.                                 *)
(*                                                                         *)
(* What the engine mines is taken as long as the number of the tip keeps   *)
(* step with the length of the chain, and each block keeps the distance    *)
(* between the two; and what an engine has accepted it keeps while its     *)
(* genesis is its own, since a refused block takes its transactions with   *)
(* it.                                                                     *)
(*                                                                         *)
(* For the same reason the ledger of an engine that has only mined is the  *)
(* replay of its chain, and the sum of a replay is counted block by block. *)
(*                                                                         *)
(* A Merkle proof is followed round by round beside the nodes above its    *)
(* leaf: the hash it reaches is that of the node until a round finds no    *)
(* sibling, and is made of fewer pairings ever after.                      *)
(***************************************************************************)
EXTENDS BlockchainCore, MerkleTree, FiniteSetTheorems, Induction, TLAPS

IsSequence(c) == \E S : c \in Seq(S)

(* What is known of any chain, however it came about. *)
IsChain(c) ==
  /\ IsSequence(c) /\ c # <<>>
  /\ \A i \in 1 .. Len(c) : c[i].header.index \in Nat

GoodChain(c) == IsSequence(c) /\ ValidBlocks(c)

(* The index a chain should have: every hash points at its block.          *)
GoodIndex(ix, c) ==
  /\ DOMAIN ix = {c[i].hash : i \in 1 .. Len(c)}
  /\ \A i \in 1 .. Len(c) : ix[c[i].hash] = i - 1

(* The chain c is the fork and blocks that add_block took on top of it.    *)
Grown(c, fork) ==
  /\ IsChain(c) /\ IsChain(fork)
  /\ Len(fork) <= Len(c)
  /\ \A i \in 1 .. Len(fork) : c[i] = fork[i]
  /\ \A i \in 2 .. Len(c) : c[i].header.prev_hash = c[i - 1].hash
  /\ \A i \in Len(fork) + 1 .. Len(c) : Follows(c[i - 1], c[i]) /\ WellFormed(c[i])
  /\ Tip(c).header.index + Len(fork) = Tip(fork).header.index + Len(c)
  /\ GoodChain(fork) => GoodChain(c)

(* The index of a chain that grew from the fork. *)
IndexFits(ix, c, fork) ==
  /\ DOMAIN ix = {c[i].hash : i \in 1 .. Len(c)}
  /\ GoodChain(fork) => GoodIndex(ix, c)

IInv ==
  /\ DOMAIN blocks = Engine /\ blocks = [e \in Engine |-> blocks[e]]
  /\ block_index = [e \in Engine |-> block_index[e]]
  /\ adopted = [e \in Engine |-> adopted[e]]
  /\ mishaps = [e \in Engine |-> mishaps[e]]
  /\ \A c \in seen : IsChain(c)
  /\ \A e \in Engine :
       /\ blocks[e] \in seen
       /\ Grown(blocks[e], adopted[e])
       /\ IndexFits(block_index[e], blocks[e], adopted[e])
       /\ "reorg" \notin mishaps[e] => adopted[e] = <<Genesis(e)>>

----------------------------------------------------------------------------
(* Appending to a sequence whose element set is not named. *)
LEMMA AppendFacts ==
  ASSUME NEW c, IsSequence(c), NEW b
  PROVE  /\ IsSequence(Append(c, b))
         /\ Len(Append(c, b)) = Len(c) + 1
         /\ Len(c) \in Nat
         /\ \A i \in 1 .. Len(c) : Append(c, b)[i] = c[i]
         /\ Append(c, b)[Len(c) + 1] = b
<1>1. PICK S : c \in Seq(S)  BY DEF IsSequence
<1>2. c \in Seq(S \cup {b})
  BY <1>1
<1>3. Append(c, b) \in Seq(S \cup {b})
  BY <1>2
<1>. QED  BY <1>2, <1>3 DEF IsSequence

(* A sequence with an element has a length above 0. *)
LEMMA LengthFacts ==
  ASSUME NEW c, IsSequence(c), c # <<>>
  PROVE  Len(c) \in Nat /\ Len(c) >= 1 /\ DOMAIN c = 1 .. Len(c)
<1>1. PICK S : c \in Seq(S)  BY DEF IsSequence
<1>. QED  BY <1>1

(* In a good chain a hash occurs once. *)
LEMMA HashOnce ==
  ASSUME HashCollisionFree, NEW c, GoodChain(c),
         NEW i \in 1 .. Len(c), NEW j \in 1 .. Len(c), c[i].hash = c[j].hash
  PROVE  i = j
<1>1. c[i].header = c[j].header  BY DEF GoodChain, ValidBlocks, HashCollisionFree
<1>2. c[i].header.index = i - 1 /\ c[j].header.index = j - 1
  BY DEF GoodChain, ValidBlocks
<1>. QED  BY <1>1, <1>2

(* A block that validate_block accepts extends a good chain to a good one. *)
LEMMA ValidExtension ==
  ASSUME NEW c, GoodChain(c), NEW b, ValidateBlock(c, b)
  PROVE  GoodChain(Append(c, b)) /\ b.header.index = Len(c)
<1> DEFINE d == Append(c, b)
<1>1. /\ IsSequence(d) /\ Len(d) = Len(c) + 1 /\ Len(c) \in Nat
      /\ \A i \in 1 .. Len(c) : d[i] = c[i]
      /\ d[Len(c) + 1] = b
  BY AppendFacts DEF GoodChain
<1>2. Len(c) >= 1  BY LengthFacts DEF GoodChain, ValidBlocks
<1>3. Tip(c).header.index = Len(c) - 1
  BY <1>1, <1>2 DEF Tip, GoodChain, ValidBlocks
<1>4. b.header.index = Len(c) /\ b.hash = Hash(b.header)
  BY <1>1, <1>3 DEF ValidateBlock
<1>5. d # <<>>  BY <1>1
<1>6. ASSUME NEW i \in 1 .. Len(d)
      PROVE  d[i].header.index = i - 1 /\ d[i].hash = Hash(d[i].header)
  <2>1. CASE i = Len(c) + 1  BY <2>1, <1>1, <1>4
  <2>2. CASE i \in 1 .. Len(c)  BY <2>2, <1>1 DEF GoodChain, ValidBlocks
  <2>. QED  BY <2>1, <2>2, <1>1
<1>7. ASSUME NEW i \in 2 .. Len(d)
      PROVE  Follows(d[i - 1], d[i]) /\ WellFormed(d[i])
  <2>1. CASE i = Len(c) + 1
    <3>1. d[i] = b /\ d[i - 1] = Tip(c)  BY <2>1, <1>1, <1>2 DEF Tip
    <3>. QED  BY <3>1 DEF ValidateBlock, Follows, WellFormed
  <2>2. CASE i \in 2 .. Len(c)
    <3>1. d[i] = c[i] /\ d[i - 1] = c[i - 1]  BY <2>2, <1>1
    <3>. QED  BY <3>1, <2>2 DEF GoodChain, ValidBlocks
  <2>. QED  BY <2>1, <2>2, <1>1
<1>. QED  BY <1>1, <1>4, <1>5, <1>6, <1>7 DEF GoodChain, ValidBlocks

(* The entry add_block inserts keeps the index good. *)
LEMMA GoodInsert ==
  ASSUME HashCollisionFree, NEW c, GoodChain(c), NEW b, ValidateBlock(c, b),
         NEW ix, GoodIndex(ix, c)
  PROVE  GoodIndex(Insert(ix, b.hash, b.header.index), Append(c, b))
<1> DEFINE d == Append(c, b)
           jx == Insert(ix, b.hash, b.header.index)
<1>1. GoodChain(d) /\ b.header.index = Len(c)  BY ValidExtension
<1>2. /\ Len(d) = Len(c) + 1 /\ Len(c) \in Nat
      /\ \A i \in 1 .. Len(c) : d[i] = c[i]
      /\ d[Len(c) + 1] = b
  BY AppendFacts DEF GoodChain
<1>3. \A i \in 1 .. Len(c) : c[i].hash # b.hash
  <2>. SUFFICES ASSUME NEW i \in 1 .. Len(c), c[i].hash = b.hash PROVE FALSE
    OBVIOUS
  <2>1. i \in 1 .. Len(d) /\ Len(c) + 1 \in 1 .. Len(d)  BY <1>2
  <2>2. d[i].hash = d[Len(c) + 1].hash  BY <1>2
  <2>3. i = Len(c) + 1
    <3>. HIDE DEF d
    <3>. QED  BY <2>1, <2>2, <1>1, HashOnce
  <2>. QED  BY <2>3, <1>2
<1>4. DOMAIN jx = {d[i].hash : i \in 1 .. Len(d)}
  <2>1. DOMAIN jx = {c[i].hash : i \in 1 .. Len(c)} \cup {b.hash}
    BY DEF Insert, GoodIndex
  <2>2. {d[i].hash : i \in 1 .. Len(d)} = {c[i].hash : i \in 1 .. Len(c)} \cup {b.hash}
    BY <1>2
  <2>. QED  BY <2>1, <2>2
<1>5. ASSUME NEW i \in 1 .. Len(d)  PROVE jx[d[i].hash] = i - 1
  <2>1. CASE i = Len(c) + 1
    BY <2>1, <1>1, <1>2 DEF Insert
  <2>2. CASE i \in 1 .. Len(c)
    <3>1. d[i].hash = c[i].hash /\ c[i].hash # b.hash  BY <2>2, <1>2, <1>3
    <3>2. c[i].hash \in DOMAIN ix /\ ix[c[i].hash] = i - 1  BY <2>2 DEF GoodIndex
    <3>. QED  BY <3>1, <3>2 DEF Insert
  <2>. QED  BY <2>1, <2>2, <1>2
<1>. QED  BY <1>4, <1>5 DEF GoodIndex

(* The index handle_fork rebuilds is good for a good fork. *)
LEMMA GoodRebuild ==
  ASSUME HashCollisionFree, NEW c, GoodChain(c)
  PROVE  GoodIndex(IndexOf(c), c)
<1>0. Len(c) \in Nat /\ DOMAIN c = 1 .. Len(c)
  BY LengthFacts DEF GoodChain, ValidBlocks
<1>1. DOMAIN IndexOf(c) = {c[i].hash : i \in 1 .. Len(c)}
  BY <1>0 DEF IndexOf
<1>2. ASSUME NEW i \in 1 .. Len(c)  PROVE IndexOf(c)[c[i].hash] = i - 1
  <2> DEFINE P(l) == /\ c[l].hash = c[i].hash
                     /\ \A j \in l + 1 .. Len(c) : c[j].hash # c[i].hash
             last == CHOOSE l \in 1 .. Len(c) : P(l)
  <2>1. P(i)
    <3>. SUFFICES ASSUME NEW j \in i + 1 .. Len(c), c[j].hash = c[i].hash PROVE FALSE
      OBVIOUS
    <3>1. j \in 1 .. Len(c) /\ j # i  BY <1>0
    <3>. QED  BY <3>1, HashOnce
  <2>2. last \in 1 .. Len(c) /\ P(last)  BY <2>1
  <2>3. last = i  BY <2>2, HashOnce
  <2>4. IndexOf(c)[c[i].hash] = c[last].header.index
    BY <1>0 DEF IndexOf
  <2>. QED  BY <2>3, <2>4 DEF GoodChain, ValidBlocks
<1>. QED  BY <1>1, <1>2 DEF GoodIndex

(* A block that validate_block accepts on any chain that grew from a fork. *)
LEMMA GrownExtension ==
  ASSUME NEW c, NEW fork, Grown(c, fork), NEW b, ValidateBlock(c, b)
  PROVE  Grown(Append(c, b), fork)
<1> DEFINE d == Append(c, b)
<1>1. /\ IsSequence(d) /\ Len(d) = Len(c) + 1 /\ Len(c) \in Nat /\ Len(c) >= 1
      /\ \A i \in 1 .. Len(c) : d[i] = c[i]
      /\ d[Len(c) + 1] = b
  BY AppendFacts, LengthFacts DEF Grown, IsChain
<1>2. Len(fork) \in Nat /\ Len(fork) >= 1 /\ Len(fork) <= Len(c)
  BY LengthFacts DEF Grown, IsChain
<1>3. Tip(c) = d[Len(c)] /\ Tip(d) = b  BY <1>1 DEF Tip
<1>4. Tip(c).header.index \in Nat /\ b.header.index = Tip(c).header.index + 1
  BY <1>1 DEF Grown, IsChain, Tip, ValidateBlock
<1>5. \A i \in 1 .. Len(d) : i \in 1 .. Len(c) \/ i = Len(c) + 1  BY <1>1
<1>. HIDE DEF d
<1>6. IsChain(d)
  <2>1. d # <<>>  BY <1>1
  <2>2. ASSUME NEW i \in 1 .. Len(d) PROVE d[i].header.index \in Nat
    <3>1. CASE i = Len(c) + 1
      <4>1. d[i] = b  BY <1>1, <3>1
      <4>. QED  BY <1>4, <4>1
    <3>2. CASE i \in 1 .. Len(c)
      <4>1. d[i] = c[i] /\ c[i].header.index \in Nat  BY <1>1, <3>2 DEF Grown, IsChain
      <4>. QED  BY <4>1
    <3>. QED  BY <1>5, <3>1, <3>2
  <2>. QED  BY <1>1, <2>1, <2>2 DEF IsChain
<1>7. \A i \in 1 .. Len(fork) : d[i] = fork[i]
  <2>1. \A i \in 1 .. Len(fork) : i \in 1 .. Len(c)  BY <1>1, <1>2
  <2>. QED  BY <1>1, <2>1 DEF Grown
<1>8. ASSUME NEW i \in 2 .. Len(d)
      PROVE  d[i].header.prev_hash = d[i - 1].hash
  <2>1. CASE i = Len(c) + 1
    <3>1. d[i] = b /\ d[i - 1] = Tip(c)  BY <1>1, <1>3, <2>1
    <3>. QED  BY <3>1 DEF ValidateBlock
  <2>2. CASE i \in 2 .. Len(c)
    <3>1. d[i] = c[i] /\ d[i - 1] = c[i - 1]  BY <1>1, <2>2
    <3>. QED  BY <3>1, <2>2 DEF Grown
  <2>. QED  BY <1>1, <2>1, <2>2
<1>9. ASSUME NEW i \in Len(fork) + 1 .. Len(d)
      PROVE  Follows(d[i - 1], d[i]) /\ WellFormed(d[i])
  <2>1. CASE i = Len(c) + 1
    <3>1. d[i] = b /\ d[i - 1] = Tip(c)  BY <1>1, <1>3, <2>1
    <3>. QED  BY <3>1 DEF ValidateBlock, Follows, WellFormed
  <2>2. CASE i \in Len(fork) + 1 .. Len(c)
    <3>1. d[i] = c[i] /\ d[i - 1] = c[i - 1]  BY <1>1, <1>2, <2>2
    <3>. QED  BY <3>1, <2>2 DEF Grown
  <2>. QED  BY <1>1, <1>2, <2>1, <2>2
<1>10. Tip(d).header.index + Len(fork) = Tip(fork).header.index + Len(d)
  <2>1. Tip(c).header.index + Len(fork) = Tip(fork).header.index + Len(c)  BY DEF Grown
  <2>2. Tip(fork).header.index \in Nat  BY <1>2 DEF Grown, IsChain, Tip
  <2> DEFINE p == Tip(c).header.index
             q == Tip(fork).header.index
             m == Len(c)
             n == Len(fork)
  <2>3. p \in Nat /\ q \in Nat /\ m \in Nat /\ n \in Nat /\ p + n = q + m
    BY <1>1, <1>2, <1>4, <2>1, <2>2
  <2>4. Tip(d).header.index = p + 1 /\ Len(d) = m + 1  BY <1>1, <1>3, <1>4
  <2>. HIDE DEF p, q, m, n
  <2>5. p + 1 + n = q + (m + 1)  BY <2>3
  <2>. QED  BY <2>4, <2>5 DEF q, n
<1>11. GoodChain(fork) => GoodChain(d)  BY ValidExtension DEF Grown, d
<1>12. IsChain(fork) /\ Len(fork) <= Len(d)  BY <1>1, <1>2 DEF Grown
<1>13. Grown(d, fork)  BY <1>6, <1>7, <1>8, <1>9, <1>10, <1>11, <1>12 DEF Grown
<1>. QED  BY <1>13 DEF d

(* The entry add_block inserts keeps the index one of a grown chain. *)
LEMMA FittingInsert ==
  ASSUME HashCollisionFree, NEW c, NEW fork, Grown(c, fork), NEW b, ValidateBlock(c, b),
         NEW ix, IndexFits(ix, c, fork)
  PROVE  IndexFits(Insert(ix, b.hash, b.header.index), Append(c, b), fork)
<1> DEFINE d == Append(c, b)
           jx == Insert(ix, b.hash, b.header.index)
<1>1. /\ Len(d) = Len(c) + 1 /\ Len(c) \in Nat
      /\ \A i \in 1 .. Len(c) : d[i] = c[i]
      /\ d[Len(c) + 1] = b
  BY AppendFacts DEF Grown, IsChain
<1>2. DOMAIN jx = {d[i].hash : i \in 1 .. Len(d)}
  <2>1. DOMAIN jx = {c[i].hash : i \in 1 .. Len(c)} \cup {b.hash}
    BY DEF Insert, IndexFits
  <2>2. {d[i].hash : i \in 1 .. Len(d)} = {c[i].hash : i \in 1 .. Len(c)} \cup {b.hash}
    BY <1>1
  <2>. QED  BY <2>1, <2>2
<1>3. ASSUME GoodChain(fork) PROVE GoodIndex(jx, d)
  BY <1>3, GoodInsert DEF Grown, IndexFits
<1>. QED  BY <1>2, <1>3 DEF IndexFits

(* The index handle_fork rebuilds. *)
LEMMA FittingRebuild ==
  ASSUME HashCollisionFree, NEW c, IsChain(c)
  PROVE  IndexFits(IndexOf(c), c, c)
<1>1. DOMAIN c = 1 .. Len(c)  BY LengthFacts DEF IsChain
<1>2. DOMAIN IndexOf(c) = {c[i].hash : i \in 1 .. Len(c)}  BY <1>1 DEF IndexOf
<1>. QED  BY <1>2, GoodRebuild DEF IndexFits

(* A fork that handle_fork takes is a chain that grew from itself. *)
LEMMA ForkGrown ==
  ASSUME NEW fork, IsChain(fork), ForkLinked(fork)
  PROVE  Grown(fork, fork)
<1>1. Len(fork) \in Nat  BY LengthFacts DEF IsChain
<1>2. ASSUME NEW i \in 2 .. Len(fork)
      PROVE  fork[i].header.prev_hash = fork[i - 1].hash
  <2>1. i - 1 \in 1 .. Len(fork) - 1 /\ (i - 1) + 1 = i  BY <1>1
  <2>2. fork[(i - 1) + 1].header.prev_hash = fork[i - 1].hash  BY <2>1 DEF ForkLinked
  <2>. QED  BY <2>1, <2>2
<1>3. \A i \in Len(fork) + 1 .. Len(fork) : FALSE  BY <1>1
<1>. QED  BY <1>1, <1>2, <1>3 DEF Grown

(* Any stretch of a chain, and any chain made up, is a chain. *)
LEMMA CandidateIsChain ==
  ASSUME \A c \in seen : IsChain(c), NEW fork \in Candidates, fork # <<>>
  PROVE  IsChain(fork)
<1>1. PICK c \in seen \cup Forks : \E i, j \in DOMAIN c : fork = SubSeq(c, i, j)
  BY DEF Candidates
<1>2. PICK i \in DOMAIN c, j \in DOMAIN c : fork = SubSeq(c, i, j)  BY <1>1
<1>3. IsSequence(c) /\ \A k \in 1 .. Len(c) : c[k].header.index \in Nat
  <2>1. CASE c \in seen  BY <2>1 DEF IsChain
  <2>2. CASE c \in Forks
    <3>1. /\ c \in Seq({c[k] : k \in DOMAIN c})
          /\ \A k \in 1 .. Len(c) : IsBlock(c[k])
      BY <2>2, CoreAssumption
    <3>. QED  BY <3>1 DEF IsSequence, IsBlock, IsHeader
  <2>. QED  BY <2>1, <2>2
<1>4. PICK S : c \in Seq(S)  BY <1>3 DEF IsSequence
<1>5. i \in 1 .. Len(c) /\ j \in 1 .. Len(c) /\ Len(c) \in Nat  BY <1>2, <1>4
<1>6. i <= j  BY <1>2, <1>4, <1>5
<1>7. /\ fork \in Seq(S) /\ Len(fork) = j - i + 1
      /\ \A k \in 1 .. Len(fork) : fork[k] = c[i + k - 1] /\ i + k - 1 \in 1 .. Len(c)
  BY <1>2, <1>4, <1>5, <1>6
<1>. QED  BY <1>3, <1>7 DEF IsChain, IsSequence

----------------------------------------------------------------------------
LEMMA GenesisGood ==
  \A e \in Engine :
    /\ IsChain(<<Genesis(e)>>) /\ Grown(<<Genesis(e)>>, <<Genesis(e)>>)
    /\ GoodChain(<<Genesis(e)>>)
    /\ IndexFits([h \in {Genesis(e).hash} |-> 0], <<Genesis(e)>>, <<Genesis(e)>>)
<1>. SUFFICES ASSUME NEW e \in Engine
     PROVE  /\ IsChain(<<Genesis(e)>>) /\ Grown(<<Genesis(e)>>, <<Genesis(e)>>)
            /\ GoodChain(<<Genesis(e)>>)
            /\ IndexFits([h \in {Genesis(e).hash} |-> 0], <<Genesis(e)>>, <<Genesis(e)>>)
  OBVIOUS
<1> DEFINE g == Genesis(e)
<1>1. g.header.index = 0 /\ g.hash = Hash(g.header)
  BY DEF Genesis, NewBlock
<1>. HIDE DEF g
<1> DEFINE c == <<g>>
<1>2. c \in Seq({g}) /\ Len(c) = 1 /\ c[1] = g /\ c # <<>>
  OBVIOUS
<1>. HIDE DEF c
<1>3. IsSequence(c)  BY <1>2 DEF IsSequence
<1>4. IsChain(c)  BY <1>1, <1>2, <1>3 DEF IsChain
<1>5. GoodChain(c)
  <2>1. \A i \in 1 .. Len(c) : i = 1 /\ c[i] = g  BY <1>2
  <2>2. \A i \in 2 .. Len(c) : FALSE  BY <1>2
  <2>. QED  BY <1>1, <1>2, <1>3, <2>1, <2>2 DEF GoodChain, ValidBlocks
<1>6. Grown(c, c)
  <2>1. ForkLinked(c)  BY <1>2 DEF ForkLinked
  <2>. QED  BY <1>4, <2>1, ForkGrown
<1>7. IndexFits([h \in {g.hash} |-> 0], c, c)
  BY <1>1, <1>2 DEF GoodIndex, IndexFits
<1>. QED  BY <1>4, <1>5, <1>6, <1>7 DEF c, g

(* The engines start with their genesis, indexed. *)
LEMMA InitIInv == CoreInit => IInv
<1>. SUFFICES ASSUME CoreInit PROVE IInv
  OBVIOUS
<1>. USE DEF CoreInit, ChainInit
<1>1. blocks = [e \in Engine |-> <<Genesis(e)>>] /\ adopted = blocks  OBVIOUS
<1>2. block_index = [e \in Engine |-> [h \in {Genesis(e).hash} |-> 0]]  OBVIOUS
<1>3. seen = {<<Genesis(e)>> : e \in Engine} /\ mishaps = [e \in Engine |-> {}]  OBVIOUS
<1>. QED  BY <1>1, <1>2, <1>3, GenesisGood DEF IInv

(* add_block, by a miner or of a received block. *)
LEMMA ExtendIInv ==
  ASSUME HashCollisionFree, IInv, NEW e \in Engine, NEW b,
         ValidateBlock(blocks[e], b), Extend(e, b), seen' = seen \cup {blocks'[e]},
         mishaps' = mishaps \/ mishaps' = [mishaps EXCEPT ![e] = @ \cup {"block"}]
  PROVE  IInv'
<1> DEFINE d == Append(blocks[e], b)
           jx == Insert(block_index[e], b.hash, b.header.index)
<1>1. Grown(blocks[e], adopted[e]) /\ IndexFits(block_index[e], blocks[e], adopted[e])
  BY DEF IInv
<1>2. Grown(d, adopted[e]) /\ IndexFits(jx, d, adopted[e])
  BY <1>1, GrownExtension, FittingInsert
<1>. HIDE DEF d, jx
<1>3. /\ blocks' = [blocks EXCEPT ![e] = d] /\ block_index' = [block_index EXCEPT ![e] = jx]
      /\ adopted' = adopted
  BY DEF Extend, d, jx
<1>4. blocks'[e] = d  BY <1>3 DEF IInv
<1>5. IsChain(d)  BY <1>2 DEF Grown
<1>6. /\ mishaps' = [x \in Engine |-> mishaps'[x]]
      /\ \A x \in Engine : "reorg" \notin mishaps'[x] => "reorg" \notin mishaps[x]
  BY DEF IInv
<1>7. ASSUME NEW x \in Engine
      PROVE  /\ blocks'[x] \in seen' /\ Grown(blocks'[x], adopted'[x])
             /\ IndexFits(block_index'[x], blocks'[x], adopted'[x])
             /\ "reorg" \notin mishaps'[x] => adopted'[x] = <<Genesis(x)>>
  <2>1. CASE x = e  BY <2>1, <1>2, <1>3, <1>4, <1>6 DEF IInv
  <2>2. CASE x # e  BY <2>2, <1>3, <1>6 DEF IInv
  <2>. QED  BY <2>1, <2>2
<1>8. /\ DOMAIN blocks' = Engine /\ blocks' = [x \in Engine |-> blocks'[x]]
      /\ block_index' = [x \in Engine |-> block_index'[x]]
      /\ adopted' = [x \in Engine |-> adopted'[x]]
  <2>1. /\ DOMAIN blocks = Engine /\ block_index = [x \in Engine |-> block_index[x]]
        /\ adopted = [x \in Engine |-> adopted[x]]
    BY DEF IInv
  <2>2. DOMAIN blocks' = Engine /\ blocks' = [x \in Engine |-> blocks'[x]]
    BY <1>3, <2>1
  <2>3. block_index' = [x \in Engine |-> block_index'[x]]  BY <1>3, <2>1
  <2>4. adopted' = [x \in Engine |-> adopted'[x]]  BY <1>3, <2>1
  <2>. QED  BY <2>2, <2>3, <2>4
<1>9. \A c \in seen' : IsChain(c)  BY <1>4, <1>5 DEF IInv
<1>. QED  BY <1>6, <1>7, <1>8, <1>9 DEF IInv

(* A reorganisation. *)
LEMMA ForkIInv ==
  ASSUME HashCollisionFree, IInv, NEW e \in Engine, NEW fork \in Candidates,
         HandleFork(e, fork), seen' = seen \cup {fork},
         mishaps' = [mishaps EXCEPT ![e] = @ \cup {"reorg"}]
  PROVE  IInv'
<1>1. IsChain(fork)  BY CandidateIsChain DEF IInv, HandleFork
<1>2. Grown(fork, fork) /\ IndexFits(IndexOf(fork), fork, fork)
  BY <1>1, ForkGrown, FittingRebuild DEF HandleFork
<1>3. /\ blocks' = [blocks EXCEPT ![e] = fork] /\ adopted' = [adopted EXCEPT ![e] = fork]
      /\ block_index' = [block_index EXCEPT ![e] = IndexOf(fork)]
  BY DEF HandleFork, RebuiltIndex
<1>4. "reorg" \in mishaps'[e] /\ mishaps' = [x \in Engine |-> mishaps'[x]]  BY DEF IInv
<1>5. ASSUME NEW x \in Engine
      PROVE  /\ blocks'[x] \in seen' /\ Grown(blocks'[x], adopted'[x])
             /\ IndexFits(block_index'[x], blocks'[x], adopted'[x])
             /\ "reorg" \notin mishaps'[x] => adopted'[x] = <<Genesis(x)>>
  <2>1. CASE x = e  BY <2>1, <1>2, <1>3, <1>4 DEF IInv
  <2>2. CASE x # e  BY <2>2, <1>3 DEF IInv
  <2>. QED  BY <2>1, <2>2
<1>6. /\ DOMAIN blocks' = Engine /\ blocks' = [x \in Engine |-> blocks'[x]]
      /\ block_index' = [x \in Engine |-> block_index'[x]]
      /\ adopted' = [x \in Engine |-> adopted'[x]]
  BY <1>3 DEF IInv
<1>7. \A c \in seen' : IsChain(c)  BY <1>1 DEF IInv
<1>. QED  BY <1>4, <1>5, <1>6, <1>7 DEF IInv

(* Every operation of an engine keeps the inductive invariant, whatever    *)
(* fork it is offered (blockchain_core.rs, chain.rs).                      *)
LEMMA NextIInv ==
  ASSUME HashCollisionFree, IInv, [CoreNext]_vars
  PROVE  IInv'
<1>1. CASE UNCHANGED vars
  BY <1>1 DEF IInv, vars
<1>2. CASE CoreNext
  <2>. PICK e \in Engine :
         \/ \E t \in Tx : SubmitTransaction(e, t)
         \/ MineNextBlock(e)
         \/ \E b \in Arriving : ReceiveBlock(e, b)
         \/ \E fork \in Candidates : ReceiveFork(e, fork)
    BY <1>2 DEF CoreNext
  <2>1. CASE \E t \in Tx : SubmitTransaction(e, t)
    BY <2>1 DEF SubmitTransaction, IInv, chainVars
  <2>2. CASE MineNextBlock(e)
    <3>1. PICK template : MineFails(e, template) \/ MineSucceeds(e, template)
      BY <2>2 DEF MineNextBlock
    <3>2. CASE MineFails(e, template)
      <4>1. /\ mishaps' = [mishaps EXCEPT ![e] = @ \cup {"pow"}]
            /\ UNCHANGED <<blocks, block_index, adopted, seen>>
        BY <3>2 DEF MineFails, chainVars
      <4>2. /\ mishaps' = [x \in Engine |-> mishaps'[x]]
            /\ \A x \in Engine : "reorg" \notin mishaps'[x] => "reorg" \notin mishaps[x]
        BY <4>1 DEF IInv
      <4>. QED  BY <4>1, <4>2 DEF IInv
    <3>3. CASE MineSucceeds(e, template)
      <4> DEFINE b == Mined(template)
      <4>1. CASE ValidateBlock(blocks[e], b)
        <5>1. Extend(e, b) /\ seen' = seen \cup {blocks'[e]} /\ mishaps' = mishaps
          BY <3>3, <4>1 DEF MineSucceeds
        <5>. QED  BY <4>1, <5>1, ExtendIInv
      <4>2. CASE ~ValidateBlock(blocks[e], b)
        BY <3>3, <4>2 DEF MineSucceeds, IInv, chainVars
      <4>. QED  BY <4>1, <4>2
    <3>. QED  BY <3>1, <3>2, <3>3
  <2>3. CASE \E b \in Arriving : ReceiveBlock(e, b)
    <3>1. PICK b : ReceiveBlock(e, b)  BY <2>3
    <3>. QED  BY <3>1, ExtendIInv DEF ReceiveBlock, AddBlock
  <2>4. CASE \E fork \in Candidates : ReceiveFork(e, fork)
    <3>1. PICK fork \in Candidates : ReceiveFork(e, fork)  BY <2>4
    <3>. QED  BY <3>1, ForkIInv DEF ReceiveFork
  <2>. QED  BY <2>1, <2>2, <2>3, <2>4
<1>. QED  BY <1>1, <1>2

LEMMA SpecIInv ==
  ASSUME HashCollisionFree
  PROVE  Spec => []IInv
<1>1. CoreInit => IInv  BY InitIInv
<1>2. IInv /\ [CoreNext]_vars => IInv'  BY NextIInv
<1>. QED  BY <1>1, <1>2, PTL DEF Spec

(* A prefix of a good chain is good. *)
LEMMA PrefixGood ==
  ASSUME NEW c, NEW fork, Grown(c, fork), ValidBlocks(c)
  PROVE  ValidBlocks(fork)
<1>1. Len(fork) \in Nat /\ Len(c) \in Nat /\ Len(fork) <= Len(c) /\ fork # <<>>
  BY LengthFacts DEF Grown, IsChain
<1>2. \A i \in 1 .. Len(fork) : i \in 1 .. Len(c) /\ fork[i] = c[i]  BY <1>1 DEF Grown
<1>3. ASSUME NEW i \in 2 .. Len(fork)
      PROVE  Follows(fork[i - 1], fork[i]) /\ WellFormed(fork[i])
  <2>1. i \in 2 .. Len(c) /\ i \in 1 .. Len(fork) /\ i - 1 \in 1 .. Len(fork)  BY <1>1
  <2>. QED  BY <1>2, <2>1 DEF ValidBlocks
<1>. QED  BY <1>1, <1>2, <1>3 DEF ValidBlocks

(* For any number of engines and any interleaving of mining, received      *)
(* blocks (damaged ones included) and reorganisations to whatever others   *)
(* make up: a chain is the fork adopted last and valid blocks on top, it   *)
(* is valid exactly if that fork was, its index knows its blocks and no    *)
(* others and, if the fork was valid, finds the right one.                 *)
THEOREM ChainAlwaysSound ==
  ASSUME HashCollisionFree
  PROVE  Spec => []ChainSound
<1>1. IInv => ValidChain
  <2>. SUFFICES ASSUME IInv, NEW e \in Engine
       PROVE  /\ Len(adopted[e]) <= Len(blocks[e])
              /\ \A i \in 1 .. Len(adopted[e]) : blocks[e][i] = adopted[e][i]
              /\ \A i \in 2 .. Len(blocks[e]) :
                   blocks[e][i].header.prev_hash = blocks[e][i - 1].hash
              /\ \A i \in Len(adopted[e]) + 1 .. Len(blocks[e]) :
                   Follows(blocks[e][i - 1], blocks[e][i]) /\ WellFormed(blocks[e][i])
              /\ ValidBlocks(adopted[e]) <=> ValidBlocks(blocks[e])
    BY DEF ValidChain
  <2>1. Grown(blocks[e], adopted[e])  BY DEF IInv
  <2>2. ValidBlocks(adopted[e]) => ValidBlocks(blocks[e])
    BY <2>1 DEF Grown, IsChain, GoodChain
  <2>3. ValidBlocks(blocks[e]) => ValidBlocks(adopted[e])  BY <2>1, PrefixGood
  <2>. QED  BY <2>1, <2>2, <2>3 DEF Grown
<1>2. IInv => LookupSound
  <2>. SUFFICES ASSUME IInv, NEW e \in Engine
       PROVE  /\ DOMAIN block_index[e] = {blocks[e][i].hash : i \in DOMAIN blocks[e]}
              /\ ValidBlocks(adopted[e]) =>
                   \A i \in DOMAIN blocks[e] :
                     /\ HasBlock(e, blocks[e][i].hash)
                     /\ BlockByHash(e, blocks[e][i].hash) = blocks[e][i]
    BY DEF LookupSound
  <2>1. Grown(blocks[e], adopted[e]) /\ IndexFits(block_index[e], blocks[e], adopted[e])
    BY DEF IInv
  <2>2. DOMAIN blocks[e] = 1 .. Len(blocks[e]) /\ Len(blocks[e]) \in Nat
    BY <2>1, LengthFacts DEF Grown, IsChain
  <2>3. ASSUME ValidBlocks(adopted[e]), NEW i \in DOMAIN blocks[e]
        PROVE  /\ HasBlock(e, blocks[e][i].hash)
               /\ BlockByHash(e, blocks[e][i].hash) = blocks[e][i]
    <3>1. GoodIndex(block_index[e], blocks[e])
      BY <2>1, <2>3 DEF Grown, IsChain, GoodChain, IndexFits
    <3>. QED  BY <2>2, <3>1 DEF GoodIndex, HasBlock, BlockByHash
  <2>. QED  BY <2>1, <2>2, <2>3 DEF IndexFits
<1>3. IInv => ChainSound  BY <1>1, <1>2 DEF ChainSound
<1>. QED  BY <1>3, SpecIInv, PTL

(* Two good chains with a hash in common agree up to there. *)
LEMMA SameHistory ==
  ASSUME HashCollisionFree, NEW c, NEW d, GoodChain(c), GoodChain(d),
         NEW i \in 1 .. Len(c), NEW j \in 1 .. Len(d), c[i].hash = d[j].hash
  PROVE  i = j /\ \A k \in 1 .. i : c[k].header = d[k].header
<1>1. Len(c) \in Nat /\ Len(d) \in Nat  BY LengthFacts DEF GoodChain, ValidBlocks
<1>2. ASSUME NEW k \in 1 .. Len(c), NEW l \in 1 .. Len(d), c[k].hash = d[l].hash
      PROVE  c[k].header = d[l].header /\ k = l
  <2>1. c[k].header = d[l].header
    BY <1>2 DEF GoodChain, ValidBlocks, HashCollisionFree
  <2>2. c[k].header.index = k - 1 /\ d[l].header.index = l - 1
    BY DEF GoodChain, ValidBlocks
  <2>. QED  BY <2>1, <2>2
<1>3. i = j  BY <1>2
\* Down from i: the blocks before two with the same hash have the same hash.
<1> DEFINE P == {n \in 0 .. i - 1 : c[i - n].hash = d[i - n].hash}
<1>4. 0 \in P  BY <1>1, <1>3
<1>5. ASSUME NEW n \in 1 .. i - 1, n - 1 \in P PROVE n \in P
  <2>1. /\ i - (n - 1) \in 2 .. Len(c) /\ i - (n - 1) \in 2 .. Len(d)
        /\ (i - (n - 1)) - 1 = i - n
    BY <1>1, <1>3
  <2>2. c[i - (n - 1)].hash = d[i - (n - 1)].hash  BY <1>5
  <2>3. c[i - (n - 1)].header = d[i - (n - 1)].header
    <3>1. i - (n - 1) \in 1 .. Len(c) /\ i - (n - 1) \in 1 .. Len(d)  BY <1>1, <2>1
    <3>. QED  BY <1>2, <2>2, <3>1
  <2>4. /\ c[i - (n - 1)].header.prev_hash = c[i - n].hash
        /\ d[i - (n - 1)].header.prev_hash = d[i - n].hash
    BY <2>1 DEF GoodChain, ValidBlocks, Follows
  <2>. QED  BY <2>3, <2>4
<1>6. \A n \in 0 .. i - 1 : n \in P
  <2>. HIDE DEF P
  <2>1. i - 1 \in Nat  BY <1>1
  <2>. QED  BY <1>4, <1>5, <2>1, InductTo
<1>7. ASSUME NEW k \in 1 .. i PROVE c[k].header = d[k].header
  <2>1. i - k \in 0 .. i - 1 /\ i - (i - k) = k  BY <1>1
  <2>2. c[k].hash = d[k].hash  BY <1>6, <2>1
  <2>3. k \in 1 .. Len(c) /\ k \in 1 .. Len(d)  BY <1>1, <1>3
  <2>. QED  BY <1>2, <2>2, <2>3
<1>. QED  BY <1>3, <1>7

(* In the same generality: engines whose forks were valid and that have a  *)
(* block with the same hash have the same history up to it.                *)
THEOREM HistoriesAlwaysAgree ==
  ASSUME HashCollisionFree
  PROVE  Spec => []HistoriesAgree
<1>1. IInv => HistoriesAgree
  <2>. SUFFICES ASSUME IInv, NEW d \in Engine, NEW e \in Engine,
                       ValidBlocks(adopted[d]), ValidBlocks(adopted[e]),
                       NEW i \in 1 .. Len(blocks[d]), NEW j \in 1 .. Len(blocks[e]),
                       blocks[d][i].hash = blocks[e][j].hash
       PROVE  i = j /\ \A k \in 1 .. i : blocks[d][k].header = blocks[e][k].header
    BY DEF HistoriesAgree
  <2>1. GoodChain(blocks[d]) /\ GoodChain(blocks[e])
    BY DEF IInv, Grown, IsChain, GoodChain
  <2>. QED  BY <2>1, SameHistory
<1>. QED  BY <1>1, SpecIInv, PTL

----------------------------------------------------------------------------
(* The engine around the chain. *)

(* mine_pow only sets the nonce and the hash. *)
LEMMA MinedFacts ==
  ASSUME NEW index, NEW prev, NEW txs, NEW difficulty, NEW miner, NEW time,
         NEW b, b = NewBlock(index, prev, txs, 0, difficulty, miner, time),
         Solutions(b) # {}
  PROVE  /\ Mined(b).header.index = index
         /\ Mined(b).header.prev_hash = prev
         /\ Mined(b).header.miner = miner
         /\ Mined(b).transactions = txs
         /\ Mined(b).header.merkle_root = MerkleRoot(txs)
         /\ Mined(b).hash = Hash(Mined(b).header)
         /\ MeetsDifficulty(Mined(b))
<1>1. Solutions(b) \in SUBSET Nat
  <2>1. MaxAttempts \in Nat  BY CoreAssumption
  <2>. QED  BY <2>1 DEF Solutions
<1>2. PICK k \in Solutions(b) : Mined(b) = WithNonce(b, k)
  BY <1>1, MinInSet DEF Mined
<1>3. MeetsDifficulty(WithNonce(b, k))  BY <1>2 DEF Solutions
<1> DEFINE m == [b EXCEPT !.header.nonce = @ + k]
<1>4. /\ m.header.index = index /\ m.header.prev_hash = prev
      /\ m.header.merkle_root = MerkleRoot(txs) /\ m.transactions = txs
      /\ m.header.miner = miner
  BY DEF NewBlock
<1>5. DOMAIN m = {"header", "transactions", "hash"}
  BY DEF NewBlock
<1>6. Mined(b) = [m EXCEPT !.hash = Hash(m.header)]
  BY <1>2 DEF WithNonce, UpdateHash
<1>. HIDE DEF m
<1>7. /\ Mined(b).header = m.header /\ Mined(b).transactions = m.transactions
      /\ Mined(b).hash = Hash(m.header)
  BY <1>5, <1>6
<1>. QED  BY <1>2, <1>3, <1>4, <1>7


(* A block proof of work has been found for is taken just if the number of *)
(* the tip keeps step with the height.                                     *)
LEMMA MinedTaken ==
  ASSUME IInv, NEW e \in Engine, NEW txs, NEW time,
         Solutions(Template(e, txs, time)) # {}
  PROVE  ValidateBlock(blocks[e], Mined(Template(e, txs, time))) <=> Numbered(adopted[e])
<1> DEFINE c == blocks[e]
           fork == adopted[e]
           b == Mined(Template(e, txs, time))
<1>1. /\ b.header.index = Height(c) /\ b.header.prev_hash = Tip(c).hash
      /\ b.transactions = txs /\ b.header.merkle_root = MerkleRoot(txs)
      /\ b.hash = Hash(b.header) /\ MeetsDifficulty(b)
  BY MinedFacts DEF Template
<1>2. Grown(c, fork)  BY DEF IInv
<1>3. Len(c) \in Nat /\ Len(c) >= 1 /\ Len(fork) \in Nat /\ Len(fork) >= 1
  BY <1>2, LengthFacts DEF Grown, IsChain
<1>4. Tip(c).header.index \in Nat /\ Tip(fork).header.index \in Nat
  BY <1>2, <1>3 DEF Grown, IsChain, Tip
<1>5. Tip(c).header.index + Len(fork) = Tip(fork).header.index + Len(c)
  BY <1>2 DEF Grown
<1>. HIDE DEF b, c, fork
<1>6. ValidateBlock(c, b) <=> Len(c) = Tip(c).header.index + 1
  BY <1>1 DEF ValidateBlock, Height
<1>7. Len(c) = Tip(c).header.index + 1 <=> Numbered(fork)
  <2> DEFINE p == Tip(c).header.index
             q == Tip(fork).header.index
             m == Len(c)
             n == Len(fork)
  <2>1. p \in Nat /\ q \in Nat /\ m \in Nat /\ n \in Nat /\ p + n = q + m  BY <1>3, <1>4, <1>5
  <2>2. Numbered(fork) <=> q + 1 = n  BY DEF Numbered
  <2>. HIDE DEF p, q, m, n
  <2>3. m = p + 1 <=> Numbered(fork)  BY <2>1, <2>2
  <2>. QED  BY <2>3 DEF p, m
<1>. QED  BY <1>6, <1>7 DEF b, c, fork

(* On the chain an engine has built on its own genesis it is always taken. *)
LEMMA MinedAccepted ==
  ASSUME IInv, NEW e \in Engine, NEW txs, NEW time,
         Solutions(Template(e, txs, time)) # {}, "reorg" \notin mishaps[e]
  PROVE  ValidateBlock(blocks[e], Mined(Template(e, txs, time)))
<1>1. adopted[e] = <<Genesis(e)>>  BY DEF IInv
<1>2. Genesis(e).header.index = 0  BY DEF Genesis, NewBlock
<1>3. Numbered(<<Genesis(e)>>)
  <2>1. Len(<<Genesis(e)>>) = 1 /\ Tip(<<Genesis(e)>>) = Genesis(e)  BY DEF Tip
  <2>. QED  BY <1>2, <2>1 DEF Numbered
<1>. QED  BY <1>1, <1>3, MinedTaken

----------------------------------------------------------------------------
KeptInv ==
  /\ pending = [e \in Engine |-> pending[e]]
  /\ accepted = [e \in Engine |-> accepted[e]]
  /\ mishaps = [e \in Engine |-> mishaps[e]]
  /\ AcceptedTxKept

(* Appending a block confirms its transactions and forgets none.           *)
LEMMA ConfirmedAppend ==
  ASSUME NEW c, IsSequence(c), NEW b
  PROVE  /\ Confirmed(c) \subseteq Confirmed(Append(c, b))
         /\ {b.transactions[j] : j \in DOMAIN b.transactions}
              \subseteq Confirmed(Append(c, b))
<1> DEFINE d == Append(c, b)
<1>1. /\ Len(d) = Len(c) + 1 /\ Len(c) \in Nat /\ IsSequence(d)
      /\ \A i \in 1 .. Len(c) : d[i] = c[i]
      /\ d[Len(c) + 1] = b
  BY AppendFacts
<1>2. DOMAIN c = 1 .. Len(c) /\ DOMAIN d = 1 .. Len(d)
  BY <1>1 DEF IsSequence
<1>. HIDE DEF d
<1>3. Confirmed(c) \subseteq Confirmed(d)
  <2>1. ASSUME NEW i \in 1 .. Len(c), NEW j \in DOMAIN c[i].transactions
        PROVE  c[i].transactions[j] \in Confirmed(d)
    <3>1. i \in DOMAIN d /\ d[i] = c[i]  BY <1>1, <1>2
    <3>. QED  BY <3>1 DEF Confirmed
  <2>. QED  BY <2>1, <1>2 DEF Confirmed
<1>4. {b.transactions[j] : j \in DOMAIN b.transactions} \subseteq Confirmed(d)
  <2>1. Len(c) + 1 \in DOMAIN d  BY <1>1, <1>2
  <2>. QED  BY <2>1, <1>1 DEF Confirmed
<1>. QED  BY <1>3, <1>4 DEF d

LEMMA KeptInit == CoreInit => KeptInv
BY DEF CoreInit, KeptInv, AcceptedTxKept

(* What a successful round of mine_next_block does to the other engines.   *)
LEMMA OthersUntouched ==
  ASSUME IInv, NEW e \in Engine, NEW template, MineSucceeds(e, template)
  PROVE  \A x \in Engine \ {e} : blocks'[x] = blocks[x]
<1>1. CASE ValidateBlock(blocks[e], Mined(template))
  BY <1>1 DEF MineSucceeds, Extend, IInv
<1>2. CASE ~ValidateBlock(blocks[e], Mined(template))
  BY <1>2 DEF MineSucceeds, chainVars
<1>. QED  BY <1>1, <1>2

(* On the engine's own chain the round moves transactions from the pool to *)
(* the chain; on one it has been given they may be lost.                   *)
LEMMA KeptMined ==
  ASSUME IInv, KeptInv, NEW e \in Engine, NEW txs, NEW time,
         pending' = [pending EXCEPT ![e] = Undrained(@, txs)],
         MineSucceeds(e, Template(e, txs, time)), UNCHANGED accepted
  PROVE  KeptInv'
<1> DEFINE template == Template(e, txs, time)
           b == Mined(template)
<1>1. mishaps' = mishaps  BY DEF MineSucceeds
<1>2. \A x \in Engine \ {e} : blocks'[x] = blocks[x] /\ pending'[x] = pending[x]
  BY OthersUntouched DEF KeptInv
<1>3. pending' = [x \in Engine |-> pending'[x]]  BY DEF KeptInv
<1>4. ASSUME mishaps[e] \subseteq {"block"}
      PROVE  accepted[e] \subseteq pending'[e] \cup Confirmed(blocks'[e])
  <2>1. "reorg" \notin mishaps[e]  BY <1>4
  <2>2. ValidateBlock(blocks[e], b)  BY <2>1, MinedAccepted DEF MineSucceeds
  <2>3. b.transactions = txs  BY MinedFacts DEF Template, MineSucceeds
  <2>4. blocks' = [blocks EXCEPT ![e] = Append(@, b)]
    BY <2>2 DEF MineSucceeds, Extend
  <2>. HIDE DEF b
  <2>5. blocks'[e] = Append(blocks[e], b)  BY <2>4 DEF IInv
  <2>6. IsSequence(blocks[e])  BY DEF IInv, Grown, IsChain
  <2>7. pending[e] \subseteq pending'[e] \cup Confirmed(blocks'[e])
    <3>1. pending'[e] = pending[e] \ {txs[i] : i \in DOMAIN txs}
      BY DEF KeptInv, Undrained
    <3>2. {txs[i] : i \in DOMAIN txs} \subseteq Confirmed(blocks'[e])
      BY <2>3, <2>5, <2>6, ConfirmedAppend
    <3>. QED  BY <3>1, <3>2
  <2>8. Confirmed(blocks[e]) \subseteq Confirmed(blocks'[e])
    BY <2>5, <2>6, ConfirmedAppend
  <2>. QED  BY <1>4, <2>7, <2>8 DEF KeptInv, AcceptedTxKept
<1>5. AcceptedTxKept'
  BY <1>1, <1>2, <1>4 DEF KeptInv, AcceptedTxKept
<1>. QED  BY <1>1, <1>3, <1>5 DEF KeptInv

LEMMA KeptNext ==
  ASSUME IInv, KeptInv, [CoreNext]_vars
  PROVE  KeptInv'
<1>1. CASE UNCHANGED vars
  BY <1>1 DEF vars, KeptInv, AcceptedTxKept
<1>2. CASE CoreNext
  <2>. PICK e \in Engine :
         \/ \E t \in Tx : SubmitTransaction(e, t)
         \/ MineNextBlock(e)
         \/ \E b \in Arriving : ReceiveBlock(e, b)
         \/ \E fork \in Candidates : ReceiveFork(e, fork)
    BY <1>2 DEF CoreNext
  <2>1. ASSUME NEW t \in Tx, SubmitTransaction(e, t) PROVE KeptInv'
    <3>1. /\ pending' = [pending EXCEPT ![e] = @ \cup {t}]
          /\ accepted' = [accepted EXCEPT ![e] = @ \cup {t}]
          /\ blocks' = blocks /\ mishaps' = mishaps
      BY <2>1 DEF SubmitTransaction, chainVars
    <3>. QED  BY <3>1 DEF KeptInv, AcceptedTxKept
  <2>2. CASE MineNextBlock(e)
    <3>1. PICK txs \in DrainOrders(pending[e], BlockTxLimit), time \in Time :
            /\ pending' = [pending EXCEPT ![e] = Undrained(@, txs)]
            /\ \/ MineFails(e, Template(e, txs, time))
               \/ MineSucceeds(e, Template(e, txs, time))
      BY <2>2 DEF MineNextBlock
    <3>2. accepted' = accepted  BY <2>2 DEF MineNextBlock
    <3>3. CASE MineFails(e, Template(e, txs, time))
      <4>1. mishaps' = [mishaps EXCEPT ![e] = @ \cup {"pow"}] /\ blocks' = blocks
        BY <3>3 DEF MineFails, chainVars
      <4>2. "pow" \in mishaps'[e] /\ "pow" # "block"  BY <4>1 DEF KeptInv
      <4>. QED  BY <3>1, <3>2, <4>1, <4>2 DEF KeptInv, AcceptedTxKept
    <3>4. CASE MineSucceeds(e, Template(e, txs, time))
      BY <3>1, <3>2, <3>4, KeptMined
    <3>. QED  BY <3>1, <3>3, <3>4
  <2>3. ASSUME NEW b, ReceiveBlock(e, b) PROVE KeptInv'
    <3>1. /\ blocks' = [blocks EXCEPT ![e] = Append(@, b)]
          /\ mishaps' = [mishaps EXCEPT ![e] = @ \cup {"block"}]
          /\ pending' = pending /\ accepted' = accepted
      BY <2>3 DEF ReceiveBlock, AddBlock, Extend
    <3>2. IsSequence(blocks[e])  BY DEF IInv, Grown, IsChain
    <3>3. blocks'[e] = Append(blocks[e], b)
          /\ \A x \in Engine \ {e} : blocks'[x] = blocks[x]
      BY <3>1 DEF IInv
    <3>4. \A x \in Engine : Confirmed(blocks[x]) \subseteq Confirmed(blocks'[x])
      BY <3>2, <3>3, ConfirmedAppend
    <3>5. \A x \in Engine : mishaps'[x] \subseteq {"block"} => mishaps[x] \subseteq {"block"}
      BY <3>1 DEF KeptInv
    <3>6. mishaps' = [x \in Engine |-> mishaps'[x]]  BY <3>1 DEF KeptInv
    <3>. QED  BY <3>1, <3>4, <3>5, <3>6 DEF KeptInv, AcceptedTxKept
  <2>4. ASSUME NEW fork, ReceiveFork(e, fork) PROVE KeptInv'
    <3>1. /\ blocks' = [blocks EXCEPT ![e] = fork]
          /\ mishaps' = [mishaps EXCEPT ![e] = @ \cup {"reorg"}]
          /\ pending' = pending /\ accepted' = accepted
      BY <2>4 DEF ReceiveFork, HandleFork
    <3>2. "reorg" \in mishaps'[e] /\ "reorg" # "block"  BY <3>1 DEF KeptInv
    <3>3. \A x \in Engine \ {e} : blocks'[x] = blocks[x] /\ mishaps'[x] = mishaps[x]
      BY <3>1 DEF KeptInv, IInv
    <3>4. mishaps' = [x \in Engine |-> mishaps'[x]]  BY <3>1 DEF KeptInv
    <3>. QED  BY <3>1, <3>2, <3>3, <3>4 DEF KeptInv, AcceptedTxKept
  <2>. QED  BY <2>1, <2>2, <2>3, <2>4
<1>. QED  BY <1>1, <1>2

(* For any number of engines and transactions and any capacity: an         *)
(* accepted transaction is pending or confirmed unless proof of work has   *)
(* failed on its engine or the engine's chain has been replaced.           *)
LEMMA AcceptedNeverDropped ==
  ASSUME HashCollisionFree
  PROVE  Spec => []AcceptedTxKept
<1>1. CoreInit => KeptInv  BY KeptInit
<1>2. IInv /\ KeptInv /\ [CoreNext]_vars => KeptInv'  BY KeptNext
<1>3. KeptInv => AcceptedTxKept  BY DEF KeptInv
<1>. QED  BY <1>1, <1>2, <1>3, SpecIInv, PTL DEF Spec

(* Both together, for every difficulty, hash function and history of forks *)
(* and damaged blocks: a chain takes what its engine has mined and paid    *)
(* out for just when the fork it grew from was numbered from 0, and what   *)
(* has been accepted is not dropped but for the reasons given.             *)
THEOREM MiningAlwaysSound ==
  ASSUME HashCollisionFree
  PROVE  Spec => []MiningSound
<1>1. IInv => MinedIsTaken  BY MinedTaken DEF MinedIsTaken
<1>2. IInv /\ AcceptedTxKept => MiningSound  BY <1>1 DEF MiningSound
<1>. QED  BY <1>2, AcceptedNeverDropped, SpecIInv, PTL

----------------------------------------------------------------------------
(* Totals of sequences of numbers. *)

(* Totals is the function that adds up. *)
LEMMA TotalsAddUp ==
  ASSUME NEW s \in Seq(Nat)
  PROVE  Len(s) \in Nat /\ AddsUp(Len(s), s, Totals(s))
<1> DEFINE n == Len(s)
<1>1. n \in Nat /\ \A i \in 1 .. n : s[i] \in Nat  OBVIOUS
<1>. HIDE DEF n
<1>2. PICK f : SumOf(n, s, f)  BY <1>1, SumExists
<1>3. SumOf(n, s, Totals(s))  BY <1>2, Zenon DEF SumOf, Totals, n
<1>4. AddsUp(n, s, Totals(s))  BY <1>1, <1>3, SumAddsUp
<1>. QED  BY <1>1, <1>4 DEF n

LEMMA TotalsFacts ==
  ASSUME NEW s \in Seq(Nat)
  PROVE  /\ Totals(s) \in [0 .. Len(s) -> Nat]
         /\ Totals(s)[0] = 0
         /\ \A i \in 1 .. Len(s) : Totals(s)[i] = Totals(s)[i - 1] + s[i]
BY TotalsAddUp DEF AddsUp

(* Changing one member changes the total by as much. *)
LEMMA TotalChanges ==
  ASSUME NEW s \in Seq(Nat), NEW z \in Seq(Nat), Len(z) = Len(s), NEW j \in 1 .. Len(s),
         \A i \in 1 .. Len(s) : i # j => z[i] = s[i]
  PROVE  Total(z) = Total(s) + z[j] - s[j]
<1>1. DifferAt(Len(s), s, z, j)  BY DEF DifferAt
<1>2. AddsUp(Len(s), s, Totals(s)) /\ AddsUp(Len(s), z, Totals(z))  BY TotalsAddUp
<1>3. Totals(z)[Len(s)] = Totals(s)[Len(s)] + z[j] - s[j]
  <2>1. Len(s) \in Nat /\ j \in 1 .. Len(s)  OBVIOUS
  <2>. QED  BY <1>1, <1>2, <2>1, SumChanges
<1>. QED  BY <1>3 DEF Total

(* A sequence of zeros has the total zero. *)
LEMMA TotalOfZeros ==
  ASSUME NEW s \in Seq(Nat), \A i \in 1 .. Len(s) : s[i] = 0
  PROVE  Total(s) = 0
<1> DEFINE n == Len(s)
           f == Totals(s)
<1>1. /\ n \in Nat /\ f[0] = 0 /\ \A i \in 1 .. n : f[i] = f[i - 1] + s[i]
  BY TotalsFacts
<1>2. \A i \in 1 .. n : s[i] = 0  OBVIOUS
<1>. HIDE DEF n, f
<1> DEFINE S == {i \in Nat : i <= n => f[i] = 0}
<1>3. S = Nat
  <2>1. 0 \in S  BY <1>1
  <2>2. ASSUME NEW k \in S PROVE k + 1 \in S
    <3>. SUFFICES ASSUME k + 1 <= n PROVE f[k + 1] = 0  OBVIOUS
    <3>1. k + 1 \in 1 .. n /\ f[k] = 0  BY <1>1
    <3>2. f[k + 1] = f[k] + s[k + 1]  BY <1>1, <3>1
    <3>. QED  BY <1>2, <3>1, <3>2
  <2>3. S \in SUBSET Nat  OBVIOUS
  <2>. HIDE DEF S
  <2>. QED  BY <2>1, <2>2, <2>3, Induct
<1>4. f[n] = 0
  <2>1. n \in S
    <3>. HIDE DEF S
    <3>. QED  BY <1>1, <1>3
  <2>. QED  BY <1>1, <2>1
<1>. QED  BY <1>4 DEF Total, f, n

----------------------------------------------------------------------------
(* Ledgers. *)

Ledger == [Address -> Nat]

(* The addresses are listed, each once. *)
LEMMA Enumerated ==
  /\ Cardinality(Address) \in Nat
  /\ SetToSeq(Address) \in [1 .. Cardinality(Address) -> Address]
  /\ IsInjective(SetToSeq(Address))
  /\ \A a \in Address : \E i \in 1 .. Cardinality(Address) : SetToSeq(Address)[i] = a
<1> DEFINE n == Cardinality(Address)
           at == SetToSeq(Address)
<1>1. IsFiniteSet(Address)  BY CoreAssumption
<1>2. n \in Nat /\ \E f \in [1 .. n -> Address] : \A i, j \in 1 .. n : f[i] = f[j] => i = j
  BY <1>1, Listing
<1>3. \E f \in [1 .. n -> Address] : IsInjective(f)  BY <1>2 DEF IsInjective
<1>4. at \in [1 .. n -> Address] /\ IsInjective(at)  BY <1>3, Zenon DEF SetToSeq
<1>5. \A i, j \in 1 .. n : at[i] = at[j] => i = j
  <2>. HIDE DEF at, n
  <2>. QED  BY <1>4 DEF IsInjective
<1>6. \A a \in Address : \E i \in 1 .. n : at[i] = a  BY <1>1, <1>4, <1>5, Listing
<1>. QED  BY <1>2, <1>4, <1>6

(* One account changes the supply by as much as it changes. *)
LEMMA SupplyChanges ==
  ASSUME NEW bal \in Ledger, NEW a \in Address, NEW v \in Nat
  PROVE  Supply([bal EXCEPT ![a] = v]) = Supply(bal) + v - bal[a]
<1> DEFINE n == Cardinality(Address)
           at == SetToSeq(Address)
           new == [bal EXCEPT ![a] = v]
           s == [i \in 1 .. n |-> bal[at[i]]]
           z == [i \in 1 .. n |-> new[at[i]]]
<1>1. n \in Nat /\ at \in [1 .. n -> Address] /\ IsInjective(at)  BY Enumerated
<1>2. PICK j \in 1 .. n : at[j] = a  BY Enumerated
<1>3. new \in Ledger /\ new[a] = v /\ \A b \in Address : b # a => new[b] = bal[b]
  BY DEF Ledger
<1>4. Supply(bal) = Total(s) /\ Supply(new) = Total(z)  BY DEF Supply
<1>. HIDE DEF n, at, new
<1>5. \A i \in 1 .. n : at[i] \in Address /\ bal[at[i]] \in Nat /\ new[at[i]] \in Nat
  BY <1>1, <1>3 DEF Ledger
<1>6. s \in Seq(Nat) /\ z \in Seq(Nat) /\ Len(s) = n /\ Len(z) = n  BY <1>1, <1>5
<1>7. \A i \in 1 .. n : i # j => at[i] # a  BY <1>1, <1>2 DEF IsInjective
<1>8. \A i \in 1 .. n : s[i] = bal[at[i]] /\ z[i] = new[at[i]]  OBVIOUS
<1>. HIDE DEF s, z
<1>9. \A i \in 1 .. n : i # j => z[i] = s[i]  BY <1>3, <1>5, <1>7, <1>8
<1>10. Total(z) = Total(s) + z[j] - s[j]  BY <1>6, <1>9, TotalChanges
<1>11. z[j] = v /\ s[j] = bal[a]  BY <1>2, <1>3, <1>8
<1>. QED  BY <1>4, <1>10, <1>11 DEF new

LEMMA SupplyType ==
  ASSUME NEW bal \in Ledger
  PROVE  Supply(bal) \in Nat
<1> DEFINE n == Cardinality(Address)
           at == SetToSeq(Address)
           s == [i \in 1 .. n |-> bal[at[i]]]
<1>1. n \in Nat /\ at \in [1 .. n -> Address]  BY Enumerated
<1>2. Supply(bal) = Total(s)  BY DEF Supply
<1>. HIDE DEF n, at
<1>3. s \in Seq(Nat) /\ Len(s) = n  BY <1>1 DEF Ledger
<1>. HIDE DEF s
<1>4. Totals(s) \in [0 .. n -> Nat]  BY <1>3, TotalsFacts
<1>. QED  BY <1>1, <1>2, <1>3, <1>4 DEF Total

LEMMA FirstSupply ==
  LET bal == [NoCredit EXCEPT ![GenesisMiner] = GenesisCredit]
  IN  bal \in Ledger /\ Supply(bal) = GenesisCredit
<1> DEFINE n == Cardinality(Address)
           at == SetToSeq(Address)
           s == [i \in 1 .. n |-> NoCredit[at[i]]]
<1>1. NoCredit \in Ledger /\ \A a \in Address : NoCredit[a] = 0  BY DEF NoCredit, Ledger
<1>2. GenesisMiner \in Address /\ GenesisCredit \in Nat  BY ChainAssumption, CoreAssumption
<1>3. n \in Nat /\ at \in [1 .. n -> Address]  BY Enumerated
<1>4. Supply(NoCredit) = Total(s)  BY DEF Supply
<1>. HIDE DEF n, at
<1>5. s \in Seq(Nat) /\ \A i \in 1 .. Len(s) : s[i] = 0  BY <1>1, <1>3
<1>. HIDE DEF s
<1>6. Supply(NoCredit) = 0  BY <1>4, <1>5, TotalOfZeros
<1>7. Supply([NoCredit EXCEPT ![GenesisMiner] = GenesisCredit]) = 0 + GenesisCredit - 0
  BY <1>1, <1>2, <1>6, SupplyChanges
<1>8. [NoCredit EXCEPT ![GenesisMiner] = GenesisCredit] \in Ledger  BY <1>1, <1>2 DEF Ledger
<1>. QED  BY <1>2, <1>7, <1>8

(* A transfer creates what it overdraws, and nothing else. *)
LEMMA TransferFacts ==
  ASSUME NEW bal \in Ledger, NEW t \in Tx
  PROVE  /\ Transfer(bal, t) \in Ledger
         /\ SaturatingSub(t.amount, bal[t.from]) \in Nat
         /\ Supply(Transfer(bal, t)) = Supply(bal) + SaturatingSub(t.amount, bal[t.from])
<1>1. t.from \in Address /\ t.to \in Address /\ t.amount \in Nat /\ bal[t.from] \in Nat
  BY CoreAssumption DEF Ledger
<1> DEFINE left == SaturatingSub(bal[t.from], t.amount)
           mid == [bal EXCEPT ![t.from] = left]
<1>2. left \in Nat  BY <1>1 DEF SaturatingSub
<1>3. mid \in Ledger /\ mid[t.to] \in Nat  BY <1>1, <1>2 DEF Ledger
<1>4. Transfer(bal, t) = [mid EXCEPT ![t.to] = mid[t.to] + t.amount]  BY DEF Transfer
<1>5. Supply(mid) = Supply(bal) + left - bal[t.from]
  <2>. HIDE DEF left
  <2>. QED  BY <1>1, <1>2, SupplyChanges
<1>. HIDE DEF mid
<1>6. mid[t.to] + t.amount \in Nat  BY <1>1, <1>3
<1>7. Supply([mid EXCEPT ![t.to] = mid[t.to] + t.amount]) = Supply(mid) + (mid[t.to] + t.amount) - mid[t.to]
  BY <1>1, <1>3, <1>6, SupplyChanges
<1>8. Supply(bal) \in Nat /\ Supply(mid) \in Nat  BY <1>3, SupplyType
<1>9. left - bal[t.from] + t.amount = SaturatingSub(t.amount, bal[t.from])
  BY <1>1 DEF SaturatingSub
<1>10. SaturatingSub(t.amount, bal[t.from]) \in Nat  BY <1>1 DEF SaturatingSub
<1>11. Transfer(bal, t) \in Ledger  BY <1>1, <1>3, <1>4, <1>6 DEF Ledger
<1>12. Supply(Transfer(bal, t)) = Supply(mid) + t.amount  BY <1>1, <1>3, <1>4, <1>7, <1>8
<1>. HIDE DEF left
<1>. QED  BY <1>1, <1>2, <1>5, <1>8, <1>9, <1>10, <1>11, <1>12

(* The transfers of a block, one after the other. *)
LEMMA TransfersFacts ==
  ASSUME NEW bal \in Ledger, NEW txs \in Seq(Tx)
  PROVE  /\ Transfers(bal, txs) \in [0 .. Len(txs) -> Ledger]
         /\ Transfers(bal, txs)[0] = bal
         /\ \A i \in 1 .. Len(txs) : Transfers(bal, txs)[i] = Transfer(Transfers(bal, txs)[i - 1], txs[i])
<1> DEFINE n == Len(txs)
           step == [i \in 1 .. n |-> [x \in Ledger |-> Transfer(x, txs[i])]]
           Rec(f) == f = [i \in 0 .. n |-> IF i = 0 THEN bal ELSE Transfer(f[i - 1], txs[i])]
<1>1. n \in Nat /\ \A i \in 1 .. n : txs[i] \in Tx  OBVIOUS
<1>2. \A i \in 1 .. n : \A x \in Ledger : Transfer(x, txs[i]) \in Ledger
  BY <1>1, TransferFacts
<1>. HIDE DEF n
<1>3. step \in [1 .. n -> [Ledger -> Ledger]]  BY <1>2
<1>4. HasRun(n, Ledger, bal, step)
  <2>. HIDE DEF step
  <2>. QED  BY <1>1, <1>3, Recursion, Zenon
<1>5. PICK f : IsRun(n, Ledger, bal, step, f)  BY <1>4 DEF HasRun
<1>6. ASSUME NEW i \in 1 .. n PROVE f[i] = Transfer(f[i - 1], txs[i])
  <2>1. i - 1 \in 0 .. n  BY <1>1
  <2>2. f[i - 1] \in Ledger  BY <1>5, <2>1 DEF IsRun
  <2>3. f[i] = step[i][f[i - 1]]  BY <1>5 DEF IsRun
  <2>. QED  BY <2>2, <2>3
<1>7. Rec(f)
  <2>1. ASSUME NEW i \in 0 .. n PROVE f[i] = IF i = 0 THEN bal ELSE Transfer(f[i - 1], txs[i])
    BY <1>1, <1>5, <1>6 DEF IsRun
  <2>2. f = [i \in 0 .. n |-> f[i]]  BY <1>5 DEF IsRun
  <2>. QED  BY <2>1, <2>2
<1>8. Rec(Transfers(bal, txs))  BY <1>7, Zenon DEF Transfers, n
<1> DEFINE g == Transfers(bal, txs)
<1>. HIDE DEF g
<1>9. /\ g = [i \in 0 .. n |-> g[i]] /\ g[0] = bal
      /\ \A i \in 1 .. n : g[i] = Transfer(g[i - 1], txs[i])
  BY <1>1, <1>8 DEF g
<1> DEFINE P == {i \in 0 .. n : g[i] \in Ledger}
<1>10. \A i \in 0 .. n : i \in P
  <2>1. 0 \in P  BY <1>1, <1>9
  <2>2. ASSUME NEW i \in 1 .. n, i - 1 \in P PROVE i \in P
    <3>1. g[i] = Transfer(g[i - 1], txs[i]) /\ g[i - 1] \in Ledger  BY <1>9, <2>2
    <3>2. g[i] \in Ledger  BY <1>1, <3>1, TransferFacts
    <3>. QED  BY <1>1, <3>2
  <2>. HIDE DEF P
  <2>. QED  BY <1>1, <2>1, <2>2, InductTo
<1>11. g \in [0 .. n -> Ledger]  BY <1>9, <1>10
<1>. QED  BY <1>9, <1>11 DEF g, n

(* The ledger after a block, and how much there is in it. *)
Payable(b) == b.transactions \in Seq(Tx) /\ b.header.miner \in Address

LEMMA BlockFacts ==
  ASSUME NEW bal \in Ledger, NEW b, Payable(b)
  PROVE  /\ ApplyBlock(bal, b) \in Ledger
         /\ Total(Overdrafts(bal, b.transactions)) \in Nat
         /\ Supply(ApplyBlock(bal, b))
              = Supply(bal) + Total(Overdrafts(bal, b.transactions)) + BlockReward
<1> DEFINE txs == b.transactions
           n == Len(txs)
           g == Transfers(bal, txs)
           o == Overdrafts(bal, txs)
           t == Totals(o)
<1>1. txs \in Seq(Tx) /\ n \in Nat /\ \A i \in 1 .. n : txs[i] \in Tx  BY DEF Payable
<1>2. /\ g \in [0 .. n -> Ledger] /\ g[0] = bal
      /\ \A i \in 1 .. n : g[i] = Transfer(g[i - 1], txs[i])
  BY <1>1, TransfersFacts
<1>3. o = [i \in 1 .. n |-> SaturatingSub(txs[i].amount, g[i - 1][txs[i].from])]
  BY DEF Overdrafts
<1>4. TransferAll(bal, txs) = g[n]  BY DEF TransferAll
<1>. HIDE DEF txs, n, g, o
<1>5. ASSUME NEW i \in 1 .. n
      PROVE  o[i] \in Nat /\ Supply(g[i]) = Supply(g[i - 1]) + o[i] /\ g[i - 1] \in Ledger
  <2>1. i - 1 \in 0 .. n  BY <1>1
  <2>2. g[i - 1] \in Ledger /\ txs[i] \in Tx  BY <1>1, <1>2, <2>1
  <2>3. g[i] = Transfer(g[i - 1], txs[i])  BY <1>2
  <2>4. o[i] = SaturatingSub(txs[i].amount, g[i - 1][txs[i].from])  BY <1>3
  <2>. QED  BY <2>2, <2>3, <2>4, TransferFacts
<1>6. o \in Seq(Nat) /\ Len(o) = n
  <2>1. o \in [1 .. n -> Nat]  BY <1>3, <1>5
  <2>. QED  BY <1>1, <2>1
<1>7. t \in [0 .. n -> Nat] /\ t[0] = 0 /\ \A i \in 1 .. n : t[i] = t[i - 1] + o[i]
  BY <1>6, TotalsFacts
<1>. HIDE DEF t
<1> DEFINE P == {i \in 0 .. n : Supply(g[i]) = Supply(bal) + t[i]}
<1>8. \A i \in 0 .. n : i \in P
  <2>1. 0 \in P
    <3>1. Supply(bal) \in Nat  BY SupplyType
    <3>. QED  BY <1>1, <1>2, <1>7, <3>1
  <2>2. ASSUME NEW i \in 1 .. n, i - 1 \in P PROVE i \in P
    <3>1. Supply(g[i - 1]) = Supply(bal) + t[i - 1] /\ i - 1 \in 0 .. n /\ i \in 0 .. n
      BY <1>1, <2>2
    <3>2. Supply(g[i]) = Supply(g[i - 1]) + o[i] /\ o[i] \in Nat  BY <1>5
    <3>3. t[i] = t[i - 1] + o[i] /\ t[i - 1] \in Nat  BY <1>7, <3>1
    <3>4. Supply(bal) \in Nat  BY SupplyType
    <3>5. Supply(g[i]) = Supply(bal) + t[i]  BY <3>1, <3>2, <3>3, <3>4
    <3>. QED  BY <3>1, <3>5
  <2>. HIDE DEF P
  <2>. QED  BY <1>1, <2>1, <2>2, InductTo
<1>9. n \in 0 .. n  BY <1>1
<1>10. Supply(g[n]) = Supply(bal) + t[n] /\ g[n] \in Ledger /\ t[n] \in Nat
  BY <1>2, <1>7, <1>8, <1>9
<1>11. t[n] = Total(o)  BY <1>6 DEF Total, t
<1> DEFINE m == b.header.miner
           end == g[n]
<1>12. m \in Address /\ BlockReward \in Nat /\ end \in Ledger
  BY <1>10, CoreAssumption DEF Payable
<1>13. ApplyBlock(bal, b) = [end EXCEPT ![m] = end[m] + BlockReward]
  BY <1>4 DEF ApplyBlock, txs
<1>. HIDE DEF m, end
<1>14. end[m] \in Nat  BY <1>12 DEF Ledger
<1>15. Supply([end EXCEPT ![m] = end[m] + BlockReward]) = Supply(end) + (end[m] + BlockReward) - end[m]
  <2>1. end[m] + BlockReward \in Nat  BY <1>12, <1>14
  <2>. QED  BY <1>12, <2>1, SupplyChanges
<1>16. ApplyBlock(bal, b) \in Ledger  BY <1>12, <1>13, <1>14 DEF Ledger
<1>17. Supply(end) \in Nat  BY <1>12, SupplyType
<1>18. Supply(ApplyBlock(bal, b)) = Supply(end) + BlockReward  BY <1>12, <1>13, <1>14, <1>15, <1>17
<1>. QED  BY <1>10, <1>11, <1>16, <1>18 DEF end, o, txs

FirstLedger == [NoCredit EXCEPT ![GenesisMiner] = GenesisCredit]

PayableChain(c) ==
  /\ \E S : c \in Seq(S)
  /\ Len(c) >= 1
  /\ \A k \in 2 .. Len(c) : Payable(c[k])

(* The ledger after each block of a chain. *)
LEMMA ReplayFacts ==
  ASSUME NEW c, PayableChain(c)
  PROVE  /\ Replay(c) \in [1 .. Len(c) -> Ledger]
         /\ Replay(c)[1] = FirstLedger
         /\ \A k \in 2 .. Len(c) : Replay(c)[k] = ApplyBlock(Replay(c)[k - 1], c[k])
<1> DEFINE n == Len(c)
           first == FirstLedger
           step == [i \in 1 .. n - 1 |-> [x \in Ledger |-> ApplyBlock(x, c[i + 1])]]
           Rec(r) == r = [k \in 1 .. n |-> IF k = 1 THEN first ELSE ApplyBlock(r[k - 1], c[k])]
<1>1. n \in Nat /\ n >= 1 /\ n - 1 \in Nat /\ \A k \in 2 .. n : Payable(c[k])
  BY DEF PayableChain
<1>2. first \in Ledger  BY FirstSupply DEF FirstLedger
<1>. HIDE DEF n, first
<1>3. \A k \in 2 .. n : \A x \in Ledger : ApplyBlock(x, c[k]) \in Ledger
  BY <1>1, BlockFacts
<1>4. step \in [1 .. n - 1 -> [Ledger -> Ledger]]
  <2>1. ASSUME NEW i \in 1 .. n - 1, NEW x \in Ledger
        PROVE  ApplyBlock(x, c[i + 1]) \in Ledger
    <3>1. i + 1 \in 2 .. n  BY <1>1
    <3>. QED  BY <1>3, <3>1
  <2>. QED  BY <2>1
<1>5. HasRun(n - 1, Ledger, first, step)
  <2>. HIDE DEF step
  <2>. QED  BY <1>1, <1>2, <1>4, Recursion, Zenon
<1>6. PICK f : IsRun(n - 1, Ledger, first, step, f)  BY <1>5 DEF HasRun
<1> DEFINE h == [k \in 1 .. n |-> f[k - 1]]
<1>7. Rec(h)
  <2>1. ASSUME NEW k \in 1 .. n
        PROVE  h[k] = IF k = 1 THEN first ELSE ApplyBlock(h[k - 1], c[k])
    <3>1. CASE k = 1  BY <1>1, <1>6, <3>1 DEF IsRun
    <3>2. CASE k # 1
      <4>1. k - 1 \in 1 .. n - 1 /\ k - 1 \in 1 .. n /\ (k - 1) - 1 \in 0 .. n - 1 /\ (k - 1) + 1 = k
        BY <1>1, <3>2
      <4>2. f[k - 1] = step[k - 1][f[(k - 1) - 1]] /\ f[(k - 1) - 1] \in Ledger
        BY <1>6, <4>1 DEF IsRun
      <4>3. f[k - 1] = ApplyBlock(f[(k - 1) - 1], c[k])  BY <4>1, <4>2
      <4>4. h[k] = f[k - 1] /\ h[k - 1] = f[(k - 1) - 1]  BY <4>1
      <4>. QED  BY <3>2, <4>3, <4>4
    <3>. QED  BY <3>1, <3>2
  <2>2. h = [k \in 1 .. n |-> h[k]]  OBVIOUS
  <2>. HIDE DEF h
  <2>. QED  BY <2>1, <2>2
<1>. HIDE DEF h
<1>8. Rec(Replay(c))  BY <1>7, Zenon DEF Replay, n, first, FirstLedger
<1> DEFINE r == Replay(c)
<1>. HIDE DEF r
<1>9. /\ r = [k \in 1 .. n |-> r[k]] /\ r[1] = first
      /\ \A k \in 2 .. n : r[k] = ApplyBlock(r[k - 1], c[k])
  <2>1. r = [k \in 1 .. n |-> IF k = 1 THEN first ELSE ApplyBlock(r[k - 1], c[k])]
    BY <1>8 DEF r
  <2>2. \A k \in 1 .. n : r[k] = IF k = 1 THEN first ELSE ApplyBlock(r[k - 1], c[k])
    BY <2>1, Zenon
  <2>3. r = [k \in 1 .. n |-> r[k]]  BY <2>1, <2>2
  <2>4. 1 \in 1 .. n /\ \A k \in 2 .. n : k \in 1 .. n /\ k # 1  BY <1>1
  <2>. QED  BY <2>2, <2>3, <2>4, Zenon
<1> DEFINE P == {i \in 0 .. n - 1 : r[i + 1] \in Ledger}
<1>10. \A i \in 0 .. n - 1 : i \in P
  <2>1. 0 \in P  BY <1>1, <1>2, <1>9
  <2>2. ASSUME NEW i \in 1 .. n - 1, i - 1 \in P PROVE i \in P
    <3>1. i + 1 \in 2 .. n /\ (i + 1) - 1 = i /\ (i - 1) + 1 = i /\ i \in 0 .. n - 1  BY <1>1
    <3>2. r[i + 1] = ApplyBlock(r[i], c[i + 1])  BY <1>9, <3>1
    <3>3. r[i] \in Ledger  BY <2>2, <3>1
    <3>4. r[i + 1] \in Ledger  BY <1>3, <3>1, <3>2, <3>3
    <3>. QED  BY <3>1, <3>4
  <2>. HIDE DEF P
  <2>. QED  BY <1>1, <2>1, <2>2, InductTo
<1>11. r \in [1 .. n -> Ledger]
  <2>1. ASSUME NEW k \in 1 .. n PROVE r[k] \in Ledger
    <3>1. k - 1 \in 0 .. n - 1 /\ (k - 1) + 1 = k  BY <1>1
    <3>2. k - 1 \in P
      <4>. HIDE DEF P
      <4>. QED  BY <1>10, <3>1
    <3>. QED  BY <3>1, <3>2
  <2>. QED  BY <1>9, <2>1
<1>. QED  BY <1>9, <1>11 DEF r, n, first

(* A replay of a longer chain begins with that of the shorter one. *)
LEMMA ReplayAppend ==
  ASSUME NEW c, PayableChain(c), NEW b, Payable(b)
  PROVE  /\ PayableChain(Append(c, b))
         /\ Len(Append(c, b)) = Len(c) + 1
         /\ Replay(Append(c, b))[Len(c) + 1] = ApplyBlock(Replay(c)[Len(c)], b)
<1> DEFINE d == Append(c, b)
           n == Len(c)
           r == Replay(c)
           z == Replay(d)
<1>1. PICK S : c \in Seq(S)  BY DEF PayableChain
<1>2. c \in Seq(S \cup {b}) /\ d \in Seq(S \cup {b})
  <2>1. c \in Seq(S \cup {b})  BY <1>1
  <2>. QED  BY <2>1
<1>3. /\ n \in Nat /\ n >= 1 /\ Len(d) = n + 1 /\ d[n + 1] = b
      /\ \A k \in 1 .. n : d[k] = c[k]
  BY <1>1, <1>2 DEF PayableChain
<1>4. PayableChain(d)
  <2>1. ASSUME NEW k \in 2 .. n + 1 PROVE Payable(d[k])
    <3>1. CASE k = n + 1  BY <1>3, <3>1
    <3>2. CASE k \in 2 .. n  BY <1>3, <3>2 DEF PayableChain
    <3>. QED  BY <1>3, <3>1, <3>2
  <2>. HIDE DEF d, n
  <2>. QED  BY <1>2, <1>3, <2>1 DEF PayableChain
<1>5. /\ r[1] = FirstLedger /\ \A k \in 2 .. n : r[k] = ApplyBlock(r[k - 1], c[k])
  BY ReplayFacts
<1>. HIDE DEF d, n, r
<1>6. /\ z[1] = FirstLedger /\ \A k \in 2 .. n + 1 : z[k] = ApplyBlock(z[k - 1], d[k])
  BY <1>3, <1>4, ReplayFacts
<1>. HIDE DEF z
<1> DEFINE P == {i \in 0 .. n - 1 : z[i + 1] = r[i + 1]}
<1>7. \A i \in 0 .. n - 1 : i \in P
  <2>1. 0 \in P  BY <1>3, <1>5, <1>6
  <2>2. ASSUME NEW i \in 1 .. n - 1, i - 1 \in P PROVE i \in P
    <3>1. /\ i + 1 \in 2 .. n /\ i + 1 \in 2 .. n + 1 /\ i + 1 \in 1 .. n
          /\ (i + 1) - 1 = i /\ (i - 1) + 1 = i /\ i \in 0 .. n - 1
      BY <1>3
    <3>2. z[i + 1] = ApplyBlock(z[i], d[i + 1]) /\ r[i + 1] = ApplyBlock(r[i], c[i + 1])
      BY <1>5, <1>6, <3>1
    <3>3. z[i] = r[i] /\ d[i + 1] = c[i + 1]  BY <1>3, <2>2, <3>1
    <3>. QED  BY <3>1, <3>2, <3>3
  <2>. HIDE DEF P
  <2>3. n - 1 \in Nat  BY <1>3
  <2>. QED  BY <2>1, <2>2, <2>3, InductTo
<1>8. z[n] = r[n]
  <2>1. n - 1 \in 0 .. n - 1 /\ (n - 1) + 1 = n  BY <1>3
  <2>2. n - 1 \in P
    <3>. HIDE DEF P
    <3>. QED  BY <1>7, <2>1
  <2>. QED  BY <2>1, <2>2
<1>9. z[n + 1] = ApplyBlock(z[n], d[n + 1])
  <2>1. n + 1 \in 2 .. n + 1 /\ (n + 1) - 1 = n  BY <1>3
  <2>. QED  BY <1>6, <2>1
<1>. QED  BY <1>3, <1>4, <1>8, <1>9 DEF d, n, r, z

(* What the ledger of a chain holds in all. *)
LEMMA ReplaySupply ==
  ASSUME NEW c, PayableChain(c)
  PROVE  Supply(Replay(c)[Len(c)])
           = GenesisCredit + BlockReward * (Len(c) - 1) + Total(Shortfalls(c))
<1> DEFINE n == Len(c)
           r == Replay(c)
           s == Shortfalls(c)
           t == Totals(s)
<1>1. n \in Nat /\ n >= 1 /\ n - 1 \in Nat /\ \A k \in 2 .. n : Payable(c[k])
  BY DEF PayableChain
<1>2. /\ r \in [1 .. n -> Ledger] /\ r[1] = FirstLedger
      /\ \A k \in 2 .. n : r[k] = ApplyBlock(r[k - 1], c[k])
  BY ReplayFacts
<1>3. s = [k \in 1 .. n - 1 |-> Total(Overdrafts(r[k], c[k + 1].transactions))]
  BY DEF Shortfalls
<1>4. BlockReward \in Nat /\ GenesisCredit \in Nat  BY CoreAssumption
<1>. HIDE DEF n, r, s
<1>5. ASSUME NEW i \in 1 .. n - 1
      PROVE  /\ s[i] \in Nat /\ r[i] \in Ledger
             /\ Supply(r[i + 1]) = Supply(r[i]) + s[i] + BlockReward
  <2>1. i \in 1 .. n /\ i + 1 \in 2 .. n /\ (i + 1) - 1 = i  BY <1>1
  <2>2. r[i] \in Ledger /\ Payable(c[i + 1]) /\ r[i + 1] = ApplyBlock(r[i], c[i + 1])
    BY <1>1, <1>2, <2>1
  <2>3. s[i] = Total(Overdrafts(r[i], c[i + 1].transactions))  BY <1>3
  <2>. QED  BY <2>2, <2>3, BlockFacts
<1>6. s \in Seq(Nat) /\ Len(s) = n - 1
  <2>1. s \in [1 .. n - 1 -> Nat]  BY <1>3, <1>5
  <2>. QED  BY <1>1, <2>1
<1>7. /\ t \in [0 .. n - 1 -> Nat] /\ t[0] = 0
      /\ \A i \in 1 .. n - 1 : t[i] = t[i - 1] + s[i]
  BY <1>6, TotalsFacts
<1>. HIDE DEF t
<1> DEFINE P == {i \in 0 .. n - 1 : Supply(r[i + 1]) = GenesisCredit + BlockReward * i + t[i]}
<1>8. \A i \in 0 .. n - 1 : i \in P
  <2>1. 0 \in P
    <3>1. Supply(r[1]) = GenesisCredit  BY <1>2, FirstSupply DEF FirstLedger
    <3>2. GenesisCredit = GenesisCredit + BlockReward * 0 + t[0]  BY <1>4, <1>7
    <3>3. 0 \in 0 .. n - 1 /\ 0 + 1 = 1  BY <1>1
    <3>. QED  BY <3>1, <3>2, <3>3
  <2>2. ASSUME NEW i \in 1 .. n - 1, i - 1 \in P PROVE i \in P
    <3>1. i \in 0 .. n - 1 /\ i - 1 \in 0 .. n - 1 /\ (i - 1) + 1 = i  BY <1>1
    <3>2. Supply(r[i]) = GenesisCredit + BlockReward * (i - 1) + t[i - 1]  BY <2>2, <3>1
    <3>3. Supply(r[i + 1]) = Supply(r[i]) + s[i] + BlockReward /\ s[i] \in Nat  BY <1>5
    <3>4. t[i] = t[i - 1] + s[i] /\ t[i - 1] \in Nat  BY <1>7, <3>1
    <3>5. BlockReward * i = BlockReward * (i - 1) + BlockReward
      BY <1>4, <3>1
    <3>6. BlockReward * (i - 1) \in Nat  BY <1>4, <3>1
    <3>7. Supply(r[i + 1]) = GenesisCredit + BlockReward * i + t[i]
      BY <1>4, <3>2, <3>3, <3>4, <3>5, <3>6
    <3>. QED  BY <3>1, <3>7
  <2>. HIDE DEF P
  <2>. QED  BY <1>1, <2>1, <2>2, InductTo
<1>9. n - 1 \in P
  <2>1. n - 1 \in 0 .. n - 1  BY <1>1
  <2>. HIDE DEF P
  <2>. QED  BY <1>8, <2>1
<1>10. (n - 1) + 1 = n  BY <1>1
<1>11. Supply(r[n]) = GenesisCredit + BlockReward * (n - 1) + t[n - 1]  BY <1>9, <1>10
<1>. QED  BY <1>6, <1>11 DEF Total, t, s, r, n

----------------------------------------------------------------------------
(* While an engine's chain holds only what it mined itself: every block    *)
(* can be replayed, and the ledger is the replay.                          *)
LedgerInv ==
  /\ balances = [e \in Engine |-> balances[e]]
  /\ \A e \in Engine :
       /\ pending[e] \subseteq Tx
       /\ mishaps[e] \subseteq {"pow"} =>
            PayableChain(blocks[e]) /\ balances[e] = Replay(blocks[e])[Len(blocks[e])]

LEMMA LedgerInit == CoreInit => LedgerInv
<1>. SUFFICES ASSUME CoreInit PROVE LedgerInv  OBVIOUS
<1>1. /\ blocks = [e \in Engine |-> <<Genesis(e)>>] /\ pending = [e \in Engine |-> {}]
      /\ balances = [e \in Engine |-> FirstLedger]
  BY DEF CoreInit, ChainInit, FirstLedger
<1>2. ASSUME NEW g PROVE PayableChain(<<g>>) /\ Replay(<<g>>)[Len(<<g>>)] = FirstLedger
  <2> DEFINE c == <<g>>
  <2>1. c \in Seq({g}) /\ Len(c) = 1  OBVIOUS
  <2>. HIDE DEF c
  <2>2. PayableChain(c)  BY <2>1 DEF PayableChain
  <2>3. Replay(c)[Len(c)] = FirstLedger  BY <2>1, <2>2, ReplayFacts
  <2>. QED  BY <2>2, <2>3 DEF c
<1>3. ASSUME NEW e \in Engine
      PROVE  /\ pending[e] \subseteq Tx /\ PayableChain(blocks[e])
             /\ balances[e] = Replay(blocks[e])[Len(blocks[e])]
  <2>1. blocks[e] = <<Genesis(e)>> /\ pending[e] = {} /\ balances[e] = FirstLedger  BY <1>1
  <2>. QED  BY <1>2, <2>1
<1>. QED  BY <1>1, <1>3 DEF LedgerInv

(* What drain takes from a pool is a sequence of transactions. *)
LEMMA Drained ==
  ASSUME NEW pool \in SUBSET Tx, NEW txs \in DrainOrders(pool, BlockTxLimit)
  PROVE  txs \in Seq(Tx)
<1> DEFINE n == Min({Cardinality(pool), BlockTxLimit})
<1>1. Cardinality(pool) \in Nat /\ BlockTxLimit \in Nat
  BY CoreAssumption, FS_Subset, FS_CardinalityType
<1>2. {Cardinality(pool), BlockTxLimit} \in SUBSET Nat /\ {Cardinality(pool), BlockTxLimit} # {}
  BY <1>1
<1>3. n \in {Cardinality(pool), BlockTxLimit}  BY <1>2, MinInSet
<1>4. txs \in [1 .. n -> pool]  BY DEF DrainOrders
<1>. HIDE DEF n
<1>5. n \in Nat  BY <1>1, <1>3
<1>. QED  BY <1>4, <1>5

(* A mined block is paid out once and appended. *)
LEMMA LedgerMined ==
  ASSUME IInv, KeptInv, LedgerInv, NEW e \in Engine, NEW time \in Time,
         NEW txs \in DrainOrders(pending[e], BlockTxLimit),
         pending' = [pending EXCEPT ![e] = Undrained(@, txs)],
         MineSucceeds(e, Template(e, txs, time))
  PROVE  LedgerInv'
<1> DEFINE template == Template(e, txs, time)
           b == Mined(template)
<1>1. txs \in Seq(Tx)  BY Drained DEF LedgerInv
<1>2. /\ balances' = [balances EXCEPT ![e] = ApplyBlock(@, b)] /\ mishaps' = mishaps
  BY DEF MineSucceeds
<1>3. b.transactions = txs /\ b.header.miner = Miner[e]
  BY MinedFacts DEF Template, MineSucceeds
<1>4. Payable(b)  BY <1>1, <1>3, CoreAssumption DEF Payable
<1>5. ASSUME mishaps[e] \subseteq {"pow"}
      PROVE  blocks'[e] = Append(blocks[e], b)
  <2>1. "reorg" \notin mishaps[e]  BY <1>5
  <2>2. ValidateBlock(blocks[e], b)  BY <2>1, MinedAccepted DEF MineSucceeds
  <2>3. blocks' = [blocks EXCEPT ![e] = Append(@, b)]  BY <2>2 DEF MineSucceeds, Extend
  <2>. QED  BY <2>3 DEF IInv
<1>. HIDE DEF b
<1>6. /\ balances'[e] = ApplyBlock(balances[e], b)
      /\ pending'[e] = Undrained(pending[e], txs)
      /\ \A x \in Engine \ {e} : /\ blocks'[x] = blocks[x] /\ balances'[x] = balances[x]
                                 /\ pending'[x] = pending[x]
  BY <1>2, OthersUntouched DEF KeptInv, LedgerInv
<1>7. ASSUME mishaps[e] \subseteq {"pow"}
      PROVE  PayableChain(blocks'[e]) /\ balances'[e] = Replay(blocks'[e])[Len(blocks'[e])]
  <2>1. PayableChain(blocks[e]) /\ balances[e] = Replay(blocks[e])[Len(blocks[e])]
    BY <1>7 DEF LedgerInv
  <2>2. /\ PayableChain(Append(blocks[e], b)) /\ Len(Append(blocks[e], b)) = Len(blocks[e]) + 1
        /\ Replay(Append(blocks[e], b))[Len(blocks[e]) + 1]
             = ApplyBlock(Replay(blocks[e])[Len(blocks[e])], b)
    BY <1>4, <2>1, ReplayAppend
  <2>. QED  BY <1>5, <1>6, <1>7, <2>1, <2>2
<1>8. pending'[e] \subseteq Tx  BY <1>6 DEF Undrained, LedgerInv
<1>9. balances' = [x \in Engine |-> balances'[x]]  BY <1>2 DEF LedgerInv
<1>10. ASSUME NEW x \in Engine
       PROVE  /\ pending'[x] \subseteq Tx
              /\ mishaps'[x] \subseteq {"pow"} =>
                   PayableChain(blocks'[x]) /\ balances'[x] = Replay(blocks'[x])[Len(blocks'[x])]
  <2>1. CASE x = e  BY <1>2, <1>7, <1>8, <2>1
  <2>2. CASE x # e
    <3>1. /\ blocks'[x] = blocks[x] /\ balances'[x] = balances[x] /\ pending'[x] = pending[x]
          /\ mishaps'[x] = mishaps[x]
      BY <1>2, <1>6, <2>2
    <3>. QED  BY <3>1 DEF LedgerInv
  <2>. QED  BY <2>1, <2>2
<1>. QED  BY <1>9, <1>10 DEF LedgerInv

LEMMA LedgerNext ==
  ASSUME IInv, KeptInv, LedgerInv, [CoreNext]_vars
  PROVE  LedgerInv'
<1>1. CASE UNCHANGED vars
  BY <1>1 DEF vars, LedgerInv
<1>2. CASE CoreNext
  <2>. PICK e \in Engine :
         \/ \E t \in Tx : SubmitTransaction(e, t)
         \/ MineNextBlock(e)
         \/ \E b \in Arriving : ReceiveBlock(e, b)
         \/ \E fork \in Candidates : ReceiveFork(e, fork)
    BY <1>2 DEF CoreNext
  <2>1. ASSUME NEW t \in Tx, SubmitTransaction(e, t) PROVE LedgerInv'
    <3>1. /\ pending' = [pending EXCEPT ![e] = @ \cup {t}]
          /\ balances' = balances /\ blocks' = blocks /\ mishaps' = mishaps
      BY <2>1 DEF SubmitTransaction, chainVars
    <3>2. \A x \in Engine : pending'[x] \subseteq Tx  BY <3>1 DEF KeptInv, LedgerInv
    <3>. QED  BY <3>1, <3>2 DEF LedgerInv
  <2>2. CASE MineNextBlock(e)
    <3>1. PICK txs \in DrainOrders(pending[e], BlockTxLimit), time \in Time :
            /\ pending' = [pending EXCEPT ![e] = Undrained(@, txs)]
            /\ \/ MineFails(e, Template(e, txs, time))
               \/ MineSucceeds(e, Template(e, txs, time))
      BY <2>2 DEF MineNextBlock
    <3>2. CASE MineFails(e, Template(e, txs, time))
      <4>1. /\ mishaps' = [mishaps EXCEPT ![e] = @ \cup {"pow"}]
            /\ blocks' = blocks /\ balances' = balances
        BY <3>2 DEF MineFails, chainVars
      <4>2. \A x \in Engine : mishaps[x] \subseteq mishaps'[x] /\ pending'[x] \subseteq Tx
        BY <3>1, <4>1 DEF KeptInv, LedgerInv, Undrained
      <4>. QED  BY <4>1, <4>2 DEF LedgerInv
    <3>3. CASE MineSucceeds(e, Template(e, txs, time))
      BY <3>1, <3>3, LedgerMined
    <3>. QED  BY <3>1, <3>2, <3>3
  <2>3. ASSUME NEW what, what # "pow", mishaps' = [mishaps EXCEPT ![e] = @ \cup {what}],
               \A x \in Engine \ {e} : blocks'[x] = blocks[x], UNCHANGED <<pending, balances>>
        PROVE  LedgerInv'
    <3>1. what \in mishaps'[e] /\ \A x \in Engine \ {e} : mishaps'[x] = mishaps[x]
      BY <2>3 DEF KeptInv
    <3>2. ~(mishaps'[e] \subseteq {"pow"})  BY <2>3, <3>1
    <3>. QED  BY <2>3, <3>1, <3>2 DEF LedgerInv
  <2>4. CASE \E b \in Arriving : ReceiveBlock(e, b)
    <3>1. PICK b : ReceiveBlock(e, b)  BY <2>4
    <3>2. /\ blocks' = [blocks EXCEPT ![e] = Append(@, b)]
          /\ mishaps' = [mishaps EXCEPT ![e] = @ \cup {"block"}] /\ UNCHANGED <<pending, balances>>
      BY <3>1 DEF ReceiveBlock, AddBlock, Extend
    <3>3. \A x \in Engine \ {e} : blocks'[x] = blocks[x]  BY <3>2 DEF IInv
    <3>. QED  BY <3>2, <3>3, <2>3
  <2>5. CASE \E fork \in Candidates : ReceiveFork(e, fork)
    <3>1. PICK fork : ReceiveFork(e, fork)  BY <2>5
    <3>2. /\ blocks' = [blocks EXCEPT ![e] = fork]
          /\ mishaps' = [mishaps EXCEPT ![e] = @ \cup {"reorg"}] /\ UNCHANGED <<pending, balances>>
      BY <3>1 DEF ReceiveFork, HandleFork
    <3>3. \A x \in Engine \ {e} : blocks'[x] = blocks[x]  BY <3>2 DEF IInv
    <3>. QED  BY <3>2, <3>3, <2>3
  <2>. QED  BY <2>1, <2>2, <2>4, <2>5
<1>. QED  BY <1>1, <1>2

(* For any number of engines, addresses, transactions and blocks: while an *)
(* engine's chain holds only what it mined itself, its balances are the    *)
(* replay of the chain, and their sum is the genesis credit, the rewards   *)
(* and what transfers have overdrawn.                                      *)
THEOREM LedgerAlwaysSound ==
  ASSUME HashCollisionFree
  PROVE  Spec => []LedgerSound
<1>1. CoreInit => KeptInv /\ LedgerInv  BY KeptInit, LedgerInit
<1>2. IInv /\ KeptInv /\ LedgerInv /\ [CoreNext]_vars => (KeptInv /\ LedgerInv)'
  BY KeptNext, LedgerNext
<1>3. LedgerInv => LedgerSound
  <2>. SUFFICES ASSUME LedgerInv PROVE LedgerIsReplay /\ SupplyAccounted  BY DEF LedgerSound
  <2>1. LedgerIsReplay  BY DEF LedgerInv, LedgerIsReplay
  <2>2. ASSUME NEW e \in Engine, mishaps[e] \subseteq {"pow"}
        PROVE  Supply(balances[e]) = GenesisCredit + BlockReward * (Len(blocks[e]) - 1)
                                     + Total(Shortfalls(blocks[e]))
    <3>1. PayableChain(blocks[e]) /\ balances[e] = Replay(blocks[e])[Len(blocks[e])]
      BY <2>2 DEF LedgerInv
    <3>. QED  BY <3>1, ReplaySupply
  <2>3. SupplyAccounted  BY <2>2 DEF SupplyAccounted
  <2>. QED  BY <2>1, <2>3
<1>. QED  BY <1>1, <1>2, <1>3, SpecIInv, PTL DEF Spec

----------------------------------------------------------------------------
(* Merkle trees *)

(* What is assumed of the hash of pairs on a set D of digests: it is       *)
(* collision free, and every digest can be told how many pairings it is    *)
(* made of, so that none is made of itself.                                *)
IdealPairHash(D) ==
  /\ \A a, b \in D : PairHash(a, b) \in D
  /\ \A a, b, c, d \in D : PairHash(a, b) = PairHash(c, d) => a = c /\ b = d
  /\ \E pairings \in [D -> Nat] :
       \A a, b \in D : pairings[PairHash(a, b)] = pairings[a] + pairings[b] + 1

(* Lists of digests that are not empty. *)
Row(D) == Seq(D) \ {<<>>}

(* Padding adds a copy of the last hash to an odd level.                   *)
LEMMA PaddedIs ==
  ASSUME NEW D, NEW hs \in Row(D)
  PROVE  /\ Padded(hs) \in Row(D)
         /\ Len(Padded(hs)) = 2 * ((Len(hs) + 1) \div 2)
         /\ \A i \in 1 .. Len(hs) : Padded(hs)[i] = hs[i]
         /\ Len(hs) % 2 # 0 => Padded(hs)[Len(hs) + 1] = hs[Len(hs)]
<1>1. hs \in Seq(D) /\ Len(hs) \in Nat /\ Len(hs) # 0  BY DEF Row
<1>2. hs[Len(hs)] \in D  BY <1>1
<1>3. CASE Len(hs) % 2 = 0
  <2>1. Padded(hs) = hs  BY <1>3 DEF Padded
  <2>2. Len(hs) = 2 * ((Len(hs) + 1) \div 2)  BY <1>1, <1>3
  <2>. QED  BY <1>3, <2>1, <2>2
<1>4. CASE Len(hs) % 2 # 0
  <2>1. Padded(hs) = Append(hs, hs[Len(hs)])  BY <1>4 DEF Padded
  <2>2. Len(hs) + 1 = 2 * ((Len(hs) + 1) \div 2)  BY <1>1, <1>4
  <2>3. /\ Append(hs, hs[Len(hs)]) \in Seq(D) /\ Len(Append(hs, hs[Len(hs)])) = Len(hs) + 1
        /\ \A i \in 1 .. Len(hs) : Append(hs, hs[Len(hs)])[i] = hs[i]
        /\ Append(hs, hs[Len(hs)])[Len(hs) + 1] = hs[Len(hs)]
    BY <1>1, <1>2
  <2>4. Padded(hs) # <<>>  BY <1>1, <2>1, <2>3
  <2>. QED  BY <2>1, <2>2, <2>3, <2>4 DEF Row
<1>. QED  BY <1>3, <1>4

(* A round halves a level, rounding up, and pairs neighbours.              *)
LEMMA NextLevelIs ==
  ASSUME NEW D, \A a, b \in D : PairHash(a, b) \in D, NEW hs \in Row(D)
  PROVE  /\ NextLevel(hs) \in Row(D)
         /\ Len(NextLevel(hs)) = (Len(hs) + 1) \div 2
         /\ \A i \in 1 .. (Len(hs) + 1) \div 2 :
              /\ 2 * i - 1 \in 1 .. Len(hs) /\ 2 * i \in 1 .. Len(Padded(hs))
              /\ Len(hs) > 1
                   => NextLevel(hs)[i] = PairHash(Padded(hs)[2 * i - 1], Padded(hs)[2 * i])
<1> DEFINE n == Len(hs)
           m == (n + 1) \div 2
<1>1. hs \in Seq(D) /\ n \in Nat /\ n # 0  BY DEF Row
<1>2. m \in Nat /\ m # 0 /\ 2 * m <= n + 1 /\ (n = 1 => m = 1)
  <2>. HIDE DEF n
  <2>. QED  BY <1>1
<1>3. Padded(hs) \in Seq(D) /\ Len(Padded(hs)) = 2 * m  BY PaddedIs DEF Row
<1>4. \A i \in 1 .. m : 2 * i - 1 \in 1 .. n /\ 2 * i - 1 \in 1 .. 2 * m /\ 2 * i \in 1 .. 2 * m
  <2>. HIDE DEF n, m
  <2>. QED  BY <1>1, <1>2
<1>5. CASE n <= 1
  <2>1. NextLevel(hs) = hs  BY <1>5 DEF NextLevel
  <2>2. n = 1 /\ m = 1
    <3>. HIDE DEF n, m
    <3>. QED  BY <1>1, <1>2, <1>5
  <2>. QED  BY <1>3, <1>4, <2>1, <2>2
<1>6. CASE n > 1
  <2> DEFINE next == [i \in 1 .. m |-> PairHash(Padded(hs)[2 * i - 1], Padded(hs)[2 * i])]
  <2>1. NextLevel(hs) = next
    <3>1. ~(Len(hs) <= 1)  BY <1>1, <1>6
    <3>. QED  BY <3>1 DEF NextLevel
  <2>2. \A i \in 1 .. m : PairHash(Padded(hs)[2 * i - 1], Padded(hs)[2 * i]) \in D
    <3>. HIDE DEF n, m
    <3>. QED  BY <1>3, <1>4
  <2>3. next \in Seq(D) /\ Len(next) = m
    <3>. HIDE DEF n, m
    <3>. QED  BY <1>2, <2>2
  <2>4. next # <<>>
    <3>. HIDE DEF n, m, next
    <3>. QED  BY <1>2, <2>3
  <2>5. \A i \in 1 .. m : next[i] = PairHash(Padded(hs)[2 * i - 1], Padded(hs)[2 * i])
    OBVIOUS
  <2>. HIDE DEF next
  <2>. QED  BY <1>3, <1>4, <2>1, <2>3, <2>4, <2>5 DEF Row
<1>. QED  BY <1>1, <1>5, <1>6

(* The levels come one out of the other.                                   *)
LEMMA LevelFacts ==
  ASSUME NEW D, \A a, b \in D : PairHash(a, b) \in D, NEW hs \in Row(D)
  PROVE  /\ MerkleLevel(hs)[0] = hs
         /\ \A k \in 1 .. Len(hs) : MerkleLevel(hs)[k] = NextLevel(MerkleLevel(hs)[k - 1])
         /\ \A k \in 0 .. Len(hs) : MerkleLevel(hs)[k] \in Row(D)
<1> DEFINE n == Len(hs)
           step == [i \in 1 .. n |-> [x \in Row(D) |-> NextLevel(x)]]
           Rec(f) == f = [k \in 0 .. n |-> IF k = 0 THEN hs ELSE NextLevel(f[k - 1])]
<1>1. n \in Nat  BY DEF Row
<1>2. step \in [1 .. n -> [Row(D) -> Row(D)]]
  <2>. HIDE DEF n
  <2>. QED  BY NextLevelIs
<1>3. HasRun(n, Row(D), hs, step)
  <2>. HIDE DEF n, step
  <2>. QED  BY <1>1, <1>2, Recursion, Zenon
<1>. HIDE DEF n
<1>4. PICK f : IsRun(n, Row(D), hs, step, f)  BY <1>3 DEF HasRun
<1>5. ASSUME NEW i \in 1 .. n PROVE f[i] = NextLevel(f[i - 1])
  <2>1. i - 1 \in 0 .. n  BY <1>1
  <2>2. f[i - 1] \in Row(D)  BY <1>4, <2>1 DEF IsRun
  <2>. QED  BY <1>4, <2>2 DEF IsRun
<1>6. Rec(f)
  <2>1. ASSUME NEW i \in 0 .. n PROVE f[i] = IF i = 0 THEN hs ELSE NextLevel(f[i - 1])
    BY <1>1, <1>4, <1>5 DEF IsRun
  <2>2. f = [i \in 0 .. n |-> f[i]]  BY <1>4 DEF IsRun
  <2>. QED  BY <2>1, <2>2
<1>7. Rec(MerkleLevel(hs))  BY <1>6, Zenon DEF MerkleLevel, n
<1> DEFINE g == MerkleLevel(hs)
<1>. HIDE DEF g
<1>8. g[0] = hs /\ \A i \in 1 .. n : g[i] = NextLevel(g[i - 1])  BY <1>1, <1>7 DEF g
<1> DEFINE P == {k \in Nat : g[k] \in Row(D)}
<1>9. \A i \in 0 .. n : i \in P
  <2>1. 0 \in P  BY <1>8
  <2>2. ASSUME NEW i \in 1 .. n, i - 1 \in P PROVE i \in P
    <3>1. g[i - 1] \in Row(D) /\ i \in Nat  BY <1>1, <2>2
    <3>. QED  BY <1>8, <3>1, NextLevelIs
  <2>. HIDE DEF P
  <2>. QED  BY <1>1, <2>1, <2>2, InductTo
<1>. QED  BY <1>8, <1>9 DEF g, n

(* Level n of a tree over n leaves is a single hash.                       *)
LEMMA LevelLengths ==
  ASSUME NEW D, \A a, b \in D : PairHash(a, b) \in D, NEW hs \in Row(D)
  PROVE  /\ \A k \in 0 .. Len(hs) : Len(MerkleLevel(hs)[k]) \in Nat \ {0}
         /\ \A k \in 1 .. Len(hs) :
              Len(MerkleLevel(hs)[k]) = (Len(MerkleLevel(hs)[k - 1]) + 1) \div 2
         /\ Len(MerkleLevel(hs)[Len(hs)]) = 1
<1> DEFINE n == Len(hs)
           g == MerkleLevel(hs)
           P == {k \in Nat : Len(g[k]) = 1 \/ Len(g[k]) + k <= n}
<1>1. n \in Nat /\ n # 0  BY DEF Row
<1>2. /\ g[0] = hs /\ \A k \in 1 .. n : g[k] = NextLevel(g[k - 1])
      /\ \A k \in 0 .. n : g[k] \in Row(D)
  BY LevelFacts
<1>. HIDE DEF g
<1>3. \A k \in 0 .. n : Len(g[k]) \in Nat \ {0}
  <2>. TAKE k \in 0 .. n
  <2>1. g[k] \in Seq(D) /\ g[k] # <<>>  BY <1>2 DEF Row
  <2>. QED  BY <2>1
<1>4. ASSUME NEW k \in 1 .. n PROVE k - 1 \in 0 .. n /\ Len(g[k]) = (Len(g[k - 1]) + 1) \div 2
  <2>1. k - 1 \in 0 .. n  BY <1>1
  <2>2. g[k - 1] \in Row(D)  BY <1>2, <2>1
  <2>. QED  BY <1>2, <2>1, <2>2, NextLevelIs
<1>5. \A k \in 0 .. n : k \in P
  <2>1. 0 \in P  BY <1>1, <1>2
  <2>2. ASSUME NEW k \in 1 .. n, k - 1 \in P PROVE k \in P
    <3>1. k - 1 \in 0 .. n /\ Len(g[k]) = (Len(g[k - 1]) + 1) \div 2  BY <1>4
    <3>2. Len(g[k - 1]) \in Nat \ {0} /\ k \in Nat  BY <1>1, <1>3, <3>1
    <3>3. Len(g[k - 1]) = 1 \/ Len(g[k - 1]) + (k - 1) <= n  BY <2>2
    <3>4. Len(g[k]) = 1 \/ Len(g[k]) + k <= n
      <4> DEFINE x == Len(g[k - 1])
                 y == Len(g[k])
      <4>1. x \in Nat \ {0} /\ y = (x + 1) \div 2 /\ (x = 1 \/ x + (k - 1) <= n)
        BY <3>1, <3>2, <3>3
      <4>. HIDE DEF x, y
      <4>2. y = 1 \/ y + k <= n  BY <1>1, <3>2, <4>1
      <4>. QED  BY <4>2 DEF y
    <3>. QED  BY <3>2, <3>4
  <2>. HIDE DEF P, n
  <2>. QED  BY <1>1, <2>1, <2>2, InductTo
<1>6. n \in P /\ n \in 0 .. n
  <2>. HIDE DEF P
  <2>. QED  BY <1>1, <1>5
<1>7. Len(g[n]) = 1  BY <1>1, <1>3, <1>6
<1>. QED  BY <1>3, <1>4, <1>7 DEF g

(* build stops at the first level of a single hash.                        *)
LEMMA BuildIs ==
  ASSUME NEW D, \A a, b \in D : PairHash(a, b) \in D, NEW hs \in Row(D)
  PROVE  LET d == Depth(hs)
             level == MerkleLevel(hs) IN
         /\ d \in 0 .. Len(hs) /\ Len(level[d]) = 1
         /\ \A k \in 0 .. d - 1 : Len(level[k]) > 1
         /\ Build(hs).root = level[d][1]
         /\ Len(Build(hs).levels) = d + 1
         /\ \A k \in 1 .. d + 1 : Build(hs).levels[k] = level[k - 1]
<1> DEFINE n == Len(hs)
           level == MerkleLevel(hs)
           d == Depth(hs)
           S == {k \in 0 .. n : Len(level[k]) = 1}
<1>1. n \in Nat /\ hs # <<>>  BY DEF Row
<1>2. Len(level[n]) = 1 /\ \A k \in 0 .. n : Len(level[k]) \in Nat \ {0}  BY LevelLengths
<1>. HIDE DEF level
<1>3. S \in SUBSET Nat /\ n \in S  BY <1>1, <1>2
<1>4. d = Min(S)  BY <1>1 DEF Depth, level
<1>5. Min(S) \in S /\ \A y \in S : Min(S) <= y
  <2>. HIDE DEF S
  <2>. QED  BY <1>3, MinInSet
<1>. HIDE DEF d
<1>6. d \in 0 .. n /\ d \in Nat /\ Len(level[d]) = 1  BY <1>1, <1>4, <1>5
<1>7. \A k \in 0 .. d - 1 : Len(level[k]) > 1
  <2>. TAKE k \in 0 .. d - 1
  <2>1. k \in 0 .. n /\ ~(d <= k)  BY <1>1, <1>6
  <2>2. k \notin S  BY <1>4, <1>5, <2>1
  <2> DEFINE x == Len(level[k])
  <2>3. x # 1 /\ x \in Nat \ {0}  BY <1>2, <2>1, <2>2
  <2>. HIDE DEF x
  <2>4. x > 1  BY <2>3
  <2>. QED  BY <2>4 DEF x
<1>8. Build(hs).root = level[d][1] /\ Build(hs).levels = [k \in 1 .. d + 1 |-> level[k - 1]]
  BY <1>1 DEF Build, level, d
<1>9. Len(Build(hs).levels) = d + 1  BY <1>6, <1>8
<1>10. \A k \in 1 .. d + 1 : Build(hs).levels[k] = level[k - 1]  BY <1>8
<1>. QED  BY <1>6, <1>7, <1>8, <1>9, <1>10 DEF level, d

----------------------------------------------------------------------------
(* One round of a proof, and one of its verification. *)

Progress(D) == [idx : Nat, steps : Seq(D \X BOOLEAN)]

(* A sibling that is there is one of the level.                            *)
LEMMA SiblingIs ==
  ASSUME NEW D, NEW level \in Row(D), NEW i \in Nat, HasSibling(level, i)
  PROVE  Sibling(i) + 1 \in 1 .. Len(level) /\ SiblingStep(level, i) \in D \X BOOLEAN
<1>1. level \in Seq(D) /\ Len(level) \in Nat  BY DEF Row
<1>2. Sibling(i) \in Nat /\ Sibling(i) < Len(level)
  <2>1. i % 2 # 0 => i - 1 \in Nat  OBVIOUS
  <2>. QED  BY <2>1 DEF Sibling, HasSibling
<1>3. Sibling(i) + 1 \in 1 .. Len(level)  BY <1>1, <1>2
<1>4. level[Sibling(i) + 1] \in D  BY <1>1, <1>3
<1>5. (i % 2 = 0) \in BOOLEAN  OBVIOUS
<1>. QED  BY <1>3, <1>4, <1>5 DEF SiblingStep

(* A round of proof keeps what it collects.                                *)
LEMMA ProofRoundIs ==
  ASSUME NEW D, NEW level \in Row(D), NEW p \in Progress(D)
  PROVE  ProofRound(p, level) \in Progress(D)
<1>1. p.idx \in Nat /\ p.steps \in Seq(D \X BOOLEAN) /\ p.idx \div 2 \in Nat
  BY DEF Progress
<1>2. CASE HasSibling(level, p.idx)
  <2>1. SiblingStep(level, p.idx) \in D \X BOOLEAN  BY <1>1, <1>2, SiblingIs
  <2>2. Append(p.steps, SiblingStep(level, p.idx)) \in Seq(D \X BOOLEAN)  BY <1>1, <2>1
  <2>. QED  BY <1>1, <1>2, <2>2 DEF ProofRound, Progress
<1>3. CASE ~HasSibling(level, p.idx)
  BY <1>1, <1>3 DEF ProofRound, Progress
<1>. QED  BY <1>2, <1>3

(* What stands above a node: its pair with its sibling, in the order the   *)
(* step says, or with its own copy.                                        *)
LEMMA ParentIs ==
  ASSUME NEW D, \A a, b \in D : PairHash(a, b) \in D, NEW level \in Row(D), Len(level) > 1,
         NEW i \in Nat, i < Len(level)
  PROVE  /\ i \div 2 < Len(NextLevel(level))
         /\ NextLevel(level)[i \div 2 + 1]
              = IF HasSibling(level, i) THEN Climb(level[i + 1], SiblingStep(level, i))
                ELSE PairHash(level[i + 1], level[i + 1])
<1> DEFINE n == Len(level)
           m == (n + 1) \div 2
           j == i \div 2 + 1
           pad == Padded(level)
<1>1. level \in Seq(D) /\ n \in Nat /\ n > 1 /\ i < n  BY DEF Row
<1>2. /\ Len(NextLevel(level)) = m
      /\ \A k \in 1 .. m : NextLevel(level)[k] = PairHash(pad[2 * k - 1], pad[2 * k])
  BY NextLevelIs
<1>3. (\A k \in 1 .. n : pad[k] = level[k]) /\ (n % 2 # 0 => pad[n + 1] = level[n])
  BY PaddedIs
<1>. HIDE DEF n, pad
<1>4. j \in 1 .. m /\ i \div 2 < m  BY <1>1
<1>5. NextLevel(level)[j] = PairHash(pad[2 * j - 1], pad[2 * j])  BY <1>2, <1>4
<1>6. CASE i % 2 = 0
  <2>1. 2 * j - 1 = i + 1 /\ 2 * j = i + 2 /\ i + 1 \in 1 .. n  BY <1>1, <1>6
  <2>2. pad[2 * j - 1] = level[i + 1]  BY <1>3, <2>1
  <2>3. Sibling(i) = i + 1  BY <1>6 DEF Sibling
  <2>4. CASE i + 1 < n
    <3>1. HasSibling(level, i)  BY <2>3, <2>4 DEF HasSibling, n
    <3>2. i + 2 \in 1 .. n  BY <1>1, <2>4
    <3>3. pad[2 * j] = level[i + 2]  BY <1>3, <2>1, <3>2
    <3>4. SiblingStep(level, i) = <<level[i + 2], TRUE>>
      <4>1. (i + 1) + 1 = i + 2  OBVIOUS
      <4>. QED  BY <1>6, <2>3, <4>1 DEF SiblingStep
    <3>5. Climb(level[i + 1], SiblingStep(level, i)) = PairHash(level[i + 1], level[i + 2])
      BY <3>4 DEF Climb
    <3>. QED  BY <1>2, <1>4, <1>5, <2>2, <3>1, <3>3, <3>5
  <2>5. CASE ~(i + 1 < n)
    <3>1. ~HasSibling(level, i)  BY <2>3, <2>5 DEF HasSibling, n
    <3>2. n = i + 1 /\ n % 2 # 0 /\ n + 1 = i + 2  BY <1>1, <1>6, <2>5
    <3>3. pad[2 * j] = level[i + 1]  BY <1>3, <2>1, <3>2
    <3>. QED  BY <1>2, <1>4, <1>5, <2>2, <3>1, <3>3
  <2>. QED  BY <2>4, <2>5
<1>7. CASE i % 2 # 0
  <2>1. 2 * j - 1 = i /\ 2 * j = i + 1 /\ i \in 1 .. n /\ i + 1 \in 1 .. n  BY <1>1, <1>7
  <2>2. pad[2 * j - 1] = level[i] /\ pad[2 * j] = level[i + 1]  BY <1>3, <2>1
  <2>3. Sibling(i) = i - 1 /\ i - 1 < n /\ (i - 1) + 1 = i  BY <1>1, <1>7 DEF Sibling
  <2>4. HasSibling(level, i)  BY <2>3 DEF HasSibling, n
  <2>5. SiblingStep(level, i) = <<level[i], FALSE>>  BY <1>7, <2>3 DEF SiblingStep
  <2>6. Climb(level[i + 1], SiblingStep(level, i)) = PairHash(level[i], level[i + 1])
    BY <2>5 DEF Climb
  <2>. QED  BY <1>2, <1>4, <1>5, <2>2, <2>4, <2>6
<1>. QED  BY <1>6, <1>7

(* A step of verify_proof yields a digest.                                 *)
LEMMA ClimbIs ==
  ASSUME NEW D, \A a, b \in D : PairHash(a, b) \in D, NEW h \in D, NEW s \in D \X BOOLEAN
  PROVE  Climb(h, s) \in D
BY DEF Climb

(* verify_proof takes one step after the other.                            *)
LEMMA ClimbedFacts ==
  ASSUME NEW D, \A a, b \in D : PairHash(a, b) \in D, NEW h \in D
  PROVE  \A s \in Seq(D \X BOOLEAN) :
           /\ Climbed(h, s)[0] = h
           /\ \A p \in 1 .. Len(s) : Climbed(h, s)[p] = Climb(Climbed(h, s)[p - 1], s[p])
<1>. TAKE s \in Seq(D \X BOOLEAN)
<1> DEFINE n == Len(s)
           step == [p \in 1 .. n |-> [x \in D |-> Climb(x, s[p])]]
           Rec(f) == f = [p \in 0 .. n |-> IF p = 0 THEN h ELSE Climb(f[p - 1], s[p])]
<1>1. n \in Nat /\ \A p \in 1 .. n : s[p] \in D \X BOOLEAN  OBVIOUS
<1>2. step \in [1 .. n -> [D -> D]]
  <2>. HIDE DEF n
  <2>. QED  BY <1>1, ClimbIs
<1>3. HasRun(n, D, h, step)
  <2>. HIDE DEF n, step
  <2>. QED  BY <1>1, <1>2, Recursion, Zenon
<1>. HIDE DEF n
<1>4. PICK f : IsRun(n, D, h, step, f)  BY <1>3 DEF HasRun
<1>5. ASSUME NEW p \in 1 .. n PROVE f[p] = Climb(f[p - 1], s[p])
  <2>1. p - 1 \in 0 .. n  BY <1>1
  <2>2. f[p - 1] \in D  BY <1>4, <2>1 DEF IsRun
  <2>. QED  BY <1>4, <2>2 DEF IsRun
<1>6. Rec(f)
  <2>1. ASSUME NEW p \in 0 .. n PROVE f[p] = IF p = 0 THEN h ELSE Climb(f[p - 1], s[p])
    BY <1>1, <1>4, <1>5 DEF IsRun
  <2>2. f = [p \in 0 .. n |-> f[p]]  BY <1>4 DEF IsRun
  <2>. QED  BY <2>1, <2>2
<1>7. Rec(Climbed(h, s))  BY <1>6, Zenon DEF Climbed, n
<1> DEFINE g == Climbed(h, s)
<1>. HIDE DEF g
<1>8. g[0] = h /\ \A p \in 1 .. n : g[p] = Climb(g[p - 1], s[p])  BY <1>1, <1>7 DEF g
<1>. QED  BY <1>8 DEF g, n

(* Where verify_proof ends. *)
Verified(h, s) == Climbed(h, s)[Len(s)]

(* The empty proof leads to the leaf itself. *)
LEMMA VerifiedEmpty ==
  ASSUME NEW D, \A a, b \in D : PairHash(a, b) \in D, NEW h \in D
  PROVE  Verified(h, <<>>) = h
<1>1. <<>> \in Seq(D \X BOOLEAN) /\ Len(<<>>) = 0  OBVIOUS
<1>2. \A q \in Seq(D \X BOOLEAN) : Climbed(h, q)[0] = h  BY ClimbedFacts
<1>. QED  BY <1>1, <1>2 DEF Verified

(* A longer proof climbs one step further. *)
LEMMA VerifiedAppend ==
  ASSUME NEW D, \A a, b \in D : PairHash(a, b) \in D, NEW h \in D
  PROVE  \A s \in Seq(D \X BOOLEAN), t \in D \X BOOLEAN :
           Verified(h, Append(s, t)) = Climb(Verified(h, s), t)
<1>0. \A q \in Seq(D \X BOOLEAN) :
        /\ Climbed(h, q)[0] = h
        /\ \A i \in 1 .. Len(q) : Climbed(h, q)[i] = Climb(Climbed(h, q)[i - 1], q[i])
  BY ClimbedFacts
<1>. TAKE s \in Seq(D \X BOOLEAN), t \in D \X BOOLEAN
<1> DEFINE r == Append(s, t)
           g == Climbed(h, s)
           f == Climbed(h, r)
           n == Len(s)
           P == {i \in Nat : g[i] = f[i]}
<1>1. /\ n \in Nat /\ r \in Seq(D \X BOOLEAN) /\ Len(r) = n + 1 /\ r[n + 1] = t
      /\ \A i \in 1 .. n : r[i] = s[i]
  OBVIOUS
<1>2. g[0] = h /\ \A i \in 1 .. n : g[i] = Climb(g[i - 1], s[i])  BY <1>0
<1>a. r \in Seq(D \X BOOLEAN) /\ Len(r) = n + 1 /\ n \in Nat  BY <1>1
<1>3. f[0] = h /\ \A i \in 1 .. Len(r) : f[i] = Climb(f[i - 1], r[i])
  <2>. HIDE DEF r
  <2>. QED  BY <1>0, <1>a
<1>. HIDE DEF r, g, f, n
<1>4. \A i \in 1 .. n : f[i] = Climb(f[i - 1], s[i])  BY <1>1, <1>3
<1>5. \A i \in 0 .. n : i \in P
  <2>1. 0 \in P  BY <1>2, <1>3
  <2>2. ASSUME NEW i \in 1 .. n, i - 1 \in P PROVE i \in P
    <3>1. g[i - 1] = f[i - 1] /\ i \in Nat  BY <1>1, <2>2
    <3>. QED  BY <1>2, <1>4, <3>1
  <2>. HIDE DEF P
  <2>. QED  BY <1>1, <2>1, <2>2, InductTo
<1>6. f[n + 1] = Climb(f[n], t)
  <2>1. n + 1 \in 1 .. Len(r) /\ (n + 1) - 1 = n  BY <1>a
  <2>. QED  BY <1>1, <1>3, <2>1
<1>7. f[n] = g[n]
  <2>1. n \in 0 .. n  BY <1>1
  <2>. QED  BY <1>5, <2>1
<1>9. Verified(h, s) = g[n] /\ Verified(h, r) = f[n + 1]  BY <1>1 DEF Verified, g, f, n
<1>. QED  BY <1>6, <1>7, <1>9 DEF r

(* proof follows the levels of a tree one round after the other.           *)
LEMMA ProofAfterFacts ==
  ASSUME NEW D, NEW tree, Len(tree.levels) \in Nat,
         \A k \in 1 .. Len(tree.levels) : tree.levels[k] \in Row(D), NEW index \in Nat
  PROVE  /\ ProofAfter(tree, index)[0] = [idx |-> index, steps |-> <<>>]
         /\ \A k \in 1 .. Len(tree.levels) :
              ProofAfter(tree, index)[k] = ProofRound(ProofAfter(tree, index)[k - 1], tree.levels[k])
<1> DEFINE n == Len(tree.levels)
           first == [idx |-> index, steps |-> <<>>]
           step == [k \in 1 .. n |-> [p \in Progress(D) |-> ProofRound(p, tree.levels[k])]]
           Rec(f) == f = [k \in 0 .. n |-> IF k = 0 THEN first
                                           ELSE ProofRound(f[k - 1], tree.levels[k])]
<1>1. n \in Nat /\ first \in Progress(D)  BY DEF Progress
<1>2. step \in [1 .. n -> [Progress(D) -> Progress(D)]]
  <2>1. \A k \in 1 .. n : \A p \in Progress(D) : ProofRound(p, tree.levels[k]) \in Progress(D)
    BY ProofRoundIs
  <2>. HIDE DEF n
  <2>. QED  BY <2>1
<1>3. HasRun(n, Progress(D), first, step)
  <2>. HIDE DEF n, step, first
  <2>. QED  BY <1>1, <1>2, Recursion, Zenon
<1>4. PICK f : IsRun(n, Progress(D), first, step, f)  BY <1>3 DEF HasRun
<1>. HIDE DEF n, first
<1>5. ASSUME NEW k \in 1 .. n PROVE f[k] = ProofRound(f[k - 1], tree.levels[k])
  <2>1. k - 1 \in 0 .. n  BY <1>1
  <2>2. f[k - 1] \in Progress(D)  BY <1>4, <2>1 DEF IsRun
  <2>. QED  BY <1>4, <2>2 DEF IsRun
<1>6. Rec(f)
  <2>1. ASSUME NEW k \in 0 .. n
        PROVE  f[k] = IF k = 0 THEN first ELSE ProofRound(f[k - 1], tree.levels[k])
    BY <1>1, <1>4, <1>5 DEF IsRun
  <2>2. f = [k \in 0 .. n |-> f[k]]  BY <1>4 DEF IsRun
  <2>. QED  BY <2>1, <2>2
<1>7. Rec(ProofAfter(tree, index))  BY <1>6, Zenon DEF ProofAfter, n, first
<1> DEFINE g == ProofAfter(tree, index)
<1>. HIDE DEF g
<1>8. g[0] = first /\ \A k \in 1 .. n : g[k] = ProofRound(g[k - 1], tree.levels[k])
  BY <1>1, <1>7 DEF g
<1>. QED  BY <1>8 DEF g, n, first

----------------------------------------------------------------------------
(* Where a proof leads, against what stands in the tree. *)

Skipped(tree, index, k) ==
  \E j \in 1 .. k : ~HasSibling(tree.levels[j], ProofAfter(tree, index)[j - 1].idx)

(* After k rounds the proof of leaf number index leads to the node above   *)
(* that leaf, as long as no node was without sibling; from then on to a    *)
(* digest of fewer pairings.                                               *)
Leads(D, pairings, hs, index, k) ==
  LET at == ProofAfter(Build(hs), index)[k]
      node == MerkleLevel(hs)[k][at.idx + 1]
      reached == Verified(hs[index + 1], at.steps)
  IN  /\ at \in Progress(D) /\ at.idx < Len(MerkleLevel(hs)[k])
      /\ node \in D /\ reached \in D
      /\ ~Skipped(Build(hs), index, k) => reached = node
      /\ Skipped(Build(hs), index, k) => pairings[reached] < pairings[node]

(* The round of a node with a sibling, and of one without.                 *)
LEMMA LeadsOn ==
  ASSUME NEW D, \A a, b \in D : PairHash(a, b) \in D, NEW pairings \in [D -> Nat],
         \A a, b \in D : pairings[PairHash(a, b)] = pairings[a] + pairings[b] + 1,
         NEW hs \in Row(D), NEW index \in Nat, index < Len(hs), NEW k \in 1 .. Depth(hs),
         Leads(D, pairings, hs, index, k - 1)
  PROVE  Leads(D, pairings, hs, index, k)
<1>0. Len(hs) \in Nat  BY DEF Row
<1>a. \A h \in D : \A s \in Seq(D \X BOOLEAN), t \in D \X BOOLEAN :
        Verified(h, Append(s, t)) = Climb(Verified(h, s), t)
  <2>. TAKE h \in D
  <2>. QED  BY VerifiedAppend
<1> DEFINE tree == Build(hs)
           level == MerkleLevel(hs)[k - 1]
           next == MerkleLevel(hs)[k]
           old == ProofAfter(tree, index)[k - 1]
           new == ProofAfter(tree, index)[k]
           i == old.idx
           node == level[i + 1]
           above == next[i \div 2 + 1]
           leaf == hs[index + 1]
           was == Verified(leaf, old.steps)
           reached == Verified(leaf, new.steps)
           step == SiblingStep(level, i)
<1>1. /\ Depth(hs) \in 0 .. Len(hs) /\ Len(hs) \in Nat
      /\ Len(tree.levels) = Depth(hs) + 1
      /\ \A j \in 1 .. Depth(hs) + 1 : tree.levels[j] = MerkleLevel(hs)[j - 1]
      /\ \A j \in 0 .. Depth(hs) - 1 : Len(MerkleLevel(hs)[j]) > 1
  BY <1>0, BuildIs
<1>2. k - 1 \in 0 .. Depth(hs) - 1 /\ k \in 1 .. Depth(hs) + 1 /\ k \in 1 .. Len(hs)
      /\ k - 1 \in 0 .. Len(hs)
  BY <1>1
<1>3. tree.levels[k] = level /\ Len(level) > 1 /\ level \in Row(D)
  BY <1>1, <1>2, LevelFacts
<1>4. next = NextLevel(level)  BY <1>2, LevelFacts
<1>5. new = ProofRound(old, level)
  <2>1. \A j \in 1 .. Len(tree.levels) : tree.levels[j] \in Row(D)
    <3>1. ASSUME NEW j \in 1 .. Len(tree.levels) PROVE tree.levels[j] \in Row(D)
      <4>1. j \in 1 .. Depth(hs) + 1 /\ j - 1 \in 0 .. Len(hs)  BY <1>1
      <4>2. MerkleLevel(hs)[j - 1] \in Row(D)  BY <4>1, LevelFacts
      <4>. QED  BY <1>1, <4>1, <4>2
    <3>. QED  BY <3>1
  <2>2. Len(tree.levels) \in Nat /\ k \in 1 .. Len(tree.levels)  BY <1>1, <1>2
  <2>. HIDE DEF tree
  <2>3. ProofAfter(tree, index)[k] = ProofRound(ProofAfter(tree, index)[k - 1], tree.levels[k])
    BY <2>1, <2>2, ProofAfterFacts
  <2>. QED  BY <1>3, <2>3
<1>6. /\ old \in Progress(D) /\ i < Len(level) /\ node \in D /\ was \in D
      /\ ~Skipped(tree, index, k - 1) => was = node
      /\ Skipped(tree, index, k - 1) => pairings[was] < pairings[node]
  BY DEF Leads
<1>7. Skipped(tree, index, k) <=> Skipped(tree, index, k - 1) \/ ~HasSibling(level, i)
  <2>1. \A j : j \in 1 .. k <=> j \in 1 .. k - 1 \/ j = k  BY <1>2
  <2>. HIDE DEF tree, level
  <2>. QED  BY <1>3, <2>1 DEF Skipped
<1>8. leaf \in D
  <2>1. hs \in Seq(D) /\ index + 1 \in 1 .. Len(hs)  BY <1>1 DEF Row
  <2>. QED  BY <2>1
<1>. HIDE DEF tree, level, next, old, new, leaf
<1>9. i \in Nat /\ old.steps \in Seq(D \X BOOLEAN)  BY <1>6 DEF Progress
<1>10. /\ i \div 2 < Len(next)
       /\ above = IF HasSibling(level, i) THEN Climb(node, step) ELSE PairHash(node, node)
  BY <1>3, <1>4, <1>6, <1>9, ParentIs
<1>11. new \in Progress(D) /\ new.idx = i \div 2
  BY <1>3, <1>5, <1>6, ProofRoundIs DEF ProofRound
<1>12. CASE HasSibling(level, i)
  <2>1. new.steps = Append(old.steps, step)  BY <1>5, <1>12 DEF ProofRound
  <2>2. step \in D \X BOOLEAN  BY <1>3, <1>9, <1>12, SiblingIs
  <2>. HIDE DEF step
  <2>3. reached = Climb(was, step)  BY <1>8, <1>9, <1>a, <2>1, <2>2, SMTT(30)
  <2>4. above = Climb(node, step)  BY <1>10, <1>12
  <2>5. above \in D /\ reached \in D  BY <1>6, <2>2, <2>3, <2>4, ClimbIs
  <2>6. /\ pairings[above] = pairings[node] + pairings[step[1]] + 1
        /\ pairings[reached] = pairings[was] + pairings[step[1]] + 1
        /\ {pairings[node], pairings[was], pairings[step[1]]} \subseteq Nat
    <3> DEFINE s == step[1]
    <3>1. s \in D  BY <2>2
    <3>2. \/ above = PairHash(node, s) /\ reached = PairHash(was, s)
          \/ above = PairHash(s, node) /\ reached = PairHash(s, was)
      BY <2>3, <2>4 DEF Climb
    <3>. HIDE DEF s, above, reached, node, was
    <3>3. pairings[node] \in Nat /\ pairings[was] \in Nat /\ pairings[s] \in Nat
      BY <1>6, <3>1
    <3>. QED  BY <1>6, <3>1, <3>2, <3>3, SMTT(30) DEF s
  <2>7. ~Skipped(tree, index, k) => reached = above  BY <1>6, <1>7, <2>3, <2>4
  <2>8. Skipped(tree, index, k) => pairings[reached] < pairings[above]
    <3>. HIDE DEF reached, above, was, node
    <3>. QED  BY <1>6, <1>7, <1>12, <2>6
  <2>. HIDE DEF reached, above, was, node
  <2>. QED  BY <1>10, <1>11, <2>5, <2>7, <2>8 DEF Leads, tree, next, new, leaf, above, reached
<1>13. CASE ~HasSibling(level, i)
  <2>1. reached = was  BY <1>5, <1>13 DEF ProofRound
  <2>2. above = PairHash(node, node)  BY <1>10, <1>13
  <2>3. pairings[above] = pairings[node] + pairings[node] + 1 /\ above \in D
    BY <1>6, <2>2
  <2>4. pairings[node] \in Nat /\ pairings[was] \in Nat /\ pairings[was] <= pairings[node]
    BY <1>6
  <2>5. Skipped(tree, index, k)  BY <1>7, <1>13
  <2>6. pairings[reached] < pairings[above]  BY <2>1, <2>3, <2>4
  <2>. HIDE DEF reached, above, was, node
  <2>. QED  BY <1>6, <1>10, <1>11, <2>1, <2>3, <2>5, <2>6 DEF Leads, tree, next, new, leaf, above, reached
<1>. QED  BY <1>12, <1>13

(* The proof of a leaf verifies, unless a node above it had no sibling.    *)
LEMMA ProofVerifies ==
  ASSUME NEW D, IdealPairHash(D), NEW hs \in Row(D), NEW index \in Nat, index < Len(hs)
  PROVE  VerifyProof(hs[index + 1], Proof(Build(hs), index), Build(hs).root)
           <=> ~PairedWithItself(Build(hs), index)
<1>1. \A a, b \in D : PairHash(a, b) \in D  BY DEF IdealPairHash
<1>2. PICK pairings \in [D -> Nat] :
        \A a, b \in D : pairings[PairHash(a, b)] = pairings[a] + pairings[b] + 1
  BY DEF IdealPairHash
<1>0. Len(hs) \in Nat /\ hs[index + 1] \in D
  <2>1. hs \in Seq(D)  BY DEF Row
  <2>. QED  BY <2>1
<1>3. /\ Depth(hs) \in 0 .. Len(hs) /\ Len(MerkleLevel(hs)[Depth(hs)]) = 1
      /\ Build(hs).root = MerkleLevel(hs)[Depth(hs)][1]
      /\ Len(Build(hs).levels) = Depth(hs) + 1
      /\ \A j \in 1 .. Depth(hs) + 1 : Build(hs).levels[j] = MerkleLevel(hs)[j - 1]
  BY <1>0, <1>1, BuildIs
<1>4. \A j \in 1 .. Len(Build(hs).levels) : Build(hs).levels[j] \in Row(D)
  <2>. TAKE j \in 1 .. Len(Build(hs).levels)
  <2>1. j \in 1 .. Depth(hs) + 1 /\ j - 1 \in 0 .. Len(hs)  BY <1>0, <1>3
  <2>2. MerkleLevel(hs)[j - 1] \in Row(D)  BY <1>1, <2>1, LevelFacts
  <2>. QED  BY <1>3, <2>1, <2>2
<1> DEFINE tree == Build(hs)
           d == Depth(hs)
           P == {k \in Nat : Leads(D, pairings, hs, index, k)}
<1>5. ProofAfter(tree, index)[0] = [idx |-> index, steps |-> <<>>]
  <2>1. Len(tree.levels) \in Nat  BY <1>3
  <2>. HIDE DEF tree
  <2>. QED  BY <1>4, <2>1, ProofAfterFacts DEF tree
<1>6. 0 \in P
  <2>1. MerkleLevel(hs)[0] = hs  BY <1>1, LevelFacts
  <2>2. Verified(hs[index + 1], <<>>) = hs[index + 1]  BY <1>0, <1>1, VerifiedEmpty
  <2>3. ~Skipped(tree, index, 0)
    <3>1. 1 .. 0 = {}  OBVIOUS
    <3>. QED  BY <3>1 DEF Skipped
  <2>4. ProofAfter(tree, index)[0] \in Progress(D)  BY <1>5 DEF Progress
  <2>5. Leads(D, pairings, hs, index, 0)
    BY <1>0, <1>5, <2>1, <2>2, <2>3, <2>4 DEF Leads
  <2>. QED  BY <2>5
<1>7. \A k \in 0 .. d : k \in P
  <2>1. ASSUME NEW k \in 1 .. d, k - 1 \in P PROVE k \in P
    <3>1. Leads(D, pairings, hs, index, k - 1) /\ k \in Nat  BY <2>1
    <3>2. Leads(D, pairings, hs, index, k)  BY <1>1, <1>2, <3>1, LeadsOn
    <3>. QED  BY <3>1, <3>2
  <2>2. d \in Nat  BY <1>3
  <2>. HIDE DEF P, d
  <2>. QED  BY <1>6, <2>1, <2>2, InductTo
<1>8. Leads(D, pairings, hs, index, d)
  <2>1. d \in 0 .. d  BY <1>3
  <2>2. d \in P
    <3>. HIDE DEF P, d
    <3>. QED  BY <1>7, <2>1
  <2>. QED  BY <2>2
<1> DEFINE at == ProofAfter(tree, index)[d]
           reached == Verified(hs[index + 1], at.steps)
<1>9. /\ at.idx \in Nat /\ at.idx < 1 /\ reached \in D /\ tree.root \in D
      /\ ~Skipped(tree, index, d) => reached = tree.root
      /\ Skipped(tree, index, d) => pairings[reached] < pairings[tree.root]
  <2>1. at.idx \in Nat /\ at.idx < 1  BY <1>3, <1>8 DEF Leads, Progress
  <2>2. at.idx + 1 = 1  BY <2>1
  <2>3. MerkleLevel(hs)[d][at.idx + 1] = tree.root  BY <1>3, <2>2
  <2>. QED  BY <1>8, <2>1, <2>3 DEF Leads
<1>10. reached = tree.root <=> ~Skipped(tree, index, d)
  <2> DEFINE x == pairings[reached]
             y == pairings[tree.root]
  <2>1. x \in Nat /\ y \in Nat /\ (reached = tree.root => x = y)  BY <1>2, <1>9
  <2>2. Skipped(tree, index, d) => x < y  BY <1>9
  <2>. HIDE DEF x, y
  <2>3. Skipped(tree, index, d) => x # y  BY <2>1, <2>2
  <2>. HIDE DEF reached, tree, d
  <2>. QED  BY <1>9, <2>1, <2>3
<1>11. Len(tree.levels) - 1 = d /\ 1 .. Len(tree.levels) - 1 = 1 .. d
  <2>1. d \in Nat /\ Len(tree.levels) = d + 1  BY <1>3
  <2>. HIDE DEF d, tree
  <2>2. Len(tree.levels) - 1 = d  BY <2>1
  <2>. QED  BY <2>2
<1>12. VerifyProof(hs[index + 1], Proof(tree, index), tree.root) <=> reached = tree.root
  BY <1>11 DEF VerifyProof, Proof, Verified
<1>13. PairedWithItself(tree, index) <=> Skipped(tree, index, d)
  BY <1>11 DEF PairedWithItself, Skipped
<1>. HIDE DEF reached, d
<1>. QED  BY <1>10, <1>12, <1>13

(* Levels that pair to the same level were the same, given their length.   *)
LEMMA LevelBinds ==
  ASSUME NEW D, IdealPairHash(D), NEW a \in Row(D), NEW b \in Row(D), Len(a) = Len(b),
         NextLevel(a) = NextLevel(b)
  PROVE  a = b
<1> DEFINE n == Len(a)
           m == (n + 1) \div 2
<1>1. a \in Seq(D) /\ b \in Seq(D) /\ n \in Nat /\ n = Len(b)  BY DEF Row
<1>2. CASE n <= 1
  BY <1>1, <1>2 DEF NextLevel
<1>3. CASE n > 1
  <2>1. \A x, y \in D : PairHash(x, y) \in D  BY DEF IdealPairHash
  <2>2. \A i \in 1 .. m :
          /\ NextLevel(a)[i] = PairHash(Padded(a)[2 * i - 1], Padded(a)[2 * i])
          /\ NextLevel(b)[i] = PairHash(Padded(b)[2 * i - 1], Padded(b)[2 * i])
    BY <1>1, <1>3, <2>1, NextLevelIs
  <2>3. /\ Padded(a) \in Seq(D) /\ Len(Padded(a)) = 2 * m
        /\ Padded(b) \in Seq(D) /\ Len(Padded(b)) = 2 * m
        /\ \A i \in 1 .. n : Padded(a)[i] = a[i] /\ Padded(b)[i] = b[i]
    BY <1>1, PaddedIs DEF Row
  <2>. HIDE DEF n
  <2>4. ASSUME NEW i \in 1 .. m
        PROVE  Padded(a)[2 * i - 1] = Padded(b)[2 * i - 1] /\ Padded(a)[2 * i] = Padded(b)[2 * i]
    <3>1. m \in Nat /\ 2 * i - 1 \in 1 .. 2 * m /\ 2 * i \in 1 .. 2 * m  BY <1>1
    <3>. HIDE DEF m
    <3> DEFINE u == Padded(a)[2 * i - 1]
               v == Padded(a)[2 * i]
               x == Padded(b)[2 * i - 1]
               y == Padded(b)[2 * i]
    <3>2. u \in D /\ v \in D /\ x \in D /\ y \in D  BY <2>3, <3>1
    <3>3. PairHash(u, v) = PairHash(x, y)  BY <2>2
    <3>. HIDE DEF u, v, x, y
    <3>4. u = x /\ v = y  BY <3>2, <3>3 DEF IdealPairHash
    <3>. QED  BY <3>4 DEF u, v, x, y
  <2>5. ASSUME NEW k \in 1 .. n PROVE a[k] = b[k]
    <3> DEFINE i == (k + 1) \div 2
    <3>1. i \in 1 .. m /\ (k = 2 * i - 1 \/ k = 2 * i)  BY <1>1
    <3>. HIDE DEF i, m
    <3>2. Padded(a)[k] = Padded(b)[k]  BY <2>4, <3>1
    <3>. QED  BY <2>3, <3>2
  <2>. QED  BY <1>1, <2>5 DEF n
<1>. QED  BY <1>1, <1>2, <1>3

(* The root of a list of leaves is that of no other list of its length.    *)
LEMMA RootBinds ==
  ASSUME NEW D, IdealPairHash(D), NEW a \in Row(D), NEW b \in Row(D), Len(a) = Len(b),
         MerkleRootOf(a) = MerkleRootOf(b)
  PROVE  a = b
<1> DEFINE n == Len(a)
           f == MerkleLevel(a)
           g == MerkleLevel(b)
           P == {j \in Nat : f[n - j] = g[n - j]}
           Q == {k \in Nat : Len(f[k]) = Len(g[k])}
<1>1. n \in Nat /\ n = Len(b) /\ a # <<>> /\ b # <<>>  BY DEF Row
<1>2. \A x, y \in D : PairHash(x, y) \in D  BY DEF IdealPairHash
<1>3. /\ f[0] = a /\ \A k \in 1 .. n : f[k] = NextLevel(f[k - 1])
      /\ \A k \in 0 .. n : f[k] \in Row(D)
      /\ \A k \in 1 .. n : Len(f[k]) = (Len(f[k - 1]) + 1) \div 2
      /\ Len(f[n]) = 1
  BY <1>2, LevelFacts, LevelLengths
<1>4. /\ g[0] = b /\ \A k \in 1 .. n : g[k] = NextLevel(g[k - 1])
      /\ \A k \in 0 .. n : g[k] \in Row(D)
      /\ \A k \in 1 .. n : Len(g[k]) = (Len(g[k - 1]) + 1) \div 2
      /\ Len(g[n]) = 1
  <2>. HIDE DEF n
  <2>1. /\ g[0] = b /\ \A k \in 1 .. n : g[k] = NextLevel(g[k - 1])
        /\ \A k \in 0 .. n : g[k] \in Row(D)
    BY <1>1, <1>2, LevelFacts
  <2>2. (\A k \in 1 .. n : Len(g[k]) = (Len(g[k - 1]) + 1) \div 2) /\ Len(g[n]) = 1
    BY <1>1, <1>2, LevelLengths
  <2>. QED  BY <2>1, <2>2
<1>5. f[n][1] = g[n][1]  BY <1>1 DEF MerkleRootOf
<1>. HIDE DEF n, f, g
<1>6. \A k \in 0 .. n : k \in Q
  <2>1. 0 \in Q  BY <1>3, <1>4
  <2>2. ASSUME NEW k \in 1 .. n, k - 1 \in Q PROVE k \in Q
    <3>1. Len(f[k - 1]) = Len(g[k - 1]) /\ k \in Nat  BY <1>1, <2>2
    <3>2. Len(f[k]) = (Len(f[k - 1]) + 1) \div 2 /\ Len(g[k]) = (Len(g[k - 1]) + 1) \div 2
      BY <1>3, <1>4
    <3>3. Len(f[k]) = Len(g[k])  BY <3>1, <3>2
    <3>. QED  BY <3>1, <3>3
  <2>. HIDE DEF Q
  <2>. QED  BY <1>1, <2>1, <2>2, InductTo
<1>7. 0 \in P
  <2>1. n \in 0 .. n /\ n - 0 = n  BY <1>1
  <2>2. f[n] \in Seq(D) /\ g[n] \in Seq(D)  BY <1>3, <1>4, <2>1 DEF Row
  <2>3. f[n] = g[n]  BY <1>3, <1>4, <1>5, <2>2
  <2>. QED  BY <2>1, <2>3
<1>8. ASSUME NEW j \in 1 .. n, j - 1 \in P PROVE j \in P
  <2>1. n - j \in 0 .. n /\ (n - j) + 1 = n - (j - 1) /\ n - (j - 1) \in 1 .. n
        /\ (n - (j - 1)) - 1 = n - j /\ j \in Nat
    BY <1>1
  <2>2. f[n - (j - 1)] = g[n - (j - 1)]  BY <1>8
  <2>3. NextLevel(f[n - j]) = NextLevel(g[n - j])  BY <1>3, <1>4, <2>1, <2>2
  <2>4. Len(f[n - j]) = Len(g[n - j])  BY <1>6, <2>1
  <2>5. f[n - j] \in Row(D) /\ g[n - j] \in Row(D)  BY <1>3, <1>4, <2>1
  <2>6. f[n - j] = g[n - j]  BY <2>3, <2>4, <2>5, LevelBinds
  <2>. QED  BY <2>1, <2>6
<1>9. n \in P
  <2>. HIDE DEF P
  <2>1. \A j \in 0 .. n : j \in P  BY <1>1, <1>7, <1>8, InductTo
  <2>2. n \in 0 .. n  BY <1>1
  <2>. QED  BY <2>1, <2>2
<1>10. n - n = 0  BY <1>1
<1>. QED  BY <1>3, <1>4, <1>9, <1>10

(* For every list of leaves: exactly the proofs of leaves with no node     *)
(* paired with its own copy above them verify, and the root binds the      *)
(* leaves.                                                                 *)
THEOREM MerkleAlwaysSound ==
  ASSUME NEW Digest, Leaf \subseteq Digest, IdealPairHash(Digest)
  PROVE  MerkleSpec => []MerkleSound
<1>1. MerkleInit => leaves \in Seq(Leaf)  BY DEF MerkleInit
<1>2. leaves \in Seq(Leaf) /\ [MerkleNext]_leaves => (leaves \in Seq(Leaf))'
  BY DEF MerkleNext, AddLeaf
<1>3. ASSUME leaves \in Seq(Leaf) PROVE MerkleSound
  <2>1. leaves \in Seq(Digest)  BY <1>3
  <2>2. ASSUME NEW i \in 1 .. Len(leaves)
        PROVE  VerifyProof(leaves[i], Proof(Build(leaves), i - 1), Build(leaves).root)
                 <=> ~PairedWithItself(Build(leaves), i - 1)
    <3>1. /\ leaves \in Row(Digest) /\ i - 1 \in Nat /\ i - 1 < Len(leaves)
          /\ (i - 1) + 1 = i
      BY <2>1 DEF Row
    <3> DEFINE j == i - 1
    <3>. HIDE DEF j
    <3>2. VerifyProof(leaves[j + 1], Proof(Build(leaves), j), Build(leaves).root)
            <=> ~PairedWithItself(Build(leaves), j)
      BY <3>1, ProofVerifies DEF j
    <3>. QED  BY <3>1, <3>2 DEF j
  <2>3. ASSUME NEW other \in [1 .. Len(leaves) -> Leaf],
               MerkleRootOf(other) = MerkleRootOf(leaves)
        PROVE  other = leaves
    <3>1. other \in Seq(Digest) /\ Len(other) = Len(leaves)  BY <1>3
    <3>2. CASE leaves = <<>>  BY <3>1, <3>2
    <3>3. CASE leaves # <<>>
      <4>1. leaves \in Row(Digest) /\ other \in Row(Digest)  BY <2>1, <3>1, <3>3 DEF Row
      <4>. QED  BY <2>3, <3>1, <4>1, RootBinds
    <3>. QED  BY <3>2, <3>3
  <2>. QED  BY <2>2, <2>3 DEF MerkleSound, ProofsVerify, RootBindsLeaves
<1>. QED  BY <1>1, <1>2, <1>3, PTL DEF MerkleSpec
============================================================================
