-------------------------- MODULE ConsensusProofs --------------------------
(***************************************************************************)
(* Proofs about the node's consensus engine, for any metrics, validators,  *)
(* blocks, hashes and number of threads: the chain is a tree laid out in   *)
(* mining order, mining by work alone meets the adjusted difficulty, and   *)
(* the right to mine follows the metrics and the stakes.                   *)
(*                                                                         *)
(* ChainIsTree is not inductive.  The invariant says the same of blocks    *)
(* that are not mined yet, and that the one being mined is not in the      *)
(* chain unless it is being mined again, so that changing it changes no    *)
(* other block that is named.  ProposerEligible needs that addresses are   *)
(* unique and that who has less than the minimum was slashed, and that the *)
(* length of the chain, which is the slot, has a draw.                     *)
(***************************************************************************)
EXTENDS HybridConsensus, SequenceTheorems, Induction, TLAPS

AnyHash == {<<>>} \cup (Nat \X Int)

Object == [index : Nat, timestamp : Timestamps, nonce : Nat, hash : AnyHash,
           prev_hash : AnyHash]

TypesOK ==
  /\ blocks \in Seq(Object)
  /\ chain \in Seq(Nat)
  /\ \A i \in 1 .. Len(chain) : chain[i] \in 1 .. Len(blocks)
  /\ pc # "idle" => mining \in 1 .. Len(blocks)

Named(h, parent) == h = blocks[parent].hash \/ parent \in remined

(* Every block, mined or not, names the one at its index by hash. *)
Rooted ==
  \A b \in 1 .. Len(blocks) :
    /\ blocks[b].index <= Len(chain)
    /\ IF blocks[b].index = 0 THEN blocks[b].prev_hash = Genesis
       ELSE Named(blocks[b].prev_hash, chain[blocks[b].index])

Placed ==
  \A i \in 1 .. Len(chain) :
    /\ blocks[chain[i]].index < i
    /\ chain[i] \notin remined =>
         /\ blocks[chain[i]].hash = Hash(chain[i], blocks[chain[i]].nonce)
         /\ \A j \in 1 .. Len(chain) : chain[j] = chain[i] => j = i

NotInChain ==
  pc # "idle" => mining \in remined \/ \A i \in 1 .. Len(chain) : chain[i] # mining

Difficulty == IF pc = "solve" THEN original = adjusted ELSE difficulty = adjusted

IInv == TypesOK /\ Rooted /\ Placed /\ NotInChain /\ Difficulty

----------------------------------------------------------------------------
(* What is left alone by everything but making and mining blocks. *)
LEMMA Unchanged ==
  ASSUME IInv, UNCHANGED <<blocks, chain>>, remined \subseteq remined', Difficulty',
         pc' # "idle" => \/ pc # "idle" /\ mining' = mining
                         \/ /\ mining' \in 1 .. Len(blocks)
                            /\ mining' \in remined' \/ \A i \in 1 .. Len(chain) : chain[i] # mining'
  PROVE  IInv'
<1>1. TypesOK' /\ NotInChain'  BY DEF IInv, TypesOK, NotInChain
<1>2. Rooted' /\ Placed'  BY DEF IInv, Rooted, Placed, Named
<1>. QED  BY <1>1, <1>2 DEF IInv

LEMMA ObjectAt ==
  ASSUME IInv, NEW b \in 1 .. Len(blocks)
  PROVE  blocks[b] \in Object /\ blocks[b].index \in Nat /\ blocks[b].nonce \in Nat
<1>1. blocks \in Seq(Object)  BY DEF IInv, TypesOK
<1>2. blocks[b] \in Object  BY <1>1, ElementOfSeq
<1>. QED  BY <1>2 DEF Object

(* Mining changes nonce and hash of a block that is not in the chain. *)
LEMMA Remade ==
  ASSUME IInv, pc # "idle", NEW n \in Nat, NEW h \in AnyHash,
         blocks' = [blocks EXCEPT ![mining] = [blocks[mining] EXCEPT !.nonce = n, !.hash = h]]
  PROVE  /\ blocks' \in Seq(Object) /\ Len(blocks') = Len(blocks)
         /\ \A b \in 1 .. Len(blocks) : /\ blocks'[b].index = blocks[b].index
                                        /\ blocks'[b].prev_hash = blocks[b].prev_hash
                                        /\ b # mining => blocks'[b] = blocks[b]
         /\ blocks'[mining].nonce = n /\ blocks'[mining].hash = h
<1>1. blocks \in Seq(Object) /\ mining \in 1 .. Len(blocks)  BY DEF IInv, TypesOK
<1>2. blocks[mining] \in Object  BY <1>1, ObjectAt
<1>. DEFINE e == [blocks[mining] EXCEPT !.nonce = n, !.hash = h]
<1>3. e \in Object  BY <1>2 DEF Object
<1>4. /\ e.nonce = n /\ e.hash = h
      /\ e.index = blocks[mining].index /\ e.prev_hash = blocks[mining].prev_hash
  BY <1>2 DEF Object
<1>5. blocks' = [blocks EXCEPT ![mining] = e]  OBVIOUS
<1>. HIDE DEF e
<1>6. /\ blocks' \in Seq(Object) /\ Len(blocks') = Len(blocks)
      /\ \A b \in 1 .. Len(blocks) : blocks'[b] = IF b = mining THEN e ELSE blocks[b]
  BY <1>1, <1>3, <1>5, ExceptSeq
<1>. QED  BY <1>1, <1>4, <1>6

(* What a block names, is named still, or has been mined again.            *)
LEMMA StillNamed ==
  ASSUME IInv, pc # "idle", NEW n \in Nat, NEW h \in AnyHash,
         blocks' = [blocks EXCEPT ![mining] = [blocks[mining] EXCEPT !.nonce = n, !.hash = h]],
         NEW i \in 1 .. Len(chain), NEW hash, Named(hash, chain[i])
  PROVE  hash = blocks'[chain[i]].hash \/ chain[i] \in remined
<1>1. chain[i] \in 1 .. Len(blocks)  BY DEF IInv, TypesOK
<1>2. CASE chain[i] = mining  BY <1>2 DEF IInv, NotInChain, Named
<1>3. CASE chain[i] # mining
  <2>1. blocks'[chain[i]] = blocks[chain[i]]  BY <1>1, <1>3, Remade
  <2>. QED  BY <2>1 DEF Named
<1>. QED  BY <1>2, <1>3

(* Mining a block leaves the others rooted, wherever it ends.              *)
LEMMA RootedKept ==
  ASSUME IInv, pc # "idle", NEW n \in Nat, NEW h \in AnyHash,
         blocks' = [blocks EXCEPT ![mining] = [blocks[mining] EXCEPT !.nonce = n, !.hash = h]],
         remined' = remined, Len(chain) <= Len(chain'), Len(chain') \in Nat,
         \A i \in 1 .. Len(chain) : chain'[i] = chain[i]
  PROVE  Rooted'
<1>1. Len(blocks') = Len(blocks)  BY Remade
<1>2. ASSUME NEW b \in 1 .. Len(blocks)
      PROVE  /\ blocks'[b].index <= Len(chain')
             /\ IF blocks'[b].index = 0 THEN blocks'[b].prev_hash = Genesis
                ELSE \/ blocks'[b].prev_hash = blocks'[chain'[blocks'[b].index]].hash
                     \/ chain'[blocks'[b].index] \in remined'
  <2>1. blocks'[b].index = blocks[b].index /\ blocks'[b].prev_hash = blocks[b].prev_hash
    BY Remade
  <2>2. blocks[b].index \in Nat /\ blocks[b].index <= Len(chain) /\ Len(chain) \in Nat
    BY ObjectAt DEF IInv, Rooted, TypesOK
  <2>3. CASE blocks[b].index = 0  BY <2>1, <2>2, <2>3 DEF IInv, Rooted
  <2>4. CASE blocks[b].index # 0
    <3>1. blocks[b].index \in 1 .. Len(chain)  BY <2>2, <2>4
    <3>2. Named(blocks[b].prev_hash, chain[blocks[b].index])  BY <2>4 DEF IInv, Rooted
    <3>. DEFINE i == blocks[b].index
                k == blocks[b].prev_hash
    <3>3. i \in 1 .. Len(chain) /\ Named(k, chain[i]) /\ chain'[i] = chain[i]
      BY <3>1, <3>2
    <3>4. blocks'[b].index = i /\ blocks'[b].prev_hash = k /\ i # 0 /\ i <= Len(chain')
      BY <2>1, <2>2, <2>4
    <3>. HIDE DEF i, k
    <3>5. k = blocks'[chain[i]].hash \/ chain[i] \in remined
      BY <3>3, StillNamed
    <3>. QED  BY <3>3, <3>4, <3>5
  <2>. QED  BY <2>3, <2>4
<1>. QED  BY <1>1, <1>2 DEF Rooted, Named

(* A block that is mined but refused. *)
LEMMA Refused ==
  ASSUME IInv, pc # "idle", NEW n \in Nat, NEW h \in AnyHash,
         blocks' = [blocks EXCEPT ![mining] = [blocks[mining] EXCEPT !.nonce = n, !.hash = h]],
         UNCHANGED <<chain, remined>>, pc' # "idle" => mining' = mining, Difficulty'
  PROVE  IInv'
<1>1. mining \in 1 .. Len(blocks) /\ \A i \in 1 .. Len(chain) : chain[i] \in 1 .. Len(blocks)
  BY DEF IInv, TypesOK
<1>2. TypesOK' /\ NotInChain'
  BY <1>1, Remade DEF IInv, TypesOK, NotInChain
<1>3. Rooted'
  <2>1. Len(chain) \in Nat /\ Len(chain) <= Len(chain') /\ Len(chain') \in Nat /\ remined' = remined
        /\ \A i \in 1 .. Len(chain) : chain'[i] = chain[i]
    BY DEF IInv, TypesOK
  <2>. QED  BY <2>1, RootedKept
<1>4. Placed'
  <2>. SUFFICES ASSUME NEW i \in 1 .. Len(chain)
                PROVE  /\ blocks'[chain[i]].index < i
                       /\ chain[i] \notin remined =>
                            /\ blocks'[chain[i]].hash = Hash(chain[i], blocks'[chain[i]].nonce)
                            /\ \A j \in 1 .. Len(chain) : chain[j] = chain[i] => j = i
    BY DEF Placed
  <2>1. blocks'[chain[i]].index = blocks[chain[i]].index  BY <1>1, Remade
  <2>2. chain[i] \notin remined => blocks'[chain[i]] = blocks[chain[i]]
    BY <1>1, Remade DEF IInv, NotInChain
  <2>. QED  BY <2>1, <2>2 DEF IInv, Placed
<1>. QED  BY <1>2, <1>3, <1>4 DEF IInv

(* A block that is mined and accepted. *)
LEMMA Accepted ==
  ASSUME IInv, pc # "idle", NEW n \in Nat, NEW h \in AnyHash,
         blocks' = [blocks EXCEPT ![mining] = [blocks[mining] EXCEPT !.nonce = n, !.hash = h]],
         h = Hash(mining, n), chain' = Append(chain, mining), remined' = remined,
         pc' = "idle", Difficulty'
  PROVE  IInv'
<1>1. mining \in 1 .. Len(blocks) /\ \A i \in 1 .. Len(chain) : chain[i] \in 1 .. Len(blocks)
  BY DEF IInv, TypesOK
<1>2. /\ chain \in Seq(Nat) /\ chain' \in Seq(Nat) /\ Len(chain') = Len(chain) + 1
      /\ \A i \in 1 .. Len(chain) : chain'[i] = chain[i]
      /\ chain'[Len(chain) + 1] = mining /\ Len(chain) \in Nat
  BY <1>1 DEF IInv, TypesOK
<1>3. \A i \in 1 .. Len(chain') : i \in 1 .. Len(chain) \/ i = Len(chain) + 1
  BY <1>2
<1>4. TypesOK' /\ NotInChain'
  BY <1>1, <1>2, <1>3, Remade DEF IInv, TypesOK, NotInChain
<1>5. Rooted'
  <2>1. Len(chain) <= Len(chain') /\ Len(chain') \in Nat  BY <1>2
  <2>. QED  BY <1>2, <2>1, RootedKept
<1>6. blocks'[mining].index <= Len(chain) /\ blocks'[mining].index \in Nat
      /\ blocks'[mining].hash = Hash(mining, blocks'[mining].nonce)
  <2>1. blocks'[mining].index = blocks[mining].index /\ blocks'[mining].nonce = n
        /\ blocks'[mining].hash = h
    BY <1>1, Remade
  <2>. QED  BY <1>1, <2>1, ObjectAt DEF IInv, Rooted
<1>7. ASSUME NEW i \in 1 .. Len(chain')
      PROVE  blocks'[chain'[i]].index < i
  <2>1. CASE i = Len(chain) + 1  BY <1>2, <1>6, <2>1
  <2>2. CASE i \in 1 .. Len(chain)
    <3>1. blocks'[chain[i]].index = blocks[chain[i]].index  BY <1>1, <2>2, Remade
    <3>. QED  BY <1>2, <2>2, <3>1 DEF IInv, Placed
  <2>. QED  BY <1>3, <2>1, <2>2
<1>8. ASSUME NEW i \in 1 .. Len(chain'), chain'[i] \notin remined
      PROVE  blocks'[chain'[i]].hash = Hash(chain'[i], blocks'[chain'[i]].nonce)
  <2>1. CASE chain'[i] = mining  BY <1>6, <2>1
  <2>2. CASE chain'[i] # mining
    <3>1. i \in 1 .. Len(chain) /\ chain'[i] = chain[i]  BY <1>2, <1>3, <2>2
    <3>2. blocks'[chain[i]] = blocks[chain[i]]  BY <1>1, <2>2, <3>1, Remade
    <3>. QED  BY <1>8, <3>1, <3>2 DEF IInv, Placed
  <2>. QED  BY <2>1, <2>2
<1>9. ASSUME NEW i \in 1 .. Len(chain'), chain'[i] \notin remined,
             NEW j \in 1 .. Len(chain'), chain'[j] = chain'[i]
      PROVE  j = i
  <2>1. CASE chain'[i] = mining
    <3>1. \A k \in 1 .. Len(chain) : chain[k] # mining  BY <1>9, <2>1 DEF IInv, NotInChain
    <3>. QED  BY <1>2, <1>3, <1>9, <2>1, <3>1
  <2>2. CASE chain'[i] # mining
    <3>1. i \in 1 .. Len(chain) /\ j \in 1 .. Len(chain)  BY <1>2, <1>3, <1>9, <2>2
    <3>2. chain[i] \notin remined /\ chain[j] = chain[i]  BY <1>2, <1>9, <3>1
    <3>. QED  BY <3>1, <3>2 DEF IInv, Placed
  <2>. QED  BY <2>1, <2>2
<1>10. Placed'  BY <1>7, <1>8, <1>9 DEF Placed
<1>. QED  BY <1>4, <1>5, <1>10 DEF IInv
----------------------------------------------------------------------------
(* The actions *)

LEMMA SolvedBlock ==
  ASSUME IInv, pc # "idle"
  PROVE  \E n \in Nat, h \in AnyHash :
           /\ Solved(mining) = [blocks[mining] EXCEPT !.nonce = n, !.hash = h]
           /\ Solutions(mining) # {} => /\ n \in Solutions(mining)
                                        /\ h = Hash(mining, n)
<1>1. mining \in Nat /\ mining \in 1 .. Len(blocks) /\ blocks[mining].nonce \in Nat
      /\ Attempts \in Nat \ {0}
  BY ObjectAt, ConsensusAssumption DEF IInv, TypesOK
<1>2. CASE Solutions(mining) # {}
  <2>1. Solutions(mining) \in SUBSET Nat  BY <1>1 DEF Solutions
  <2>2. Min(Solutions(mining)) \in Solutions(mining)  BY <1>2, <2>1, MinInSet
  <2>3. Min(Solutions(mining)) \in Nat
        /\ Hash(mining, Min(Solutions(mining))) \in AnyHash
    BY <1>1, <2>1, <2>2 DEF Hash, AnyHash
  <2>. QED  BY <1>2, <2>2, <2>3 DEF Solved
<1>3. CASE Solutions(mining) = {}
  <2>. DEFINE n == blocks[mining].nonce + Attempts
  <2>1. n \in Nat /\ Hash(mining, n - 1) \in AnyHash  BY <1>1 DEF Hash, AnyHash
  <2>2. Solved(mining) = [blocks[mining] EXCEPT !.nonce = n, !.hash = Hash(mining, n - 1)]
    BY <1>3 DEF Solved
  <2>. QED  BY <1>3, <2>1, <2>2
<1>. QED  BY <1>2, <1>3

LEMMA CreateIInv ==
  ASSUME IInv, NEW t \in Timestamps, CreateBlock(t)
  PROVE  IInv'
<1>. DEFINE new == [index |-> Len(chain), timestamp |-> t, nonce |-> 0, hash |-> <<>>,
                    prev_hash |-> TipHash]
<1>1. blocks \in Seq(Object) /\ chain \in Seq(Nat) /\ Len(chain) \in Nat
      /\ \A i \in 1 .. Len(chain) : chain[i] \in 1 .. Len(blocks)
  BY DEF IInv, TypesOK
<1>2. TipHash = IF Len(chain) = 0 THEN Genesis ELSE blocks[chain[Len(chain)]].hash
  BY <1>1 DEF TipHash, Last
<1>3. TipHash \in AnyHash
  <2>1. Genesis \in AnyHash  BY DEF Genesis, AnyHash
  <2>2. Len(chain) # 0 => blocks[chain[Len(chain)]] \in Object
    BY <1>1, ObjectAt
  <2>. QED  BY <1>2, <2>1, <2>2 DEF Object
<1>4. new \in Object  BY <1>1, <1>3 DEF Object, AnyHash
<1>5. blocks' = Append(blocks, new) /\ pc = "idle"
      /\ UNCHANGED <<chain, remined, pc, original, adjusted, difficulty>>
  BY DEF CreateBlock, miner
<1>6. new.index = Len(chain) /\ new.prev_hash = TipHash  OBVIOUS
<1>. HIDE DEF new
<1>7. /\ blocks' \in Seq(Object) /\ Len(blocks') = Len(blocks) + 1
      /\ \A b \in 1 .. Len(blocks) : blocks'[b] = blocks[b]
      /\ blocks'[Len(blocks) + 1] = new
  BY <1>1, <1>4, <1>5
<1>8. \A b \in 1 .. Len(blocks') : b \in 1 .. Len(blocks) \/ b = Len(blocks) + 1
  BY <1>1, <1>7
<1>9. TypesOK'  BY <1>1, <1>5, <1>7 DEF IInv, TypesOK
<1>10. \A i \in 1 .. Len(chain) : blocks'[chain'[i]] = blocks[chain[i]]
  BY <1>1, <1>5, <1>7
<1>11. Placed'  BY <1>5, <1>10 DEF IInv, Placed
<1>12. ASSUME NEW b \in 1 .. Len(blocks')
       PROVE  /\ blocks'[b].index <= Len(chain')
              /\ IF blocks'[b].index = 0 THEN blocks'[b].prev_hash = Genesis
                 ELSE \/ blocks'[b].prev_hash = blocks'[chain'[blocks'[b].index]].hash
                      \/ chain'[blocks'[b].index] \in remined'
  <2>1. CASE b = Len(blocks) + 1
    <3>1. Len(chain) # 0 => Len(chain) \in 1 .. Len(chain)  BY <1>1
    <3>. QED  BY <1>1, <1>2, <1>5, <1>6, <1>7, <1>10, <2>1, <3>1
  <2>2. CASE b \in 1 .. Len(blocks)
    <3>1. blocks[b].index \in Nat /\ blocks[b].index <= Len(chain)
      BY <2>2, ObjectAt DEF IInv, Rooted
    <3>2. blocks[b].index # 0 => blocks[b].index \in 1 .. Len(chain)
      BY <1>1, <3>1
    <3>3. IF blocks[b].index = 0 THEN blocks[b].prev_hash = Genesis
          ELSE \/ blocks[b].prev_hash = blocks[chain[blocks[b].index]].hash
               \/ chain[blocks[b].index] \in remined
      BY <2>2 DEF IInv, Rooted, Named
    <3>. QED  BY <1>5, <1>7, <1>10, <2>2, <3>1, <3>2, <3>3
  <2>. QED  BY <1>8, <2>1, <2>2
<1>13. Rooted'  BY <1>12 DEF Rooted, Named
<1>14. NotInChain' /\ Difficulty'  BY <1>5 DEF IInv, NotInChain, Difficulty
<1>. QED  BY <1>9, <1>11, <1>13, <1>14 DEF IInv

LEMMA InitIInv == Init => IInv
BY DEF Init, IInv, TypesOK, Rooted, Placed, NotInChain, Difficulty

LEMMA NextIInv ==
  ASSUME IInv, [Next]_vars
  PROVE  IInv'
<1>. USE DEF Difficulty
<1>1. ASSUME UNCHANGED <<blocks, chain, remined, pc, mining, original, adjusted, difficulty>>
      PROVE  IInv'
  BY <1>1, Unchanged DEF IInv, TypesOK, NotInChain
<1>2. ASSUME NEW t \in Timestamps, CreateBlock(t) PROVE IInv'
  BY <1>2, CreateIInv
<1>3. ASSUME NEW b, NEW p, MineBlock(b, p) PROVE IInv'
  <2>1. /\ b \in 1 .. Len(blocks) /\ remined' = remined \cup ({b} \cap ToSet(chain))
        /\ DOMAIN chain = 1 .. Len(chain)
    BY <1>3 DEF MineBlock, IInv, TypesOK
  <2>2. b \in remined' \/ \A i \in 1 .. Len(chain) : chain[i] # b
    BY <2>1 DEF ToSet
  <2>. QED  BY <1>3, <2>1, <2>2, Unchanged DEF MineBlock, IInv
<1>4. CASE Dispatch \/ PosSelect \/ HybridWeigh
  BY <1>4, Unchanged DEF Dispatch, PosSelect, HybridWeigh, Return, IInv
<1>5. CASE MinePow
  <2>1. pc # "idle" /\ pc' = "idle" /\ remined' = remined /\ Difficulty'
    BY <1>5 DEF MinePow, Return, IInv
  <2>2. PICK n \in Nat, h \in AnyHash :
          /\ Solved(mining) = [blocks[mining] EXCEPT !.nonce = n, !.hash = h]
          /\ Solutions(mining) # {} => h = Hash(mining, n)
    BY <2>1, SolvedBlock
  <2>3. blocks' = [blocks EXCEPT ![mining] = [blocks[mining] EXCEPT !.nonce = n, !.hash = h]]
    BY <1>5, <2>2 DEF MinePow
  <2>4. CASE Solutions(mining) # {}
    <3>1. h = Hash(mining, n) /\ chain' = Append(chain, mining)
      BY <1>5, <2>2, <2>4 DEF MinePow
    <3>. QED  BY <2>1, <2>3, <3>1, Accepted
  <2>5. CASE Solutions(mining) = {}
    <3>1. chain' = chain  BY <1>5, <2>5 DEF MinePow
    <3>. QED  BY <2>1, <2>3, <3>1, Refused
  <2>. QED  BY <2>4, <2>5
<1>6. CASE HybridSolve
  <2>1. pc # "idle" /\ mining' = mining /\ UNCHANGED <<chain, remined>> /\ Difficulty'
    BY <1>6 DEF HybridSolve, IInv
  <2>2. PICK n \in Nat, h \in AnyHash :
          Solved(mining) = [blocks[mining] EXCEPT !.nonce = n, !.hash = h]
    BY <2>1, SolvedBlock
  <2>3. blocks' = [blocks EXCEPT ![mining] = [blocks[mining] EXCEPT !.nonce = n, !.hash = h]]
    BY <1>6, <2>2 DEF HybridSolve
  <2>. QED  BY <2>1, <2>3, Refused
<1>7. CASE PosSign /\ proposer \in Registered
  <2>. DEFINE n == blocks[mining].nonce
              h == Hash(mining, n)
  <2>1. pc # "idle" /\ pc' = "idle" /\ chain' = Append(chain, mining) /\ remined' = remined /\ Difficulty'
        /\ blocks' = [blocks EXCEPT ![mining].hash = h]
    BY <1>7 DEF PosSign, Return, IInv
  <2>2. mining \in 1 .. Len(blocks) /\ blocks[mining] \in Object /\ n \in Nat
    BY <2>1, ObjectAt DEF IInv, TypesOK
  <2>3. h \in AnyHash  BY <2>2 DEF Hash, AnyHash
  <2>4. blocks' = [blocks EXCEPT ![mining] = [blocks[mining] EXCEPT !.nonce = n, !.hash = h]]
    <3>1. [blocks[mining] EXCEPT !.hash = h]
            = [blocks[mining] EXCEPT !.nonce = n, !.hash = h]
      BY <2>2 DEF Object
    <3>. QED  BY <2>1, <3>1
  <2>. HIDE DEF n, h
  <2>5. h = Hash(mining, n)  BY DEF h
  <2>. QED  BY <2>1, <2>2, <2>3, <2>4, <2>5, Accepted
<1>8. CASE PosSign /\ proposer \notin Registered
  BY <1>8, Unchanged DEF PosSign, Return, IInv
<1>9. CASE AdjustDifficulty
  BY <1>9, Unchanged DEF AdjustDifficulty, miner, IInv
<1>. QED
  BY <1>1, <1>2, <1>3, <1>4, <1>5, <1>6, <1>7, <1>8, <1>9
  DEF Next, vars, miner, stake, UpdateMetrics, ReadHealth, SelectType, AddValidator,
      RemoveValidator, SlashValidator

LEMMA SpecIInv == Spec => []IInv
BY InitIInv, NextIInv, PTL DEF Spec

(* Every block of the chain names, by index and hash, the one it was made  *)
(* on, which stands before it, and none is in it twice, whatever is mined  *)
(* when and however often, but for blocks mined again while in the chain.  *)
THEOREM ChainAlwaysTree == Spec => []ChainIsTree
<1>1. IInv => ChainIsTree
  <2>. SUFFICES ASSUME IInv, NEW i \in 1 .. Len(chain)
                PROVE  LET b == blocks[chain[i]] IN
                       /\ b.index < i
                       /\ IF b.index = 0 THEN b.prev_hash = Genesis
                          ELSE Named(b.prev_hash, chain[b.index])
                       /\ chain[i] \notin remined =>
                            /\ b.hash = Hash(chain[i], b.nonce)
                            /\ \A j \in 1 .. Len(chain) : chain[j] = chain[i] => j = i
    BY DEF ChainIsTree, IInv, TypesOK, Named
  <2>1. chain[i] \in 1 .. Len(blocks)  BY DEF IInv, TypesOK
  <2>. QED  BY <2>1 DEF IInv, Rooted, Placed
<1>. QED  BY <1>1, SpecIInv, PTL

(* Hybrid mining, successful or not, leaves no trace in the difficulty     *)
(* that mining by work alone has to meet.                                  *)
THEOREM WorkAlwaysMeetsDifficulty == Spec => WorkMeetsDifficulty
<1>1. ASSUME IInv, [Next]_vars, pc = "pow", chain' # chain
      PROVE  LET b == Last(chain') IN Zeros[b][blocks'[b].nonce] >= adjusted
  <2>1. MinePow
    BY <1>1
    DEF Next, vars, miner, stake, UpdateMetrics, ReadHealth, SelectType, AddValidator, Change,
        RemoveValidator, SlashValidator, CreateBlock, MineBlock, Dispatch, HybridWeigh,
        HybridSolve, PosSelect, PosSign, AdjustDifficulty
  <2>2. Solutions(mining) # {} /\ chain' = Append(chain, mining)
        /\ blocks' = [blocks EXCEPT ![mining] = Solved(mining)]
    BY <1>1, <2>1 DEF MinePow
  <2>3. PICK n \in Nat, h \in AnyHash :
          /\ Solved(mining) = [blocks[mining] EXCEPT !.nonce = n, !.hash = h]
          /\ n \in Solutions(mining)
    BY <1>1, <2>2, SolvedBlock
  <2>4. blocks'[mining].nonce = n
    BY <1>1, <2>2, <2>3, Remade
  <2>5. Last(chain') = mining
    BY <1>1, <2>2 DEF IInv, TypesOK, Last
  <2>6. Zeros[mining][n] >= difficulty /\ difficulty = adjusted
    BY <1>1, <2>3 DEF Solutions, IInv, Difficulty
  <2>. QED  BY <2>4, <2>5, <2>6
<1>2. IInv /\ [Next]_vars
        => [pc = "pow" /\ chain' # chain
              => LET b == Last(chain') IN Zeros[b][blocks'[b].nonce] >= adjusted]_vars
  BY <1>1
<1>. QED  BY <1>2, SpecIInv, PTL DEF Spec, WorkMeetsDifficulty
----------------------------------------------------------------------------
(* The type of consensus.  While no two updates of the metrics overlap,    *)
(* there is at most one, and the score it has read is that of the metrics. *)

Reading(a) == apc[a] # "idle"

Selection ==
  /\ apc \in [Api -> {"idle", "health", "select"}]
  /\ metrics \in Metrics \cup {NoMetrics}
  /\ \A a \in Api : Reading(a) => metrics \in Metrics
  /\ ~overlapped =>
       /\ \A a, c \in Api : Reading(a) /\ Reading(c) => a = c
       /\ \A a \in Api : apc[a] = "select" => health[a] = HealthScore(metrics)
  /\ health \in [Api -> Int]
  /\ TypeFitsMetrics

LEMMA ScoreIsNumber ==
  ASSUME NEW m \in Metrics
  PROVE  /\ HealthScore(m) \in Int /\ m.threat_level \in Int /\ m.recent_attacks \in Int
<1>1. m \in [online_nodes : Int, total_nodes : Int, avg_latency_ms : Int,
             transaction_backlog : Int, threat_level : Int, recent_attacks : Int]
  BY ConsensusAssumption
<1>2. Larger(m.total_nodes, 1) \in Nat \ {0}  BY <1>1 DEF Larger
<1>3. (4000 * m.online_nodes) \div Larger(m.total_nodes, 1) \in Int  BY <1>1, <1>2
<1>4. Larger(0, 10000 - m.transaction_backlog) \div 5 \in Int  BY <1>1 DEF Larger
<1>5. 3 * Larger(0, 1000 - m.avg_latency_ms) \in Int /\ 10 * Larger(0, 100 - m.threat_level) \in Int
  BY <1>1 DEF Larger
<1>. QED  BY <1>1, <1>3, <1>4, <1>5 DEF HealthScore

(* The type selected from the score and the levels of one reading fits it. *)
LEMMA SelectedFits ==
  ASSUME NEW score \in Int, NEW threat \in Int, NEW attacks \in Int
  PROVE  LET t == Selected(score, threat, attacks) IN
         /\ t = "pow" => threat < 30 /\ attacks = 0
         /\ t = "pos" <=> threat >= 70 \/ score < 5000
BY DEF Selected

LEMMA SelectionKept == Selection /\ [Next]_vars => Selection'
<1>. SUFFICES ASSUME Selection, [Next]_vars PROVE Selection'  OBVIOUS
<1>. USE DEF Reading
<1>1. CASE UNCHANGED selection
  BY <1>1 DEF selection, Selection, TypeFitsMetrics
<1>2. ASSUME NEW a \in Api, NEW m \in Metrics, UpdateMetrics(a, m) PROVE Selection'
  <2>1. /\ apc[a] = "idle" /\ metrics' = m /\ apc' = [apc EXCEPT ![a] = "health"]
        /\ health' = health /\ type' = type
        /\ overlapped' = (overlapped \/ \E c \in Api : apc[c] # "idle")
    BY <1>2 DEF UpdateMetrics
  <2>2. apc' \in [Api -> {"idle", "health", "select"}] /\ apc'[a] = "health"
        /\ \A c \in Api \ {a} : apc'[c] = apc[c]
    BY <2>1 DEF Selection
  <2>3. TypeFitsMetrics'  BY <2>2 DEF TypeFitsMetrics
  <2>4. ~overlapped' =>
          /\ \A b, c \in Api : apc'[b] # "idle" /\ apc'[c] # "idle" => b = c
          /\ \A b \in Api : apc'[b] # "select"
    BY <2>1, <2>2
  <2>. QED  BY <2>1, <2>2, <2>3, <2>4 DEF Selection
<1>3. ASSUME NEW a \in Api, ReadHealth(a) PROVE Selection'
  <2>1. /\ apc[a] = "health" /\ metrics' = metrics /\ apc' = [apc EXCEPT ![a] = "select"]
        /\ health' = [health EXCEPT ![a] = HealthScore(metrics)] /\ overlapped' = overlapped
        /\ type' = type
    BY <1>3 DEF ReadHealth
  <2>2. metrics \in Metrics /\ HealthScore(metrics) \in Int
    BY <2>1, ScoreIsNumber DEF Selection
  <2>3. /\ apc' \in [Api -> {"idle", "health", "select"}] /\ apc'[a] = "select"
        /\ \A c \in Api \ {a} : apc'[c] = apc[c]
        /\ health' \in [Api -> Int] /\ health'[a] = HealthScore(metrics)
        /\ \A c \in Api \ {a} : health'[c] = health[c]
    BY <2>1, <2>2 DEF Selection
  <2>4. TypeFitsMetrics'  BY <2>3 DEF TypeFitsMetrics
  <2>5. HealthScore(metrics') = HealthScore(metrics)  BY <2>1
  <2>6. ~overlapped' =>
          /\ \A b, c \in Api : apc'[b] # "idle" /\ apc'[c] # "idle" => b = c
          /\ \A b \in Api : apc'[b] = "select" => health'[b] = HealthScore(metrics)
    BY <2>1, <2>3 DEF Selection
  <2>. QED  BY <2>1, <2>2, <2>3, <2>4, <2>5, <2>6 DEF Selection
<1>4. ASSUME NEW a \in Api, SelectType(a) PROVE Selection'
  <2>1. /\ apc[a] = "select" /\ metrics' = metrics /\ apc' = [apc EXCEPT ![a] = "idle"]
        /\ health' = [health EXCEPT ![a] = 0] /\ overlapped' = overlapped
        /\ type' = Selected(health[a], metrics.threat_level, metrics.recent_attacks)
    BY <1>4 DEF SelectType
  <2>2. /\ metrics \in Metrics /\ HealthScore(metrics) \in Int
        /\ metrics.threat_level \in Int /\ metrics.recent_attacks \in Int
    BY <2>1, ScoreIsNumber DEF Selection
  <2>3. /\ apc' \in [Api -> {"idle", "health", "select"}]
        /\ \A c \in Api \ {a} : apc'[c] = apc[c]
        /\ apc'[a] = "idle" /\ health' \in [Api -> Int]
        /\ \A c \in Api \ {a} : health'[c] = health[c]
    BY <2>1 DEF Selection
  <2>4. HealthScore(metrics') = HealthScore(metrics)  BY <2>1
  <2>5. TypeFitsMetrics'
    <3>1. CASE ~overlapped
      <4>1. health[a] = HealthScore(metrics)  BY <2>1, <3>1 DEF Selection
      <4>. QED  BY <2>1, <2>2, <2>4, <4>1, SelectedFits DEF TypeFitsMetrics
    <3>. QED  BY <2>1, <3>1 DEF TypeFitsMetrics
  <2>6. ~overlapped' =>
          /\ \A b, c \in Api : apc'[b] # "idle" /\ apc'[c] # "idle" => b = c
          /\ \A b \in Api : apc'[b] = "select" => health'[b] = HealthScore(metrics)
    BY <2>1, <2>3 DEF Selection
  <2>. QED  BY <2>1, <2>2, <2>3, <2>4, <2>5, <2>6 DEF Selection
<1>. QED
  BY <1>1, <1>2, <1>3, <1>4
  DEF Next, vars, Change, RemoveValidator, AddValidator, SlashValidator, CreateBlock, MineBlock,
      Dispatch, MinePow, HybridWeigh, HybridSolve, PosSelect, PosSign, AdjustDifficulty
----------------------------------------------------------------------------
(* The sum of stakes. *)

(* A sum from left to right exists. *)
LEMMA SumDefined ==
  ASSUME NEW n \in Nat, NEW share \in [1 .. n -> Nat]
  PROVE  \E sum : sum = [i \in 0 .. n |-> IF i = 0 THEN 0 ELSE sum[i - 1] + share[i]]
<1>. DEFINE Sums(k, sum) == sum = [i \in 0 .. k |-> IF i = 0 THEN 0 ELSE sum[i - 1] + share[i]]
            S == {k \in Nat : k <= n => \E sum : Sums(k, sum)}
<1>1. 0 \in S
  <2>. DEFINE sum == [i \in 0 .. 0 |-> 0]
  <2>1. Sums(0, sum)  OBVIOUS
  <2>. QED  BY <2>1
<1>2. ASSUME NEW k \in S PROVE k + 1 \in S
  <2>. SUFFICES ASSUME k + 1 <= n PROVE \E sum : Sums(k + 1, sum)  OBVIOUS
  <2>1. PICK f : Sums(k, f)  OBVIOUS
  <2>. DEFINE g == [i \in 0 .. k + 1 |-> IF i = k + 1 THEN f[k] + share[k + 1] ELSE f[i]]
  <2>2. ASSUME NEW i \in 0 .. k + 1
        PROVE  g[i] = IF i = 0 THEN 0 ELSE g[i - 1] + share[i]
    <3>1. CASE i = k + 1  BY <3>1
    <3>2. CASE i # k + 1
      <4>1. i \in 0 .. k /\ (i # 0 => i - 1 \in 0 .. k)  BY <3>2
      <4>2. f[i] = IF i = 0 THEN 0 ELSE f[i - 1] + share[i]  BY <2>1, <4>1
      <4>3. g[i] = f[i] /\ (i # 0 => g[i - 1] = f[i - 1])  BY <3>2, <4>1
      <4>. QED  BY <4>2, <4>3
    <3>. QED  BY <3>1, <3>2
  <2>3. g = [i \in 0 .. k + 1 |-> g[i]]  OBVIOUS
  <2>. HIDE DEF g
  <2>4. Sums(k + 1, g)  BY <2>2, <2>3
  <2>. QED  BY <2>4
<1>3. S \in SUBSET Nat  OBVIOUS
<1>. HIDE DEF S
<1>4. n \in S  BY <1>1, <1>2, <1>3, Induct
<1>5. n <= n => \E sum : Sums(n, sum)  BY <1>4, Zenon DEF S
<1>. QED  BY <1>5

Validators == Seq([address : Validator, stake : Nat])

LEMMA SumUpTo ==
  ASSUME validators \in Validators, NEW value \in [1 .. Len(validators) -> Nat]
  PROVE  /\ UpTo(value)[0] = 0
         /\ \A i \in 1 .. Len(validators) : UpTo(value)[i] = UpTo(value)[i - 1] + value[i]
         /\ \A i \in 0 .. Len(validators) : UpTo(value)[i] \in Nat
<1>. DEFINE n == Len(validators)
            sum == UpTo(value)
<1>1. n \in Nat /\ value \in [1 .. n -> Nat]  BY DEF Validators
<1>2. \E f : f = [i \in 0 .. n |-> IF i = 0 THEN 0 ELSE f[i - 1] + value[i]]
  <2>. HIDE DEF n
  <2>. QED  BY <1>1, SumDefined
<1>3. sum = [i \in 0 .. n |-> IF i = 0 THEN 0 ELSE sum[i - 1] + value[i]]
  BY <1>2, Zenon DEF UpTo
<1>. HIDE DEF n, sum
<1>4. sum[0] = 0 /\ \A i \in 1 .. n : sum[i] = sum[i - 1] + value[i]
  <2>1. \A i \in 0 .. n : sum[i] = IF i = 0 THEN 0 ELSE sum[i - 1] + value[i]
    BY <1>3, Zenon
  <2>. QED  BY <1>1, <2>1
<1>5. {i \in Nat : i <= n => sum[i] \in Nat} = Nat
  <2>. DEFINE S == {i \in Nat : i <= n => sum[i] \in Nat}
  <2>1. 0 \in S  BY <1>4
  <2>2. ASSUME NEW k \in S PROVE k + 1 \in S
    <3>. SUFFICES ASSUME k + 1 <= n PROVE sum[k + 1] \in Nat  OBVIOUS
    <3>1. k + 1 \in 1 .. n /\ sum[k] \in Nat  BY <1>1
    <3>2. sum[k + 1] = sum[k] + value[k + 1] /\ value[k + 1] \in Nat
      BY <1>1, <1>4, <3>1
    <3>. QED  BY <3>1, <3>2
  <2>. HIDE DEF S
  <2>3. S \in SUBSET Nat  BY DEF S
  <2>4. S = Nat  BY <2>1, <2>2, <2>3, Induct
  <2>. QED  BY <2>4 DEF S
<1>6. \A i \in 0 .. n : sum[i] \in Nat  BY <1>1, <1>5
<1>. QED  BY <1>4, <1>6 DEF n, sum
----------------------------------------------------------------------------
(* The validators, and the length of the chain, which is the slot.         *)

Members ==
  /\ validators \in Validators
  /\ \A i, j \in 1 .. Len(validators) : validators[i].address = validators[j].address => i = j
  /\ \A i \in 1 .. Len(validators) :
       validators[i].stake >= MinStake \/ validators[i].address \in slashed

Slots == Len(chain) \in 0 .. MaxLength /\ (pc # "idle" => Len(chain) < MaxLength)

LEMMA MemberAt ==
  ASSUME validators \in Validators, NEW i \in 1 .. Len(validators)
  PROVE  /\ validators[i] \in [address : Validator, stake : Nat]
         /\ validators[i].stake \in Nat
<1>1. validators[i] \in [address : Validator, stake : Nat]  BY ElementOfSeq DEF Validators
<1>. QED  BY <1>1

LEMMA OfMember ==
  ASSUME validators \in Validators, NEW v \in Registered
  PROVE  Of(v) \in 1 .. Len(validators) /\ validators[Of(v)].address = v
<1>1. DOMAIN validators = 1 .. Len(validators)  BY DEF Validators
<1>2. PICK i \in DOMAIN validators : validators[i].address = v  BY DEF Registered
<1>. QED  BY <1>1, <1>2 DEF Of

LEMMA PenaltyLeaves ==
  ASSUME NEW n \in Nat, NEW p \in 0 .. 100
  PROVE  n - (n * p) \div 100 \in Nat
<1>1. n * p \in Nat /\ n * p <= 100 * n  BY Z3
<1>. DEFINE m == n * p
<1>. HIDE DEF m
<1>2. m \in Nat /\ m <= 100 * n  BY <1>1 DEF m
<1>3. m \div 100 \in Nat /\ m \div 100 <= n  BY <1>2
<1>. QED  BY <1>3 DEF m

(* One validator gets another stake, and perhaps a mark. *)
LEMMA Restaked ==
  ASSUME Members, NEW v \in Registered, NEW amount \in Nat,
         validators' = [validators EXCEPT ![Of(v)] = [validators[Of(v)] EXCEPT !.stake = amount]],
         slashed' \cup {v} = slashed \cup {v}, amount >= MinStake \/ v \in slashed'
  PROVE  Members'
<1>. DEFINE k == Of(v)
            e == [validators[k] EXCEPT !.stake = amount]
<1>1. k \in 1 .. Len(validators) /\ validators[k].address = v
  BY OfMember DEF Members
<1>2. e \in [address : Validator, stake : Nat] /\ e.address = v /\ e.stake = amount
  BY <1>1, MemberAt DEF Members
<1>. HIDE DEF k, e
<1>3. validators' = [validators EXCEPT ![k] = e]  BY DEF k, e
<1>4. /\ validators' \in Validators /\ Len(validators') = Len(validators)
      /\ \A i \in 1 .. Len(validators) : validators'[i] = IF i = k THEN e ELSE validators[i]
  <2>1. validators \in Seq([address : Validator, stake : Nat])  BY DEF Members, Validators
  <2>. DEFINE T == [address : Validator, stake : Nat]
  <2>2. validators \in Seq(T) /\ e \in T  BY <1>2, <2>1
  <2>. HIDE DEF T
  <2>3. /\ [validators EXCEPT ![k] = e] \in Seq(T)
        /\ Len([validators EXCEPT ![k] = e]) = Len(validators)
        /\ \A i \in 1 .. Len(validators) :
             [validators EXCEPT ![k] = e][i] = IF i = k THEN e ELSE validators[i]
    BY <1>1, <2>2, ExceptSeq
  <2>. QED  BY <1>3, <2>3 DEF Validators, T
<1>5. \A i \in 1 .. Len(validators) : validators'[i].address = validators[i].address
  BY <1>1, <1>2, <1>4
<1>6. \A i \in 1 .. Len(validators) :
        validators'[i].stake >= MinStake \/ validators'[i].address \in slashed'
  <2>. SUFFICES ASSUME NEW i \in 1 .. Len(validators)
                PROVE  validators'[i].stake >= MinStake \/ validators'[i].address \in slashed'
    OBVIOUS
  <2>1. CASE i = k  BY <1>1, <1>2, <1>4, <2>1
  <2>2. CASE i # k
    <3>1. validators'[i] = validators[i]  BY <1>4, <2>2
    <3>2. validators[i].address # v  BY <1>1, <2>2 DEF Members
    <3>3. validators[i].address \in slashed => validators[i].address \in slashed'  BY <3>2
    <3>. QED  BY <3>1, <3>3 DEF Members
  <2>. QED  BY <2>1, <2>2
<1>7. \A i, j \in 1 .. Len(validators) :
        validators'[i].address = validators'[j].address => i = j
  BY <1>5 DEF Members
<1>. QED  BY <1>4, <1>6, <1>7 DEF Members

LEMMA MembersKept == Members /\ [Next]_vars => Members'
<1>. SUFFICES ASSUME Members, [Next]_vars PROVE Members'  OBVIOUS
<1>1. CASE UNCHANGED stake  BY <1>1 DEF stake, Members
<1>2. ASSUME NEW v \in Validator, NEW amount \in Stakes, AddValidator(v, amount) PROVE Members'
  <2>1. amount \in Nat /\ amount >= MinStake /\ slashed' = slashed \ {v}
    BY <1>2, ConsensusAssumption DEF AddValidator
  <2>2. CASE v \in Registered
    <3>1. validators' = [validators EXCEPT ![Of(v)].stake = amount]
      BY <1>2, <2>2 DEF AddValidator
    <3>. QED  BY <2>1, <2>2, <3>1, Restaked
  <2>3. CASE v \notin Registered
    <3>. DEFINE e == [address |-> v, stake |-> amount]
    <3>1. validators' = Append(validators, e) /\ e \in [address : Validator, stake : Nat]
          /\ e.address = v /\ e.stake = amount
      BY <1>2, <2>1, <2>3 DEF AddValidator
    <3>. HIDE DEF e
    <3>2. \A i \in 1 .. Len(validators) : validators[i].address # v
      BY <2>3 DEF Registered, Members, Validators
    <3>3. /\ validators' \in Validators /\ Len(validators') = Len(validators) + 1
          /\ \A i \in 1 .. Len(validators) : validators'[i] = validators[i]
          /\ validators'[Len(validators) + 1] = e
          /\ Len(validators) \in Nat
      BY <3>1 DEF Members, Validators
    <3>4. \A i \in 1 .. Len(validators') : i \in 1 .. Len(validators) \/ i = Len(validators) + 1
      BY <3>3
    <3>. QED  BY <2>1, <3>1, <3>2, <3>3, <3>4, SMTT(30) DEF Members
  <2>. QED  BY <2>2, <2>3
<1>3. ASSUME NEW v \in Validator, RemoveValidator(v) PROVE Members'
  <2>. DEFINE k == Of(v)
              n == Len(validators)
  <2>1. v \in Registered /\ validators' = RemoveAt(validators, k) /\ slashed' = slashed \ {v}
    BY <1>3 DEF RemoveValidator
  <2>2. k \in 1 .. n /\ validators[k].address = v /\ n \in Nat
    BY <2>1, OfMember DEF Members, Validators
  <2>. HIDE DEF k
  <2>3. /\ validators' \in Validators /\ Len(validators') = n - 1
        /\ \A i \in 1 .. n - 1 : validators'[i] = validators[IF i < k THEN i ELSE i + 1]
    <3>. DEFINE T == [address : Validator, stake : Nat]
                before == SubSeq(validators, 1, k - 1)
                after == SubSeq(validators, k + 1, n)
    <3>1. validators \in Seq(T) /\ \A i \in 1 .. n : validators[i] \in T
      BY MemberAt DEF Members, Validators
    <3>2. /\ before \in Seq(T) /\ Len(before) = k - 1
          /\ \A i \in 1 .. k - 1 : before[i] = validators[i]
      <4>1. 1 \in Int /\ k - 1 \in Int /\ \A i \in 1 .. k - 1 : validators[i] \in T
        BY <2>2, <3>1
      <4>. HIDE DEF T
      <4>. QED  BY <2>2, <4>1, SubSeqProperties
    <3>3. /\ after \in Seq(T) /\ Len(after) = n - k
          /\ \A i \in 1 .. n - k : after[i] = validators[k + i]
      <4>1. k + 1 \in Int /\ n \in Int /\ \A i \in k + 1 .. n : validators[i] \in T
        BY <2>2, <3>1
      <4>2. n - (k + 1) + 1 = n - k /\ \A i \in 1 .. n - k : (k + 1) + i - 1 = k + i
        BY <2>2
      <4>. HIDE DEF T, n
      <4>3. /\ after \in Seq(T) /\ Len(after) = IF k + 1 <= n THEN n - (k + 1) + 1 ELSE 0
            /\ \A i \in 1 .. n - (k + 1) + 1 : after[i] = validators[(k + 1) + i - 1]
        BY <4>1, SubSeqProperties
      <4>4. k \in Int /\ n \in Int /\ k <= n  BY <2>2
      <4>. QED  BY <4>2, <4>3, <4>4
    <3>4. validators' = before \o after  BY <2>1 DEF RemoveAt
    <3>. HIDE DEF T, before, after, n
    <3>5. /\ validators' \in Seq(T) /\ Len(validators') = Len(before) + Len(after)
          /\ \A i \in 1 .. Len(before) + Len(after) :
               validators'[i] = IF i <= Len(before) THEN before[i] ELSE after[i - Len(before)]
      BY <3>2, <3>3, <3>4, ConcatProperties
    <3>6. k \in 1 .. n /\ n \in Nat  BY <2>2
    <3>7. Len(validators') = n - 1  BY <3>2, <3>3, <3>5, <3>6
    <3>8. ASSUME NEW i \in 1 .. n - 1
          PROVE  validators'[i] = validators[IF i < k THEN i ELSE i + 1]
      <4>1. validators'[i] = IF i <= k - 1 THEN before[i] ELSE after[i - (k - 1)]
        BY <3>2, <3>3, <3>5, <3>6
      <4>2. CASE i < k  BY <3>2, <3>6, <4>1, <4>2
      <4>3. CASE ~(i < k)
        <5>1. i - (k - 1) \in 1 .. n - k /\ k + (i - (k - 1)) = i + 1  BY <3>6, <4>3
        <5>2. after[i - (k - 1)] = validators[i + 1]  BY <3>3, <5>1
        <5>. QED  BY <3>6, <4>1, <4>3, <5>2
      <4>. QED  BY <4>2, <4>3
    <3>. QED  BY <3>5, <3>7, <3>8 DEF Validators, T
  <2>4. \A i \in 1 .. n - 1 : /\ (IF i < k THEN i ELSE i + 1) \in 1 .. n
                              /\ (IF i < k THEN i ELSE i + 1) # k
    BY <2>2
  <2>5. \A i \in 1 .. n - 1 : validators'[i].address # v
    BY <2>2, <2>3, <2>4 DEF Members
  <2>6. \A i, j \in 1 .. n - 1 : validators'[i].address = validators'[j].address => i = j
    BY <2>2, <2>3, <2>4 DEF Members
  <2>. QED  BY <2>1, <2>2, <2>3, <2>4, <2>5, <2>6 DEF Members
<1>4. ASSUME NEW v \in Validator, NEW p \in Penalties, SlashValidator(v, p) PROVE Members'
  <2>. DEFINE n == validators[Of(v)].stake
              amount == n - (n * p) \div 100
  <2>1. v \in Registered /\ slashed' = slashed \cup {v}
        /\ validators' = [validators EXCEPT ![Of(v)].stake = amount]
    BY <1>4 DEF SlashValidator
  <2>2. Of(v) \in 1 .. Len(validators) /\ n \in Nat /\ p \in 0 .. 100
    BY <2>1, OfMember, MemberAt, ConsensusAssumption DEF Members
  <2>. HIDE DEF n
  <2>3. amount \in Nat  BY <2>2, PenaltyLeaves
  <2>. HIDE DEF amount
  <2>. QED  BY <2>1, <2>3, Restaked
<1>. QED
  BY <1>1, <1>2, <1>3, <1>4
  DEF Next, vars, UpdateMetrics, ReadHealth, SelectType, CreateBlock, MineBlock,
      Dispatch, MinePow, HybridWeigh, HybridSolve, PosSelect, PosSign, AdjustDifficulty

LEMMA SlotsKept == IInv /\ Slots /\ [Next]_vars => Slots'
<1>. SUFFICES ASSUME IInv, Slots, [Next]_vars PROVE Slots'  OBVIOUS
<1>1. chain \in Seq(Nat) /\ Len(chain) \in Nat /\ MaxLength \in Nat
  BY ConsensusAssumption DEF IInv, TypesOK
<1>2. \/ chain' = chain /\ (pc' # "idle" => pc # "idle" \/ Len(chain) < MaxLength)
      \/ pc # "idle" /\ pc' = "idle" /\ chain' = Append(chain, mining)
  BY DEF Next, vars, UpdateMetrics, ReadHealth, SelectType, CreateBlock, MineBlock, selection,
         stake, Dispatch, MinePow, HybridWeigh, HybridSolve, PosSelect, PosSign, Return,
         AdjustDifficulty, AddValidator, RemoveValidator, SlashValidator, miner
<1>3. CASE chain' = chain /\ (pc' # "idle" => pc # "idle" \/ Len(chain) < MaxLength)
  BY <1>3 DEF Slots
<1>4. CASE pc # "idle" /\ pc' = "idle" /\ chain' = Append(chain, mining)
  <2>1. mining \in Nat  BY <1>4 DEF IInv, TypesOK
  <2>2. Len(chain') = Len(chain) + 1  BY <1>1, <1>4, <2>1
  <2>. QED  BY <1>1, <1>4, <2>2 DEF Slots
<1>. QED  BY <1>2, <1>3, <1>4

(* One validator is found by its address alone. *)
LEMMA StakeAt ==
  ASSUME Members, NEW i \in 1 .. Len(validators)
  PROVE  StakeOf(validators[i].address) = validators[i].stake
<1>1. validators[i].address \in Registered  BY DEF Registered, Members, Validators
<1>2. Of(validators[i].address) = i  BY <1>1, OfMember DEF Members
<1>. QED  BY <1>2 DEF StakeOf

(* The first share that, added to those before, exceeds the draw, is one   *)
(* of somebody with a stake: what came before it does not exceed it.       *)
LEMMA SelectedHasShare ==
  ASSUME Members, NEW slot \in 0 .. MaxLength, TotalStake # 0
  PROVE  \/ StakeOf(SelectValidator(slot)) > 0
         \/ ShareOfAll <= Draw[slot] /\ SelectValidator(slot) = validators[1].address
<1>. DEFINE n == Len(validators)
            d == Draw[slot]
            staked == [i \in DOMAIN validators |-> validators[i].stake]
            weight == [i \in DOMAIN validators |-> Share(validators[i].stake, TotalStake)]
            S == {i \in DOMAIN validators : d < ShareUpTo[i]}
            m == Min(S)
<1>1. n \in Nat /\ DOMAIN validators = 1 .. n  BY DEF Members, Validators
<1>2. d \in Nat /\ Scale \in Nat \ {0}  BY ConsensusAssumption
<1>3. \A i \in 1 .. n : validators[i].stake \in Nat  BY MemberAt DEF Members
<1>4. TotalStake \in Nat \ {0} /\ n # 0
  <2>1. staked \in [1 .. n -> Nat]  BY <1>1, <1>3
  <2>. HIDE DEF staked
  <2>2. UpTo(staked)[0] = 0 /\ UpTo(staked)[n] \in Nat  BY <1>1, <2>1, SumUpTo DEF Members
  <2>3. TotalStake = UpTo(staked)[n]  BY DEF TotalStake, staked
  <2>. QED  BY <1>1, <2>2, <2>3
<1>5. weight \in [1 .. n -> Nat] /\ \A i \in 1 .. n : validators[i].stake = 0 => weight[i] = 0
  <2>1. \A i \in 1 .. n : /\ weight[i] = Share(validators[i].stake, TotalStake)
                          /\ weight[i] \in Nat
                          /\ validators[i].stake = 0 => weight[i] = 0
    <3>. SUFFICES ASSUME NEW i \in 1 .. n
                  PROVE  /\ weight[i] = Share(validators[i].stake, TotalStake)
                         /\ weight[i] \in Nat
                         /\ validators[i].stake = 0 => weight[i] = 0
      OBVIOUS
    <3>. DEFINE a == validators[i].stake
                p == a * Scale
    <3>1. weight[i] = p \div TotalStake  BY <1>1 DEF Share
    <3>2. a \in Nat  BY <1>3
    <3>3. p \in Nat /\ (a = 0 => p = 0)
      <4>. HIDE DEF a
      <4>. QED  BY <1>2, <3>2, Z3
    <3>. HIDE DEF p
    <3>4. p \div TotalStake \in Nat /\ (p = 0 => p \div TotalStake = 0)  BY <1>4, <3>3
    <3>5. weight[i] = Share(validators[i].stake, TotalStake)  BY <1>1
    <3>. HIDE DEF weight
    <3>. QED  BY <3>1, <3>3, <3>4, <3>5
  <2>2. weight = [i \in 1 .. n |-> weight[i]]  BY <1>1
  <2>. HIDE DEF weight
  <2>. QED  BY <2>1, <2>2
<1>6. ShareUpTo = UpTo(weight)  BY DEF ShareUpTo
<1>. HIDE DEF n, d, weight
<1>7. /\ ShareUpTo[0] = 0
      /\ \A i \in 1 .. n : ShareUpTo[i] = ShareUpTo[i - 1] + weight[i]
      /\ \A i \in 0 .. n : ShareUpTo[i] \in Nat
  BY <1>5, <1>6, SumUpTo DEF Members, n
<1>8. SelectValidator(slot) = validators[IF S # {} THEN m ELSE 1].address
  BY DEF SelectValidator, d
<1>9. CASE S = {}
  <2>1. ~(d < ShareUpTo[n])  BY <1>1, <1>4, <1>9
  <2>2. ShareOfAll <= Draw[slot]  BY <1>1, <1>2, <1>7, <2>1 DEF ShareOfAll, n, d
  <2>. QED  BY <1>8, <1>9, <2>2
<1>10. CASE S # {}
  <2>1. S \in SUBSET Nat  BY <1>1
  <2>2. m \in S /\ \A i \in S : m <= i
    <3>. HIDE DEF S
    <3>. QED  BY <1>10, <2>1, MinInSet
  <2>. HIDE DEF m
  <2>3. m \in 1 .. n /\ m - 1 \in 0 .. n /\ ~(m <= m - 1) /\ m - 1 \notin S
    BY <1>1, <2>2
  <2>4. ~(d < ShareUpTo[m - 1])
    <3>1. CASE m - 1 = 0  BY <1>2, <1>7, <3>1
    <3>2. CASE m - 1 # 0
      <4>1. m - 1 \in DOMAIN validators  BY <1>1, <2>3, <3>2
      <4>. QED  BY <2>3, <4>1
    <3>. QED  BY <3>1, <3>2
  <2>5. d < ShareUpTo[m]  BY <2>2
  <2>6. validators[m].stake # 0
    <3>. SUFFICES ASSUME validators[m].stake = 0 PROVE FALSE  OBVIOUS
    <3>1. ShareUpTo[m] = ShareUpTo[m - 1]  BY <1>5, <1>7, <2>3
    <3>. QED  BY <2>4, <2>5, <3>1
  <2>7. StakeOf(validators[m].address) = validators[m].stake
    <3>. HIDE DEF S
    <3>. QED  BY <2>3, StakeAt DEF n
  <2>8. validators[m].stake \in Nat  BY <1>3, <2>3
  <2>9. SelectValidator(slot) = validators[m].address  BY <1>8, <1>10
  <2>. QED  BY <2>6, <2>7, <2>8, <2>9
<1>. QED  BY <1>9, <1>10

LEMMA SpecMembers == Spec => [](IInv /\ Slots /\ Members /\ Selection)
<1>1. Init => Slots /\ Members /\ Selection
  BY ConsensusAssumption
  DEF Init, Slots, Members, Selection, Validators, TypeFitsMetrics, Reading
<1>2. IInv /\ Slots /\ Members /\ Selection /\ [Next]_vars
        => (IInv /\ Slots /\ Members /\ Selection)'
  BY NextIInv, SlotsKept, MembersKept, SelectionKept
<1>. QED  BY <1>1, <1>2, InitIInv, PTL DEF Spec

(* The right to mine follows the metrics and the stakes: the type of       *)
(* consensus fits the metrics once no update is under way, unless two have *)
(* overlapped; whoever is selected has a stake, or is the first validator  *)
(* and rounding has left the draw to nobody; and whoever proposes an       *)
(* accepted block has the minimum, or was slashed since joining.           *)
THEOREM RightsAlwaysFollow == Spec => MiningRightsFollow
<1>1. ASSUME Members, [Next]_vars, pc = "sign", chain' # chain
      PROVE  StakeOf(proposer) >= MinStake \/ proposer \in slashed
  <2>1. proposer \in Registered
    BY <1>1
    DEF Next, vars, miner, stake, UpdateMetrics, ReadHealth, SelectType, AddValidator, Change,
        RemoveValidator, SlashValidator, CreateBlock, MineBlock, Dispatch, HybridWeigh, MinePow,
        HybridSolve, PosSelect, PosSign, AdjustDifficulty
  <2>. QED  BY <1>1, <2>1, OfMember DEF Members, StakeOf
<1>2. ASSUME Slots, Members, [Next]_vars, proposer = NoOne, proposer' # NoOne, pc = "select"
      PROVE  \/ StakeOf(proposer') > 0
             \/ ShareOfAll <= Draw[Len(chain)] /\ proposer' = validators[1].address
  <2>1. PosSelect
    BY <1>2
    DEF Next, vars, miner, stake, UpdateMetrics, ReadHealth, SelectType, AddValidator, Change,
        RemoveValidator, SlashValidator, CreateBlock, MineBlock, Dispatch, HybridWeigh, MinePow,
        HybridSolve, PosSign, AdjustDifficulty
  <2>2. TotalStake # 0 /\ proposer' = SelectValidator(Len(chain))
    BY <1>2, <2>1 DEF PosSelect, Return
  <2>3. Len(chain) \in 0 .. MaxLength  BY <1>2 DEF Slots
  <2>. QED  BY <1>2, <2>2, <2>3, SelectedHasShare
<1>3. IInv /\ Slots /\ Members /\ Selection /\ [Next]_vars
        => [/\ pc = "sign" /\ chain' # chain => StakeOf(proposer) >= MinStake \/ proposer \in slashed
            /\ proposer = NoOne /\ proposer' # NoOne /\ pc = "select"
                 => \/ StakeOf(proposer') > 0
                    \/ ShareOfAll <= Draw[Len(chain)] /\ proposer' = validators[1].address]_vars
  BY <1>1, <1>2
<1>4. Selection => TypeFitsMetrics  BY DEF Selection
<1>. QED  BY <1>3, <1>4, SpecMembers, PTL DEF Spec, MiningRightsFollow, ProposerEligible
=============================================================================
