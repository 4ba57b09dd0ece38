----------------------------- MODULE MerkleTree -----------------------------
(***************************************************************************)
(* The Merkle tree with inclusion proofs of blockchain_core.rs, beside the *)
(* root computation block.rs has of its own.  The one variable is the list *)
(* of leaves an embedder builds trees from.                                *)
(***************************************************************************)
EXTENDS Block, FiniteSetsExt

CONSTANTS Leaf, MaxLeaves     (* leaf hashes; bound of the model            *)

VARIABLE leaves

ASSUME MerkleAssumption == MaxLeaves \in Nat

MerkleInit == leaves = <<>>

AddLeaf(x) == Len(leaves) < MaxLeaves /\ leaves' = Append(leaves, x)

MerkleNext == \E x \in Leaf : AddLeaf(x)

MerkleSpec == MerkleInit /\ [][MerkleNext]_leaves

----------------------------------------------------------------------------
(* Number of rounds of build's loop: the first level of a single hash.     *)
Depth(hs) ==
  IF hs = <<>> THEN 0
  ELSE Min({k \in 0 .. Len(hs) : Len(MerkleLevel(hs)[k]) = 1})

(* build: the levels are stored as they come out of a round, before the    *)
(* next round pads them to an even length.                                 *)
Build(hs) ==
  [root |-> IF hs = <<>> THEN ZeroHash ELSE MerkleLevel(hs)[Depth(hs)][1],
   levels |-> IF hs = <<>> THEN <<>>
              ELSE [k \in 1 .. Depth(hs) + 1 |-> MerkleLevel(hs)[k - 1]]]

(* The neighbour of position i, counted from 0. *)
Sibling(i) == IF i % 2 = 0 THEN i + 1 ELSE i - 1

HasSibling(level, i) == Sibling(i) < Len(level)

(* The hash at a node's sibling, and whether it goes to the right.         *)
SiblingStep(level, i) == <<level[Sibling(i) + 1], i % 2 = 0>>

(* One round of proof's loop.  It looks in the stored, unpadded level, so  *)
(* a last node without neighbour contributes nothing.                      *)
ProofRound(soFar, level) ==
  [idx |-> soFar.idx \div 2,
   steps |-> IF HasSibling(level, soFar.idx)
             THEN Append(soFar.steps, SiblingStep(level, soFar.idx)) ELSE soFar.steps]

(* The position reached and the steps collected after k rounds.            *)
ProofAfter(tree, index) ==
  LET after[k \in 0 .. Len(tree.levels)] ==
        IF k = 0 THEN [idx |-> index, steps |-> <<>>]
        ELSE ProofRound(after[k - 1], tree.levels[k])
  IN  after

(* proof: the siblings from the leaf to below the root.                    *)
Proof(tree, index) == ProofAfter(tree, index)[Len(tree.levels) - 1].steps

(* Faulty variant: the sibling's side is ignored. *)
ClimbUnordered(hash, step) == PairHash(hash, step[1])

(* One step of verify_proof: the sibling goes to the right when the proof  *)
(* says so.                                                                *)
Climb(hash, step) ==
  IF step[2] THEN PairHash(hash, step[1]) ELSE PairHash(step[1], hash)

(* The hash after the first p steps of the proof.                          *)
Climbed(leaf, proof) ==
  LET hash[p \in 0 .. Len(proof)] ==
        IF p = 0 THEN leaf ELSE Climb(hash[p - 1], proof[p])
  IN  hash

VerifyProof(leaf, proof, root) == Climbed(leaf, proof)[Len(proof)] = root

----------------------------------------------------------------------------
(* Properties *)

(* Some ancestor of the leaf, below the root, is last in a level of odd    *)
(* length: its partner in the tree is its own copy.                        *)
PairedWithItself(tree, index) ==
  \E k \in 1 .. Len(tree.levels) - 1 :
    ~HasSibling(tree.levels[k], ProofAfter(tree, index)[k - 1].idx)

(* The proof of a leaf verifies exactly when no ancestor of the leaf was   *)
(* paired with its own copy: proof omits that copy, so verify_proof        *)
(* rejects the inclusion proof of the last leaf of an odd level.           *)
ProofsVerify ==
  \A i \in 1 .. Len(leaves) :
    VerifyProof(leaves[i], Proof(Build(leaves), i - 1), Build(leaves).root)
      <=> ~PairedWithItself(Build(leaves), i - 1)

(* Among lists of one length, the Merkle root determines the leaves: no    *)
(* transaction can be replaced or moved under an unchanged root.           *)
RootBindsLeaves ==
  \A other \in [1 .. Len(leaves) -> Leaf] :
    MerkleRootOf(other) = MerkleRootOf(leaves) => other = leaves

(* Proofs and roots agree (blockchain_core.rs:22-84, block.rs:145-167).    *)
MerkleSound == ProofsVerify /\ RootBindsLeaves
============================================================================
