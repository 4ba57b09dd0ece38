------------------------------- MODULE Block -------------------------------
(***************************************************************************)
(* Blocks, headers and transactions (satoshi-core/src/block.rs).           *)
(*                                                                         *)
(* SHA-256 is left uninterpreted: all the proofs assume of the header hash *)
(* is that two headers with the same digest are the same header            *)
(* (HashCollisionFree).  The header fields that never vary                 *)
(* (version, state_root) are left out; gas, calldata and signature of a    *)
(* transaction are not hashed by the code and play no role here.           *)
(***************************************************************************)
EXTENDS Integers, Sequences

CONSTANTS
  ZeroHash,         (* "000...0": genesis prev_hash, root of no leaves     *)
  Hash(_),          (* BlockHeader::hash                                   *)
  LeadingZeros(_),  (* number of leading '0' characters of a digest        *)
  TxHash(_),        (* Transaction::hash                                   *)
  PairHash(_, _),   (* the digest of two concatenated digests              *)
  Address,          (* account names                                       *)
  Tx                (* the transactions clients may submit                 *)

IsHeader(h) ==
  /\ {h.index, h.timestamp, h.nonce, h.difficulty} \subseteq Nat
  /\ h.miner \in Address

IsBlock(b) == IsHeader(b.header) /\ b.transactions \in Seq(Tx)

(* The only hypothesis on the hash function. *)
HashCollisionFree == \A g, h : Hash(g) = Hash(h) => g = h

(* A level of hashes, its last one duplicated when there is an odd number. *)
Padded(hs) == IF Len(hs) % 2 = 0 THEN hs ELSE Append(hs, hs[Len(hs)])

(* One round of the loop of compute_merkle_root; a single hash is final. *)
NextLevel(hs) ==
  IF Len(hs) <= 1 THEN hs
  ELSE [i \in 1 .. (Len(hs) + 1) \div 2 |->
          PairHash(Padded(hs)[2 * i - 1], Padded(hs)[2 * i])]

(* Level k of the tree over the leaves hs; level Len(hs) is a single hash. *)
MerkleLevel(hs) ==
  LET level[k \in 0 .. Len(hs)] == IF k = 0 THEN hs ELSE NextLevel(level[k - 1])
  IN  level

MerkleRootOf(hs) == IF hs = <<>> THEN ZeroHash ELSE MerkleLevel(hs)[Len(hs)][1]

TxHashes(txs) == [i \in DOMAIN txs |-> TxHash(txs[i])]

MerkleRoot(txs) == MerkleRootOf(TxHashes(txs))

(* Block::new *)
NewBlock(index, prev, txs, nonce, difficulty, miner, time) ==
  LET header == [index |-> index, timestamp |-> time, prev_hash |-> prev,
                 merkle_root |-> MerkleRoot(txs), nonce |-> nonce,
                 difficulty |-> difficulty, miner |-> miner]
  IN  [header |-> header, transactions |-> txs, hash |-> Hash(header)]

UpdateHash(b) == [b EXCEPT !.hash = Hash(b.header)]

MeetsDifficulty(b) == LeadingZeros(b.hash) >= b.header.difficulty
============================================================================
