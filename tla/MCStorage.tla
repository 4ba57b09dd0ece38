----------------------------- MODULE MCStorage -----------------------------
(***************************************************************************)
(* The block store and the two digests, side by side: a behaviour applies  *)
(* blocks of two branches of two on one genesis block while one reader     *)
(* reads, builds a list of Merkle leaves, or builds an account trie.       *)
(***************************************************************************)
EXTENDS BlockStore, MerkleTree, StateTrie

CONSTANTS g, a1, a2, b1, b2, t1, t2, t3, r1

VARIABLE part

MCBlock ==
  {[hash |-> g,  index |-> 0, prev |-> g,  txs |-> <<>>],
   [hash |-> a1, index |-> 1, prev |-> g,  txs |-> <<t1, t2>>],
   [hash |-> b1, index |-> 1, prev |-> g,  txs |-> <<t3>>],
   [hash |-> a2, index |-> 2, prev |-> a1, txs |-> <<t3>>],
   [hash |-> b2, index |-> 2, prev |-> b1, txs |-> <<t1, t2>>]}

MCPairHash(a, b) == <<a, b>>
MCIgnored(x) == x
MCPathOf == [a |-> <<0, 0, 0>>, b |-> <<0, 0, 1>>, c |-> <<0, 1, 1>>, d |-> <<1, 0, 1>>]

StorageInit == part \in {"store", "merkle", "trie"} /\ Init /\ MerkleInit /\ TrieInit

StorageNext ==
  /\ UNCHANGED part
  /\ \/ part = "store" /\ Next /\ UNCHANGED <<leaves, trieVars>>
     \/ part = "merkle" /\ MerkleNext /\ UNCHANGED <<vars, trieVars>>
     \/ part = "trie" /\ TrieNext /\ UNCHANGED <<vars, leaves>>

StorageSpec == StorageInit /\ [][StorageNext]_<<part, vars, leaves, trieVars>>
============================================================================
