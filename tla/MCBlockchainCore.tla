-------------------------- MODULE MCBlockchainCore --------------------------
(***************************************************************************)
(* A small instance of BlockchainCore: two engines, each mining for        *)
(* itself, one with and one without proof of work.  A header serves as its *)
(* own digest, a transaction's digest is its id.                           *)
(***************************************************************************)
EXTENDS BlockchainCore

CONSTANTS e1, e2, satoshi, alice, zero, t1, t2, t3

MCHash(h) == h

(* Work succeeds on the first or second nonce, and never on a block that   *)
(* holds t2 alone.                                                         *)
MCLeadingZeros(d) ==
  IF d = zero THEN 64 ELSE IF d.merkle_root = t2 THEN 0 ELSE (d.index + d.nonce) % 2

MCTxHash(t) == t.id
MCPairHash(a, b) == <<a, b>>

MCTx ==
  {[id |-> t1, from |-> satoshi, to |-> alice,   amount |-> 600000],
   [id |-> t2, from |-> satoshi, to |-> alice,   amount |-> 500000],
   [id |-> t3, from |-> satoshi, to |-> satoshi, amount |-> 1]}

MCMiner == (e1 :> alice) @@ (e2 :> satoshi)
MCDifficulty == (e1 :> 1) @@ (e2 :> 0)
MCMaxHeight == (e1 :> 3) @@ (e2 :> 2)
MCGenesisTime == (e1 :> 0) @@ (e2 :> 1)

(* Transactions lost, a header field changed without and with rehashing,   *)
(* the claimed hash changed.                                               *)
MCDamaged(b) ==
  {[b EXCEPT !.transactions = <<>>],
   [b EXCEPT !.header.nonce = @ + 1],
   UpdateHash([b EXCEPT !.header.nonce = @ + 1]),
   UpdateHash([b EXCEPT !.header.index = @ + 1])}

(* What somebody makes up on the genesis block of e1: a block that claims  *)
(* another's hash, one without work and with a transaction its Merkle root *)
(* does not cover, and one that skips a number.                            *)
MCGenesis == Genesis(e1)
MCBlock(index, nonce, difficulty) ==
  NewBlock(index, MCGenesis.hash, <<>>, nonce, difficulty, alice, 1)
MCForks ==
  {<<MCGenesis, b>> : b \in
     {[MCBlock(1, 0, 0) EXCEPT !.hash = MCGenesis.hash],
      [MCBlock(1, 1, 1) EXCEPT !.transactions = <<CHOOSE t \in MCTx : t.id = t3>>],
      MCBlock(2, 0, 0)}}
============================================================================
