----------------------------- MODULE MCMempool -----------------------------
(***************************************************************************)
(* Two senders; one of them sends two transactions with one nonce, and the *)
(* next nonce at a higher price.  A behaviour either lets two threads      *)
(* work on the pool at once, or one at a time, which is when blocks are    *)
(* selected for.                                                           *)
(***************************************************************************)
EXTENDS Mempool, TLC

CONSTANTS thread_a, thread_b, alice, bob

VARIABLE part

Symmetry == Permutations(Thread)

MCAccountNonce == (alice :> 1) @@ (bob :> 0)

FirstOfBob == [id |-> 4, from |-> bob, nonce |-> 0, gas_price |-> 1, gas_limit |-> 3]

MCTx ==
  {[id |-> 1, from |-> alice, nonce |-> 1, gas_price |-> 1, gas_limit |-> 2],
   [id |-> 2, from |-> alice, nonce |-> 1, gas_price |-> 2, gas_limit |-> 1],
   [id |-> 3, from |-> alice, nonce |-> 2, gas_price |-> 2, gas_limit |-> 2],
   FirstOfBob}

MCInit == part \in {"threads", "blocks"} /\ PoolInit

(* bob's transaction is in the pool before anything overlaps; at most two  *)
(* transactions are removed or evicted.                                    *)
Together ==
  /\ part = "threads" /\ UNCHANGED selected
  /\ stats'.mined + Cardinality(Unfinished') <= 2
  /\ stats.added = 0 => clock' = 0 /\ \A th \in Thread : entry'[th].tx \in {NoTx, FirstOfBob}
                        /\ Cardinality(Busy') <= 1

OneAtATime == part = "blocks" /\ Cardinality({th \in Thread : apc'[th] # "idle"}) <= 1

MCSpec ==
  MCInit /\ [][PoolNext /\ UNCHANGED part /\ (Together \/ OneAtATime)]_<<part, poolVars>>
============================================================================
