------------------------- MODULE MCHybridConsensus -------------------------
(***************************************************************************)
(* Up to two threads post the metrics of a healthy network, one with few   *)
(* nodes online, one that has been attacked, one under threat and one in   *)
(* trouble, while one thread makes and mines blocks.  A behaviour either   *)
(* mines two blocks in any order, up to three times, or turns to the       *)
(* metrics and the validators and mines one block.                         *)
(***************************************************************************)
EXTENDS HybridConsensus, TLC

CONSTANTS a1, a2, v1, v2

VARIABLE part

Symmetry == {p @@ q : p \in Permutations(Api), q \in Permutations(Validator)}

M(online, latency, threat, attacks) ==
  [online_nodes |-> online, total_nodes |-> 100, avg_latency_ms |-> latency,
   transaction_backlog |-> 0, threat_level |-> threat, recent_attacks |-> attacks]

MCMetrics ==
  {M(100, 0, 0, 0), M(55, 0, 0, 0), M(100, 0, 20, 1), M(100, 0, 60, 0), M(60, 900, 80, 0)}

(* Block 1 always meets the lowest difficulty, sometimes the highest;      *)
(* block 2 none with its first two nonces, the lower two with the others.  *)
MCZeros ==
  [b \in 1 .. MaxBlocks |-> [n \in 0 .. MaxNonce + Attempts |->
     IF b = 1 THEN (IF n = 1 THEN 3 ELSE 1) ELSE (IF n < 2 THEN 0 ELSE n - 1)]]

(* The lowest and the highest draw.  The shares of two validators are each *)
(* one of three parts, which leaves the last to the highest draw.          *)
MCDraw == [slot \in 0 .. MaxLength |-> IF slot = 0 THEN 0 ELSE Scale - 1]

MCInit == part \in {"blocks", "rights"} /\ Init

(* One update of the metrics at a time, and slashing that takes all.       *)
Blocks ==
  /\ part = "blocks" /\ changes' <= 2
  /\ Cardinality({a \in Api : apc'[a] # "idle"}) <= 1
  /\ \A i \in DOMAIN validators' : validators'[i].stake \in {0, 35}

(* One block, mined twice. *)
Rights ==
  /\ part = "rights" /\ Len(blocks') <= 1
  /\ \A b \in DOMAIN blocks' : blocks'[b].timestamp = 0
  /\ mining' # 0 => blocks[mining'].nonce <= 1

MCSpec == MCInit /\ [][Next /\ UNCHANGED part /\ (Blocks \/ Rights)]_<<part, vars>>
============================================================================
