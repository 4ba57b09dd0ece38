-------------------------- MODULE HybridConsensus --------------------------
(***************************************************************************)
(* The node's consensus engine (core/consensus/hybrid_consensus.py).       *)
(*                                                                         *)
(* One thread makes and mines blocks and keeps the validators; threads     *)
(* that serve POST /consensus/metrics (api/rest_api.py) change the type of *)
(* consensus meanwhile, without a lock.  Blocks are objects, named by the  *)
(* order of their creation: mining changes them in place, and any of them, *)
(* refused or already in the chain, may be mined again.                    *)
(***************************************************************************)
EXTENDS Integers, Sequences, SequencesExt, FiniteSetsExt

CONSTANTS
  Api,              (* threads that post metrics                           *)
  Metrics,          (* [online_nodes, total_nodes, avg_latency_ms,         *)
                    (*  transaction_backlog, threat_level, recent_attacks] *)
  Validator, Stakes, MinStake, Penalties,
  Zeros,            (* block -> nonce -> leading zeros of the hash         *)
  Attempts,         (* hashes tried before mining gives up                 *)
  Draw, Scale,      (* the random number for a slot is Draw[slot] / Scale  *)
  MaxDifficulty,
  Timestamps,       (* in units of the target block time                   *)
  MaxBlocks, MaxLength, MaxNonce, MaxChanges, MaxUpdates  (* bounds       *)

VARIABLES
  metrics, type,
  apc, health,      (* the Api threads in update_metrics                   *)
  overlapped,       (* history: did two updates of the metrics overlap?    *)
  difficulty,
  adjusted,         (* history: the difficulty last set on purpose         *)
  validators,       (* the dict, in its order: [address, stake]            *)
  slashed,          (* history: validators slashed since they were added   *)
  changes,          (* how often the validators have been changed          *)
  updates,          (* how often the metrics have been updated             *)
  blocks,           (* the block objects                                   *)
  chain,            (* the numbers of those that were accepted             *)
  remined,          (* history: blocks mined again while in the chain      *)
  pc, mining, proposer, original                 (* the miner's locals     *)

selection == <<metrics, type, apc, health, overlapped, updates>>
stake == <<validators, slashed, changes>>
miner == <<pc, mining, proposer, original>>
vars == <<selection, difficulty, adjusted, stake, blocks, chain, remined, miner>>

ASSUME ConsensusAssumption ==
  /\ {MinStake, Attempts, Scale, MaxDifficulty} \subseteq Nat \ {0}
  /\ {MaxBlocks, MaxLength, MaxNonce, MaxChanges, MaxUpdates} \subseteq Nat
  /\ Metrics \subseteq [online_nodes : Int, total_nodes : Int, avg_latency_ms : Int,
                       transaction_backlog : Int, threat_level : Int, recent_attacks : Int]
  /\ Stakes \subseteq Nat /\ Penalties \subseteq 0 .. 100 /\ Timestamps \subseteq Nat
  /\ \A b \in 1 .. MaxBlocks, n \in 0 .. MaxNonce + Attempts : Zeros[b][n] \in Nat
  /\ \A slot \in 0 .. MaxLength : Draw[slot] \in 0 .. Scale - 1

NoOne == "no one"
NoMetrics == [threat_level |-> -1]
Genesis == <<0, 0>>                        (* prev_hash of the first block *)
Hash(b, nonce) == <<b, nonce>>
Larger(m, n) == IF m >= n THEN m ELSE n
Smaller(m, n) == IF m <= n THEN m ELSE n

Init ==
  /\ metrics = NoMetrics /\ type = "pow"
  /\ apc = [a \in Api |-> "idle"] /\ health = [a \in Api |-> 0]
  /\ overlapped = FALSE /\ updates = 0
  /\ difficulty = 2 /\ adjusted = 2
  /\ validators = <<>> /\ slashed = {} /\ changes = 0
  /\ blocks = <<>> /\ chain = <<>> /\ remined = {}
  /\ pc = "idle" /\ mining = 0 /\ proposer = NoOne /\ original = 0

----------------------------------------------------------------------------
(* Choosing the type of consensus *)

(* health_score, in hundredths *)
HealthScore(m) ==
  (4000 * m.online_nodes) \div Larger(m.total_nodes, 1)
    + 3 * Larger(0, 1000 - m.avg_latency_ms)
    + Larger(0, 10000 - m.transaction_backlog) \div 5
    + 10 * Larger(0, 100 - m.threat_level)

Selected(score, threat, attacks) ==
  IF score >= 9000 /\ threat < 30 /\ attacks = 0 THEN "pow"
  ELSE IF score >= 7000 /\ threat < 50 THEN "hybrid_50_50"
  ELSE IF score >= 5000 /\ threat < 70 THEN "hybrid_70_30" ELSE "pos"

UpdateMetrics(a, m) ==
  /\ apc[a] = "idle"
  /\ updates < MaxUpdates /\ updates' = updates + 1
  /\ metrics' = m
  /\ apc' = [apc EXCEPT ![a] = "health"]
  /\ overlapped' = (overlapped \/ \E c \in Api : apc[c] # "idle")
  /\ UNCHANGED <<type, health, difficulty, adjusted, stake, blocks, chain, remined, miner>>

ReadHealth(a) ==
  /\ apc[a] = "health"
  /\ health' = [health EXCEPT ![a] = HealthScore(metrics)]
  /\ apc' = [apc EXCEPT ![a] = "select"]
  /\ UNCHANGED <<metrics, type, overlapped, updates, difficulty, adjusted, stake, blocks, chain, remined, miner>>

(* The threat level and the attacks are read from whatever is there by now. *)
SelectType(a) ==
  /\ apc[a] = "select"
  /\ type' = Selected(health[a], metrics.threat_level, metrics.recent_attacks)
  /\ health' = [health EXCEPT ![a] = 0]
  /\ apc' = [apc EXCEPT ![a] = "idle"]
  /\ UNCHANGED <<metrics, overlapped, updates, difficulty, adjusted, stake, blocks, chain, remined, miner>>

----------------------------------------------------------------------------
(* Validators *)

Registered == {validators[i].address : i \in DOMAIN validators}

Of(v) == CHOOSE i \in DOMAIN validators : validators[i].address = v

StakeOf(v) == validators[Of(v)].stake

(* Only the thread that mines changes them.                                *)
Change == pc = "idle" /\ changes < MaxChanges /\ changes' = changes + 1

(* Who is registered already keeps the place and gets the new stake.       *)
AddValidator(v, amount) ==
  /\ amount >= MinStake
  /\ Change
  /\ validators' = IF v \in Registered THEN [validators EXCEPT ![Of(v)].stake = amount]
                   ELSE Append(validators, [address |-> v, stake |-> amount])
  /\ slashed' = slashed \ {v}
  /\ UNCHANGED <<selection, difficulty, adjusted, blocks, chain, remined, miner>>

RemoveValidator(v) ==
  /\ v \in Registered
  /\ Change
  /\ validators' = RemoveAt(validators, Of(v))
  /\ slashed' = slashed \ {v}
  /\ UNCHANGED <<selection, difficulty, adjusted, blocks, chain, remined, miner>>

(* The stake may fall below the minimum, or to nothing.                    *)
SlashValidator(v, percentage) ==
  /\ v \in Registered
  /\ Change
  /\ validators' = [validators EXCEPT ![Of(v)].stake = @ - (@ * percentage) \div 100]
  /\ slashed' = slashed \cup {v}
  /\ UNCHANGED <<selection, difficulty, adjusted, blocks, chain, remined, miner>>

(* Sums of a value of each validator, in the order of the dict.            *)
UpTo(value) ==
  LET sum[i \in 0 .. Len(validators)] == IF i = 0 THEN 0 ELSE sum[i - 1] + value[i] IN sum

TotalStake == UpTo([i \in DOMAIN validators |-> validators[i].stake])[Len(validators)]

(* The quotient is a float: rounded, so that the shares of all may add up  *)
(* to less than the whole, as they do of 59, 58 and 57.  Here it is        *)
(* rounded down to a multiple of 1 / Scale, and given in that unit.        *)
Share(amount, total) == (amount * Scale) \div total

ShareUpTo == UpTo([i \in DOMAIN validators |-> Share(validators[i].stake, TotalStake)])

ShareOfAll == ShareUpTo[Len(validators)]

(* Faulty variant: the borders between validators belong to the one before. *)
SelectValidatorAtBorder(slot) ==
  LET Reached == {i \in DOMAIN validators : Draw[slot] <= ShareUpTo[i]}
  IN  validators[IF Reached # {} THEN Min(Reached) ELSE 1].address

(* select_validator, for some stake in all: the first whose share, added   *)
(* to those before, exceeds the draw; if none does, the first of all.      *)
SelectValidator(slot) ==
  LET Reached == {i \in DOMAIN validators : Draw[slot] < ShareUpTo[i]}
  IN  validators[IF Reached # {} THEN Min(Reached) ELSE 1].address

----------------------------------------------------------------------------
(* Making and mining blocks *)

TipHash == IF chain = <<>> THEN Genesis ELSE blocks[Last(chain)].hash

(* Faulty variant: on the block made last, mined or not. *)
CreateBlockOnLatest(timestamp) ==
  /\ pc = "idle"
  /\ Len(blocks) < MaxBlocks
  /\ blocks' = Append(blocks,
       [index |-> Len(chain), timestamp |-> timestamp, nonce |-> 0, hash |-> <<>>,
        prev_hash |-> IF blocks = <<>> THEN Genesis ELSE Last(blocks).hash])
  /\ UNCHANGED <<selection, difficulty, adjusted, stake, chain, remined, miner>>

CreateBlock(timestamp) ==
  /\ pc = "idle"
  /\ Len(blocks) < MaxBlocks
  /\ blocks' = Append(blocks,
       [index |-> Len(chain), timestamp |-> timestamp, nonce |-> 0, hash |-> <<>>,
        prev_hash |-> TipHash])
  /\ UNCHANGED <<selection, difficulty, adjusted, stake, chain, remined, miner>>

(* Nothing keeps a block that is in the chain from being mined again.      *)
MineBlock(b, p) ==
  /\ pc = "idle"
  /\ b \in DOMAIN blocks
  /\ blocks[b].nonce <= MaxNonce /\ Len(chain) < MaxLength
  /\ pc' = "is_pow" /\ mining' = b /\ proposer' = p
  /\ remined' = remined \cup ({b} \cap ToSet(chain))
  /\ UNCHANGED <<selection, difficulty, adjusted, stake, blocks, chain, original>>

Return == pc' = "idle" /\ mining' = 0 /\ proposer' = NoOne

(* mine_block reads the type for every comparison: if it changes meanwhile *)
(* none may apply.                                                         *)
Dispatch ==
  /\ \/ pc = "is_pow" /\ pc' = (IF type = "pow" THEN "pow" ELSE "is_pos")
                      /\ UNCHANGED <<mining, proposer>>
     \/ pc = "is_pos" /\ pc' = (IF type = "pos" THEN "select" ELSE "is_hybrid")
                      /\ UNCHANGED <<mining, proposer>>
     \/ pc = "is_hybrid" /\ IF type \in {"hybrid_50_50", "hybrid_70_30"}
                            THEN pc' = "weigh" /\ UNCHANGED <<mining, proposer>>
                            ELSE Return
  /\ UNCHANGED <<selection, difficulty, adjusted, stake, blocks, chain, remined, original>>

(* The nonces solve tries that are good enough.                            *)
Solutions(b) ==
  {n \in blocks[b].nonce .. blocks[b].nonce + Attempts - 1 : Zeros[b][n] >= difficulty}

(* The block as solve leaves it; without a solution, with the next nonce   *)
(* and the hash of the one before.                                         *)
Solved(b) ==
  LET n == IF Solutions(b) # {} THEN Min(Solutions(b)) ELSE blocks[b].nonce + Attempts IN
  [blocks[b] EXCEPT !.nonce = n,
                    !.hash = Hash(b, IF Solutions(b) # {} THEN n ELSE n - 1)]

MinePow ==
  /\ pc = "pow"
  /\ blocks' = [blocks EXCEPT ![mining] = Solved(mining)]
  /\ chain' = IF Solutions(mining) # {} THEN Append(chain, mining) ELSE chain
  /\ Return
  /\ UNCHANGED <<selection, difficulty, adjusted, stake, remined, original>>

(* The type is read once more: any but 50/50 counts as 70/30.              *)
Weighted(d) == IF type = "hybrid_50_50" THEN d \div 2 ELSE (3 * d) \div 10

HybridWeigh ==
  /\ pc = "weigh"
  /\ original' = difficulty
  /\ difficulty' = Larger(1, Weighted(difficulty))
  /\ pc' = "solve"
  /\ UNCHANGED <<selection, adjusted, stake, blocks, chain, remined, mining, proposer>>

(* Faulty variant: the difficulty is restored if the work succeeds. *)
HybridSolveNoFinally ==
  /\ pc = "solve"
  /\ blocks' = [blocks EXCEPT ![mining] = Solved(mining)]
  /\ difficulty' = IF Solutions(mining) # {} THEN original ELSE difficulty
  /\ original' = 0
  /\ pc' = "select"
  /\ UNCHANGED <<selection, adjusted, stake, chain, remined, mining, proposer>>

(* Failure to solve is passed over.                                        *)
HybridSolve ==
  /\ pc = "solve"
  /\ blocks' = [blocks EXCEPT ![mining] = Solved(mining)]
  /\ difficulty' = original
  /\ original' = 0
  /\ pc' = "select"
  /\ UNCHANGED <<selection, adjusted, stake, chain, remined, mining, proposer>>

(* Nobody to select: mine_block returns False; only validators without     *)
(* stake: the division by the total raises.                                *)
PosSelect ==
  /\ pc = "select"
  /\ IF proposer # NoOne THEN pc' = "sign" /\ UNCHANGED <<mining, proposer>>
     ELSE IF validators = <<>> \/ TotalStake = 0 THEN Return
     ELSE pc' = "sign" /\ proposer' = SelectValidator(Len(chain)) /\ UNCHANGED mining
  /\ UNCHANGED <<selection, difficulty, adjusted, stake, blocks, chain, remined, original>>

(* Sign, validate, append.                                                 *)
PosSign ==
  /\ pc = "sign"
  /\ IF proposer \in Registered
     THEN /\ blocks' = [blocks EXCEPT ![mining].hash = Hash(mining, blocks[mining].nonce)]
          /\ chain' = Append(chain, mining)
     ELSE UNCHANGED <<blocks, chain>>
  /\ Return
  /\ UNCHANGED <<selection, difficulty, adjusted, stake, remined, original>>

(* adjust_difficulty: the time the last ten blocks took against their      *)
(* number.                                                                 *)
AdjustDifficulty ==
  /\ pc = "idle"
  /\ Len(chain) >= 2
  /\ LET recent == SubSeq(chain, Larger(1, Len(chain) - 9), Len(chain))
         total == blocks[Last(recent)].timestamp - blocks[recent[1]].timestamp
     IN  difficulty' = IF total > Len(recent) THEN Larger(1, difficulty - 1)
                       ELSE Smaller(MaxDifficulty, difficulty + 1)
  /\ adjusted' = difficulty'
  /\ UNCHANGED <<selection, stake, blocks, chain, remined, miner>>

Next ==
  \/ \E a \in Api : ReadHealth(a) \/ SelectType(a) \/ \E m \in Metrics : UpdateMetrics(a, m)
  \/ \E v \in Validator :
       \/ RemoveValidator(v)
       \/ \E amount \in Stakes : AddValidator(v, amount)
       \/ \E percentage \in Penalties : SlashValidator(v, percentage)
  \/ \E t \in Timestamps : CreateBlock(t)
  \/ \E b \in DOMAIN blocks, p \in Validator \cup {NoOne} : MineBlock(b, p)
  \/ Dispatch \/ MinePow \/ HybridWeigh \/ HybridSolve \/ PosSelect \/ PosSign
  \/ AdjustDifficulty

Spec == Init /\ [][Next]_vars
----------------------------------------------------------------------------
(* Properties *)

(* Once no update is under way, the type fits the metrics that are stored: *)
(* work alone counts only in peace, and stake alone exactly in an          *)
(* emergency.  Two overlapping updates may leave a type that fits neither. *)
TypeFitsMetrics ==
  overlapped \/ metrics = NoMetrics \/ (\E a \in Api : apc[a] # "idle") \/
    /\ type = "pow" => metrics.threat_level < 30 /\ metrics.recent_attacks = 0
    /\ type = "pos" <=> metrics.threat_level >= 70 \/ HealthScore(metrics) < 5000

(* The chain is a tree of blocks laid out in the order they were mined:    *)
(* each names, by index and hash, the block it was made on, and that one   *)
(* stands before it -- not always right before it, since a block made on   *)
(* an older tip is appended all the same -- and none is in it twice.  Only *)
(* a block that is mined again while it is in the chain may be rehashed    *)
(* under those that name it, or be appended once more.                     *)
ChainIsTree ==
  \A i \in DOMAIN chain :
    LET b == blocks[chain[i]] IN
    /\ b.index < i
    /\ IF b.index = 0 THEN b.prev_hash = Genesis
       ELSE LET parent == chain[b.index] IN
            b.prev_hash = blocks[parent].hash \/ parent \in remined
    /\ chain[i] \notin remined => /\ b.hash = Hash(chain[i], b.nonce)
                                 /\ \A j \in DOMAIN chain \ {i} : chain[j] # chain[i]

(* What is mined by work alone meets the difficulty last adjusted to, even *)
(* after hybrid mining, successful or not, has worked with a lower one.    *)
WorkMeetsDifficulty ==
  [][pc = "pow" /\ chain' # chain
       => LET b == Last(chain') IN Zeros[b][blocks'[b].nonce] >= adjusted]_vars

(* Whoever proposes an accepted block has at least the minimum stake then, *)
(* or has been slashed since joining.  Whoever is selected has some stake, *)
(* unless rounding leaves the shares of all at or below the draw: then it  *)
(* is the first validator, whatever its stake.                             *)
ProposerEligible ==
  [][/\ pc = "sign" /\ chain' # chain => StakeOf(proposer) >= MinStake \/ proposer \in slashed
     /\ proposer = NoOne /\ proposer' # NoOne /\ pc = "select"
          => \/ StakeOf(proposer') > 0
             \/ ShareOfAll <= Draw[Len(chain)] /\ proposer' = validators[1].address]_vars

(* Who may mine, and how: the type follows the metrics, the proposer the   *)
(* stakes (hybrid_consensus.py:140-166, 206-229).                          *)
MiningRightsFollow == []TypeFitsMetrics /\ ProposerEligible

============================================================================
