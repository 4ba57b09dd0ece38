--------------------------- MODULE BlockchainCore ---------------------------
(***************************************************************************)
(* The blockchain engine (satoshi-core/src/blockchain_core.rs): a chain, a *)
(* pool of pending transactions, a proof-of-work miner and a ledger of     *)
(* balances, and several engines that hand each other blocks and chains.   *)
(*                                                                         *)
(* Each engine is used through &mut self, so its calls do not interleave   *)
(* with one another.  Carrying blocks from engine to engine is left to the *)
(* embedding program: here a block or a chain, once it exists, can arrive  *)
(* anywhere, late, repeatedly or never.  A single block may also arrive    *)
(* damaged (Damaged), a chain may arrive in part, and chains that nobody   *)
(* mined may be offered (Forks).                                           *)
(***************************************************************************)
EXTENDS Chain, FiniteSets, SequencesExt, FiniteSetsExt

CONSTANTS
  Miner,            (* Engine -> miner_address                             *)
  Difficulty,       (* Engine -> difficulty the engine mines with          *)
  PoolCapacity,     (* capacity of the pool, 10 000                        *)
  BlockTxLimit,     (* transactions drained into a block, 500              *)
  MaxAttempts,      (* MAX_MINING_ATTEMPTS                                 *)
  GenesisCredit,    (* balance of the genesis miner, 1 000 000             *)
  BlockReward,      (* 50                                                  *)
  Time,             (* clock readings                                      *)
  Damaged(_),       (* what a block may have become in transit             *)
  Forks,            (* chains others may make up, valid or not             *)
  MaxHeight,        (* bound of the model, Engine -> the height beyond     *)
                    (* which it does not mine                              *)
  MaxRefused        (* bound of the model: nor after so many of its blocks *)
                    (* have been refused                                   *)

VARIABLES
  pending,          (* Engine -> transactions in the pool (keyed by id)    *)
  balances,         (* Engine -> (Address -> amount); absent keys are 0    *)
  seen,             (* history: every chain some engine has had            *)
  accepted,         (* history: Engine -> transactions accepted so far     *)
  refused,          (* history: Engine -> how many blocks it has mined and *)
                    (* paid out that its own chain would not take          *)
  mishaps           (* history: Engine -> what has happened to it, among   *)
                    (* "pow" (a mining attempt failed), "block" (a block   *)
                    (* of another engine was appended), "reorg" (its chain *)
                    (* was replaced)                                       *)

vars == <<blocks, block_index, adopted, pending, balances, seen, accepted, refused,
          mishaps>>

ASSUME CoreAssumption ==
  /\ Miner \in [Engine -> Address]
  /\ Difficulty \in [Engine -> Nat]
  /\ IsFiniteSet(Address) /\ IsFiniteSet(Tx)
  /\ \A t \in Tx : t.from \in Address /\ t.to \in Address /\ t.amount \in Nat
  /\ {PoolCapacity, BlockTxLimit, MaxAttempts} \subseteq Nat
  /\ {GenesisCredit, BlockReward, MaxRefused} \subseteq Nat
  /\ MaxHeight \in [Engine -> Nat]
  /\ Time \subseteq Nat
  /\ \A c \in Forks : /\ c \in Seq({c[i] : i \in DOMAIN c})
                       /\ \A i \in 1 .. Len(c) : IsBlock(c[i])

NoCredit == [a \in Address |-> 0]

CoreInit ==
  /\ ChainInit
  /\ pending = [e \in Engine |-> {}]
  /\ balances = [e \in Engine |-> [NoCredit EXCEPT ![GenesisMiner] = GenesisCredit]]
  /\ seen = {<<Genesis(e)>> : e \in Engine}
  /\ accepted = [e \in Engine |-> {}]
  /\ refused = [e \in Engine |-> 0]
  /\ mishaps = [e \in Engine |-> {}]

----------------------------------------------------------------------------
(* InternalMempool *)

PoolFull(pool) == Cardinality(pool) >= PoolCapacity

(* Faulty variant: draining empties the pool. *)
UndrainedNone(pool, txs) == {}

(* What drain leaves in the pool. *)
Undrained(pool, txs) == pool \ {txs[i] : i \in DOMAIN txs}

(* drain(count): up to count entries, in whatever order the HashMap yields *)
(* its keys.                                                               *)
DrainOrders(pool, count) ==
  LET n == Min({Cardinality(pool), count})
  IN  {s \in [1 .. n -> pool] : \A i, j \in 1 .. n : s[i] = s[j] => i = j}

(* submit_transaction: only the confirmed balance is consulted, never what *)
(* the sender already has pending.                                         *)
SubmitTransaction(e, t) ==
  /\ balances[e][t.from] >= t.amount
  /\ ~PoolFull(pending[e])
  /\ pending' = [pending EXCEPT ![e] = @ \cup {t}]
  /\ accepted' = [accepted EXCEPT ![e] = @ \cup {t}]
  /\ UNCHANGED <<chainVars, balances, seen, refused, mishaps>>

----------------------------------------------------------------------------
(* Mining *)

(* mine_pow tries the template's nonce and the MaxAttempts that follow.    *)
WithNonce(b, k) == UpdateHash([b EXCEPT !.header.nonce = @ + k])

Solutions(b) == {k \in 0 .. MaxAttempts : MeetsDifficulty(WithNonce(b, k))}

Mined(b) == WithNonce(b, Min(Solutions(b)))

SaturatingSub(x, y) == IF x >= y THEN x - y ELSE 0

(* Faulty variant: the credit is computed from the balances before the     *)
(* debit.                                                                  *)
TransferFromOldBalances(bal, t) ==
  [bal EXCEPT ![t.from] = SaturatingSub(@, t.amount), ![t.to] = bal[t.to] + t.amount]

(* One iteration of the loop that applies transactions to the ledger: the  *)
(* debit saturates at zero, the credit is always the full amount.          *)
Transfer(bal, t) ==
  LET debited == [bal EXCEPT ![t.from] = SaturatingSub(@, t.amount)]
  IN  [debited EXCEPT ![t.to] = @ + t.amount]

(* The ledger after the first i transactions of a block. *)
Transfers(bal, txs) ==
  LET after[i \in 0 .. Len(txs)] ==
        IF i = 0 THEN bal ELSE Transfer(after[i - 1], txs[i])
  IN  after

TransferAll(bal, txs) == Transfers(bal, txs)[Len(txs)]

(* The ledger after the block b: its transfers, then the reward.           *)
ApplyBlock(bal, b) ==
  [TransferAll(bal, b.transactions) EXCEPT ![b.header.miner] = @ + BlockReward]

(* The block template mine_next_block builds on the tip.                   *)
Template(e, txs, time) ==
  NewBlock(Height(blocks[e]), Tip(blocks[e]).hash, txs, 0, Difficulty[e], Miner[e], time)

(* Proof of work fails: the drained transactions are gone, nothing else    *)
(* has changed.                                                            *)
MineFails(e, template) ==
  /\ Solutions(template) = {}
  /\ mishaps' = [mishaps EXCEPT ![e] = @ \cup {"pow"}]
  /\ UNCHANGED <<chainVars, balances, seen, refused>>

(* The ledger is updated first; add_block may then still refuse the block. *)
MineSucceeds(e, template) ==
  /\ Solutions(template) # {}
  /\ LET b == Mined(template) IN
       /\ balances' = [balances EXCEPT ![e] = ApplyBlock(@, b)]
       /\ IF ValidateBlock(blocks[e], b)
          THEN /\ Extend(e, b) /\ seen' = seen \cup {blocks'[e]}
               /\ UNCHANGED refused
          ELSE /\ refused' = [refused EXCEPT ![e] = @ + 1]
               /\ UNCHANGED <<chainVars, seen>>
  /\ UNCHANGED mishaps

MineNextBlock(e) ==
  /\ Height(blocks[e]) < MaxHeight[e] /\ refused[e] < MaxRefused
  /\ \E txs \in DrainOrders(pending[e], BlockTxLimit), time \in Time :
       /\ pending' = [pending EXCEPT ![e] = Undrained(@, txs)]
       /\ \/ MineFails(e, Template(e, txs, time))
          \/ MineSucceeds(e, Template(e, txs, time))
  /\ UNCHANGED accepted

----------------------------------------------------------------------------
(* Blocks and chains of other engines arrive: chain.add_block and          *)
(* chain.handle_fork are public and touch neither ledger nor pool.         *)

Arriving == UNION {UNION {{c[i]} \cup Damaged(c[i]) : i \in DOMAIN c} : c \in seen}

(* Candidates for handle_fork: any chain somebody has had or has made up,  *)
(* or any stretch of it (a peer may well answer with the blocks since some *)
(* height).                                                                *)
Candidates == UNION {{SubSeq(c, i, j) : i, j \in DOMAIN c} : c \in seen \cup Forks}

ReceiveBlock(e, b) ==
  /\ AddBlock(e, b)
  /\ seen' = seen \cup {blocks'[e]}
  /\ mishaps' = [mishaps EXCEPT ![e] = @ \cup {"block"}]
  /\ UNCHANGED <<pending, balances, accepted, refused>>

ReceiveFork(e, fork) ==
  /\ HandleFork(e, fork)
  /\ seen' = seen \cup {fork}
  /\ mishaps' = [mishaps EXCEPT ![e] = @ \cup {"reorg"}]
  /\ UNCHANGED <<pending, balances, accepted, refused>>

CoreNext ==
  \E e \in Engine :
    \/ \E t \in Tx : SubmitTransaction(e, t)
    \/ MineNextBlock(e)
    \/ \E b \in Arriving : ReceiveBlock(e, b)
    \/ \E fork \in Candidates : ReceiveFork(e, fork)

Spec == CoreInit /\ [][CoreNext]_vars
----------------------------------------------------------------------------
(* Properties *)

(* Types; the pool never exceeds its capacity. *)
TypeOK ==
  /\ \A e \in Engine :
       /\ \A i \in DOMAIN blocks[e] : IsBlock(blocks[e][i])
       /\ adopted[e] # <<>>
       /\ \A h \in DOMAIN block_index[e] : block_index[e][h] \in Nat
       /\ pending[e] \subseteq Tx /\ Cardinality(pending[e]) <= PoolCapacity
       /\ DOMAIN balances[e] = Address
       /\ \A a \in Address : balances[e][a] \in Nat
       /\ accepted[e] \subseteq Tx /\ refused[e] \in 0 .. MaxRefused
       /\ mishaps[e] \subseteq {"pow", "block", "reorg"}
  /\ \A c \in seen : \A i \in DOMAIN c : IsBlock(c[i])

(* The ledger after the first k blocks (genesis is block 1 and pays no one *)
(* beyond the initial credit).                                             *)
Replay(c) ==
  LET after[k \in 1 .. Len(c)] ==
        IF k = 1 THEN [NoCredit EXCEPT ![GenesisMiner] = GenesisCredit]
        ELSE ApplyBlock(after[k - 1], c[k])
  IN  after

(* The ledger can be recomputed from the chain: while an engine's chain    *)
(* holds only blocks it mined itself, the balances it answers with are     *)
(* those a replay of the chain gives -- through failed mining attempts,    *)
(* and although the ledger is written before add_block has its say.        *)
LedgerIsReplay ==
  \A e \in Engine :
    mishaps[e] \subseteq {"pow"} => balances[e] = Replay(blocks[e])[Len(blocks[e])]

(* The sums of the first i members of a sequence, and of all of them. *)
Totals(s) ==
  LET upTo[i \in 0 .. Len(s)] == IF i = 0 THEN 0 ELSE upTo[i - 1] + s[i]
  IN  upTo

Total(s) == Totals(s)[Len(s)]

(* What the transfers of one block overdraw: the part of each debit that   *)
(* the sender did not have when its turn came.                             *)
Overdrafts(bal, txs) ==
  [i \in 1 .. Len(txs) |-> SaturatingSub(txs[i].amount, Transfers(bal, txs)[i - 1][txs[i].from])]

(* The same for every block after genesis. *)
Shortfalls(c) ==
  [k \in 1 .. Len(c) - 1 |-> Total(Overdrafts(Replay(c)[k], c[k + 1].transactions))]

Supply(bal) == LET at == SetToSeq(Address) IN Total([i \in 1 .. Cardinality(Address) |-> bal[at[i]]])

(* Money is created by the genesis credit, by block rewards and by nothing *)
(* else except overdrafts: submit_transaction lets a sender have more      *)
(* pending than it owns, and the saturating debit then pays the receiver   *)
(* in full.  No money is ever destroyed.                                   *)
SupplyAccounted ==
  \A e \in Engine :
    mishaps[e] \subseteq {"pow"} =>
      Supply(balances[e]) = GenesisCredit + BlockReward * (Len(blocks[e]) - 1)
                            + Total(Shortfalls(blocks[e]))

(* The ledger is right: it is what the chain says, and its total is what   *)
(* was ever paid out (blockchain_core.rs:250-270).                         *)
LedgerSound == LedgerIsReplay /\ SupplyAccounted

(* Is the last block of c the one its number says? *)
Numbered(c) == Tip(c).header.index + 1 = Len(c)

(* mine_next_block numbers its block by the length of the chain, add_block *)
(* expects the number after the tip's, and by then the transfers and the   *)
(* reward have been paid out (blockchain_core.rs:250-262).  The two agree  *)
(* just when the fork adopted last was numbered from 0, however many       *)
(* blocks have been mined or received since; on any other chain each block *)
(* proof of work finds is paid for and then refused, for ever (finding 1). *)
MinedIsTaken ==
  \A e \in Engine : \A time \in Time : \A txs \in DrainOrders(pending[e], BlockTxLimit) :
    LET template == Template(e, txs, time) IN
    Solutions(template) # {} =>
      (ValidateBlock(blocks[e], Mined(template)) <=> Numbered(adopted[e]))

Confirmed(c) == UNION {{c[i].transactions[j] : j \in DOMAIN c[i].transactions} :
                         i \in DOMAIN c}

(* A transaction submit_transaction has accepted is pending or in a block  *)
(* of the chain, unless proof of work has failed on it or the chain has    *)
(* been replaced: those two, and nothing else, lose transactions.          *)
AcceptedTxKept ==
  \A e \in Engine :
    mishaps[e] \subseteq {"block"} => accepted[e] \subseteq pending[e] \cup Confirmed(blocks[e])

(* Mining loses blocks and transactions only as said (blockchain_core.rs:  *)
(* 235).                                                                   *)
MiningSound == MinedIsTaken /\ AcceptedTxKept
============================================================================
