---------------------------- MODULE BlockStore ----------------------------
(***************************************************************************)
(* The store of blocks, transactions and metadata                          *)
(* (core/storage/leveldb_store.py) on LevelDB: every put, and every batch, *)
(* is one atomic step that survives a crash of the process.                *)
(*                                                                         *)
(* One writer applies blocks; it resumes, as synchronisation does, at the  *)
(* height after the one stored, with any block that fits there.  The       *)
(* writer may crash at any point.  Threads serving GET /blocks             *)
(* (api/rest_api.py) read the store meanwhile.  Account states and         *)
(* delete_block, which nothing calls, are left out.                        *)
(***************************************************************************)
EXTENDS Integers, Sequences, FiniteSets

CONSTANTS
  Block,            (* [hash, index, prev, txs], txs a sequence of ids     *)
  Reader,
  Limit,            (* blocks per page                                     *)
  MaxCrashes        (* bound of the model                                  *)

VARIABLES
  blocks,           (* stored blocks                                       *)
  hash_at,          (* index -> hash, for the indexes stored               *)
  transactions,     (* ids of the stored transactions                      *)
  height,           (* None if the key is absent                           *)
  tip,              (* None if the key is absent                           *)
  pc, block,        (* the writer in apply_block, and its argument         *)
  written,          (* how many of the block's transactions it has stored  *)
  torn,             (* history: the blocks whose apply_block a crash has   *)
                    (* cut and that have not been applied since            *)
  crashes,
  rpc, range, page  (* Reader -> its place, [at, end], blocks read so far  *)

db == <<blocks, hash_at, transactions, height, tip>>
writer == <<pc, block, written, torn, crashes>>
readers == <<rpc, range, page>>
vars == <<db, writer, readers>>

ASSUME StoreAssumption ==
  /\ \A b \in Block : b.index \in Nat /\ Len(b.txs) \in Nat /\ DOMAIN b.txs = 1 .. Len(b.txs)
  /\ \A b, c \in Block : b.hash = c.hash => b = c
  /\ Limit \in Nat \ {0} /\ MaxCrashes \in Nat

None == -1
NoBlock == [index |-> None]
NoRange == [at |-> 0, end |-> None]

Init ==
  /\ blocks = {} /\ hash_at = <<>> /\ transactions = {}
  /\ height = None /\ tip = None
  /\ pc = "idle" /\ block = NoBlock /\ written = 0
  /\ torn = {} /\ crashes = 0
  /\ rpc = [r \in Reader |-> "idle"]
  /\ range = [r \in Reader |-> NoRange]
  /\ page = [r \in Reader |-> <<>>]

(* get_height answers 0 for an empty store. *)
GetHeight == IF height = None THEN 0 ELSE height

HasIndex(i) == i \in DOMAIN hash_at /\ \E b \in blocks : b.hash = hash_at[i]

(* get_block_by_index *)
BlockAt(i) == CHOOSE b \in blocks : b.hash = hash_at[i]

----------------------------------------------------------------------------
(* apply_block *)

(* What the embedder offers: genesis first, then blocks on the stored one. *)
Fits(b) ==
  IF height = None THEN b.index = 0
  ELSE b.index = height + 1 /\ b.prev = BlockAt(height).hash

ApplyBlock(b) ==
  /\ pc = "idle"
  /\ Fits(b)
  /\ pc' = "put_block" /\ block' = b /\ written' = 0
  /\ UNCHANGED <<db, torn, crashes, readers>>

(* Faulty variant: the block takes the place of the last one. *)
PutBlockInPlace ==
  /\ pc = "put_block"
  /\ blocks' = blocks \cup {block}
  /\ hash_at' = [i \in DOMAIN hash_at \cup {GetHeight} |->
                   IF i = GetHeight THEN block.hash ELSE hash_at[i]]
  /\ pc' = "put_transactions"
  /\ UNCHANGED <<transactions, height, tip, block, written, torn, crashes, readers>>

(* put_block: the block and its place in the index in one batch.           *)
PutBlock ==
  /\ pc = "put_block"
  /\ blocks' = blocks \cup {block}
  /\ hash_at' = [i \in DOMAIN hash_at \cup {block.index} |->
                   IF i = block.index THEN block.hash ELSE hash_at[i]]
  /\ pc' = "put_transactions"
  /\ UNCHANGED <<transactions, height, tip, block, written, torn, crashes, readers>>

PutTransaction ==
  /\ pc = "put_transactions"
  /\ IF written < Len(block.txs)
     THEN /\ transactions' = transactions \cup {block.txs[written + 1]}
          /\ written' = written + 1
          /\ UNCHANGED pc
     ELSE pc' = "set_height" /\ UNCHANGED <<transactions, written>>
  /\ UNCHANGED <<blocks, hash_at, height, tip, block, torn, crashes, readers>>

SetHeight ==
  /\ pc = "set_height"
  /\ height' = block.index
  /\ pc' = "set_tip"
  /\ UNCHANGED <<blocks, hash_at, transactions, tip, block, written, torn, crashes, readers>>

(* Faulty variant: an existing tip is kept. *)
SetTipOnce ==
  /\ pc = "set_tip"
  /\ tip' = IF tip = None THEN block.hash ELSE tip
  /\ pc' = "idle" /\ block' = NoBlock /\ written' = 0
  /\ torn' = torn \ {block}
  /\ UNCHANGED <<blocks, hash_at, transactions, height, crashes, readers>>

SetTip ==
  /\ pc = "set_tip"
  /\ tip' = block.hash
  /\ pc' = "idle" /\ block' = NoBlock /\ written' = 0
  /\ torn' = torn \ {block}
  /\ UNCHANGED <<blocks, hash_at, transactions, height, crashes, readers>>

(* The process dies in apply_block, and its readers with it.               *)
Crash ==
  /\ pc # "idle"
  /\ crashes < MaxCrashes
  /\ crashes' = crashes + 1
  /\ torn' = torn \cup {block}
  /\ pc' = "idle" /\ block' = NoBlock /\ written' = 0
  /\ rpc' = [r \in Reader |-> "idle"]
  /\ range' = [r \in Reader |-> NoRange]
  /\ page' = [r \in Reader |-> <<>>]
  /\ UNCHANGED db

WriterStep == PutBlock \/ PutTransaction \/ SetHeight \/ SetTip

----------------------------------------------------------------------------
(* GET /blocks: the height, then the blocks of the page one by one, from   *)
(* the lowest; the answer lists them in reverse.                           *)

AtLeast0(n) == IF n >= 0 THEN n ELSE 0

(* Faulty variant: one block too many. *)
PageStartEarly(h, n) == AtLeast0(h - n * Limit - Limit)

PageStart(h, n) == AtLeast0(h - n * Limit - Limit + 1)

PageEnd(h, n) == AtLeast0(h - n * Limit)

ListBlocks(r, n) ==
  /\ rpc[r] = "idle"
  /\ rpc' = [rpc EXCEPT ![r] = "reading"]
  /\ range' = [range EXCEPT ![r] = [at |-> PageStart(GetHeight, n), end |-> PageEnd(GetHeight, n)]]
  /\ page' = [page EXCEPT ![r] = <<>>]
  /\ UNCHANGED <<db, writer>>

(* One round of iter_blocks.                                               *)
ReadBlock(r) ==
  /\ rpc[r] = "reading"
  /\ LET i == range[r].at IN
     IF i <= range[r].end /\ HasIndex(i)
     THEN /\ page' = [page EXCEPT ![r] = Append(@, BlockAt(i))]
          /\ range' = [range EXCEPT ![r].at = i + 1]
          /\ UNCHANGED rpc
     ELSE rpc' = [rpc EXCEPT ![r] = "idle"] /\ UNCHANGED <<range, page>>
  /\ UNCHANGED <<db, writer>>

Next ==
  \/ \E b \in Block : ApplyBlock(b)
  \/ WriterStep
  \/ Crash
  \/ \E r \in Reader : ReadBlock(r) \/ \E n \in 0 .. 1 : ListBlocks(r, n)

Spec == Init /\ [][Next]_vars
----------------------------------------------------------------------------
(* Properties *)

StoredHeights == IF height = None THEN {} ELSE 0 .. height

TxsOf(b) == {b.txs[i] : i \in DOMAIN b.txs}

(* Up to the height it reports, the store is complete at every moment,     *)
(* through crashes and a half-written block above: every block is there    *)
(* with all its transactions and follows the one before.                   *)
CompleteUpToHeight ==
  \A i \in StoredHeights :
    /\ HasIndex(i)
    /\ BlockAt(i).index = i
    /\ TxsOf(BlockAt(i)) \subseteq transactions
    /\ i > 0 => BlockAt(i).prev = BlockAt(i - 1).hash

(* "Atomically persist a block and all its transactions": only if no crash *)
(* cuts it.  Otherwise a block can stay readable by hash and by index      *)
(* without its transactions, or the tip behind the height.                 *)
AtomicUnlessTorn ==
  pc = "idle" =>
    /\ \A b \in blocks \ torn : TxsOf(b) \subseteq transactions
    /\ height # None /\ BlockAt(height) \notin torn => tip = hash_at[height]

(* As seen through the height, apply_block adds a block to a log in one    *)
(* step, crashes included, and nothing ever changes what is in the log.    *)
Log ==
  INSTANCE AppendLog
    WITH Entry <- Block,
         log <- IF height = None THEN <<>> ELSE [i \in 1 .. height + 1 |-> BlockAt(i - 1)]
ImplementsLog == Log!Spec

(* A page of GET /blocks read while blocks are being applied is a stretch  *)
(* of the chain of at most Limit blocks, and is not cut short.             *)
PagesLinked ==
  \A r \in Reader :
    LET p == page[r] IN
    /\ Len(p) <= Limit
    /\ \A k \in 2 .. Len(p) :
         p[k].index = p[k - 1].index + 1 /\ p[k].prev = p[k - 1].hash
    /\ rpc[r] = "reading" /\ p # <<>> /\ range[r].at <= range[r].end => HasIndex(range[r].at)
============================================================================
