--------------------------- MODULE StorageProofs ---------------------------
(***************************************************************************)
(* Proofs about what a node keeps.                                         *)
(*                                                                         *)
(* The store, for any blocks, any number of crashes and any number of      *)
(* readers: what it holds up to its height is complete and linked, and     *)
(* seen through the height it is an append-only log.  CompleteUpToHeight   *)
(* is not inductive: the height is set last, so the invariant says how far *)
(* the block above it has got.  Crashes add which blocks may be torn       *)
(* (Torn), and readers what they have seen (Pages).                        *)
(*                                                                         *)
(* The pool of pending transactions, for any transactions, any number of   *)
(* threads and any capacity: its size and counters, its lists by sender,   *)
(* and the selection for a block.  None of the three is inductive.  The    *)
(* invariant says what a call of add knows at each of its steps while no   *)
(* other overlaps it (Alone), that no transaction has two entries (Once),  *)
(* whose list is whose (Owned), and of a sender whose list has not been    *)
(* replaced under another call: that who removes has the list for itself   *)
(* (Apart), which part of it has been passed and kept (Filtered), and how  *)
(* often each transaction may be in it (Enlisted); together, ListsRight.   *)
(* The selection is followed from one candidate to the next (Chosen).      *)
(*                                                                         *)
(* The account state, for any accounts, paths and bounds: a transfer is a  *)
(* change of two balances by the same amount, and one balance changes the  *)
(* total by as much as it changes itself (TotalMoves).                     *)
(*                                                                         *)
(* The trie behind it, also for any accounts and paths: what is found in   *)
(* it is what the cache holds, and until a deletion its nodes follow from  *)
(* that alone.  Tries are the members of sets built up by the length of    *)
(* the paths below them (Nodes), with or without the shape that insertion  *)
(* keeps and compaction gives up (reduced).  Each kind of node tells what  *)
(* is found below it by its children, so put and delete are followed down  *)
(* the nodes (AlwaysPuts, AlwaysRemoves); and reduced tries in which the   *)
(* same is found on every path are the same trie (AlwaysDistinct), so the  *)
(* root is the canonical one (IsCanonical).                                *)
(***************************************************************************)
EXTENDS BlockStore, Mempool, StateTrie, FiniteSetTheorems, FunctionTheorems, SequenceTheorems,
        Induction, TLAPS

----------------------------------------------------------------------------
(* The store *)

Above == pc \in {"put_block", "put_transactions", "set_height"}
Placed == pc \in {"put_transactions", "set_height"}

Progress ==
  /\ pc \in {"idle", "put_block", "put_transactions", "set_height", "set_tip"}
  /\ written \in Nat
  /\ pc # "idle" => block \in Block
  /\ pc = "put_block" => written = 0
  /\ Above => Fits(block)
  /\ Placed => /\ block \in blocks
               /\ block.index \in DOMAIN hash_at /\ hash_at[block.index] = block.hash
               /\ \A k \in 1 .. written : block.txs[k] \in transactions
  /\ pc = "set_height" => written >= Len(block.txs)

IInv ==
  /\ blocks \subseteq Block
  /\ height \in Nat \cup {None}
  /\ Progress
  /\ CompleteUpToHeight

----------------------------------------------------------------------------
(* A hash names one block. *)
LEMMA ByHash ==
  ASSUME NEW S \in SUBSET Block, NEW b \in S
  PROVE  (CHOOSE c \in S : c.hash = b.hash) = b
<1>1. \A c \in S : c.hash = b.hash => c = b  BY StoreAssumption
<1>. QED  BY <1>1

(* Heights are numbers, and nothing is stored yet at the height of the block being applied. *)
LEMMA Heights ==
  ASSUME IInv
  PROVE  /\ None \notin Nat
         /\ StoredHeights \subseteq Nat
         /\ height # None => height \in StoredHeights
         /\ Above => block.index \notin StoredHeights /\ block.index \in Nat
BY StoreAssumption DEF IInv, Progress, StoredHeights, None, Above, Fits

(* What is stored at and below the height stays. *)
LEMMA StableBelow ==
  ASSUME IInv, [Next]_vars, NEW i \in StoredHeights
  PROVE  HasIndex(i)' /\ BlockAt(i)' = BlockAt(i)
<1>1. HasIndex(i)  BY DEF IInv, CompleteUpToHeight
<1>2. CASE PutBlock
  <2>1. i # block.index /\ block \in Block
    BY <1>2, Heights DEF PutBlock, IInv, Progress, Above
  <2>2. /\ blocks' = blocks \cup {block}
        /\ i \in DOMAIN hash_at' /\ hash_at'[i] = hash_at[i]
    BY <1>1, <1>2, <2>1 DEF PutBlock, HasIndex
  <2>3. PICK b \in blocks : b.hash = hash_at[i]  BY <1>1 DEF HasIndex
  <2>4. b \in blocks' /\ b.hash = hash_at'[i] /\ blocks' \in SUBSET Block
        /\ blocks \in SUBSET Block
    BY <2>1, <2>2, <2>3 DEF IInv
  <2>5. (CHOOSE c \in blocks : c.hash = hash_at[i]) = b  BY <2>3, <2>4, ByHash
  <2>6. (CHOOSE c \in blocks' : c.hash = hash_at'[i]) = b  BY <2>4, ByHash
  <2>7. HasIndex(i)'  BY <2>2, <2>4 DEF HasIndex
  <2>. QED  BY <2>5, <2>6, <2>7 DEF BlockAt
<1>3. CASE UNCHANGED <<blocks, hash_at>>
  BY <1>1, <1>3 DEF HasIndex, BlockAt
<1>. QED
  BY <1>2, <1>3
  DEF Next, vars, db, ApplyBlock, WriterStep, PutTransaction, SetHeight, SetTip, Crash,
      ReadBlock, ListBlocks

(* The block about to get its height is where the height will look for it. *)
LEMMA BlockPlaced ==
  ASSUME IInv, Placed
  PROVE  HasIndex(block.index) /\ BlockAt(block.index) = block
<1>1. block \in blocks /\ blocks \in SUBSET Block /\ hash_at[block.index] = block.hash
      /\ block.index \in DOMAIN hash_at
  BY DEF IInv, Progress
<1>2. (CHOOSE c \in blocks : c.hash = hash_at[block.index]) = block
  BY <1>1, ByHash
<1>. QED  BY <1>1, <1>2 DEF HasIndex, BlockAt

(* While the height stays, no step disturbs what is complete below it. *)
LEMMA CompleteKept ==
  ASSUME IInv, [Next]_vars, height' = height
  PROVE  CompleteUpToHeight'
<1>1. transactions \subseteq transactions'
  BY DEF Next, vars, db, ApplyBlock, WriterStep, PutBlock, PutTransaction, SetHeight,
         SetTip, Crash, ReadBlock, ListBlocks
<1>2. StoredHeights' = StoredHeights  BY DEF StoredHeights
<1>3. ASSUME NEW i \in StoredHeights
      PROVE  /\ HasIndex(i)' /\ BlockAt(i)' = BlockAt(i)
             /\ BlockAt(i).index = i /\ TxsOf(BlockAt(i)) \subseteq transactions
             /\ i > 0 => /\ BlockAt(i).prev = BlockAt(i - 1).hash
                         /\ BlockAt(i - 1)' = BlockAt(i - 1)
  <2>1. i > 0 => i - 1 \in StoredHeights  BY DEF IInv, StoredHeights
  <2>. QED  BY <2>1, StableBelow DEF IInv, CompleteUpToHeight
<1>4. \A i \in StoredHeights :
        /\ HasIndex(i)' /\ BlockAt(i)'.index = i
        /\ TxsOf(BlockAt(i)') \subseteq transactions'
        /\ i > 0 => BlockAt(i)'.prev = BlockAt(i - 1)'.hash
  BY <1>1, <1>3
<1>. QED  BY <1>2, <1>4 DEF CompleteUpToHeight, TxsOf

(* Raising the height keeps the invariant: the block at it has been written in full. *)
LEMMA SetHeightIInv ==
  ASSUME IInv, SetHeight
  PROVE  IInv'
<1>. DEFINE n == block.index
<1>1. /\ height' = n /\ pc = "set_height" /\ pc' = "set_tip"
      /\ UNCHANGED <<blocks, hash_at, transactions, block, written>>
  BY DEF SetHeight
<1>2. Above /\ Placed /\ Fits(block) /\ block \in Block /\ n \in Nat
      /\ HasIndex(n) /\ BlockAt(n) = block
  BY <1>1, BlockPlaced, StoreAssumption DEF Above, Placed, IInv, Progress
<1>3. TxsOf(block) \subseteq transactions
  <2>1. \A k \in DOMAIN block.txs : k \in 1 .. written
    BY <1>1, <1>2, StoreAssumption DEF IInv, Progress
  <2>. QED  BY <1>1, <1>2, <2>1 DEF TxsOf, IInv, Progress
<1>4. \A i : HasIndex(i)' = HasIndex(i) /\ BlockAt(i)' = BlockAt(i)
  BY <1>1 DEF HasIndex, BlockAt
<1>5. n > 0 => block.prev = BlockAt(n - 1).hash
  BY <1>2 DEF Fits, IInv
<1>6. StoredHeights' = StoredHeights \cup {n}
  BY <1>1, <1>2 DEF StoredHeights, Fits, None, IInv
<1>7. \A i \in StoredHeights :
        /\ HasIndex(i) /\ BlockAt(i).index = i /\ TxsOf(BlockAt(i)) \subseteq transactions
        /\ i > 0 => BlockAt(i).prev = BlockAt(i - 1).hash
  BY DEF IInv, CompleteUpToHeight
<1>8. \A i \in StoredHeights \cup {n} :
        /\ HasIndex(i) /\ BlockAt(i).index = i /\ TxsOf(BlockAt(i)) \subseteq transactions
        /\ i > 0 => BlockAt(i).prev = BlockAt(i - 1).hash
  BY <1>2, <1>3, <1>5, <1>7
<1>9. CompleteUpToHeight'
  BY <1>1, <1>4, <1>6, <1>8 DEF CompleteUpToHeight, TxsOf
<1>10. Progress'
  BY <1>1, <1>2 DEF Progress, Above, Placed, IInv
<1>. QED  BY <1>1, <1>2, <1>9, <1>10 DEF IInv

(* So does every other step, since it writes above the height only. *)
LEMMA OtherIInv ==
  ASSUME IInv, [Next]_vars, ~SetHeight
  PROVE  IInv'
<1>1. height' = height
  BY DEF Next, vars, db, ApplyBlock, WriterStep, PutBlock, PutTransaction,
         SetTip, Crash, ReadBlock, ListBlocks
<1>2. CompleteUpToHeight'  BY <1>1, CompleteKept
<1>3. blocks' \subseteq Block /\ Progress'
  <2>1. ASSUME NEW b \in Block, ApplyBlock(b) PROVE blocks' \subseteq Block /\ Progress'
    <3>1. /\ Fits(b) /\ pc' = "put_block" /\ block' = b /\ written' = 0
          /\ UNCHANGED <<blocks, hash_at, height, transactions>>
      BY <2>1 DEF ApplyBlock, db
    <3>2. Fits(block)'  BY <3>1 DEF Fits, BlockAt
    <3>. QED  BY <3>1, <3>2 DEF IInv, Progress, Above, Placed
  <2>2. CASE PutBlock
    <3>1. /\ pc = "put_block" /\ pc' = "put_transactions"
          /\ blocks' = blocks \cup {block}
          /\ UNCHANGED <<block, written, transactions, height>>
          /\ block.index \in DOMAIN hash_at' /\ hash_at'[block.index] = block.hash
      BY <2>2 DEF PutBlock
    <3>2. block \in Block /\ Fits(block)  BY <3>1 DEF IInv, Progress, Above
    <3>3. Fits(block)'
      <4>1. \A h \in StoredHeights :
              (CHOOSE b \in blocks' : b.hash = hash_at'[h]) = (CHOOSE b \in blocks : b.hash = hash_at[h])
        BY StableBelow DEF BlockAt
      <4>2. height # None => height \in StoredHeights  BY Heights
      <4>. QED  BY <1>1, <3>1, <3>2, <4>1, <4>2 DEF Fits, BlockAt
    <3>4. written = 0  BY <3>1 DEF IInv, Progress
    <3>. QED  BY <3>1, <3>2, <3>3, <3>4 DEF IInv, Progress, Above, Placed
  <2>3. CASE PutTransaction
    <3>1. /\ pc = "put_transactions" /\ UNCHANGED <<blocks, hash_at, height, block>>
          /\ block \in Block /\ Fits(block) /\ Placed
      BY <2>3 DEF PutTransaction, IInv, Progress, Above, Placed
    <3>2. Fits(block)'  BY <3>1 DEF Fits, BlockAt
    <3>3. CASE written < Len(block.txs)
      <4>1. /\ transactions' = transactions \cup {block.txs[written + 1]}
            /\ written' = written + 1 /\ pc' = pc
        BY <2>3, <3>3 DEF PutTransaction
      <4>2. written \in Nat /\ \A k \in 1 .. written : block.txs[k] \in transactions
        BY <3>1 DEF IInv, Progress
      <4>3. \A k \in 1 .. written' : block.txs[k] \in transactions'
        BY <4>1, <4>2
      <4>. QED  BY <3>1, <3>2, <4>1, <4>2, <4>3 DEF IInv, Progress, Above, Placed
    <3>4. CASE ~(written < Len(block.txs))
      <4>1. UNCHANGED <<transactions, written>> /\ pc' = "set_height"
        BY <2>3, <3>4 DEF PutTransaction
      <4>2. written >= Len(block.txs)
        BY <3>1, <3>4, StoreAssumption DEF IInv, Progress
      <4>. QED  BY <3>1, <3>2, <4>1, <4>2 DEF IInv, Progress, Above, Placed
    <3>. QED  BY <3>3, <3>4
  <2>4. CASE SetTip \/ Crash
    BY <2>4 DEF SetTip, Crash, db, IInv, Progress, Above, Placed
  <2>5. CASE UNCHANGED <<blocks, hash_at, transactions, height, pc, block, written>>
    BY <2>5 DEF IInv, Progress, Above, Placed, Fits, BlockAt
  <2>. QED
    BY <2>1, <2>2, <2>3, <2>4, <2>5
    DEF Next, vars, db, writer, WriterStep, ReadBlock, ListBlocks
<1>. QED  BY <1>1, <1>2, <1>3 DEF IInv

(* An empty store satisfies it. *)
LEMMA InitIInv == Init => IInv
BY DEF Init, IInv, Progress, Above, Placed, CompleteUpToHeight, StoredHeights

(* So it always holds. *)
LEMMA SpecIInv == Spec => []IInv
<1>1. IInv /\ [Next]_vars => IInv'  BY SetHeightIInv, OtherIInv
<1>. QED  BY <1>1, InitIInv, PTL DEF Spec

(* However often and wherever apply_block is cut by a crash, the store is  *)
(* complete and linked up to the height it reports.                        *)
THEOREM AlwaysComplete == Spec => []CompleteUpToHeight
<1>1. IInv => CompleteUpToHeight  BY DEF IInv
<1>. QED  BY <1>1, SpecIInv, PTL

----------------------------------------------------------------------------
(* Refinement: apply_block takes effect when it sets the height.           *)

TheLog == IF height = None THEN <<>> ELSE [i \in 1 .. height + 1 |-> BlockAt(i - 1)]

(* The log seen through the height is a sequence of blocks. *)
LEMMA LogIsSeq ==
  ASSUME IInv
  PROVE  TheLog \in Seq(Block)
<1>1. CASE height = None  BY <1>1 DEF TheLog
<1>2. CASE height # None
  <2>1. height + 1 \in Nat  BY <1>2 DEF IInv
  <2>2. ASSUME NEW i \in 1 .. height + 1 PROVE BlockAt(i - 1) \in Block
    <3>1. i - 1 \in StoredHeights  BY <1>2, <2>1 DEF StoredHeights, IInv
    <3>2. PICK b \in blocks : b.hash = hash_at[i - 1]
      BY <3>1 DEF IInv, CompleteUpToHeight, HasIndex
    <3>3. blocks \in SUBSET Block  BY DEF IInv
    <3>4. BlockAt(i - 1) = b  BY <3>2, <3>3, ByHash DEF BlockAt
    <3>. QED  BY <3>2, <3>3, <3>4
  <2>3. [i \in 1 .. height + 1 |-> BlockAt(i - 1)] \in Seq(Block)  BY <2>1, <2>2
  <2>. QED  BY <1>2, <2>3 DEF TheLog
<1>. QED  BY <1>1, <1>2

(* Setting the height is what appends to it (leveldb_store.py: apply_block). *)
LEMMA SetHeightAdds ==
  ASSUME IInv, SetHeight
  PROVE  block \in Block /\ TheLog' = Append(TheLog, block)
<1>. DEFINE n == block.index
<1>1. /\ height' = n /\ pc = "set_height"
      /\ UNCHANGED <<blocks, hash_at>>
  BY DEF SetHeight
<1>2. Fits(block) /\ block \in Block /\ n \in Nat /\ BlockAt(n) = block
  BY <1>1, BlockPlaced, StoreAssumption DEF Above, Placed, IInv, Progress
<1>3. \A i : BlockAt(i)' = BlockAt(i)  BY <1>1 DEF BlockAt
<1>4. TheLog' = [i \in 1 .. n + 1 |-> BlockAt(i - 1)]
  BY <1>1, <1>2, <1>3 DEF TheLog, None
<1>5. CASE height = None
  <2>1. n = 0 /\ TheLog = <<>>  BY <1>2, <1>5 DEF Fits, TheLog
  <2>2. \A i \in 1 .. n + 1 : BlockAt(i - 1) = block  BY <1>2, <2>1
  <2>3. TheLog' = [i \in 1 .. 1 |-> block]  BY <1>4, <2>1, <2>2
  <2>4. Append(<<>>, block) = [i \in 1 .. 1 |-> block]  OBVIOUS
  <2>. QED  BY <1>2, <2>1, <2>3, <2>4
<1>6. CASE height # None
  <2>1. height \in Nat /\ n = height + 1  BY <1>2, <1>6 DEF Fits, IInv
  <2>2. TheLog \in Seq(Block) /\ Len(TheLog) = n
        /\ \A i \in 1 .. n : TheLog[i] = BlockAt(i - 1)
    BY <1>6, <2>1, LogIsSeq DEF TheLog
  <2>3. Append(TheLog, block) \in Seq(Block) /\ Len(Append(TheLog, block)) = n + 1
        /\ \A i \in 1 .. n + 1 : Append(TheLog, block)[i] = BlockAt(i - 1)
    BY <1>2, <2>1, <2>2
  <2>4. TheLog' \in Seq(Block) /\ Len(TheLog') = n + 1
        /\ \A i \in 1 .. n + 1 : TheLog'[i] = BlockAt(i - 1)
    <3>1. ASSUME NEW i \in 1 .. n + 1  PROVE BlockAt(i - 1) \in Block
      <4>1. CASE i = n + 1
        <5>1. i - 1 = n  BY <1>2, <4>1
        <5>. QED  BY <1>2, <5>1
      <4>2. CASE i # n + 1
        <5>1. i \in 1 .. Len(TheLog)  BY <1>2, <2>2, <4>2
        <5>. QED  BY <2>2, <5>1, <1>2, ElementOfSeq
      <4>. QED  BY <4>1, <4>2
    <3>. QED  BY <1>2, <1>4, <3>1
  <2>. QED  BY <1>2, <2>3, <2>4, SeqEqual
<1>. QED  BY <1>5, <1>6

(* No other step changes it, crashes included. *)
LEMMA OthersKeepLog ==
  ASSUME IInv, [Next]_vars, ~SetHeight
  PROVE  TheLog' = TheLog
<1>1. height' = height
  BY DEF Next, vars, db, ApplyBlock, WriterStep, PutBlock, PutTransaction,
         SetTip, Crash, ReadBlock, ListBlocks
<1>2. CASE height = None  BY <1>1, <1>2 DEF TheLog
<1>3. CASE height # None
  <2>1. \A i \in 1 .. height + 1 : i - 1 \in StoredHeights
    BY <1>3 DEF StoredHeights, IInv
  <2>2. \A i \in 1 .. height + 1 : BlockAt(i - 1)' = BlockAt(i - 1)
    BY <2>1, StableBelow
  <2>. QED  BY <1>1, <1>3, <2>2 DEF TheLog
<1>. QED  BY <1>2, <1>3

(* Seen through the height, the store is an append-only log: apply_block   *)
(* is atomic, whether or not it is cut, and nothing stored is altered.     *)
THEOREM StoreIsLog == Spec => ImplementsLog
<1>1. Init => Log!Init  BY DEF Init, Log!Init
<1>2. IInv /\ [Next]_vars => [Log!Next]_TheLog
  <2>. SUFFICES ASSUME IInv, [Next]_vars PROVE [Log!Next]_TheLog  OBVIOUS
  <2>1. CASE SetHeight
    <3>1. block \in Block /\ Log!Add(block)
      BY <2>1, SetHeightAdds DEF Log!Add, TheLog
    <3>. QED  BY <3>1 DEF Log!Next
  <2>2. CASE ~SetHeight  BY <2>2, OthersKeepLog
  <2>. QED  BY <2>1, <2>2
<1>. QED  BY <1>1, <1>2, SpecIInv, PTL DEF Spec, ImplementsLog, Log!Spec, TheLog
----------------------------------------------------------------------------
(* What is left behind by crashes.  AtomicUnlessTorn speaks of the idle    *)
(* writer; the invariant says which block is exempt while it is busy, and  *)
(* that the last step, the tip, is taken for the block at the height.      *)

Finished(b) == TxsOf(b) \subseteq transactions

Torn ==
  /\ \A b \in blocks \ torn : Finished(b) \/ (pc # "idle" /\ b = block)
  /\ pc = "set_tip" => height = block.index /\ BlockAt(height) = block
  /\ height # None /\ pc # "set_tip" /\ BlockAt(height) \notin torn => tip = hash_at[height]

(* What a block is found by is its hash. *)
LEMMA AtHeight ==
  ASSUME IInv, height # None
  PROVE  /\ height \in StoredHeights /\ HasIndex(height)
         /\ BlockAt(height).hash = hash_at[height] /\ Finished(BlockAt(height))
<1>1. height \in StoredHeights  BY Heights
<1>2. HasIndex(height) /\ Finished(BlockAt(height))
  BY <1>1 DEF IInv, CompleteUpToHeight, Finished
<1>3. PICK b \in blocks : b.hash = hash_at[height]  BY <1>2 DEF HasIndex
<1>4. BlockAt(height) = b  BY <1>3, ByHash DEF BlockAt, IInv
<1>. QED  BY <1>1, <1>2, <1>3, <1>4

(* Which blocks a crash may have torn is kept by every step. *)
LEMMA TornKept ==
  ASSUME IInv, Torn, [Next]_vars
  PROVE  Torn'
<1>. USE DEF Finished, TxsOf
<1>1. ASSUME NEW b \in Block, ApplyBlock(b) PROVE Torn'
  BY <1>1 DEF ApplyBlock, Torn, db, BlockAt
<1>2. CASE PutBlock
  <2>1. /\ pc = "put_block" /\ pc' = "put_transactions" /\ blocks' = blocks \cup {block}
        /\ UNCHANGED <<transactions, height, tip, block, torn>>
    BY <1>2 DEF PutBlock
  <2>2. \A b \in blocks' \ torn' : Finished(b)' \/ b = block'
    BY <2>1 DEF Torn
  <2>3. CASE height # None
    <3>1. BlockAt(height)' = BlockAt(height)
      BY <2>1, <2>3, Heights, StableBelow
    <3>2. hash_at'[height] = hash_at[height]
      BY <1>2, <2>1, <2>3, Heights, AtHeight DEF PutBlock, HasIndex, Above
    <3>. QED  BY <2>1, <2>2, <2>3, <3>1, <3>2 DEF Torn
  <2>4. CASE height = None
    BY <2>1, <2>2, <2>4 DEF Torn
  <2>. QED  BY <2>3, <2>4
<1>3. CASE PutTransaction
  BY <1>3 DEF PutTransaction, Torn, BlockAt
<1>4. CASE SetHeight
  <2>1. BlockAt(block.index) = block  BY <1>4, BlockPlaced DEF SetHeight, Placed
  <2>2. /\ pc = "set_height" /\ pc' = "set_tip" /\ height' = block.index
        /\ UNCHANGED <<blocks, hash_at, transactions, block, torn>>
    BY <1>4 DEF SetHeight
  <2>3. BlockAt(height)' = block'  BY <2>1, <2>2 DEF BlockAt
  <2>. QED  BY <2>2, <2>3 DEF Torn
<1>5. CASE SetTip
  <2>1. /\ pc = "set_tip" /\ pc' = "idle" /\ tip' = block.hash /\ torn' = torn \ {block}
        /\ UNCHANGED <<blocks, hash_at, transactions, height>>
    BY <1>5 DEF SetTip
  <2>2. height = block.index /\ BlockAt(height) = block /\ height # None
    BY <2>1, StoreAssumption DEF Torn, IInv, Progress, None
  <2>3. Finished(block) /\ block.hash = hash_at[height]  BY <2>2, AtHeight
  <2>4. \A b \in blocks' \ torn' : Finished(b)'
    BY <2>1, <2>3 DEF Torn
  <2>. QED  BY <2>1, <2>3, <2>4 DEF Torn
<1>6. CASE Crash
  BY <1>6 DEF Crash, Torn, db, BlockAt
<1>7. CASE UNCHANGED <<db, writer>>
  BY <1>7 DEF Torn, db, writer, BlockAt
<1>. QED
  BY <1>1, <1>2, <1>3, <1>4, <1>5, <1>6, <1>7
  DEF Next, vars, WriterStep, ReadBlock, ListBlocks

(* A block that no crash has cut, or that has been applied again since, is *)
(* stored with all its transactions, and so is the tip                     *)
(* (leveldb_store.py, apply_block).                                        *)
THEOREM AlwaysAtomicUnlessTorn == Spec => []AtomicUnlessTorn
<1>1. Init => Torn  BY DEF Init, Torn
<1>2. IInv /\ Torn /\ [Next]_vars => Torn'  BY TornKept
<1>3. Torn => AtomicUnlessTorn  BY DEF Torn, AtomicUnlessTorn, Finished
<1>. QED  BY <1>1, <1>2, <1>3, SpecIInv, PTL DEF Spec
----------------------------------------------------------------------------
(* Pages.  A page ends at a height the store had, so all it reads but the  *)
(* first block of an empty store lies where nothing changes any more.      *)

Linked(p) ==
  \A k \in 2 .. Len(p) : p[k].index = p[k - 1].index + 1 /\ p[k].prev = p[k - 1].hash

(* What a reader has, and what it still may read. *)
PageSoFar(p, at, end) ==
  /\ Len(p) <= at /\ at <= end + 1 /\ Len(p) + end + 1 - at <= Limit
  /\ end = 0 \/ end \in StoredHeights
  /\ end # 0 => \A k \in 1 .. Len(p) : p[k] = BlockAt(at - 1 - Len(p) + k)

Pages ==
  /\ rpc \in [Reader -> {"idle", "reading"}]
  /\ range \in [Reader -> [at : Nat, end : Int]]
  /\ page \in [Reader -> Seq(Block)]
  /\ \A r \in Reader :
       /\ Len(page[r]) <= Limit /\ Linked(page[r])
       /\ rpc[r] = "reading" => range[r].end \in Nat /\ PageSoFar(page[r], range[r].at, range[r].end)

(* Every height up to a stored one is stored. *)
LEMMA BelowEnd ==
  ASSUME IInv, NEW end \in StoredHeights, NEW i \in 0 .. end
  PROVE  i \in StoredHeights
BY DEF IInv, StoredHeights

(* What has been read stays what is stored. *)
LEMMA SoFarKept ==
  ASSUME IInv, [Next]_vars, NEW p \in Seq(Block), NEW at \in Nat, NEW end \in Nat,
         PageSoFar(p, at, end)
  PROVE  PageSoFar(p, at, end)'
<1>. USE StoreAssumption
<1>1. StoredHeights \subseteq StoredHeights'
  <2>1. CASE SetHeight
    <3>1. height' = block.index /\ Fits(block) /\ block \in Block
      BY <2>1 DEF SetHeight, IInv, Progress, Above
    <3>. QED  BY <3>1 DEF StoredHeights, Fits, IInv, None
  <2>2. CASE height' = height  BY <2>2 DEF StoredHeights
  <2>. QED
    BY <2>1, <2>2 DEF Next, vars, db, ApplyBlock, WriterStep, PutBlock, PutTransaction,
         SetTip, Crash, ReadBlock, ListBlocks
<1>2. ASSUME end # 0, NEW k \in 1 .. Len(p)
      PROVE  BlockAt(at - 1 - Len(p) + k)' = BlockAt(at - 1 - Len(p) + k)
  <2>1. end \in StoredHeights /\ at - 1 - Len(p) + k \in 0 .. end
    BY <1>2 DEF PageSoFar
  <2>. QED  BY <2>1, BelowEnd, StableBelow
<1>. QED  BY <1>1, <1>2 DEF PageSoFar

(* The block read next belongs behind those read before. *)
LEMMA ReadNext ==
  ASSUME IInv, NEW p \in Seq(Block), NEW at \in Nat, NEW end \in Nat,
         PageSoFar(p, at, end), Linked(p), at <= end, HasIndex(at)
  PROVE  LET q == Append(p, BlockAt(at)) IN
         q \in Seq(Block) /\ Len(q) <= Limit /\ Linked(q) /\ PageSoFar(q, at + 1, end)
<1>. DEFINE b == BlockAt(at)
            q == Append(p, b)
<1>. USE StoreAssumption
<1>1. b \in Block
  <2>1. PICK c \in blocks : c.hash = hash_at[at]  BY DEF HasIndex
  <2>. QED  BY <2>1, ByHash DEF BlockAt, IInv
<1>. HIDE DEF b
<1>2. /\ q \in Seq(Block) /\ Len(q) = Len(p) + 1 /\ Len(p) \in Nat
      /\ \A k \in 1 .. Len(p) : q[k] = p[k]
      /\ q[Len(p) + 1] = b
  BY <1>1
<1>. HIDE DEF q
<1>3. ASSUME end # 0
      PROVE  \A k \in 1 .. Len(q) : q[k] = BlockAt(at + 1 - 1 - Len(q) + k)
  <2>. SUFFICES ASSUME NEW k \in 1 .. Len(q) PROVE q[k] = BlockAt(at + 1 - 1 - Len(q) + k)
    OBVIOUS
  <2>1. CASE k = Len(p) + 1
    <3>1. at + 1 - 1 - Len(q) + k = at  BY <1>2, <2>1
    <3>. QED  BY <1>2, <2>1, <3>1 DEF b
  <2>2. CASE k # Len(p) + 1
    <3>1. k \in 1 .. Len(p) /\ at + 1 - 1 - Len(q) + k = at - 1 - Len(p) + k
      BY <1>2, <2>2
    <3>2. p[k] = BlockAt(at - 1 - Len(p) + k)  BY <1>3, <3>1 DEF PageSoFar
    <3>. QED  BY <1>2, <3>1, <3>2
  <2>. QED  BY <2>1, <2>2
<1>4. PageSoFar(q, at + 1, end) /\ Len(q) <= Limit
  BY <1>2, <1>3 DEF PageSoFar
<1>5. Linked(q)
  <2>. SUFFICES ASSUME NEW k \in 2 .. Len(q)
                PROVE  q[k].index = q[k - 1].index + 1 /\ q[k].prev = q[k - 1].hash
    BY DEF Linked
  <2>1. CASE k # Len(p) + 1
    <3>1. k \in 2 .. Len(p) /\ k - 1 \in 1 .. Len(p) /\ k \in 1 .. Len(p)  BY <1>2, <2>1
    <3>. QED  BY <1>2, <3>1 DEF Linked
  <2>2. CASE k = Len(p) + 1
    <3>1. Len(p) >= 1 /\ Len(p) <= at /\ at \in 1 .. end  BY <1>2, <2>2 DEF PageSoFar
    <3>2. end \in StoredHeights /\ p[Len(p)] = BlockAt(at - 1)
      <4>1. at - 1 - Len(p) + Len(p) = at - 1 /\ Len(p) \in 1 .. Len(p)  BY <1>2, <3>1
      <4>. QED  BY <3>1, <4>1 DEF PageSoFar
    <3>3. at \in StoredHeights /\ at - 1 \in StoredHeights
      BY <3>1, <3>2, BelowEnd
    <3>4. b.index = at /\ BlockAt(at - 1).index = at - 1 /\ b.prev = BlockAt(at - 1).hash
      BY <3>1, <3>3 DEF b, IInv, CompleteUpToHeight
    <3>5. q[k] = b /\ q[k - 1] = p[Len(p)]  BY <1>2, <2>2, <3>1
    <3>. QED  BY <3>1, <3>2, <3>4, <3>5
  <2>. QED  BY <2>1, <2>2
<1>. QED  BY <1>2, <1>4, <1>5 DEF q, b

(* What a reader has seen stays a linked stretch, whatever the writer does. *)
LEMMA PagesKept ==
  ASSUME IInv, Pages, [Next]_vars
  PROVE  Pages'
<1>1. CASE UNCHANGED readers
  <2>1. ASSUME NEW r \in Reader, rpc[r] = "reading"
        PROVE  PageSoFar(page[r], range[r].at, range[r].end)'
    <3>1. page[r] \in Seq(Block) /\ range[r].at \in Nat /\ range[r].end \in Nat
          /\ PageSoFar(page[r], range[r].at, range[r].end)
      BY <2>1 DEF Pages
    <3>2. PICK p \in Seq(Block), at \in Nat, end \in Nat :
            p = page[r] /\ at = range[r].at /\ end = range[r].end
      BY <3>1
    <3>3. PageSoFar(p, at, end)'  BY <3>1, <3>2, SoFarKept
    <3>4. page'[r] = p /\ range'[r].at = at /\ range'[r].end = end  BY <1>1, <3>2 DEF readers
    <3>. QED  BY <3>3, <3>4 DEF PageSoFar, BlockAt
  <2>. QED  BY <1>1, <2>1 DEF Pages, readers, Linked
<1>2. CASE Crash
  BY <1>2, StoreAssumption DEF Crash, Pages, Linked, NoRange, None
<1>3. ASSUME NEW r \in Reader, NEW n \in 0 .. 1, ListBlocks(r, n) PROVE Pages'
  <2>. DEFINE h == GetHeight
  <2>1. h \in Nat /\ (h = 0 \/ h \in StoredHeights)  BY Heights DEF GetHeight, IInv
  <2>2. n * Limit \in Nat /\ Limit \in Nat \ {0}  BY StoreAssumption
  <2>. HIDE DEF h
  <2>3. /\ PageStart(h, n) \in Nat /\ PageEnd(h, n) \in Nat
        /\ PageStart(h, n) <= PageEnd(h, n) + 1
        /\ PageEnd(h, n) + 1 - PageStart(h, n) <= Limit
        /\ PageEnd(h, n) <= h
    BY <2>1, <2>2 DEF PageStart, PageEnd, AtLeast0
  <2>4. PageEnd(h, n) = 0 \/ PageEnd(h, n) \in StoredHeights
    BY <2>1, <2>3, BelowEnd
  <2>5. PageSoFar(<<>>, PageStart(h, n), PageEnd(h, n))
    BY <2>3, <2>4 DEF PageSoFar
  <2>6. /\ rpc' = [rpc EXCEPT ![r] = "reading"] /\ page' = [page EXCEPT ![r] = <<>>]
        /\ range' = [range EXCEPT ![r] = [at |-> PageStart(h, n), end |-> PageEnd(h, n)]]
        /\ UNCHANGED db
    BY <1>3 DEF ListBlocks, h
  <2>7. \A p, at, end : PageSoFar(p, at, end)' = PageSoFar(p, at, end)
    BY <2>6 DEF PageSoFar, StoredHeights, BlockAt, db
  <2>8. Linked(<<>>) /\ <<>> \in Seq(Block) /\ Len(<<>>) = 0  BY DEF Linked
  <2>9. /\ rpc' \in [Reader -> {"idle", "reading"}] /\ page' \in [Reader -> Seq(Block)]
        /\ range' \in [Reader -> [at : Nat, end : Int]]
    <3>1. rpc' \in [Reader -> {"idle", "reading"}]  BY <2>6 DEF Pages
    <3>2. page' \in [Reader -> Seq(Block)]  BY <2>6, <2>8 DEF Pages
    <3>3. [at |-> PageStart(h, n), end |-> PageEnd(h, n)] \in [at : Nat, end : Int]  BY <2>3
    <3>4. range' \in [Reader -> [at : Nat, end : Int]]  BY <2>6, <3>3 DEF Pages
    <3>. QED  BY <3>1, <3>2, <3>4
  <2>10. ASSUME NEW x \in Reader
         PROVE  (/\ Len(page[x]) <= Limit /\ Linked(page[x])
                 /\ rpc[x] = "reading" =>
                      range[x].end \in Nat /\ PageSoFar(page[x], range[x].at, range[x].end))'
    <3>1. CASE x = r
      <4>1. PICK p, start, end : p = <<>> /\ start = PageStart(h, n) /\ end = PageEnd(h, n)  OBVIOUS
      <4>2. page'[x] = p  BY <2>6, <3>1, <4>1 DEF Pages
      <4>3. range'[x] = [at |-> start, end |-> end]  BY <2>6, <3>1, <4>1 DEF Pages
      <4>4. range'[x].at = start /\ range'[x].end = end  BY <4>3
      <4>5. PageSoFar(p, start, end)'  BY <2>5, <2>7, <4>1
      <4>. QED  BY <2>2, <2>3, <2>8, <4>1, <4>2, <4>4, <4>5
    <3>2. CASE x # r
      <4>1. page'[x] = page[x]  BY <2>6, <3>2 DEF Pages
      <4>2. range'[x] = range[x]  BY <2>6, <3>2 DEF Pages
      <4>3. rpc'[x] = rpc[x]  BY <2>6, <3>2 DEF Pages
      <4>4. PICK p, start, end : p = page[x] /\ start = range[x].at /\ end = range[x].end  OBVIOUS
      <4>5. Len(p) <= Limit /\ Linked(p) /\ (rpc[x] = "reading" => end \in Nat /\ PageSoFar(p, start, end))
        BY <4>4 DEF Pages
      <4>6. PageSoFar(p, start, end)' = PageSoFar(p, start, end)  BY <2>7
      <4>7. page'[x] = p /\ range'[x].at = start /\ range'[x].end = end
        BY <4>1, <4>2, <4>4
      <4>. QED  BY <4>3, <4>5, <4>6, <4>7
    <3>. QED  BY <3>1, <3>2
  <2>. QED  BY <2>9, <2>10 DEF Pages
<1>4. ASSUME NEW r \in Reader, ReadBlock(r) PROVE Pages'
  <2>. DEFINE at == range[r].at
              end == range[r].end
              p == page[r]
  <2>1. /\ rpc[r] = "reading" /\ UNCHANGED db
        /\ \/ /\ at <= end /\ HasIndex(at)
              /\ page' = [page EXCEPT ![r] = Append(@, BlockAt(at))]
              /\ range' = [range EXCEPT ![r].at = at + 1] /\ rpc' = rpc
           \/ rpc' = [rpc EXCEPT ![r] = "idle"] /\ range' = range /\ page' = page
    BY <1>4 DEF ReadBlock
  <2>2. /\ p \in Seq(Block) /\ at \in Nat /\ end \in Nat
        /\ PageSoFar(p, at, end) /\ Linked(p)
    BY <2>1 DEF Pages
  <2>3. \A q, a, e : PageSoFar(q, a, e)' = PageSoFar(q, a, e)
    BY <2>1 DEF PageSoFar, StoredHeights, BlockAt, db
  <2>4. CASE /\ at <= end /\ HasIndex(at)
             /\ page' = [page EXCEPT ![r] = Append(@, BlockAt(at))]
             /\ range' = [range EXCEPT ![r].at = at + 1] /\ rpc' = rpc
    <3>. DEFINE q == Append(p, BlockAt(at))
    <3>1. q \in Seq(Block) /\ Len(q) <= Limit /\ Linked(q) /\ PageSoFar(q, at + 1, end)
      BY <2>2, <2>4, ReadNext
    <3>2. page' = [page EXCEPT ![r] = q]  BY <2>4
    <3>. HIDE DEF q
    <3>3. range' = [range EXCEPT ![r] = [range[r] EXCEPT !.at = at + 1]]  BY <2>4
    <3>4. [range[r] EXCEPT !.at = at + 1] = [at |-> at + 1, end |-> end]
          /\ [at |-> at + 1, end |-> end] \in [at : Nat, end : Int]
      BY <2>2 DEF Pages
    <3>5. range' = [range EXCEPT ![r] = [at |-> at + 1, end |-> end]]  BY <3>3, <3>4
    <3>. HIDE DEF at, end, p
    <3>6. /\ page' \in [Reader -> Seq(Block)] /\ range' \in [Reader -> [at : Nat, end : Int]]
          /\ page'[r] = q /\ range'[r].at = at + 1 /\ range'[r].end = end
          /\ \A s \in Reader \ {r} : page'[s] = page[s] /\ range'[s] = range[s]
      BY <3>1, <3>2, <3>4, <3>5 DEF Pages
    <3>7. ASSUME NEW s \in Reader
          PROVE  /\ Len(page'[s]) <= Limit /\ Linked(page'[s])
                 /\ rpc'[s] = "reading"
                      => range'[s].end \in Nat /\ PageSoFar(page'[s], range'[s].at, range'[s].end)
      BY <2>2, <2>4, <3>1, <3>6 DEF Pages
    <3>. QED  BY <2>3, <2>4, <3>6, <3>7 DEF Pages, Linked
  <2>5. CASE rpc' = [rpc EXCEPT ![r] = "idle"] /\ range' = range /\ page' = page
    BY <2>3, <2>5 DEF Pages, Linked
  <2>. QED  BY <2>1, <2>4, <2>5
<1>. QED
  BY <1>1, <1>2, <1>3, <1>4
  DEF Next, vars, readers, WriterStep, ApplyBlock, PutBlock, PutTransaction, SetHeight, SetTip

(* A page of GET /blocks is a linked stretch of the chain of at most Limit *)
(* blocks and is not cut short, whatever is applied or crashes meanwhile   *)
(* (rest_api.py:118-130, leveldb_store.py, iter_blocks).                   *)
THEOREM PagesAlwaysLinked == Spec => []PagesLinked
<1>1. Init => Pages  BY StoreAssumption DEF Init, Pages, Linked, NoRange, None
<1>2. IInv /\ Pages /\ [Next]_vars => Pages'  BY PagesKept
<1>3. ASSUME IInv, Pages PROVE PagesLinked
  <2>. SUFFICES ASSUME NEW r \in Reader, rpc[r] = "reading", page[r] # <<>>,
                       range[r].at <= range[r].end
                PROVE  HasIndex(range[r].at)
    BY <1>3 DEF PagesLinked, Pages, Linked
  <2>1. /\ page[r] \in Seq(Block) /\ range[r].at \in Nat /\ range[r].end \in Nat
        /\ PageSoFar(page[r], range[r].at, range[r].end)
    BY <1>3 DEF Pages
  <2>2. Len(page[r]) >= 1  BY <2>1
  <2>3. range[r].end # 0 /\ range[r].end \in StoredHeights /\ range[r].at \in 0 .. range[r].end
    BY <2>1, <2>2 DEF PageSoFar
  <2>4. range[r].at \in StoredHeights  BY <1>3, <2>3, BelowEnd
  <2>. QED  BY <1>3, <2>4 DEF IInv, CompleteUpToHeight
<1>. QED  BY <1>1, <1>2, <1>3, SpecIInv, PTL DEF Spec

----------------------------------------------------------------------------
(* The pool: positions and their order *)

(* before is a strict total order of S. *)
IsOrder(S, before) ==
  /\ \A i \in S : <<i, i>> \notin before
  /\ \A i, j \in S : i # j => <<i, j>> \in before \/ <<j, i>> \in before
  /\ \A i, j, k \in S : <<i, j>> \in before /\ <<j, k>> \in before => <<i, k>> \in before

Rank(i, S, before) == Cardinality({j \in S : <<j, i>> \in before})

(* Ranks run from 0 and are smaller for what comes before.                 *)
LEMMA RankLess ==
  ASSUME NEW S, IsFiniteSet(S), NEW before, IsOrder(S, before), NEW i \in S
  PROVE  /\ Rank(i, S, before) \in 0 .. Cardinality(S) - 1
         /\ \A j \in S : <<i, j>> \in before => Rank(i, S, before) < Rank(j, S, before)
<1> DEFINE below(k) == {j \in S : <<j, k>> \in before}
<1>1. \A k \in S : IsFiniteSet(below(k)) /\ Cardinality(below(k)) \in Nat
  <2>. TAKE k \in S
  <2>1. below(k) \in SUBSET S  OBVIOUS
  <2>. HIDE DEF below
  <2>. QED  BY <2>1, FS_Subset, FS_CardinalityType
<1>2. Cardinality(S) \in Nat  BY FS_CardinalityType
<1>3. \A k \in S : i \notin below(i) /\ Rank(k, S, before) = Cardinality(below(k))
  BY DEF IsOrder, Rank
<1>4. Cardinality(below(i)) + 1 <= Cardinality(S)
  <2>1. below(i) \in SUBSET (S \ {i})  BY <1>3
  <2>2. IsFiniteSet(S \ {i}) /\ Cardinality(S \ {i}) = Cardinality(S) - 1  BY FS_RemoveElement
  <2>. HIDE DEF below
  <2>3. Cardinality(below(i)) <= Cardinality(S \ {i})  BY <2>1, <2>2, FS_Subset
  <2>. QED  BY <1>1, <1>2, <2>2, <2>3
<1>5. ASSUME NEW j \in S, <<i, j>> \in before
      PROVE  Cardinality(below(i)) + 1 <= Cardinality(below(j))
  <2>1. below(i) \cup {i} \in SUBSET below(j)  BY <1>5 DEF IsOrder
  <2>2. i \notin below(i)  BY <1>3
  <2>. HIDE DEF below
  <2>3. Cardinality(below(i) \cup {i}) = Cardinality(below(i)) + 1  BY <1>1, <2>2, FS_AddElement
  <2>4. Cardinality(below(i) \cup {i}) <= Cardinality(below(j))  BY <1>1, <2>1, FS_Subset
  <2>. QED  BY <2>3, <2>4
<1>. HIDE DEF below
<1>. QED  BY <1>1, <1>2, <1>3, <1>4, <1>5

(* p lists S in the order of before. *)
Lists(p, S, before) ==
  /\ p \in [1 .. Cardinality(S) -> S]
  /\ \A i \in S : \E k \in 1 .. Cardinality(S) : p[k] = i
  /\ \A k, l \in 1 .. Cardinality(S) : k < l => <<p[k], p[l]>> \in before
  /\ \A k, l \in 1 .. Cardinality(S) : p[k] = p[l] => k = l

(* Arranged picks the elements in that order, every one once.              *)
LEMMA ArrangedIs ==
  ASSUME NEW S, IsFiniteSet(S), NEW before, IsOrder(S, before), NEW list
  PROVE  \E p : /\ Lists(p, S, before)
                /\ Arranged(list, S, before) = [k \in 1 .. Cardinality(S) |-> list[p[k]]]
<1> DEFINE n == Cardinality(S)
           r == [i \in S |-> Rank(i, S, before) + 1]
           p == [k \in 1 .. n |-> CHOOSE i \in S : Rank(i, S, before) = k - 1]
<1>1. n \in Nat  BY FS_CardinalityType
<1>2. \A i \in S : Rank(i, S, before) \in 0 .. n - 1
  BY RankLess
<1>3. \A i, j \in S : <<i, j>> \in before => Rank(i, S, before) < Rank(j, S, before)
  BY RankLess
<1>4. \A i, j \in S : Rank(i, S, before) = Rank(j, S, before) => i = j
  <2>. TAKE i, j \in S
  <2>. HAVE Rank(i, S, before) = Rank(j, S, before)
  <2>1. Rank(i, S, before) \in Int  BY <1>1, <1>2
  <2>2. <<i, j>> \notin before /\ <<j, i>> \notin before  BY <1>3, <2>1
  <2>. QED  BY <2>2 DEF IsOrder
<1>. HIDE DEF n
<1>5. r \in Injection(S, 1 .. n)
  <2>1. r \in [S -> 1 .. n]  BY <1>1, <1>2
  <2>2. \A i, j \in S : r[i] = r[j] => i = j
    <3>. TAKE i, j \in S
    <3>1. Rank(i, S, before) \in Int /\ Rank(j, S, before) \in Int  BY <1>1, <1>2
    <3>. QED  BY <1>4, <3>1
  <2>. HIDE DEF r
  <2>. QED  BY <2>1, <2>2 DEF Injection, IsInjective
<1>6. r \in Surjection(S, 1 .. n)
  <2>1. IsFiniteSet(1 .. n) /\ Cardinality(1 .. n) = n  BY <1>1, FS_Interval
  <2>. HIDE DEF r
  <2>. QED  BY <1>5, <2>1, FS_Injection DEF n
<1>7. \A k \in 1 .. n : \E i \in S : Rank(i, S, before) = k - 1
  <2>. TAKE k \in 1 .. n
  <2>1. PICK i \in S : r[i] = k
    <3>. HIDE DEF r
    <3>. QED  BY <1>6 DEF Surjection
  <2>2. Rank(i, S, before) \in Int /\ Rank(i, S, before) + 1 = k  BY <1>1, <1>2, <2>1
  <2>. QED  BY <2>2
<1>8. \A k \in 1 .. n : p[k] \in S /\ Rank(p[k], S, before) = k - 1
  <2>. TAKE k \in 1 .. n
  <2>1. p[k] = CHOOSE i \in S : Rank(i, S, before) = k - 1  OBVIOUS
  <2>. HIDE DEF p
  <2>. QED  BY <1>7, <2>1
<1>9. Arranged(list, S, before) = [k \in 1 .. n |-> list[p[k]]]
  BY DEF Arranged, Rank, n
<1>a. p \in [1 .. n -> S]
  <2>1. p = [k \in 1 .. n |-> p[k]]  OBVIOUS
  <2>. HIDE DEF p
  <2>. QED  BY <1>8, <2>1
<1>. HIDE DEF p
<1>10. \A i \in S : \E k \in 1 .. n : p[k] = i
  <2>. TAKE i \in S
  <2> DEFINE k == Rank(i, S, before) + 1
  <2>1. k \in 1 .. n /\ k - 1 = Rank(i, S, before)  BY <1>1, <1>2
  <2>. HIDE DEF k
  <2>. QED  BY <1>4, <1>8, <2>1
<1>11. \A k, l \in 1 .. n : k < l => <<p[k], p[l]>> \in before
  <2>. TAKE k, l \in 1 .. n
  <2>. HAVE k < l
  <2>1. p[k] \in S /\ p[l] \in S /\ Rank(p[k], S, before) < Rank(p[l], S, before)  BY <1>8
  <2>2. Rank(p[k], S, before) \in Int /\ Rank(p[l], S, before) \in Int  BY <1>1, <1>2, <2>1
  <2>3. ~(<<p[l], p[k]>> \in before)  BY <1>3, <2>1, <2>2
  <2>4. p[k] # p[l]  BY <2>1, <2>2
  <2>. QED  BY <2>1, <2>3, <2>4 DEF IsOrder
<1>12. \A k, l \in 1 .. n : p[k] = p[l] => k = l
  <2>. TAKE k, l \in 1 .. n
  <2>. HAVE p[k] = p[l]
  <2>1. k - 1 = l - 1  BY <1>8
  <2>. QED  BY <2>1
<1>. QED  BY <1>9, <1>a, <1>10, <1>11, <1>12 DEF Lists, n

(* How often x is in list. *)
Times(list, x) == Cardinality({i \in DOMAIN list : list[i] = x})

(* Arranging a list is a matter of positions: its elements are those at S, *)
(* as often as they are there.                                             *)
LEMMA ArrangedTimes ==
  ASSUME NEW S, IsFiniteSet(S), NEW before, IsOrder(S, before), NEW list, NEW x
  PROVE  Times(Arranged(list, S, before), x) = Cardinality({i \in S : list[i] = x})
<1> DEFINE n == Cardinality(S)
           A == {i \in S : list[i] = x}
<1>1. PICK p : /\ Lists(p, S, before)
               /\ Arranged(list, S, before) = [k \in 1 .. n |-> list[p[k]]]
  BY ArrangedIs
<1> DEFINE B == {k \in 1 .. n : list[p[k]] = x}
           f == [k \in B |-> p[k]]
<1>2. IsFiniteSet(A) /\ IsFiniteSet(B)
  <2>1. n \in Int /\ 1 \in Int  BY FS_CardinalityType
  <2>2. A \in SUBSET S /\ B \in SUBSET (1 .. n)  OBVIOUS
  <2>. HIDE DEF A, B, n
  <2>3. IsFiniteSet(1 .. n)  BY <2>1, FS_Interval
  <2>4. IsFiniteSet(A)  BY <2>2, FS_Subset
  <2>5. IsFiniteSet(B)  BY <2>2, <2>3, FS_Subset
  <2>. QED  BY <2>4, <2>5
<1>3. f \in Bijection(B, A)
  <2>1. f \in [B -> A]  BY <1>1 DEF Lists
  <2>2. \A k, l \in B : f[k] = f[l] => k = l  BY <1>1 DEF Lists
  <2>3. \A i \in A : \E k \in B : f[k] = i
    <3>. TAKE i \in A
    <3>1. PICK k \in 1 .. n : p[k] = i  BY <1>1 DEF Lists
    <3>. QED  BY <3>1
  <2>. HIDE DEF f, A, B
  <2>. QED  BY <2>1, <2>2, <2>3, Fun_IsBij
<1>4. Cardinality(A) = Cardinality(B)
  <2>. HIDE DEF f, A, B
  <2>. QED  BY <1>2, <1>3, FS_Bijection, Fun_ExistsBij
<1>5. Times(Arranged(list, S, before), x) = Cardinality(B)
  BY <1>1 DEF Times
<1>. QED  BY <1>4, <1>5

(* The positions of a list as they are form an order. *)
LEMMA NaturalOrder ==
  ASSUME NEW S \in SUBSET Nat
  PROVE  IsOrder(S, {p \in S \X S : p[1] < p[2]})
<1> DEFINE before == {p \in S \X S : p[1] < p[2]}
<1>1. \A i, j \in S : <<i, j>> \in before <=> i < j  OBVIOUS
<1>. HIDE DEF before
<1>2. \A i \in S : i \in Nat  OBVIOUS
<1>. QED  BY <1>1, <1>2 DEF IsOrder, before

(* Kept leaves out elements and keeps the order of the others.             *)
LEMMA KeptIs ==
  ASSUME NEW X, NEW list \in Seq(X), NEW S \in SUBSET (1 .. Len(list))
  PROVE  /\ Kept(list, S) \in Seq(X) /\ Len(Kept(list, S)) = Cardinality(S)
         /\ IsFiniteSet(S) /\ Cardinality(S) \in Nat
         /\ \A x : Times(Kept(list, S), x) = Cardinality({i \in S : list[i] = x})
         /\ \E p : /\ p \in [1 .. Cardinality(S) -> S]
                   /\ \A i \in S : \E k \in 1 .. Cardinality(S) : p[k] = i
                   /\ \A k, l \in 1 .. Cardinality(S) : k < l => p[k] < p[l]
                   /\ \A k, l \in 1 .. Cardinality(S) : p[k] = p[l] => k = l
                   /\ \A k \in 1 .. Cardinality(S) : Kept(list, S)[k] = list[p[k]]
<1> DEFINE before == {p \in S \X S : p[1] < p[2]}
           n == Cardinality(S)
<1>1. Len(list) \in Nat /\ IsFiniteSet(S) /\ n \in Nat /\ S \in SUBSET Nat
  <2>1. Len(list) \in Nat  OBVIOUS
  <2>2. IsFiniteSet(1 .. Len(list))  BY <2>1, FS_Interval
  <2>3. IsFiniteSet(S)  BY <2>2, FS_Subset
  <2>. QED  BY <2>1, <2>3, FS_CardinalityType
<1>2. IsOrder(S, before)  BY <1>1, NaturalOrder
<1>3. Kept(list, S) = Arranged(list, S, before)  BY DEF Kept
<1>a. \A i, j : <<i, j>> \in before => i < j  OBVIOUS
<1>. HIDE DEF before
<1>4. PICK p : Lists(p, S, before) /\ Kept(list, S) = [k \in 1 .. n |-> list[p[k]]]
  BY <1>1, <1>2, <1>3, ArrangedIs
<1>. HIDE DEF n
<1>b. p \in [1 .. n -> S]  BY <1>4 DEF Lists, n
<1>c. \A i \in 1 .. Len(list) : list[i] \in X  OBVIOUS
<1>5. \A k \in 1 .. n : p[k] \in S /\ list[p[k]] \in X  BY <1>b, <1>c
<1>6. Kept(list, S) \in Seq(X) /\ Len(Kept(list, S)) = n  BY <1>1, <1>4, <1>5
<1>7. \A x : Times(Kept(list, S), x) = Cardinality({i \in S : list[i] = x})
  BY <1>1, <1>2, <1>3, ArrangedTimes
<1>8. /\ p \in [1 .. n -> S]
      /\ \A i \in S : \E k \in 1 .. n : p[k] = i
      /\ \A k, l \in 1 .. n : k < l => p[k] < p[l]
      /\ \A k, l \in 1 .. n : p[k] = p[l] => k = l
      /\ \A k \in 1 .. n : Kept(list, S)[k] = list[p[k]]
  BY <1>4, <1>a DEF Lists, n
<1>. QED  BY <1>1, <1>6, <1>7, <1>8 DEF n

----------------------------------------------------------------------------
(* What leaves and enters the two indexes *)

Entry == [tx : Tx, timestamp : Nat]

(* No transaction has two entries in the pool. *)
Once(pool) == \A i, j \in DOMAIN pool : pool[i].tx = pool[j].tx => i = j

PoolOf(pool) == {pool[i].tx : i \in DOMAIN pool}

(* Keeping the entries at S of a pool drops the others, and nothing else.  *)
LEMMA KeptPool ==
  ASSUME NEW pool \in Seq(Entry), Once(pool), NEW S \in SUBSET (1 .. Len(pool))
  PROVE  /\ Kept(pool, S) \in Seq(Entry)
         /\ Once(Kept(pool, S))
         /\ PoolOf(Kept(pool, S)) = {pool[i].tx : i \in S}
         /\ Len(Kept(pool, S)) = Cardinality(S)
         /\ Cardinality(S) \in Nat
         /\ IsFiniteSet((1 .. Len(pool)) \ S)
         /\ Cardinality((1 .. Len(pool)) \ S) = Len(pool) - Cardinality(S)
<1> DEFINE n == Cardinality(S)
           rest == Kept(pool, S)
<1>1. /\ rest \in Seq(Entry) /\ Len(rest) = n /\ n \in Nat /\ IsFiniteSet(S)
      /\ \E p : /\ p \in [1 .. n -> S]
                /\ \A i \in S : \E k \in 1 .. n : p[k] = i
                /\ \A k, l \in 1 .. n : k < l => p[k] < p[l]
                /\ \A k, l \in 1 .. n : p[k] = p[l] => k = l
                /\ \A k \in 1 .. n : rest[k] = pool[p[k]]
  BY KeptIs, SMTT(30)
<1>. HIDE DEF rest, n
<1>2. PICK p : /\ p \in [1 .. n -> S]
               /\ \A i \in S : \E k \in 1 .. n : p[k] = i
               /\ \A k, l \in 1 .. n : p[k] = p[l] => k = l
               /\ \A k \in 1 .. n : rest[k] = pool[p[k]]
  BY <1>1
<1>3. DOMAIN rest = 1 .. n /\ DOMAIN pool = 1 .. Len(pool)  BY <1>1
<1>a. \A k \in 1 .. n : p[k] \in S /\ p[k] \in DOMAIN pool /\ rest[k].tx = pool[p[k]].tx
  BY <1>2, <1>3
<1>4. Once(rest)
  <2>1. \A k, l \in 1 .. n : rest[k].tx = rest[l].tx => p[k] = p[l]  BY <1>a DEF Once
  <2>. QED  BY <1>2, <1>3, <2>1 DEF Once
<1>5. PoolOf(rest) = {pool[i].tx : i \in S}
  <2>1. PoolOf(rest) = {rest[k].tx : k \in 1 .. n}  BY <1>3 DEF PoolOf
  <2>2. \A i \in S : \E k \in 1 .. n : rest[k].tx = pool[i].tx  BY <1>2
  <2>3. \A k \in 1 .. n : rest[k].tx \in {pool[i].tx : i \in S}  BY <1>a
  <2>4. \A i \in S : pool[i].tx \in {rest[k].tx : k \in 1 .. n}  BY <2>2
  <2>. QED  BY <2>1, <2>3, <2>4
<1>6. /\ IsFiniteSet((1 .. Len(pool)) \ S)
      /\ Cardinality((1 .. Len(pool)) \ S) = Len(pool) - n
  <2>1. Len(pool) \in Nat /\ 1 \in Int /\ Len(pool) \in Int  OBVIOUS
  <2>2. IsFiniteSet(1 .. Len(pool)) /\ Cardinality(1 .. Len(pool)) = Len(pool)
    <3> DEFINE m == Len(pool)
    <3>1. 1 \in Int /\ m \in Int /\ m \in Nat  OBVIOUS
    <3>. HIDE DEF m
    <3>2. IsFiniteSet(1 .. m) /\ Cardinality(1 .. m) = IF 1 > m THEN 0 ELSE m - 1 + 1
      BY <3>1, FS_Interval, Zenon
    <3>3. Cardinality(1 .. m) = m  BY <3>1, <3>2
    <3>. QED  BY <3>2, <3>3 DEF m
  <2>3. (1 .. Len(pool)) \cap S = S  OBVIOUS
  <2>4. IsFiniteSet((1 .. Len(pool)) \ S)
    BY <2>2, FS_Difference
  <2>5. Cardinality((1 .. Len(pool)) \ S)
          = Cardinality(1 .. Len(pool)) - Cardinality((1 .. Len(pool)) \cap S)
    BY <2>2, FS_Difference
  <2>. QED  BY <2>2, <2>3, <2>4, <2>5 DEF n
<1>. QED  BY <1>1, <1>4, <1>5, <1>6 DEF n, rest

(* A list of a sender's transactions in nonce order. *)
Sorted(list) == \A i, j \in DOMAIN list : i < j => list[i].nonce <= list[j].nonce

(* The fields of a transaction; its id is its own. *)
LEMMA TxFacts ==
  ASSUME NEW t \in Tx
  PROVE  /\ t.nonce \in Nat /\ t.id \in Nat /\ t.gas_price \in Nat /\ t.gas_limit \in Nat
         /\ t.from \in DOMAIN AccountNonce
         /\ \A u \in Tx : t.id = u.id => t = u
BY MempoolAssumption

(* A list is made of what can be counted in it. *)
LEMMA TimesIs ==
  ASSUME NEW X, NEW list \in Seq(X), NEW x
  PROVE  Times(list, x) \in Nat /\ (Times(list, x) >= 1 <=> \E i \in DOMAIN list : list[i] = x)
<1> DEFINE at == {i \in DOMAIN list : list[i] = x}
<1>1. IsFiniteSet(at)
  <2>1. Len(list) \in Int /\ 1 \in Int /\ at \in SUBSET (1 .. Len(list))  OBVIOUS
  <2>. HIDE DEF at
  <2>. QED  BY <2>1, FS_Interval, FS_Subset
<1>2. Cardinality(at) \in Nat /\ (Cardinality(at) = 0 <=> at = {})
  <2>. HIDE DEF at
  <2>. QED  BY <1>1, FS_CardinalityType, FS_EmptySet
<1>3. Times(list, x) = Cardinality(at)  BY DEF Times
<1>4. at = {} <=> ~\E i \in DOMAIN list : list[i] = x  OBVIOUS
<1>. HIDE DEF at
<1>. QED  BY <1>2, <1>3, <1>4

(* What add sorts by orders the positions of a list of transactions.       *)
LEMMA NonceOrder ==
  ASSUME NEW list \in Seq(Tx)
  PROVE  IsOrder(DOMAIN list, ByNonce(list))
<1> DEFINE D == DOMAIN list
           lt(i, j) == \/ list[i].nonce < list[j].nonce
                       \/ /\ list[i].nonce = list[j].nonce
                          /\ (list[i].id < list[j].id \/ (list[i].id = list[j].id /\ i < j))
<1>1. \A i \in D : i \in Nat /\ list[i].nonce \in Nat /\ list[i].id \in Nat
  <2>. TAKE i \in D
  <2>1. list[i] \in Tx /\ i \in Nat  OBVIOUS
  <2>. QED  BY <2>1, TxFacts
<1>2. \A i, j \in D : <<i, j>> \in ByNonce(list) <=> lt(i, j)  BY DEF ByNonce
<1>3. \A i \in D : ~lt(i, i)  BY <1>1
<1>4. \A i, j \in D : i # j => lt(i, j) \/ lt(j, i)  BY <1>1
<1>5. \A i, j, k \in D : lt(i, j) /\ lt(j, k) => lt(i, k)  BY <1>1
<1>. HIDE DEF lt, D
<1>6. IsOrder(D, ByNonce(list))  BY <1>2, <1>3, <1>4, <1>5 DEF IsOrder
<1>. QED  BY <1>6 DEF D

(* Storing an entry puts its transaction into the pool, at the end if it   *)
(* was not there.                                                          *)
LEMMA StoredIs ==
  ASSUME NEW pool \in Seq(Entry), Once(pool), NEW e \in Entry
  PROVE  /\ Stored(pool, e) \in Seq(Entry) /\ Once(Stored(pool, e))
         /\ PoolOf(Stored(pool, e)) = PoolOf(pool) \cup {e.tx}
         /\ e.tx \notin PoolOf(pool) => Len(Stored(pool, e)) = Len(pool) + 1
<1>1. DOMAIN pool = 1 .. Len(pool) /\ Len(pool) \in Nat /\ \A i \in DOMAIN pool : pool[i] \in Entry
  OBVIOUS
<1>2. CASE \E i \in DOMAIN pool : pool[i].tx = e.tx
  <2> DEFINE new == [i \in DOMAIN pool |-> IF pool[i].tx = e.tx THEN e ELSE pool[i]]
  <2>1. Stored(pool, e) = new  BY <1>2 DEF Stored
  <2>2. DOMAIN new = DOMAIN pool /\ \A i \in DOMAIN pool : new[i] \in Entry /\ new[i].tx = pool[i].tx
    BY <1>1
  <2>3. new \in Seq(Entry)  BY <1>1
  <2>. HIDE DEF new
  <2>4. Once(new)  BY <2>2 DEF Once
  <2>5. PoolOf(new) = PoolOf(pool) /\ e.tx \in PoolOf(pool)  BY <1>2, <2>2 DEF PoolOf
  <2>. QED  BY <2>1, <2>3, <2>4, <2>5
<1>3. CASE ~\E i \in DOMAIN pool : pool[i].tx = e.tx
  <2> DEFINE new == Append(pool, e)
             last == Len(pool) + 1
  <2>1. Stored(pool, e) = new  BY <1>3 DEF Stored
  <2>2. /\ new \in Seq(Entry) /\ Len(new) = last /\ DOMAIN new = (DOMAIN pool) \cup {last}
        /\ \A i \in DOMAIN pool : new[i] = pool[i] /\ i # last
        /\ new[last] = e
    BY <1>1
  <2>. HIDE DEF new, last
  <2>3. Once(new)
    <3>1. \A i \in DOMAIN pool : new[i].tx # new[last].tx  BY <1>3, <2>2
    <3>2. \A i, j \in DOMAIN pool : new[i].tx = new[j].tx => i = j  BY <2>2 DEF Once
    <3>. QED  BY <2>2, <3>1, <3>2 DEF Once
  <2>4. PoolOf(new) = PoolOf(pool) \cup {e.tx}
    <3>1. \A x : x \in PoolOf(new) <=> \E i \in (DOMAIN pool) \cup {last} : new[i].tx = x
      BY <2>2 DEF PoolOf
    <3>2. \A x : x \in PoolOf(pool) <=> \E i \in DOMAIN pool : new[i].tx = x
      BY <2>2 DEF PoolOf
    <3>. QED  BY <2>2, <3>1, <3>2
  <2>. QED  BY <2>1, <2>2, <2>3, <2>4 DEF last
<1>. QED  BY <1>2, <1>3

(* The transaction evicted is one that was in the pool when it was chosen. *)
LEMMA CheapestIs ==
  ASSUME NEW pool \in Seq(Entry), pool # <<>>
  PROVE  Cheapest(pool) \in PoolOf(pool)
<1> DEFINE cheap == {i \in DOMAIN pool : \A j \in DOMAIN pool : Fee(pool[i].tx) <= Fee(pool[j].tx)}
           fees == {Fee(pool[j].tx) : j \in DOMAIN pool}
<1>1. \A i \in DOMAIN pool : Fee(pool[i].tx) \in Nat
  <2>. TAKE i \in DOMAIN pool
  <2>1. pool[i] \in Entry  OBVIOUS
  <2>2. pool[i].tx.gas_price \in Nat /\ pool[i].tx.gas_limit \in Nat  BY <2>1, TxFacts DEF Entry
  <2>. QED  BY <2>2 DEF Fee
<1>2. DOMAIN pool = 1 .. Len(pool) /\ Len(pool) \in Nat /\ 1 \in DOMAIN pool
  <2>1. Len(pool) \in Nat /\ Len(pool) # 0 /\ DOMAIN pool = 1 .. Len(pool)  OBVIOUS
  <2>. QED  BY <2>1
<1>3. fees \in SUBSET Nat /\ fees # {}  BY <1>1, <1>2
<1>4. PICK low \in fees : \A x \in fees : low <= x
  <2>. HIDE DEF fees
  <2>. QED  BY <1>3, MinInSet
<1>5. PICK m \in DOMAIN pool : Fee(pool[m].tx) = low  BY <1>4
<1>6. cheap # {} /\ cheap \in SUBSET Nat
  <2>1. \A j \in DOMAIN pool : Fee(pool[m].tx) <= Fee(pool[j].tx)  BY <1>4, <1>5
  <2>. QED  BY <1>2, <2>1, SMTT(30)
<1>7. Min(cheap) \in cheap
  <2>. HIDE DEF cheap
  <2>. QED  BY <1>6, MinInSet
<1>8. Cheapest(pool) = pool[Min(cheap)].tx  BY DEF Cheapest
<1>9. Min(cheap) \in DOMAIN pool  BY <1>7
<1>. QED  BY <1>8, <1>9 DEF PoolOf

(* S and T differ in x at most. *)
LEMMA CountMoved ==
  ASSUME NEW S, IsFiniteSet(S), NEW T, NEW x, T \ {x} = S \ {x}
  PROVE  /\ IsFiniteSet(T) /\ Cardinality(S) \in Nat /\ Cardinality(T) \in Nat
         /\ Cardinality(T) = Cardinality(S \ {x}) + (IF x \in T THEN 1 ELSE 0)
         /\ Cardinality(S) = Cardinality(S \ {x}) + (IF x \in S THEN 1 ELSE 0)
         /\ Cardinality(S \ {x}) \in Nat
<1> DEFINE R == S \ {x}
<1>1. IsFiniteSet(R) /\ Cardinality(R) \in Nat /\ Cardinality(S) \in Nat
  BY FS_RemoveElement, FS_CardinalityType
<1>2. x \notin R /\ (x \in T => T = R \cup {x}) /\ (x \notin T => T = R)
      /\ (x \in S => S = R \cup {x}) /\ (x \notin S => S = R)
  OBVIOUS
<1>. HIDE DEF R
<1>3. IsFiniteSet(R \cup {x}) /\ Cardinality(R \cup {x}) = Cardinality(R) + 1
  BY <1>1, <1>2, FS_AddElement
<1>4. IsFiniteSet(T) /\ Cardinality(T) = Cardinality(R) + (IF x \in T THEN 1 ELSE 0)
  <2>1. CASE x \in T  BY <1>2, <1>3, <2>1
  <2>2. CASE x \notin T  BY <1>1, <1>2, <2>2
  <2>. QED  BY <2>1, <2>2
<1>5. Cardinality(S) = Cardinality(R) + (IF x \in S THEN 1 ELSE 0)
  <2>1. CASE x \in S  BY <1>2, <1>3, <2>1
  <2>2. CASE x \notin S  BY <1>1, <1>2, <2>2
  <2>. QED  BY <2>1, <2>2
<1>. QED  BY <1>1, <1>4, <1>5, FS_CardinalityType DEF R

----------------------------------------------------------------------------
(* The threads' steps, and the types *)

Steps == {"idle", "room", "evict", "remove", "find", "filter", "store", "list", "append",
          "sort", "count"}

(* What a thread has at each step. *)
InStep(th) ==
  /\ apc[th] = "idle" => entry[th] = NoEntry
  /\ apc[th] \notin {"idle", "find", "filter"} => entry[th] \in Entry
  /\ apc[th] \in {"remove", "find", "filter"} => leaving[th] \in Tx
  /\ IF apc[th] \in {"append", "sort", "filter"} THEN held[th] \in ListId ELSE held[th] = NoList
  /\ apc[th] # "filter" => passed[th] = 0 /\ kept[th] = <<>>

PoolTypes ==
  /\ txs \in Seq(Entry) /\ Once(txs)
  /\ lists \in [ListId -> Seq(Tx)]
  /\ by_sender \in [DOMAIN AccountNonce -> ListId \cup {NoList}]
  /\ stats \in [added : Int, evicted : Int, mined : Int]
  /\ clock \in Nat
  /\ apc \in [Thread -> Steps]
  /\ entry \in [Thread -> Entry \cup {NoEntry}]
  /\ leaving \in [Thread -> Tx \cup {NoTx}]
  /\ held \in [Thread -> ListId \cup {NoList}]
  /\ passed \in [Thread -> Nat] /\ kept \in [Thread -> Seq(Tx)]
  /\ expiries \in [Tx -> Nat] /\ expired \in Int
  /\ overlapped \in BOOLEAN
  /\ IsFiniteSet(Uncounted) /\ IsFiniteSet(Unfinished)
  /\ \A th \in Thread : InStep(th)

(* Threads go from step to step one at a time. *)
LEMMA GotoIs ==
  ASSUME PoolTypes, NEW th \in Thread, NEW label \in Steps, Goto(th, label)
  PROVE  /\ apc' \in [Thread -> Steps] /\ apc'[th] = label
         /\ \A other \in Thread \ {th} : apc'[other] = apc[other]
         /\ IsFiniteSet(Uncounted') /\ IsFiniteSet(Unfinished')
         /\ Uncounted' \ {th} = Uncounted \ {th} /\ Unfinished' \ {th} = Unfinished \ {th}
         /\ th \in Uncounted' <=> label \in {"list", "append", "sort", "count"}
         /\ th \in Unfinished' <=> label \in {"find", "filter"}
         /\ th \in Uncounted <=> apc[th] \in {"list", "append", "sort", "count"}
         /\ th \in Unfinished <=> apc[th] \in {"find", "filter"}
<1>1. /\ apc' \in [Thread -> Steps] /\ apc'[th] = label
      /\ \A other \in Thread \ {th} : apc'[other] = apc[other]
  BY DEF Goto, PoolTypes
<1>2. Uncounted' \ {th} = Uncounted \ {th} /\ Unfinished' \ {th} = Unfinished \ {th}
  BY <1>1 DEF Uncounted, Unfinished
<1>3. /\ th \in Uncounted' <=> label \in {"list", "append", "sort", "count"}
      /\ th \in Unfinished' <=> label \in {"find", "filter"}
      /\ th \in Uncounted <=> apc[th] \in {"list", "append", "sort", "count"}
      /\ th \in Unfinished <=> apc[th] \in {"find", "filter"}
  BY <1>1 DEF Uncounted, Unfinished
<1>4. IsFiniteSet(Uncounted') /\ IsFiniteSet(Unfinished')
  <2>1. IsFiniteSet(Uncounted) /\ IsFiniteSet(Unfinished)  BY DEF PoolTypes
  <2>. QED  BY <1>2, <2>1, CountMoved
<1>. QED  BY <1>1, <1>2, <1>3, <1>4

(* The pool is the set of what its entries hold. *)
LEMMA PoolIs == Pool = PoolOf(txs)
BY DEF Pool, PoolOf

(* Only transactions are in the pool. *)
LEMMA PoolInTx ==
  ASSUME PoolTypes
  PROVE  Pool \in SUBSET Tx
<1>1. \A i \in DOMAIN txs : txs[i] \in Entry  BY DEF PoolTypes
<1>. QED  BY <1>1 DEF Pool, Entry

(* Whoever adds a transaction has one, and the empty entry holds none.     *)
LEMMA EntryIs == \A e \in Entry : e # NoEntry /\ e.tx \in Tx /\ e.tx # NoTx
<1>1. \A t \in Tx : t # NoTx  BY MempoolAssumption DEF NoTx
<1>2. \A e \in Entry : e.tx \in Tx  BY DEF Entry
<1>3. NoEntry.tx = NoTx  BY DEF NoEntry
<1>. QED  BY <1>1, <1>2, <1>3

(* Taking a transaction out of the pool takes its entry, and no other.     *)
LEMMA PopIs ==
  ASSUME PoolTypes, NEW th \in Thread, NEW t \in Pool, Pop(th, t)
  PROVE  /\ txs' \in Seq(Entry) /\ Once(txs')
         /\ Pool' = Pool \ {t}
         /\ Len(txs) \in Nat /\ Len(txs') \in Nat /\ Len(txs') + 1 = Len(txs)
<1> DEFINE S == {i \in DOMAIN txs : txs[i].tx # t}
<1>1. txs \in Seq(Entry) /\ Once(txs) /\ DOMAIN txs = 1 .. Len(txs) /\ Len(txs) \in Nat
  BY DEF PoolTypes
<1>2. S \in SUBSET (1 .. Len(txs))  BY <1>1
<1>3. txs' = Kept(txs, S)  BY DEF Pop
<1>4. {txs[i].tx : i \in S} = Pool \ {t}  BY DEF Pool
<1>5. Cardinality((1 .. Len(txs)) \ S) = 1
  <2>1. PICK i \in DOMAIN txs : txs[i].tx = t  BY DEF Pool
  <2>2. (1 .. Len(txs)) \ S = {i}  BY <1>1, <2>1 DEF Once
  <2>. QED  BY <2>2, FS_Singleton
<1>. HIDE DEF S
<1>6. /\ Kept(txs, S) \in Seq(Entry) /\ Once(Kept(txs, S))
      /\ PoolOf(Kept(txs, S)) = {txs[i].tx : i \in S}
      /\ Len(Kept(txs, S)) = Cardinality(S) /\ Cardinality(S) \in Nat
      /\ Cardinality((1 .. Len(txs)) \ S) = Len(txs) - Cardinality(S)
  BY <1>1, <1>2, KeptPool
<1>7. Pool' = PoolOf(txs')  BY DEF Pool, PoolOf
<1>8. Len(txs') + 1 = Len(txs)  BY <1>1, <1>3, <1>5, <1>6
<1>. QED  BY <1>1, <1>3, <1>4, <1>6, <1>7, <1>8

(* No other thread gets on. *)
OthersStay(th) ==
  \A other \in Thread \ {th} :
    /\ apc'[other] = apc[other] /\ entry'[other] = entry[other]
    /\ leaving'[other] = leaving[other] /\ held'[other] = held[other]
    /\ passed'[other] = passed[other] /\ kept'[other] = kept[other]

LocalTypes ==
  /\ entry \in [Thread -> Entry \cup {NoEntry}]
  /\ leaving \in [Thread -> Tx \cup {NoTx}]
  /\ held \in [Thread -> ListId \cup {NoList}]
  /\ passed \in [Thread -> Nat] /\ kept \in [Thread -> Seq(Tx)]

(* What is common to the steps of one thread, as far as types go.          *)
LEMMA ThreadTypes ==
  ASSUME PoolTypes, NEW th \in Thread, NEW label \in Steps, Goto(th, label),
         txs' \in Seq(Entry), Once(txs'), lists' \in [ListId -> Seq(Tx)],
         by_sender' \in [DOMAIN AccountNonce -> ListId \cup {NoList}],
         stats' \in [added : Int, evicted : Int, mined : Int], clock' = clock,
         LocalTypes', OthersStay(th), InStep(th)',
         UNCHANGED <<expiries, expired>>, overlapped' \in BOOLEAN
  PROVE  PoolTypes'
<1>1. /\ apc' \in [Thread -> Steps]
      /\ IsFiniteSet(Uncounted') /\ IsFiniteSet(Unfinished')
  BY GotoIs
<1>2. ASSUME NEW other \in Thread \ {th} PROVE InStep(other)'
  <2>1. InStep(other)  BY DEF PoolTypes
  <2>. QED  BY <2>1 DEF InStep, OthersStay
<1>3. \A other \in Thread : InStep(other)'  BY <1>2
<1>4. clock' \in Nat /\ expiries' \in [Tx -> Nat] /\ expired' \in Int  BY DEF PoolTypes
<1>. QED  BY <1>1, <1>3, <1>4 DEF PoolTypes, LocalTypes

(* A step that changes one thread's place in one function. *)
LEMMA ChangedIs ==
  ASSUME NEW X, NEW Y, NEW f \in [X -> Y], NEW x \in X, NEW y \in Y
  PROVE  /\ [f EXCEPT ![x] = y] \in [X -> Y] /\ [f EXCEPT ![x] = y][x] = y
         /\ \A z \in X \ {x} : [f EXCEPT ![x] = y][z] = f[z]
OBVIOUS

(* Something unchanged is like something stored again. *)
LEMMA SameIs ==
  ASSUME NEW X, NEW Y, NEW f \in [X -> Y], NEW x \in X
  PROVE  f[x] \in Y /\ f = [f EXCEPT ![x] = f[x]]
<1>1. DOMAIN f = X  OBVIOUS
<1>2. f = [y \in DOMAIN f |-> f[y]]  OBVIOUS
<1> DEFINE g == [f EXCEPT ![x] = f[x]]
<1>3. g = [y \in X |-> IF y = x THEN f[x] ELSE f[y]]  OBVIOUS
<1>4. \A y \in X : (IF y = x THEN f[x] ELSE f[y]) = f[y]  OBVIOUS
<1>. QED  BY <1>1, <1>2, <1>3, <1>4

(* A name that no list has yet. *)
LEMMA FreshIs ==
  ASSUME PoolTypes, NEW l, Fresh(l)
  PROVE  /\ l \in ListId /\ l # NoList
         /\ \A s \in DOMAIN AccountNonce : by_sender[s] # l
         /\ \A th \in Thread : held[th] # l
<1>1. DOMAIN by_sender = DOMAIN AccountNonce  BY DEF PoolTypes
<1>. QED  BY <1>1, MempoolAssumption DEF Fresh, InUse, NoList

(* Collecting leaves lists lists. *)
LEMMA CollectedIs ==
  ASSUME NEW all \in [ListId -> Seq(Tx)]
  PROVE  /\ Collected(all) \in [ListId -> Seq(Tx)]
         /\ \A l \in ListId : l \in InUse' => Collected(all)[l] = all[l]
<1> DEFINE S == Seq(Tx)
<1>1. <<>> \in S /\ all \in [ListId -> S]  OBVIOUS
<1>. HIDE DEF S
<1>2. Collected(all) \in [ListId -> S]  BY <1>1 DEF Collected
<1>. QED  BY <1>2 DEF Collected, S

(* Sorting by nonce keeps what is there, as often as it is there.          *)
LEMMA SortedIs ==
  ASSUME NEW list \in Seq(Tx)
  PROVE  /\ InNonceOrder(list) \in Seq(Tx) /\ Sorted(InNonceOrder(list))
         /\ \A u : Times(InNonceOrder(list), u) = Times(list, u)
<1> DEFINE D == DOMAIN list
           n == Cardinality(D)
           before == ByNonce(list)
           sorted == InNonceOrder(list)
<1>0. sorted = Arranged(list, D, before)  BY DEF InNonceOrder
<1>1. D = 1 .. Len(list) /\ Len(list) \in Nat /\ \A i \in D : list[i] \in Tx  OBVIOUS
<1>2. IsFiniteSet(D) /\ n \in Nat
  <2>1. 1 \in Int /\ Len(list) \in Int  BY <1>1
  <2>. HIDE DEF D
  <2>2. IsFiniteSet(D)  BY <1>1, <2>1, FS_Interval
  <2>. QED  BY <2>2, FS_CardinalityType
<1>3. IsOrder(D, before)  BY NonceOrder
<1>4. \A i, j \in D : <<i, j>> \in before => list[i].nonce <= list[j].nonce
  <2>1. \A i \in D : list[i].nonce \in Nat  BY <1>1, TxFacts
  <2>. QED  BY <2>1 DEF ByNonce
<1>5. \A u : Times(list, u) = Cardinality({i \in D : list[i] = u})  BY DEF Times
<1>. HIDE DEF D, before, sorted
<1>6. PICK p : Lists(p, D, before) /\ sorted = [k \in 1 .. n |-> list[p[k]]]
  BY <1>0, <1>2, <1>3, ArrangedIs
<1>7. \A u : Times(sorted, u) = Times(list, u)
  <2>. TAKE u
  <2>1. Times(Arranged(list, D, before), u) = Cardinality({i \in D : list[i] = u})
    BY <1>2, <1>3, ArrangedTimes
  <2>. QED  BY <1>0, <1>5, <2>1
<1>. HIDE DEF n
<1>8. /\ p \in [1 .. n -> D]
      /\ \A k, l \in 1 .. n : k < l => <<p[k], p[l]>> \in before
  BY <1>6 DEF Lists, n
<1>9. \A k \in 1 .. n : p[k] \in D /\ list[p[k]] \in Tx  BY <1>1, <1>8
<1>10. sorted \in Seq(Tx) /\ DOMAIN sorted = 1 .. n  BY <1>2, <1>6, <1>9
<1>11. \A k, l \in 1 .. n : k < l => list[p[k]].nonce <= list[p[l]].nonce
  BY <1>4, <1>8, <1>9
<1>12. Sorted(sorted)  BY <1>6, <1>10, <1>11 DEF Sorted
<1>. QED  BY <1>7, <1>10, <1>12 DEF sorted

(* The types hold throughout. *)
LEMMA AddCheckTypes ==
  ASSUME PoolTypes, NEW th \in Thread, NEW t \in Tx, AddCheck(th, t)
  PROVE  PoolTypes' /\ OthersStay(th)
<1> DEFINE e == [tx |-> t, timestamp |-> clock]
<1>1. /\ apc[th] = "idle" /\ Goto(th, "room") /\ entry' = [entry EXCEPT ![th] = e]
      /\ overlapped' = (overlapped \/ Busy # {})
      /\ UNCHANGED <<txs, lists, by_sender, stats, clock, leaving, held, passed, kept,
                     expiries, expired>>
  BY DEF AddCheck
<1>2. e \in Entry  BY DEF PoolTypes, Entry
<1>. HIDE DEF e
<1>3. "room" \in Steps  BY DEF Steps
<1>4. apc'[th] = "room" /\ \A other \in Thread \ {th} : apc'[other] = apc[other]
  BY <1>1, <1>3, GotoIs
<1>5. /\ entry' \in [Thread -> Entry \cup {NoEntry}] /\ entry'[th] = e
      /\ \A other \in Thread \ {th} : entry'[other] = entry[other]
  BY <1>1, <1>2 DEF PoolTypes
<1>6. InStep(th)'  BY <1>1, <1>2, <1>4, <1>5 DEF PoolTypes, InStep
<1>7. OthersStay(th) /\ LocalTypes'
  BY <1>1, <1>4, <1>5 DEF PoolTypes, LocalTypes, OthersStay
<1>8. overlapped' \in BOOLEAN  BY <1>1 DEF PoolTypes
<1>. QED  BY <1>1, <1>3, <1>6, <1>7, <1>8, ThreadTypes DEF PoolTypes

LEMMA AddRoomTypes ==
  ASSUME PoolTypes, NEW th \in Thread, AddRoom(th)
  PROVE  PoolTypes' /\ OthersStay(th)
<1>1. PICK label \in {"evict", "store"} : Goto(th, label)  BY DEF AddRoom
<1>2. /\ apc[th] = "room"
      /\ UNCHANGED <<txs, lists, by_sender, stats, clock, entry, leaving, held, passed, kept,
                     expiries, expired, overlapped>>
  BY DEF AddRoom, locals, history
<1>3. label \in Steps  BY DEF Steps
<1>4. apc'[th] = label /\ \A other \in Thread \ {th} : apc'[other] = apc[other]
  BY <1>1, <1>3, GotoIs
<1>5. InStep(th)'  BY <1>2, <1>4 DEF PoolTypes, InStep
<1>6. OthersStay(th) /\ LocalTypes'  BY <1>2, <1>4 DEF PoolTypes, LocalTypes, OthersStay
<1>. QED  BY <1>1, <1>2, <1>3, <1>5, <1>6, ThreadTypes DEF PoolTypes

LEMMA AddChooseTypes ==
  ASSUME PoolTypes, NEW th \in Thread, AddChoose(th)
  PROVE  PoolTypes' /\ OthersStay(th)
<1>1. /\ apc[th] = "evict"
      /\ UNCHANGED <<txs, lists, by_sender, stats, clock, entry, held, passed, kept,
                     expiries, expired, overlapped>>
      /\ IF txs = <<>>
         THEN Goto(th, "store") /\ UNCHANGED leaving
         ELSE Goto(th, "remove") /\ leaving' = [leaving EXCEPT ![th] = Cheapest(txs)]
  BY DEF AddChoose, history
<1>2. txs # <<>> => Cheapest(txs) \in Tx
  BY CheapestIs, PoolIs, PoolInTx DEF PoolTypes
<1>3. PICK label \in {"store", "remove"} :
        /\ Goto(th, label)
        /\ leaving' \in [Thread -> Tx \cup {NoTx}]
        /\ label = "remove" => leaving'[th] \in Tx
        /\ \A other \in Thread \ {th} : leaving'[other] = leaving[other]
  <2>1. CASE txs = <<>>  BY <1>1, <2>1 DEF PoolTypes
  <2>2. CASE txs # <<>>
    <3>1. Goto(th, "remove") /\ leaving' = [leaving EXCEPT ![th] = Cheapest(txs)]
      BY <1>1, <2>2
    <3>2. leaving \in [Thread -> Tx \cup {NoTx}]  BY DEF PoolTypes
    <3>3. Cheapest(txs) \in Tx \cup {NoTx}  BY <1>2, <2>2
    <3>4. /\ leaving' \in [Thread -> Tx \cup {NoTx}] /\ leaving'[th] = Cheapest(txs)
          /\ \A other \in Thread \ {th} : leaving'[other] = leaving[other]
      BY <3>1, <3>2, <3>3, ChangedIs
    <3>. QED  BY <1>2, <2>2, <3>1, <3>4
  <2>. QED  BY <2>1, <2>2
<1>4. label \in Steps  BY DEF Steps
<1>5. apc'[th] = label /\ \A other \in Thread \ {th} : apc'[other] = apc[other]
  BY <1>3, <1>4, GotoIs
<1>6. InStep(th)'  BY <1>1, <1>3, <1>5 DEF PoolTypes, InStep
<1>7. OthersStay(th) /\ LocalTypes'  BY <1>1, <1>3, <1>5 DEF PoolTypes, LocalTypes, OthersStay
<1>. QED  BY <1>1, <1>3, <1>4, <1>6, <1>7, ThreadTypes DEF PoolTypes

LEMMA AddEvictTypes ==
  ASSUME PoolTypes, NEW th \in Thread, AddEvict(th)
  PROVE  PoolTypes' /\ OthersStay(th)
<1>1. /\ apc[th] = "remove"
      /\ UNCHANGED <<lists, by_sender, clock, entry, held, passed, kept,
                     expiries, expired, overlapped>>
  BY DEF AddEvict
<1>2. leaving[th] \in Tx /\ leaving \in [Thread -> Tx \cup {NoTx}]
  BY <1>1 DEF PoolTypes, InStep
<1>3. CASE leaving[th] \in Pool
  <2>1. Pop(th, leaving[th]) /\ UNCHANGED stats  BY <1>3 DEF AddEvict
  <2>2. txs' \in Seq(Entry) /\ Once(txs')  BY <1>3, <2>1, PopIs
  <2>3. Goto(th, "find") /\ leaving' = [leaving EXCEPT ![th] = leaving[th]]  BY <2>1 DEF Pop
  <2>4. leaving' = leaving  BY <1>2, <2>3, SameIs
  <2>5. "find" \in Steps  BY DEF Steps
  <2>6. apc'[th] = "find" /\ \A other \in Thread \ {th} : apc'[other] = apc[other]
    BY <2>3, <2>5, GotoIs
  <2>7. InStep(th)'  BY <1>1, <2>4, <2>6 DEF PoolTypes, InStep
  <2>8. OthersStay(th) /\ LocalTypes'  BY <1>1, <2>4, <2>6 DEF PoolTypes, LocalTypes, OthersStay
  <2>. QED  BY <1>1, <2>1, <2>2, <2>3, <2>5, <2>7, <2>8, ThreadTypes DEF PoolTypes
<1>4. CASE leaving[th] \notin Pool
  <2>1. /\ Goto(th, "store") /\ leaving' = [leaving EXCEPT ![th] = NoTx] /\ UNCHANGED txs
        /\ stats' = [stats EXCEPT !.evicted = @ + 1]
    BY <1>4 DEF AddEvict
  <2>2. stats' \in [added : Int, evicted : Int, mined : Int]
    <3>1. stats \in [added : Int, evicted : Int, mined : Int]  BY DEF PoolTypes
    <3>. QED  BY <2>1, <3>1
  <2>3. "store" \in Steps  BY DEF Steps
  <2>4. apc'[th] = "store" /\ \A other \in Thread \ {th} : apc'[other] = apc[other]
    BY <2>1, <2>3, GotoIs
  <2>5. /\ leaving' \in [Thread -> Tx \cup {NoTx}]
        /\ \A other \in Thread \ {th} : leaving'[other] = leaving[other]
    <3>1. NoTx \in Tx \cup {NoTx}  OBVIOUS
    <3>. QED  BY <1>2, <2>1, <3>1, ChangedIs
  <2>6. InStep(th)'  BY <1>1, <2>4 DEF PoolTypes, InStep
  <2>7. OthersStay(th) /\ LocalTypes'
    BY <1>1, <2>4, <2>5 DEF PoolTypes, LocalTypes, OthersStay
  <2>. QED  BY <1>1, <2>1, <2>2, <2>3, <2>6, <2>7, ThreadTypes DEF PoolTypes
<1>. QED  BY <1>3, <1>4

LEMMA AddStoreTypes ==
  ASSUME PoolTypes, NEW th \in Thread, AddStore(th)
  PROVE  PoolTypes' /\ OthersStay(th)
<1>1. /\ apc[th] = "store" /\ Goto(th, "list") /\ txs' = Stored(txs, entry[th])
      /\ UNCHANGED <<lists, by_sender, stats, clock, entry, leaving, held, passed, kept,
                     expiries, expired, overlapped>>
  BY DEF AddStore, locals
<1>2. txs' \in Seq(Entry) /\ Once(txs')
  <2>1. entry[th] \in Entry  BY <1>1 DEF PoolTypes, InStep
  <2>. QED  BY <1>1, <2>1, StoredIs DEF PoolTypes
<1>3. "list" \in Steps  BY DEF Steps
<1>4. apc'[th] = "list" /\ \A other \in Thread \ {th} : apc'[other] = apc[other]
  BY <1>1, <1>3, GotoIs
<1>5. InStep(th)'  BY <1>1, <1>4 DEF PoolTypes, InStep
<1>6. OthersStay(th) /\ LocalTypes'  BY <1>1, <1>4 DEF PoolTypes, LocalTypes, OthersStay
<1>. QED  BY <1>1, <1>2, <1>3, <1>5, <1>6, ThreadTypes DEF PoolTypes

(* A new list, and the sender's, if it had none. *)
LEMMA AddListTypes ==
  ASSUME PoolTypes, NEW th \in Thread, AddList(th)
  PROVE  PoolTypes' /\ OthersStay(th)
<1> DEFINE s == entry[th].tx.from
<1>1. PICK l \in ListId :
        /\ held' = [held EXCEPT ![th] = l]
        /\ IF by_sender[s] # NoList THEN l = by_sender[s] /\ UNCHANGED <<lists, by_sender>>
           ELSE /\ Fresh(l) /\ lists' = [lists EXCEPT ![l] = <<>>]
                /\ by_sender' = [by_sender EXCEPT ![s] = l]
  BY DEF AddList
<1>2. /\ apc[th] = "list" /\ Goto(th, "append")
      /\ UNCHANGED <<txs, stats, clock, entry, leaving, passed, kept, expiries, expired, overlapped>>
  BY DEF AddList, history
<1>. HIDE DEF s
<1>3. "append" \in Steps  BY DEF Steps
<1>4. apc'[th] = "append" /\ \A other \in Thread \ {th} : apc'[other] = apc[other]
  BY <1>2, <1>3, GotoIs
<1>5. /\ held' \in [Thread -> ListId \cup {NoList}] /\ held'[th] = l
      /\ \A other \in Thread \ {th} : held'[other] = held[other]
  BY <1>1 DEF PoolTypes
<1>6. lists' \in [ListId -> Seq(Tx)]
  <2> DEFINE S == Seq(Tx)
  <2>1. <<>> \in S /\ lists \in [ListId -> S]  BY DEF PoolTypes
  <2>. HIDE DEF S
  <2>2. lists' \in [ListId -> S]  BY <1>1, <2>1
  <2>. QED  BY <2>2 DEF S
<1>7. by_sender' \in [DOMAIN AccountNonce -> ListId \cup {NoList}]  BY <1>1 DEF PoolTypes
<1>8. InStep(th)'  BY <1>2, <1>4, <1>5 DEF PoolTypes, InStep
<1>9. OthersStay(th) /\ LocalTypes'  BY <1>2, <1>4, <1>5 DEF PoolTypes, LocalTypes, OthersStay
<1>. QED  BY <1>2, <1>3, <1>6, <1>7, <1>8, <1>9, ThreadTypes DEF PoolTypes

LEMMA AddAppendTypes ==
  ASSUME PoolTypes, NEW th \in Thread, AddAppend(th)
  PROVE  PoolTypes' /\ OthersStay(th)
<1>1. /\ apc[th] = "append" /\ Goto(th, "sort")
      /\ lists' = [lists EXCEPT ![held[th]] = Append(@, entry[th].tx)]
      /\ UNCHANGED <<txs, by_sender, stats, clock, entry, leaving, held, passed, kept,
                     expiries, expired, overlapped>>
  BY DEF AddAppend, locals, history
<1>2. lists' \in [ListId -> Seq(Tx)]
  <2>1. held[th] \in ListId /\ entry[th].tx \in Tx  BY <1>1, EntryIs DEF PoolTypes, InStep
  <2>2. lists \in [ListId -> Seq(Tx)]  BY DEF PoolTypes
  <2>3. Append(lists[held[th]], entry[th].tx) \in Seq(Tx)  BY <2>1, <2>2
  <2>. QED  BY <1>1, <2>1, <2>2, <2>3
<1>3. "sort" \in Steps  BY DEF Steps
<1>4. apc'[th] = "sort" /\ \A other \in Thread \ {th} : apc'[other] = apc[other]
  BY <1>1, <1>3, GotoIs
<1>5. InStep(th)'  BY <1>1, <1>4 DEF PoolTypes, InStep
<1>6. OthersStay(th) /\ LocalTypes'  BY <1>1, <1>4 DEF PoolTypes, LocalTypes, OthersStay
<1>. QED  BY <1>1, <1>2, <1>3, <1>5, <1>6, ThreadTypes DEF PoolTypes

LEMMA AddSortTypes ==
  ASSUME PoolTypes, NEW th \in Thread, AddSort(th)
  PROVE  /\ PoolTypes' /\ OthersStay(th)
         /\ held'[th] = NoList
         /\ \A l \in ListId : l \in InUse' =>
              lists'[l] = IF l = held[th] THEN InNonceOrder(lists[l]) ELSE lists[l]
<1>1. /\ apc[th] = "sort" /\ Goto(th, "count") /\ held' = [held EXCEPT ![th] = NoList]
      /\ lists' = Collected([lists EXCEPT ![held[th]] = InNonceOrder(@)])
      /\ UNCHANGED <<txs, by_sender, stats, clock, entry, leaving, passed, kept,
                     expiries, expired, overlapped>>
  BY DEF AddSort, history
<1>2. /\ lists' \in [ListId -> Seq(Tx)]
      /\ \A l \in ListId : l \in InUse' =>
           lists'[l] = IF l = held[th] THEN InNonceOrder(lists[l]) ELSE lists[l]
  <2>1. held[th] \in ListId /\ lists \in [ListId -> Seq(Tx)]  BY <1>1 DEF PoolTypes, InStep
  <2>2. InNonceOrder(lists[held[th]]) \in Seq(Tx)  BY <2>1, SortedIs
  <2> DEFINE all == [lists EXCEPT ![held[th]] = InNonceOrder(@)]
  <2>3. /\ all \in [ListId -> Seq(Tx)]
        /\ \A l \in ListId : all[l] = IF l = held[th] THEN InNonceOrder(lists[l]) ELSE lists[l]
    BY <2>1, <2>2
  <2>4. lists' = Collected(all)  BY <1>1
  <2>. HIDE DEF all
  <2>. QED  BY <2>3, <2>4, CollectedIs
<1>3. "count" \in Steps  BY DEF Steps
<1>4. apc'[th] = "count" /\ \A other \in Thread \ {th} : apc'[other] = apc[other]
  BY <1>1, <1>3, GotoIs
<1>5. /\ held' \in [Thread -> ListId \cup {NoList}] /\ held'[th] = NoList
      /\ \A other \in Thread \ {th} : held'[other] = held[other]
  BY <1>1 DEF PoolTypes
<1>6. InStep(th)'  BY <1>1, <1>4, <1>5 DEF PoolTypes, InStep
<1>7. OthersStay(th) /\ LocalTypes'  BY <1>1, <1>4, <1>5 DEF PoolTypes, LocalTypes, OthersStay
<1>. QED  BY <1>1, <1>2, <1>3, <1>5, <1>6, <1>7, ThreadTypes DEF PoolTypes

LEMMA AddCountTypes ==
  ASSUME PoolTypes, NEW th \in Thread, AddCount(th)
  PROVE  PoolTypes' /\ OthersStay(th) /\ entry'[th] = NoEntry
<1>1. /\ apc[th] = "count" /\ Goto(th, "idle") /\ entry' = [entry EXCEPT ![th] = NoEntry]
      /\ stats' = [stats EXCEPT !.added = @ + 1]
      /\ UNCHANGED <<txs, lists, by_sender, clock, leaving, held, passed, kept,
                     expiries, expired, overlapped>>
  BY DEF AddCount, history
<1>2. stats' \in [added : Int, evicted : Int, mined : Int]
  <2>1. stats \in [added : Int, evicted : Int, mined : Int]  BY DEF PoolTypes
  <2>. QED  BY <1>1, <2>1
<1>3. "idle" \in Steps  BY DEF Steps
<1>4. apc'[th] = "idle" /\ \A other \in Thread \ {th} : apc'[other] = apc[other]
  BY <1>1, <1>3, GotoIs
<1>5. /\ entry' \in [Thread -> Entry \cup {NoEntry}] /\ entry'[th] = NoEntry
      /\ \A other \in Thread \ {th} : entry'[other] = entry[other]
  BY <1>1 DEF PoolTypes
<1>6. InStep(th)'  BY <1>1, <1>4, <1>5 DEF PoolTypes, InStep
<1>7. OthersStay(th) /\ LocalTypes'  BY <1>1, <1>4, <1>5 DEF PoolTypes, LocalTypes, OthersStay
<1>. QED  BY <1>1, <1>2, <1>3, <1>5, <1>6, <1>7, ThreadTypes DEF PoolTypes

LEMMA RemoveTxTypes ==
  ASSUME PoolTypes, NEW th \in Thread, NEW t \in Tx, RemoveTx(th, t)
  PROVE  PoolTypes' /\ OthersStay(th) /\ leaving'[th] = t
<1>1. /\ apc[th] = "idle" /\ t \in Pool /\ Pop(th, t)
      /\ Goto(th, "find") /\ leaving' = [leaving EXCEPT ![th] = t]
      /\ UNCHANGED <<lists, by_sender, stats, clock, entry, held, passed, kept,
                     expiries, expired, overlapped>>
  BY DEF RemoveTx, Pop
<1>2. txs' \in Seq(Entry) /\ Once(txs')  BY <1>1, PopIs
<1>3. "find" \in Steps  BY DEF Steps
<1>4. apc'[th] = "find" /\ \A other \in Thread \ {th} : apc'[other] = apc[other]
  BY <1>1, <1>3, GotoIs
<1>5. /\ leaving' \in [Thread -> Tx \cup {NoTx}] /\ leaving'[th] = t
      /\ \A other \in Thread \ {th} : leaving'[other] = leaving[other]
  BY <1>1 DEF PoolTypes
<1>6. InStep(th)'  BY <1>1, <1>4, <1>5 DEF PoolTypes, InStep
<1>7. OthersStay(th) /\ LocalTypes'  BY <1>1, <1>4, <1>5 DEF PoolTypes, LocalTypes, OthersStay
<1>. QED  BY <1>1, <1>2, <1>3, <1>5, <1>6, <1>7, ThreadTypes DEF PoolTypes

LEMMA RemoveFindTypes ==
  ASSUME PoolTypes, NEW th \in Thread, RemoveFind(th)
  PROVE  PoolTypes' /\ OthersStay(th)
<1> DEFINE s == leaving[th].from
<1>1. PICK l \in ListId :
        /\ held' = [held EXCEPT ![th] = l]
        /\ IF by_sender[s] # NoList THEN l = by_sender[s] /\ UNCHANGED lists
           ELSE Fresh(l) /\ lists' = [lists EXCEPT ![l] = <<>>]
  BY DEF RemoveFind
<1>2. /\ apc[th] = "find" /\ Goto(th, "filter")
      /\ UNCHANGED <<txs, by_sender, stats, clock, entry, leaving, passed, kept,
                     expiries, expired, overlapped>>
  BY DEF RemoveFind, history
<1>. HIDE DEF s
<1>3. "filter" \in Steps  BY DEF Steps
<1>4. apc'[th] = "filter" /\ \A other \in Thread \ {th} : apc'[other] = apc[other]
  BY <1>2, <1>3, GotoIs
<1>5. /\ held' \in [Thread -> ListId \cup {NoList}] /\ held'[th] = l
      /\ \A other \in Thread \ {th} : held'[other] = held[other]
  BY <1>1 DEF PoolTypes
<1>6. lists' \in [ListId -> Seq(Tx)]
  <2> DEFINE S == Seq(Tx)
  <2>1. <<>> \in S /\ lists \in [ListId -> S]  BY DEF PoolTypes
  <2>. HIDE DEF S
  <2>2. lists' \in [ListId -> S]  BY <1>1, <2>1
  <2>. QED  BY <2>2 DEF S
<1>7. InStep(th)'  BY <1>2, <1>4, <1>5 DEF PoolTypes, InStep
<1>8. OthersStay(th) /\ LocalTypes'  BY <1>2, <1>4, <1>5 DEF PoolTypes, LocalTypes, OthersStay
<1>. QED  BY <1>2, <1>3, <1>6, <1>7, <1>8, ThreadTypes DEF PoolTypes

LEMMA RemoveFilterTypes ==
  ASSUME PoolTypes, NEW th \in Thread, RemoveFilter(th)
  PROVE  /\ PoolTypes' /\ OthersStay(th)
         /\ held[th] \in ListId /\ leaving[th] \in Tx
         /\ lists[held[th]] \in Seq(Tx) /\ passed[th] + 1 \in DOMAIN lists[held[th]]
         /\ lists[held[th]][passed[th] + 1] \in Tx
         /\ kept'[th] = IF lists[held[th]][passed[th] + 1] # leaving[th]
                        THEN Append(kept[th], lists[held[th]][passed[th] + 1]) ELSE kept[th]
<1> DEFINE t == lists[held[th]][passed[th] + 1]
<1>1. /\ apc[th] = "filter" /\ passed[th] < Len(lists[held[th]])
      /\ kept' = IF Keeps(t, leaving[th]) THEN [kept EXCEPT ![th] = Append(@, t)] ELSE kept
      /\ passed' = [passed EXCEPT ![th] = @ + 1]
      /\ UNCHANGED <<txs, lists, by_sender, stats, clock, apc, entry, leaving, held,
                     expiries, expired, overlapped>>
  BY DEF RemoveFilter, history
<1>2. /\ held[th] \in ListId /\ leaving[th] \in Tx /\ passed[th] \in Nat
      /\ lists[held[th]] \in Seq(Tx)
  BY <1>1 DEF PoolTypes, InStep
<1>3. passed[th] + 1 \in DOMAIN lists[held[th]] /\ t \in Tx
  BY <1>1, <1>2
<1>. HIDE DEF t
<1>4. Keeps(t, leaving[th]) <=> t # leaving[th]  BY <1>2, <1>3, TxFacts DEF Keeps
<1>5. /\ kept' \in [Thread -> Seq(Tx)]
      /\ kept'[th] = IF t # leaving[th] THEN Append(kept[th], t) ELSE kept[th]
      /\ \A other \in Thread \ {th} : kept'[other] = kept[other]
  <2>1. kept \in [Thread -> Seq(Tx)]  BY DEF PoolTypes
  <2>2. Append(kept[th], t) \in Seq(Tx)  BY <1>3, <2>1
  <2>. QED  BY <1>1, <1>4, <2>1, <2>2
<1>6. /\ passed' \in [Thread -> Nat]
      /\ \A other \in Thread \ {th} : passed'[other] = passed[other]
  BY <1>1 DEF PoolTypes
<1>7. Goto(th, "filter") /\ "filter" \in Steps
  <2>1. apc \in [Thread -> Steps]  BY DEF PoolTypes
  <2>. QED  BY <1>1, <2>1, SameIs DEF Goto, Steps
<1>8. InStep(th)'  BY <1>1 DEF PoolTypes, InStep
<1>9. OthersStay(th) /\ LocalTypes'  BY <1>1, <1>5, <1>6 DEF PoolTypes, LocalTypes, OthersStay
<1>10. PoolTypes'  BY <1>1, <1>7, <1>8, <1>9, ThreadTypes DEF PoolTypes
<1>. QED  BY <1>2, <1>3, <1>5, <1>9, <1>10 DEF t

LEMMA RemoveAssignTypes ==
  ASSUME PoolTypes, NEW th \in Thread, RemoveAssign(th)
  PROVE  /\ PoolTypes' /\ OthersStay(th)
         /\ apc'[th] = IF Adding(th) THEN "store" ELSE "idle"
         /\ stats'.added = stats.added /\ stats'.mined = stats.mined + 1
         /\ leaving[th] \in Tx /\ held[th] \in ListId /\ kept[th] \in Seq(Tx)
         /\ passed[th] \in Nat /\ passed[th] >= Len(lists[held[th]]) /\ apc[th] = "filter"
         /\ UNCHANGED <<txs, entry, expiries, expired, overlapped, clashed>>
         /\ held'[th] = NoList
         /\ \E l \in ListId :
              /\ Fresh(l) /\ by_sender' = [by_sender EXCEPT ![leaving[th].from] = l]
              /\ \A k \in ListId : k \in InUse' =>
                   lists'[k] = IF k = l THEN kept[th] ELSE lists[k]
<1>1. PICK l \in ListId :
        /\ Fresh(l)
        /\ by_sender' = [by_sender EXCEPT ![leaving[th].from] = l]
        /\ held' = [held EXCEPT ![th] = NoList]
        /\ lists' = Collected([lists EXCEPT ![l] = kept[th]])
  BY DEF RemoveAssign
<1> DEFINE label == IF Adding(th) THEN "store" ELSE "idle"
           one == IF Adding(th) THEN 1 ELSE 0
<1>2. /\ apc[th] = "filter" /\ passed[th] >= Len(lists[held[th]])
      /\ stats' = [stats EXCEPT !.mined = @ + 1, !.evicted = @ + one]
      /\ Goto(th, label)
      /\ leaving' = [leaving EXCEPT ![th] = NoTx]
      /\ passed' = [passed EXCEPT ![th] = 0] /\ kept' = [kept EXCEPT ![th] = <<>>]
      /\ UNCHANGED <<txs, clock, entry, expiries, expired, overlapped, clashed>>
  BY DEF RemoveAssign, history
<1>3. /\ leaving[th] \in Tx /\ held[th] \in ListId /\ kept[th] \in Seq(Tx) /\ passed[th] \in Nat
      /\ entry[th] \in Entry \cup {NoEntry}
  BY <1>2 DEF PoolTypes, InStep
<1>4. label \in Steps /\ one \in Int /\ (label = "store" \/ label = "idle") /\ (label = "store" <=> Adding(th))
  BY DEF Steps
<1>5. /\ lists' \in [ListId -> Seq(Tx)]
      /\ \A k \in ListId : k \in InUse' => lists'[k] = IF k = l THEN kept[th] ELSE lists[k]
  <2> DEFINE all == [lists EXCEPT ![l] = kept[th]]
  <2>1. /\ all \in [ListId -> Seq(Tx)]
        /\ \A k \in ListId : all[k] = IF k = l THEN kept[th] ELSE lists[k]
    BY <1>3 DEF PoolTypes
  <2>2. lists' = Collected(all)  BY <1>1
  <2>. HIDE DEF all
  <2>. QED  BY <2>1, <2>2, CollectedIs
<1>6. /\ stats' \in [added : Int, evicted : Int, mined : Int]
      /\ stats'.added = stats.added /\ stats'.mined = stats.mined + 1
  <2>1. stats \in [added : Int, evicted : Int, mined : Int]  BY DEF PoolTypes
  <2>. HIDE DEF one
  <2>2. stats.evicted + one \in Int /\ stats.mined + 1 \in Int  BY <1>4, <2>1
  <2>. QED  BY <1>2, <2>1, <2>2
<1>. HIDE DEF label, one
<1>7. apc'[th] = label /\ \A other \in Thread \ {th} : apc'[other] = apc[other]
  BY <1>2, <1>4, GotoIs
<1>8. /\ held' \in [Thread -> ListId \cup {NoList}] /\ held'[th] = NoList
      /\ \A other \in Thread \ {th} : held'[other] = held[other]
  BY <1>1 DEF PoolTypes
<1>9. /\ leaving' \in [Thread -> Tx \cup {NoTx}]
      /\ \A other \in Thread \ {th} : leaving'[other] = leaving[other]
  <2>1. NoTx \in Tx \cup {NoTx} /\ leaving \in [Thread -> Tx \cup {NoTx}]  BY DEF PoolTypes
  <2>. QED  BY <1>2, <2>1, ChangedIs
<1>10. /\ passed' \in [Thread -> Nat] /\ passed'[th] = 0
       /\ \A other \in Thread \ {th} : passed'[other] = passed[other]
  BY <1>2 DEF PoolTypes
<1>11. /\ kept' \in [Thread -> Seq(Tx)] /\ kept'[th] = <<>>
       /\ \A other \in Thread \ {th} : kept'[other] = kept[other]
  <2>1. <<>> \in Seq(Tx) /\ kept \in [Thread -> Seq(Tx)]  BY DEF PoolTypes
  <2>. QED  BY <1>2, <2>1, ChangedIs
<1>12. by_sender' \in [DOMAIN AccountNonce -> ListId \cup {NoList}]  BY <1>1 DEF PoolTypes
<1>13. InStep(th)'
  BY <1>2, <1>3, <1>4, <1>7, <1>8, <1>10, <1>11 DEF InStep, Adding
<1>14. OthersStay(th) /\ LocalTypes'
  BY <1>2, <1>7, <1>8, <1>9, <1>10, <1>11 DEF PoolTypes, LocalTypes, OthersStay
<1>15. PoolTypes'  BY <1>2, <1>4, <1>5, <1>6, <1>12, <1>13, <1>14, ThreadTypes DEF PoolTypes
<1>. QED  BY <1>1, <1>2, <1>3, <1>5, <1>6, <1>7, <1>8, <1>14, <1>15 DEF label

----------------------------------------------------------------------------
(* The pool's size and its counters *)

(* What one call of add knows at each of its steps, if no other overlaps.  *)
Prepared(th) ==
  /\ Adding(th) /\ apc[th] \notin {"list", "append", "sort", "count"} => entry[th].tx \notin Pool
  /\ apc[th] = "remove" => leaving[th] \in Pool \/ Len(txs) < Capacity
  /\ Adding(th) /\ apc[th] \in {"find", "filter", "store"} => Len(txs) < Capacity

CountersAgree ==
  stats.added + Cardinality(Uncounted)
    = Len(txs) + stats.mined + Cardinality(Unfinished) + expired

Alone ==
  ~overlapped =>
    /\ \A th, other \in Busy : th = other
    /\ \A th \in Thread : Prepared(th)
    /\ Len(txs) <= Capacity
    /\ CountersAgree

(* How the numbers of unfinished calls change. *)
LEMMA CountsMove ==
  ASSUME PoolTypes, NEW th \in Thread, NEW label \in Steps, Goto(th, label)
  PROVE  /\ Cardinality(Uncounted) \in Nat /\ Cardinality(Uncounted') \in Nat
         /\ Cardinality(Unfinished) \in Nat /\ Cardinality(Unfinished') \in Nat
         /\ Cardinality(Uncounted') + (IF apc[th] \in {"list", "append", "sort", "count"} THEN 1 ELSE 0)
              = Cardinality(Uncounted) + (IF label \in {"list", "append", "sort", "count"} THEN 1 ELSE 0)
         /\ Cardinality(Unfinished') + (IF apc[th] \in {"find", "filter"} THEN 1 ELSE 0)
              = Cardinality(Unfinished) + (IF label \in {"find", "filter"} THEN 1 ELSE 0)
<1>1. /\ Uncounted' \ {th} = Uncounted \ {th} /\ Unfinished' \ {th} = Unfinished \ {th}
      /\ th \in Uncounted' <=> label \in {"list", "append", "sort", "count"}
      /\ th \in Unfinished' <=> label \in {"find", "filter"}
      /\ th \in Uncounted <=> apc[th] \in {"list", "append", "sort", "count"}
      /\ th \in Unfinished <=> apc[th] \in {"find", "filter"}
  BY GotoIs
<1>2. IsFiniteSet(Uncounted) /\ IsFiniteSet(Unfinished)  BY DEF PoolTypes
<1> DEFINE a == Cardinality(Uncounted)
           b == Cardinality(Uncounted')
           c == Cardinality(Uncounted \ {th})
           d == Cardinality(Unfinished)
           e == Cardinality(Unfinished')
           f == Cardinality(Unfinished \ {th})
<1>3. /\ a \in Nat /\ b \in Nat /\ c \in Nat
      /\ b = c + (IF th \in Uncounted' THEN 1 ELSE 0)
      /\ a = c + (IF th \in Uncounted THEN 1 ELSE 0)
  BY <1>1, <1>2, CountMoved
<1>4. /\ d \in Nat /\ e \in Nat /\ f \in Nat
      /\ e = f + (IF th \in Unfinished' THEN 1 ELSE 0)
      /\ d = f + (IF th \in Unfinished THEN 1 ELSE 0)
  BY <1>1, <1>2, CountMoved
<1>. HIDE DEF a, b, c, d, e, f
<1>5. b + (IF th \in Uncounted THEN 1 ELSE 0) = a + (IF th \in Uncounted' THEN 1 ELSE 0)
  BY <1>3
<1>6. e + (IF th \in Unfinished THEN 1 ELSE 0) = d + (IF th \in Unfinished' THEN 1 ELSE 0)
  BY <1>4
<1>. QED  BY <1>1, <1>3, <1>4, <1>5, <1>6 DEF a, b, d, e

(* What the steps of a thread that leave overlapped alone have in common.  *)
LEMMA AloneStays ==
  ASSUME PoolTypes, PoolTypes', Alone, NEW th \in Thread, OthersStay(th),
         UNCHANGED overlapped, Adding(th)' => Adding(th),
         Adding(th) \/ (Pool' \in SUBSET Pool /\ (Pool' = Pool \/ Len(txs') < Len(txs))
                        /\ Len(txs') <= Len(txs)),
         ~overlapped => Prepared(th)' /\ Len(txs') <= Capacity /\ CountersAgree'
  PROVE  Alone'
<1>. SUFFICES ASSUME ~overlapped' PROVE Alone'  BY DEF Alone
<1>1. /\ ~overlapped
      /\ \A a, b \in Busy : a = b
      /\ \A a \in Thread : Prepared(a)
      /\ Len(txs) <= Capacity
  BY DEF Alone
<1>2. Busy' \in SUBSET Busy  BY DEF Busy, Adding, OthersStay
<1>3. ASSUME NEW a \in Thread \ {th} PROVE Prepared(a)'
  <2>1. CASE ~Adding(a)
    <3>1. ~Adding(a)'  BY <2>1 DEF Adding, OthersStay
    <3>2. InStep(a)'  BY DEF PoolTypes
    <3>3. apc'[a] # "remove"  BY <3>1, <3>2, EntryIs DEF InStep, Adding
    <3>. QED  BY <3>1, <3>3 DEF Prepared
  <2>2. CASE Adding(a)
    <3>1. ~Adding(th)  BY <1>1, <2>2 DEF Busy
    <3>2. /\ Pool' \in SUBSET Pool /\ (Pool' = Pool \/ Len(txs') < Len(txs))
          /\ Len(txs') <= Len(txs) /\ Len(txs) \in Nat /\ Len(txs') \in Nat
      BY <3>1 DEF PoolTypes
    <3>3. apc'[a] = apc[a] /\ entry'[a] = entry[a] /\ leaving'[a] = leaving[a]
      BY DEF OthersStay
    <3>4. Capacity \in Nat  BY MempoolAssumption
    <3>5. Prepared(a)  BY <1>1
    <3>6. Len(txs) < Capacity => Len(txs') < Capacity  BY <3>2, <3>4
    <3>7. Pool' = Pool \/ Len(txs') < Capacity  BY <1>1, <3>2, <3>4
    <3>. QED  BY <3>2, <3>3, <3>5, <3>6, <3>7 DEF Prepared, Adding
  <2>. QED  BY <2>1, <2>2
<1>. QED  BY <1>1, <1>2, <1>3 DEF Alone

(* A call of add that starts beside another sets overlapped. *)
LEMMA AddCheckAlone ==
  ASSUME PoolTypes, Alone, NEW th \in Thread, NEW t \in Tx, AddCheck(th, t)
  PROVE  Alone'
<1>1. PoolTypes' /\ OthersStay(th)  BY AddCheckTypes
<1>2. /\ apc[th] = "idle" /\ Goto(th, "room") /\ "room" \in Steps
      /\ entry' = [entry EXCEPT ![th] = [tx |-> t, timestamp |-> clock]]
      /\ overlapped' = (overlapped \/ Busy # {}) /\ t \notin Pool
      /\ UNCHANGED <<txs, stats, leaving, expired>>
  BY DEF AddCheck, Steps
<1>. SUFFICES ASSUME ~overlapped' PROVE Alone'  BY DEF Alone
<1>3. ~overlapped /\ Busy = {} /\ Len(txs) <= Capacity /\ CountersAgree  BY <1>2 DEF Alone
<1>4. ASSUME NEW a \in Thread \ {th} PROVE Prepared(a)' /\ a \notin Busy'
  <2>1. ~Adding(a)'  BY <1>1, <1>3 DEF Busy, Adding, OthersStay
  <2>2. InStep(a)'  BY <1>1 DEF PoolTypes
  <2>3. apc'[a] # "remove"  BY <2>1, <2>2, EntryIs DEF InStep, Adding
  <2>. QED  BY <2>1, <2>3 DEF Prepared, Busy
<1>5. Prepared(th)'
  <2>1. entry'[th].tx = t /\ apc'[th] = "room"
    BY <1>2, GotoIs DEF PoolTypes
  <2>2. Pool' = Pool  BY <1>2 DEF Pool
  <2>. QED  BY <1>2, <2>1, <2>2 DEF Prepared
<1>6. CountersAgree'
  <2>1. /\ Cardinality(Uncounted') + 0 = Cardinality(Uncounted) + 0
        /\ Cardinality(Unfinished') + 0 = Cardinality(Unfinished) + 0
        /\ Cardinality(Uncounted') \in Nat /\ Cardinality(Unfinished') \in Nat
        /\ Cardinality(Uncounted) \in Nat /\ Cardinality(Unfinished) \in Nat
    BY <1>2, CountsMove
  <2>. QED  BY <1>2, <1>3, <2>1 DEF CountersAgree
<1>. QED  BY <1>2, <1>3, <1>4, <1>5, <1>6 DEF Alone, Busy

(* A call that finds room still has it if it is alone. *)
LEMMA AddRoomAlone ==
  ASSUME PoolTypes, Alone, NEW th \in Thread, AddRoom(th)
  PROVE  Alone'
<1>1. PoolTypes' /\ OthersStay(th)  BY AddRoomTypes
<1>2. /\ apc[th] = "room" /\ Goto(th, IF Full(txs) THEN "evict" ELSE "store")
      /\ UNCHANGED <<txs, stats, entry, leaving, expired, overlapped>>
  BY DEF AddRoom, locals, history
<1>3. PICK label \in {"evict", "store"} :
        /\ Goto(th, label) /\ label \in Steps
        /\ label = "store" => ~Full(txs)
  BY <1>2 DEF Steps
<1>4. Adding(th) /\ apc'[th] = label
  BY <1>2, <1>3, GotoIs, EntryIs DEF PoolTypes, InStep, Adding
<1>5. ASSUME ~overlapped PROVE Prepared(th)' /\ Len(txs') <= Capacity /\ CountersAgree'
  <2>1. Prepared(th) /\ Len(txs) <= Capacity /\ CountersAgree  BY <1>5 DEF Alone
  <2>2. Pool' = Pool /\ Len(txs) \in Nat  BY <1>2 DEF Pool, PoolTypes
  <2>3. label = "store" => Len(txs) < Capacity
    BY <1>3, <2>2, MempoolAssumption DEF Full
  <2>4. Prepared(th)'  BY <1>2, <1>4, <2>1, <2>2, <2>3 DEF Prepared, Adding
  <2>5. /\ Cardinality(Uncounted') + 0 = Cardinality(Uncounted) + 0
        /\ Cardinality(Unfinished') + 0 = Cardinality(Unfinished) + 0
        /\ Cardinality(Uncounted') \in Nat /\ Cardinality(Unfinished') \in Nat
        /\ Cardinality(Uncounted) \in Nat /\ Cardinality(Unfinished) \in Nat
    BY <1>2, <1>3, CountsMove
  <2>. QED  BY <1>2, <2>1, <2>4, <2>5 DEF CountersAgree
<1>. QED  BY <1>1, <1>2, <1>4, <1>5, AloneStays DEF Adding

(* Alone, a call evicts what is still in the pool. *)
LEMMA AddChooseAlone ==
  ASSUME PoolTypes, Alone, NEW th \in Thread, AddChoose(th)
  PROVE  Alone'
<1>1. PoolTypes' /\ OthersStay(th)  BY AddChooseTypes
<1>2. /\ apc[th] = "evict"
      /\ UNCHANGED <<txs, stats, entry, expired, overlapped>>
      /\ \/ txs = <<>> /\ Goto(th, "store")
         \/ /\ txs # <<>> /\ Goto(th, "remove") /\ leaving' = [leaving EXCEPT ![th] = Cheapest(txs)]
  BY DEF AddChoose, history
<1>3. PICK label \in {"store", "remove"} :
        /\ Goto(th, label) /\ label \in Steps
        /\ label = "store" => txs = <<>>
        /\ label = "remove" => txs # <<>> /\ leaving'[th] = Cheapest(txs)
  <2>1. CASE txs = <<>>  BY <1>2, <2>1 DEF Steps
  <2>2. CASE txs # <<>>  BY <1>2, <2>2 DEF Steps, PoolTypes
  <2>. QED  BY <2>1, <2>2
<1>4. Adding(th) /\ apc'[th] = label
  BY <1>2, <1>3, GotoIs, EntryIs DEF PoolTypes, InStep, Adding
<1>5. ASSUME ~overlapped PROVE Prepared(th)' /\ Len(txs') <= Capacity /\ CountersAgree'
  <2>1. Prepared(th) /\ Len(txs) <= Capacity /\ CountersAgree  BY <1>5 DEF Alone
  <2>2. Pool' = Pool /\ Len(txs) \in Nat  BY <1>2 DEF Pool, PoolTypes
  <2>3. label = "store" => Len(txs) < Capacity
    BY <1>3, MempoolAssumption
  <2>4. label = "remove" => leaving'[th] \in Pool'
    BY <1>3, <2>2, CheapestIs, PoolIs DEF PoolTypes
  <2>5. Prepared(th)'  BY <1>2, <1>4, <2>1, <2>2, <2>3, <2>4 DEF Prepared, Adding
  <2>6. /\ Cardinality(Uncounted') + 0 = Cardinality(Uncounted) + 0
        /\ Cardinality(Unfinished') + 0 = Cardinality(Unfinished) + 0
        /\ Cardinality(Uncounted') \in Nat /\ Cardinality(Unfinished') \in Nat
        /\ Cardinality(Uncounted) \in Nat /\ Cardinality(Unfinished) \in Nat
    BY <1>2, <1>3, CountsMove
  <2>. QED  BY <1>2, <2>1, <2>5, <2>6 DEF CountersAgree
<1>. QED  BY <1>1, <1>2, <1>4, <1>5, AloneStays DEF Adding

(* The eviction makes room. *)
LEMMA AddEvictAlone ==
  ASSUME PoolTypes, Alone, NEW th \in Thread, AddEvict(th)
  PROVE  Alone'
<1>1. PoolTypes' /\ OthersStay(th)  BY AddEvictTypes
<1>2. apc[th] = "remove" /\ UNCHANGED <<entry, expired, overlapped>>  BY DEF AddEvict
<1>3. Adding(th)  BY <1>2, EntryIs DEF PoolTypes, InStep, Adding
<1>4. ASSUME ~overlapped PROVE Prepared(th)' /\ Len(txs') <= Capacity /\ CountersAgree'
  <2>1. Prepared(th) /\ Len(txs) <= Capacity /\ CountersAgree  BY <1>4 DEF Alone
  <2>2. Len(txs) \in Nat /\ Capacity \in Nat /\ stats.added \in Int /\ stats.mined \in Int /\ expired \in Int
    BY MempoolAssumption DEF PoolTypes
  <2>3. CASE leaving[th] \in Pool
    <3>1. Pop(th, leaving[th]) /\ UNCHANGED stats  BY <2>3 DEF AddEvict
    <3>2. Goto(th, "find") /\ "find" \in Steps  BY <3>1 DEF Pop, Steps
    <3>3. Pool' = Pool \ {leaving[th]} /\ Len(txs') \in Nat /\ Len(txs') + 1 = Len(txs)
      BY <2>3, <3>1, PopIs
    <3>4. apc'[th] = "find"  BY <3>2, GotoIs
    <3>5. Len(txs') < Capacity  BY <2>1, <2>2, <3>3
    <3>6. Prepared(th)'  BY <1>2, <1>3, <2>1, <3>3, <3>4, <3>5 DEF Prepared, Adding
    <3>7. /\ Cardinality(Uncounted') + 0 = Cardinality(Uncounted) + 0
          /\ Cardinality(Unfinished') + 0 = Cardinality(Unfinished) + 1
          /\ Cardinality(Uncounted') \in Nat /\ Cardinality(Unfinished') \in Nat
          /\ Cardinality(Uncounted) \in Nat /\ Cardinality(Unfinished) \in Nat
      BY <1>2, <3>2, CountsMove
    <3>8. CountersAgree'
      <4> DEFINE u == Cardinality(Uncounted)  u1 == Cardinality(Uncounted')
                 f == Cardinality(Unfinished)  f1 == Cardinality(Unfinished')
                 n == Len(txs)  n1 == Len(txs')
                 a == stats.added  a1 == stats'.added  m == stats.mined  m1 == stats'.mined
      <4>1. /\ u \in Nat /\ u1 \in Nat /\ f \in Nat /\ f1 \in Nat /\ n \in Nat /\ n1 \in Nat
          /\ a \in Int /\ a1 \in Int /\ m \in Int /\ m1 \in Int /\ expired \in Int
          /\ a + u = n + m + f + expired
          /\ a1 = a /\ m1 = m /\ u1 = u /\ f1 = f + 1 /\ n1 + 1 = n
        BY <1>2, <2>1, <2>2, <3>1, <3>3, <3>7 DEF CountersAgree
      <4>. HIDE DEF u, u1, f, f1, n, n1, a, a1, m, m1
      <4>2. a1 + u1 = n1 + m1 + f1 + expired  BY <4>1
      <4>3. expired' = expired  BY <1>1, <1>2
      <4>. QED  BY <4>2, <4>3 DEF CountersAgree, u1, f1, n1, a1, m1
    <3>. QED  BY <2>1, <2>2, <3>3, <3>5, <3>6, <3>8
  <2>4. CASE leaving[th] \notin Pool
    <3>1. /\ Goto(th, "store") /\ UNCHANGED txs /\ "store" \in Steps
          /\ stats' = [stats EXCEPT !.evicted = @ + 1]
      BY <2>4 DEF AddEvict, Steps
    <3>2. stats'.added = stats.added /\ stats'.mined = stats.mined
      <4>1. stats \in [added : Int, evicted : Int, mined : Int]  BY DEF PoolTypes
      <4>. QED  BY <3>1, <4>1
    <3>3. apc'[th] = "store" /\ Pool' = Pool  BY <3>1, GotoIs DEF Pool
    <3>4. Len(txs) < Capacity  BY <1>2, <2>1, <2>4 DEF Prepared
    <3>5. Prepared(th)'  BY <1>2, <2>1, <3>1, <3>3, <3>4 DEF Prepared, Adding
    <3>6. /\ Cardinality(Uncounted') + 0 = Cardinality(Uncounted) + 0
          /\ Cardinality(Unfinished') + 0 = Cardinality(Unfinished) + 0
          /\ Cardinality(Uncounted') \in Nat /\ Cardinality(Unfinished') \in Nat
          /\ Cardinality(Uncounted) \in Nat /\ Cardinality(Unfinished) \in Nat
      BY <1>2, <3>1, CountsMove
    <3>7. CountersAgree'  BY <1>2, <2>1, <2>2, <3>1, <3>2, <3>6 DEF CountersAgree
    <3>. QED  BY <2>1, <3>1, <3>5, <3>7
  <2>. QED  BY <2>3, <2>4
<1>. QED  BY <1>1, <1>2, <1>3, <1>4, AloneStays DEF Adding

(* Storing adds one entry. *)
LEMMA AddStoreAlone ==
  ASSUME PoolTypes, Alone, NEW th \in Thread, AddStore(th)
  PROVE  Alone'
<1>1. PoolTypes' /\ OthersStay(th)  BY AddStoreTypes
<1>2. /\ apc[th] = "store" /\ Goto(th, "list") /\ "list" \in Steps /\ txs' = Stored(txs, entry[th])
      /\ UNCHANGED <<stats, entry, leaving, expired, overlapped>>
  BY DEF AddStore, locals, Steps
<1>3. Adding(th) /\ entry[th] \in Entry /\ apc'[th] = "list"
  BY <1>2, EntryIs, GotoIs DEF PoolTypes, InStep, Adding
<1>4. ASSUME ~overlapped PROVE Prepared(th)' /\ Len(txs') <= Capacity /\ CountersAgree'
  <2>1. Prepared(th) /\ CountersAgree  BY <1>4 DEF Alone
  <2>2. entry[th].tx \notin Pool /\ Len(txs) < Capacity  BY <1>2, <1>3, <2>1 DEF Prepared
  <2>3. Len(txs') = Len(txs) + 1  BY <1>2, <1>3, <2>2, StoredIs, PoolIs DEF PoolTypes
  <2>4. Len(txs) \in Nat /\ Capacity \in Nat /\ stats.added \in Int /\ stats.mined \in Int /\ expired \in Int
    BY MempoolAssumption DEF PoolTypes
  <2>5. Prepared(th)'  BY <1>3 DEF Prepared
  <2>6. /\ Cardinality(Uncounted') + 0 = Cardinality(Uncounted) + 1
        /\ Cardinality(Unfinished') + 0 = Cardinality(Unfinished) + 0
        /\ Cardinality(Uncounted') \in Nat /\ Cardinality(Unfinished') \in Nat
        /\ Cardinality(Uncounted) \in Nat /\ Cardinality(Unfinished) \in Nat
    BY <1>2, CountsMove
  <2>7. CountersAgree'
    <3> DEFINE u == Cardinality(Uncounted)  u1 == Cardinality(Uncounted')
               f == Cardinality(Unfinished)  f1 == Cardinality(Unfinished')
               n == Len(txs)  n1 == Len(txs')
               a == stats.added  a1 == stats'.added  m == stats.mined  m1 == stats'.mined
    <3>1. /\ u \in Nat /\ u1 \in Nat /\ f \in Nat /\ f1 \in Nat /\ n \in Nat /\ n1 \in Nat
        /\ a \in Int /\ a1 \in Int /\ m \in Int /\ m1 \in Int /\ expired \in Int
        /\ a + u = n + m + f + expired
        /\ a1 = a /\ m1 = m /\ u1 = u + 1 /\ f1 = f /\ n1 = n + 1
      BY <1>2, <2>1, <2>3, <2>4, <2>6 DEF CountersAgree
    <3>. HIDE DEF u, u1, f, f1, n, n1, a, a1, m, m1
    <3>2. a1 + u1 = n1 + m1 + f1 + expired  BY <3>1
    <3>3. expired' = expired  BY <1>1, <1>2
    <3>. QED  BY <3>2, <3>3 DEF CountersAgree, u1, f1, n1, a1, m1
  <2>. QED  BY <2>2, <2>3, <2>4, <2>5, <2>7
<1>. QED  BY <1>1, <1>2, <1>3, <1>4, AloneStays DEF Adding

(* Listing changes nothing of the pool. *)
LEMMA ListingAlone ==
  ASSUME PoolTypes, Alone, NEW th \in Thread, AddList(th) \/ AddAppend(th) \/ AddSort(th)
  PROVE  Alone'
<1>1. PoolTypes' /\ OthersStay(th)  BY AddListTypes, AddAppendTypes, AddSortTypes
<1>2. PICK label \in {"append", "sort", "count"} : Goto(th, label) /\ label \in Steps
  BY DEF AddList, AddAppend, AddSort, Steps
<1>3. /\ apc[th] \in {"list", "append", "sort"}
      /\ UNCHANGED <<txs, stats, entry, leaving, expired, overlapped>>
  BY DEF AddList, AddAppend, AddSort, locals, history
<1>4. Adding(th) /\ apc'[th] = label
  BY <1>2, <1>3, EntryIs, GotoIs DEF PoolTypes, InStep, Adding
<1>5. ASSUME ~overlapped PROVE Prepared(th)' /\ Len(txs') <= Capacity /\ CountersAgree'
  <2>1. Len(txs) <= Capacity /\ CountersAgree  BY <1>5 DEF Alone
  <2>2. Prepared(th)'  BY <1>4 DEF Prepared
  <2>3. /\ Cardinality(Uncounted') + 1 = Cardinality(Uncounted) + 1
        /\ Cardinality(Unfinished') + 0 = Cardinality(Unfinished) + 0
        /\ Cardinality(Uncounted') \in Nat /\ Cardinality(Unfinished') \in Nat
        /\ Cardinality(Uncounted) \in Nat /\ Cardinality(Unfinished) \in Nat
    BY <1>2, <1>3, CountsMove
  <2>. QED  BY <1>3, <2>1, <2>2, <2>3 DEF CountersAgree
<1>. QED  BY <1>1, <1>3, <1>4, <1>5, AloneStays DEF Adding

LEMMA AddCountAlone ==
  ASSUME PoolTypes, Alone, NEW th \in Thread, AddCount(th)
  PROVE  Alone'
<1>1. PoolTypes' /\ OthersStay(th) /\ entry'[th] = NoEntry  BY AddCountTypes
<1>2. /\ apc[th] = "count" /\ Goto(th, "idle") /\ "idle" \in Steps
      /\ stats' = [stats EXCEPT !.added = @ + 1]
      /\ UNCHANGED <<txs, leaving, expired, overlapped>>
  BY DEF AddCount, history, Steps
<1>3. Adding(th) /\ apc'[th] = "idle" /\ ~Adding(th)'
  BY <1>1, <1>2, EntryIs, GotoIs DEF PoolTypes, InStep, Adding
<1>4. ASSUME ~overlapped PROVE Prepared(th)' /\ Len(txs') <= Capacity /\ CountersAgree'
  <2>1. Len(txs) <= Capacity /\ CountersAgree  BY <1>4 DEF Alone
  <2>2. Prepared(th)'  BY <1>3 DEF Prepared
  <2>3. /\ Cardinality(Uncounted') + 1 = Cardinality(Uncounted) + 0
        /\ Cardinality(Unfinished') + 0 = Cardinality(Unfinished) + 0
        /\ Cardinality(Uncounted') \in Nat /\ Cardinality(Unfinished') \in Nat
        /\ Cardinality(Uncounted) \in Nat /\ Cardinality(Unfinished) \in Nat
    BY <1>2, CountsMove
  <2>4. stats'.added = stats.added + 1 /\ stats'.mined = stats.mined /\ stats.added \in Int
    <3>1. stats \in [added : Int, evicted : Int, mined : Int]  BY DEF PoolTypes
    <3>. QED  BY <1>2, <3>1
  <2>5. Len(txs) \in Nat /\ stats.mined \in Int /\ expired \in Int  BY DEF PoolTypes
  <2>6. CountersAgree'
    <3> DEFINE u == Cardinality(Uncounted)  u1 == Cardinality(Uncounted')
               f == Cardinality(Unfinished)  f1 == Cardinality(Unfinished')
               n == Len(txs)  n1 == Len(txs')
               a == stats.added  a1 == stats'.added  m == stats.mined  m1 == stats'.mined
    <3>1. /\ u \in Nat /\ u1 \in Nat /\ f \in Nat /\ f1 \in Nat /\ n \in Nat /\ n1 \in Nat
        /\ a \in Int /\ a1 \in Int /\ m \in Int /\ m1 \in Int /\ expired \in Int
        /\ a + u = n + m + f + expired
        /\ a1 = a + 1 /\ m1 = m /\ u1 + 1 = u /\ f1 = f /\ n1 = n
      BY <1>2, <2>1, <2>3, <2>4, <2>5 DEF CountersAgree
    <3>. HIDE DEF u, u1, f, f1, n, n1, a, a1, m, m1
    <3>2. a1 + u1 = n1 + m1 + f1 + expired  BY <3>1
    <3>3. expired' = expired  BY <1>1, <1>2
    <3>. QED  BY <3>2, <3>3 DEF CountersAgree, u1, f1, n1, a1, m1
  <2>. QED  BY <1>2, <2>1, <2>2, <2>6
<1>. QED  BY <1>1, <1>2, <1>3, <1>4, AloneStays

(* remove takes an entry out of the pool and counts it later. *)
LEMMA RemoveTxAlone ==
  ASSUME PoolTypes, Alone, NEW th \in Thread, NEW t \in Tx, RemoveTx(th, t)
  PROVE  Alone'
<1>1. PoolTypes' /\ OthersStay(th)  BY RemoveTxTypes
<1>2. /\ apc[th] = "idle" /\ t \in Pool /\ Pop(th, t) /\ Goto(th, "find") /\ "find" \in Steps
      /\ UNCHANGED <<stats, entry, expired, overlapped>>
  BY DEF RemoveTx, Pop, Steps
<1>3. ~Adding(th) /\ ~Adding(th)' /\ apc'[th] = "find"
  BY <1>2, GotoIs DEF PoolTypes, InStep, Adding
<1>4. Pool' = Pool \ {t} /\ Len(txs) \in Nat /\ Len(txs') \in Nat /\ Len(txs') + 1 = Len(txs)
  BY <1>2, PopIs
<1>5. ASSUME ~overlapped PROVE Prepared(th)' /\ Len(txs') <= Capacity /\ CountersAgree'
  <2>1. Len(txs) <= Capacity /\ CountersAgree  BY <1>5 DEF Alone
  <2>2. Prepared(th)'  BY <1>3 DEF Prepared
  <2>3. /\ Cardinality(Uncounted') + 0 = Cardinality(Uncounted) + 0
        /\ Cardinality(Unfinished') + 0 = Cardinality(Unfinished) + 1
        /\ Cardinality(Uncounted') \in Nat /\ Cardinality(Unfinished') \in Nat
        /\ Cardinality(Uncounted) \in Nat /\ Cardinality(Unfinished) \in Nat
    BY <1>2, CountsMove
  <2>4. stats.added \in Int /\ stats.mined \in Int /\ expired \in Int  BY DEF PoolTypes
  <2>5. CountersAgree'
    <3> DEFINE u == Cardinality(Uncounted)  u1 == Cardinality(Uncounted')
               f == Cardinality(Unfinished)  f1 == Cardinality(Unfinished')
               n == Len(txs)  n1 == Len(txs')
               a == stats.added  a1 == stats'.added  m == stats.mined  m1 == stats'.mined
    <3>1. /\ u \in Nat /\ u1 \in Nat /\ f \in Nat /\ f1 \in Nat /\ n \in Nat /\ n1 \in Nat
        /\ a \in Int /\ a1 \in Int /\ m \in Int /\ m1 \in Int /\ expired \in Int
        /\ a + u = n + m + f + expired
        /\ a1 = a /\ m1 = m /\ u1 = u /\ f1 = f + 1 /\ n1 + 1 = n
      BY <1>2, <1>4, <2>1, <2>3, <2>4 DEF CountersAgree
    <3>. HIDE DEF u, u1, f, f1, n, n1, a, a1, m, m1
    <3>2. a1 + u1 = n1 + m1 + f1 + expired  BY <3>1
    <3>3. expired' = expired  BY <1>1, <1>2
    <3>. QED  BY <3>2, <3>3 DEF CountersAgree, u1, f1, n1, a1, m1
  <2>6. Len(txs') <= Capacity  BY <1>4, <2>1, MempoolAssumption
  <2>. QED  BY <2>2, <2>5, <2>6
<1>. QED  BY <1>1, <1>2, <1>3, <1>4, <1>5, AloneStays

(* Going through a list changes nothing of the pool. *)
LEMMA RemoveFilterAlone ==
  ASSUME PoolTypes, Alone, NEW th \in Thread, RemoveFind(th) \/ RemoveFilter(th)
  PROVE  Alone'
<1>1. PoolTypes' /\ OthersStay(th)  BY RemoveFindTypes, RemoveFilterTypes
<1>2. /\ apc[th] \in {"find", "filter"} /\ Goto(th, "filter") /\ "filter" \in Steps
      /\ UNCHANGED <<txs, stats, entry, leaving, expired, overlapped>>
  <2>1. CASE RemoveFind(th)  BY <2>1 DEF RemoveFind, history, Steps
  <2>2. CASE RemoveFilter(th)
    <3>1. apc[th] = "filter" /\ UNCHANGED <<txs, stats, apc, entry, leaving, expired, overlapped>>
      BY <2>2 DEF RemoveFilter, history
    <3>2. Goto(th, "filter")
      <4>1. apc \in [Thread -> Steps]  BY DEF PoolTypes
      <4>. QED  BY <3>1, <4>1, SameIs DEF Goto
    <3>. QED  BY <3>1, <3>2 DEF Steps
  <2>. QED  BY <2>1, <2>2
<1>3. (Adding(th)' <=> Adding(th)) /\ apc'[th] = "filter" /\ Pool' = Pool /\ Len(txs) \in Nat
  BY <1>2, GotoIs DEF Adding, Pool, PoolTypes
<1>4. ASSUME ~overlapped PROVE Prepared(th)' /\ Len(txs') <= Capacity /\ CountersAgree'
  <2>1. Len(txs) <= Capacity /\ CountersAgree /\ Prepared(th)  BY <1>4 DEF Alone
  <2>2. Prepared(th)'  BY <1>2, <1>3, <2>1 DEF Prepared, Adding
  <2>3. /\ Cardinality(Uncounted') + 0 = Cardinality(Uncounted) + 0
        /\ Cardinality(Unfinished') + 1 = Cardinality(Unfinished) + 1
        /\ Cardinality(Uncounted') \in Nat /\ Cardinality(Unfinished') \in Nat
        /\ Cardinality(Uncounted) \in Nat /\ Cardinality(Unfinished) \in Nat
    BY <1>2, CountsMove
  <2>. QED  BY <1>2, <2>1, <2>2, <2>3 DEF CountersAgree
<1>5. Len(txs') <= Len(txs)  BY <1>2, <1>3
<1>. QED  BY <1>1, <1>2, <1>3, <1>4, <1>5, AloneStays

(* At the end of it a removal counts. *)
LEMMA RemoveAssignAlone ==
  ASSUME PoolTypes, Alone, NEW th \in Thread, RemoveAssign(th)
  PROVE  Alone'
<1>1. /\ PoolTypes' /\ OthersStay(th)
      /\ apc[th] = "filter" /\ apc'[th] = IF Adding(th) THEN "store" ELSE "idle"
      /\ stats'.added = stats.added /\ stats'.mined = stats.mined + 1
      /\ UNCHANGED <<txs, entry, expired, overlapped>>
  BY RemoveAssignTypes
<1>2. PICK label \in {"store", "idle"} :
        Goto(th, label) /\ label \in Steps /\ (label = "store" <=> Adding(th))
  BY DEF RemoveAssign, Steps
<1>3. (Adding(th)' <=> Adding(th)) /\ Pool' = Pool /\ Len(txs) \in Nat
  BY <1>1 DEF Adding, Pool, PoolTypes
<1>4. ASSUME ~overlapped PROVE Prepared(th)' /\ Len(txs') <= Capacity /\ CountersAgree'
  <2>1. Len(txs) <= Capacity /\ CountersAgree /\ Prepared(th)  BY <1>4 DEF Alone
  <2>2. Prepared(th)'  BY <1>1, <1>3, <2>1 DEF Prepared, Adding
  <2>3. /\ Cardinality(Uncounted') + 0 = Cardinality(Uncounted) + 0
        /\ Cardinality(Unfinished') + 1 = Cardinality(Unfinished) + 0
        /\ Cardinality(Uncounted') \in Nat /\ Cardinality(Unfinished') \in Nat
        /\ Cardinality(Uncounted) \in Nat /\ Cardinality(Unfinished) \in Nat
    BY <1>1, <1>2, CountsMove
  <2>4. stats.added \in Int /\ stats.mined \in Int /\ expired \in Int  BY DEF PoolTypes
  <2>5. CountersAgree'
    <3> DEFINE u == Cardinality(Uncounted)  u1 == Cardinality(Uncounted')
               f == Cardinality(Unfinished)  f1 == Cardinality(Unfinished')
               n == Len(txs)  n1 == Len(txs')
               a == stats.added  a1 == stats'.added  m == stats.mined  m1 == stats'.mined
    <3>1. /\ u \in Nat /\ u1 \in Nat /\ f \in Nat /\ f1 \in Nat /\ n \in Nat /\ n1 \in Nat
        /\ a \in Int /\ a1 \in Int /\ m \in Int /\ m1 \in Int /\ expired \in Int
        /\ a + u = n + m + f + expired
        /\ a1 = a /\ m1 = m + 1 /\ u1 = u /\ f1 + 1 = f /\ n1 = n
      BY <1>1, <1>3, <2>1, <2>3, <2>4 DEF CountersAgree
    <3>. HIDE DEF u, u1, f, f1, n, n1, a, a1, m, m1
    <3>2. a1 + u1 = n1 + m1 + f1 + expired  BY <3>1
    <3>3. expired' = expired  BY <1>1, <1>2
    <3>. QED  BY <3>2, <3>3 DEF CountersAgree, u1, f1, n1, a1, m1
  <2>. QED  BY <1>1, <2>1, <2>2, <2>5
<1>5. Len(txs') <= Len(txs)  BY <1>1, <1>3
<1>. QED  BY <1>1, <1>3, <1>4, <1>5, AloneStays

(* Expiry takes the old entries out of the pool, and counts each of them.  *)
LEMMA ExpiryIs ==
  ASSUME PoolTypes, EvictExpired
  PROVE  /\ txs' \in Seq(Entry) /\ Once(txs')
         /\ Pool' \in SUBSET Pool
         /\ \E g \in Nat : /\ expired' = expired + g /\ Len(txs) = Len(txs') + g
                           /\ g = 0 => Pool' = Pool
         /\ stats' \in [added : Int, evicted : Int, mined : Int]
         /\ stats'.added = stats.added /\ stats'.mined = stats.mined
         /\ expiries' \in [Tx -> Nat]
         /\ \A t \in Tx : \/ expiries'[t] = expiries[t] /\ (t \in Pool' <=> t \in Pool)
                          \/ expiries'[t] = expiries[t] + 1
<1> DEFINE old == {i \in DOMAIN txs : Old(txs[i])}
           S == {i \in DOMAIN txs : ~Old(txs[i])}
           gone == {txs[i].tx : i \in old}
           f == [i \in old |-> txs[i].tx]
<1>1. /\ txs \in Seq(Entry) /\ Once(txs) /\ DOMAIN txs = 1 .. Len(txs) /\ Len(txs) \in Nat
      /\ stats \in [added : Int, evicted : Int, mined : Int]
      /\ expiries \in [Tx -> Nat] /\ expired \in Int
  BY DEF PoolTypes
<1>2. S \in SUBSET (1 .. Len(txs)) /\ (1 .. Len(txs)) \ S = old  BY <1>1
<1>3. /\ txs' = Kept(txs, S)
      /\ stats' = [stats EXCEPT !.evicted = @ + Cardinality(gone)]
      /\ expiries' = [t \in Tx |-> expiries[t] + (IF t \in gone THEN 1 ELSE 0)]
      /\ expired' = expired + Cardinality(gone)
  BY DEF EvictExpired
<1>4. {txs[i].tx : i \in S} \in SUBSET Pool /\ (Pool \ gone) \in SUBSET {txs[i].tx : i \in S}
  BY DEF Pool
<1>5. \A i, j \in old : f[i] = f[j] => i = j  BY <1>1 DEF Once
<1>6. f \in Bijection(old, gone)
  <2>1. f \in [old -> gone]  OBVIOUS
  <2>2. \A x \in gone : \E i \in old : f[i] = x  OBVIOUS
  <2>. HIDE DEF f, old, gone
  <2>. QED  BY <1>5, <2>1, <2>2, Fun_IsBij
<1>7. \A t \in gone : t \notin {txs[i].tx : i \in S}
  <2>. TAKE t \in gone
  <2>1. PICK i \in old : txs[i].tx = t  OBVIOUS
  <2>. QED  BY <1>1, <2>1 DEF Once
<1>. HIDE DEF f, old, gone, S
<1>8. /\ Kept(txs, S) \in Seq(Entry) /\ Once(Kept(txs, S))
      /\ PoolOf(Kept(txs, S)) = {txs[i].tx : i \in S}
      /\ Len(Kept(txs, S)) = Cardinality(S) /\ Cardinality(S) \in Nat
      /\ IsFiniteSet(old)
      /\ Cardinality(old) = Len(txs) - Cardinality(S)
  BY <1>1, <1>2, KeptPool
<1>9. Cardinality(gone) = Cardinality(old) /\ Cardinality(old) \in Nat
  BY <1>6, <1>8, FS_Bijection, FS_CardinalityType, Fun_ExistsBij
<1>10. Pool' = {txs[i].tx : i \in S}  BY <1>3, <1>8 DEF Pool, PoolOf
<1>11. \A t \in Tx : expiries'[t] = IF t \in gone THEN expiries[t] + 1 ELSE expiries[t]
  BY <1>1, <1>3
<1>12. expiries' \in [Tx -> Nat]
  <2>1. \A t \in Tx : expiries[t] + (IF t \in gone THEN 1 ELSE 0) \in Nat  BY <1>1
  <2>. QED  BY <1>3, <2>1
<1>13. \A t \in Tx : t \notin gone => (t \in Pool' <=> t \in Pool)  BY <1>4, <1>10
<1>14. \E g \in Nat : /\ expired' = expired + g /\ Len(txs) = Len(txs') + g
                      /\ g = 0 => Pool' = Pool
  <2> DEFINE g == Cardinality(old)
  <2>1. g \in Nat /\ expired' = expired + g /\ Len(txs) = Len(txs') + g
    BY <1>1, <1>3, <1>8, <1>9
  <2>2. ASSUME g = 0 PROVE Pool' = Pool
    <3>1. old = {}  BY <1>8, <2>2, FS_EmptySet
    <3>2. gone = {}  BY <3>1 DEF gone
    <3>. QED  BY <1>4, <1>10, <3>2
  <2>. QED  BY <2>1, <2>2
<1>15. /\ stats' \in [added : Int, evicted : Int, mined : Int]
       /\ stats'.added = stats.added /\ stats'.mined = stats.mined
  <2> DEFINE m == Cardinality(gone)
  <2>1. m \in Int /\ stats' = [stats EXCEPT !.evicted = @ + m]  BY <1>3, <1>9
  <2>. HIDE DEF m
  <2>. QED  BY <1>1, <2>1
<1>16. \A t \in Tx : \/ expiries'[t] = expiries[t] /\ (t \in Pool' <=> t \in Pool)
                     \/ expiries'[t] = expiries[t] + 1
  BY <1>11, <1>13
<1>17. txs' \in Seq(Entry) /\ Once(txs')  BY <1>3, <1>8
<1>. QED  BY <1>4, <1>10, <1>12, <1>14, <1>15, <1>16, <1>17

(* Expiry is counted and leaves the calls as they are. *)
LEMMA ExpiryAlone ==
  ASSUME PoolTypes, Alone, EvictExpired,
         UNCHANGED <<lists, by_sender, clock, apc, locals, overlapped>>
  PROVE  PoolTypes' /\ Alone'
<1>1. /\ txs' \in Seq(Entry) /\ Once(txs') /\ Pool' \in SUBSET Pool
      /\ stats' \in [added : Int, evicted : Int, mined : Int]
      /\ stats'.added = stats.added /\ stats'.mined = stats.mined
      /\ expiries' \in [Tx -> Nat]
      /\ \E g \in Nat : /\ expired' = expired + g /\ Len(txs) = Len(txs') + g
                        /\ g = 0 => Pool' = Pool
  BY ExpiryIs
<1>a. PICK g \in Nat : /\ expired' = expired + g /\ Len(txs) = Len(txs') + g
                       /\ g = 0 => Pool' = Pool
  BY <1>1
<1>2. UNCHANGED <<lists, by_sender, clock, apc, entry, leaving, held, passed, kept, overlapped>>
  BY DEF locals
<1>3. Uncounted' = Uncounted /\ Unfinished' = Unfinished /\ Busy' = Busy
  BY <1>2 DEF Uncounted, Unfinished, Busy, Adding
<1>b. /\ stats.added \in Int /\ stats.mined \in Int /\ expired \in Int /\ expired' \in Int
      /\ Len(txs) \in Nat /\ Len(txs') \in Nat
      /\ Cardinality(Uncounted) \in Nat /\ Cardinality(Unfinished) \in Nat
  BY <1>1, <1>a, FS_CardinalityType DEF PoolTypes
<1>4. PoolTypes'
  <2>1. \A th \in Thread : InStep(th)'  BY <1>2 DEF PoolTypes, InStep
  <2>. QED  BY <1>1, <1>2, <1>3, <1>b, <2>1 DEF PoolTypes
<1>5. Alone'
  <2>. SUFFICES ASSUME ~overlapped' PROVE Alone'  BY DEF Alone
  <2>1. /\ \A a, b \in Busy : a = b
        /\ \A a \in Thread : Prepared(a)
        /\ Len(txs) <= Capacity /\ CountersAgree
    BY <1>2 DEF Alone
  <2>2. Len(txs') <= Len(txs)  BY <1>a, <1>b
  <2>3. Pool' = Pool \/ Len(txs') < Len(txs)  BY <1>a, <1>b
  <2>4. Capacity \in Nat  BY MempoolAssumption
  <2>5. ASSUME NEW a \in Thread PROVE Prepared(a)'
    <3>1. Prepared(a)  BY <2>1
    <3>2. Len(txs') < Len(txs) => Len(txs') < Capacity  BY <1>b, <2>1, <2>4
    <3>3. Len(txs) < Capacity => Len(txs') < Capacity  BY <1>b, <2>2, <2>4
    <3>. QED  BY <1>1, <1>2, <2>3, <3>1, <3>2, <3>3 DEF Prepared, Adding
  <2>6. Len(txs') <= Capacity  BY <1>b, <2>1, <2>2, <2>4
  <2>7. CountersAgree'
    <3> DEFINE u == Cardinality(Uncounted)  f == Cardinality(Unfinished)
               n == Len(txs)  n1 == Len(txs')  a == stats.added  m == stats.mined
    <3>1. /\ u \in Nat /\ f \in Nat /\ n \in Nat /\ n1 \in Nat /\ a \in Int /\ m \in Int
          /\ expired \in Int /\ a + u = n + m + f + expired
          /\ expired' = expired + g /\ n = n1 + g
      BY <1>a, <1>b, <2>1 DEF CountersAgree
    <3>2. /\ Cardinality(Uncounted') = u /\ Cardinality(Unfinished') = f
          /\ stats'.added = a /\ stats'.mined = m
      BY <1>1, <1>3
    <3>. HIDE DEF u, f, n, n1, a, m
    <3>3. a + u = n1 + m + f + expired'  BY <3>1
    <3>. QED  BY <3>2, <3>3 DEF CountersAgree, n1
  <2>. QED  BY <1>3, <2>1, <2>5, <2>6, <2>7 DEF Alone
<1>. QED  BY <1>4, <1>5

(* The pool starts empty. *)
LEMMA InitAlone == PoolInit => PoolTypes /\ Alone
<1>. SUFFICES ASSUME PoolInit PROVE PoolTypes /\ Alone  OBVIOUS
<1>1. Pool = {} /\ Len(txs) = 0 /\ Once(txs) /\ Busy = {} /\ Uncounted = {} /\ Unfinished = {}
  BY DEF PoolInit, Pool, Once, Busy, Adding, Uncounted, Unfinished
<1>2. IsFiniteSet({}) /\ Cardinality({}) = 0  BY FS_EmptySet
<1>3. PoolTypes
  <2>1. /\ txs \in Seq(Entry) /\ by_sender \in [DOMAIN AccountNonce -> ListId \cup {NoList}]
        /\ stats \in [added : Int, evicted : Int, mined : Int] /\ clock \in Nat
    BY DEF PoolInit
  <2>2. /\ apc \in [Thread -> Steps] /\ entry \in [Thread -> Entry \cup {NoEntry}]
        /\ leaving \in [Thread -> Tx \cup {NoTx}] /\ held \in [Thread -> ListId \cup {NoList}]
        /\ passed \in [Thread -> Nat]
    BY DEF PoolInit, Steps
  <2>3. lists \in [ListId -> Seq(Tx)] /\ kept \in [Thread -> Seq(Tx)]
    <3>1. <<>> \in Seq(Tx)  OBVIOUS
    <3>. QED  BY <3>1 DEF PoolInit
  <2>4. \A th \in Thread : InStep(th)  BY DEF PoolInit, InStep
  <2>. QED  BY <1>1, <1>2, <2>1, <2>2, <2>3, <2>4 DEF PoolInit, PoolTypes
<1>4. CountersAgree  BY <1>1, <1>2 DEF PoolInit, CountersAgree
<1>5. Len(txs) <= Capacity  BY <1>1, MempoolAssumption
<1>6. \A th \in Thread : Prepared(th)  BY DEF PoolInit, Prepared, Adding
<1>. QED  BY <1>1, <1>3, <1>4, <1>5, <1>6 DEF Alone

----------------------------------------------------------------------------
(* The senders' lists *)

(* Whose list a thread holds. *)
HeldFor(th) == IF apc[th] = "filter" THEN leaving[th].from ELSE entry[th].tx.from

Refers(l, s) == by_sender[s] = l \/ \E th \in Thread : held[th] = l /\ HeldFor(th) = s

(* Every list is one sender's. *)
Owned == \A l \in ListId, s, r \in DOMAIN AccountNonce : Refers(l, s) /\ Refers(l, r) => s = r

ToBeListed(t) == \E th \in Thread : apc[th] \in {"list", "append"} /\ entry[th].tx = t

BeingRemoved(t) == \E th \in Thread : apc[th] \in {"find", "filter"} /\ leaving[th] = t

UpTo(list, n, t) == Cardinality({i \in 1 .. n : list[i] = t})

(* How far remove has come in the sender's list, which stays as it is: it  *)
(* has kept all it has passed but the transaction that goes.               *)
Filtered(th) ==
  LET list == lists[held[th]] IN
  /\ list = ListOf(leaving[th].from)
  /\ passed[th] <= Len(list)
  /\ Sorted(kept[th])
  /\ \A k \in DOMAIN kept[th] : \E i \in 1 .. passed[th] : kept[th][k] = list[i]
  /\ \A u \in Tx : Times(kept[th], u) = IF u = leaving[th] THEN 0 ELSE UpTo(list, passed[th], u)

(* A list nobody removes from while others list or remove. *)
Apart(s) ==
  \A th, other \in Thread :
    RemovingFor(th, s) /\ (RemovingFor(other, s) \/ ListingFor(other, s)) => other = th

Held(s) == \A th \in Thread : ListingFor(th, s) /\ apc[th] # "list" => held[th] = by_sender[s]

Gone(s) == \A th \in Thread : RemovingFor(th, s) => leaving[th] \notin Pool

Filtering(s) == \A th \in Thread : RemovingFor(th, s) /\ apc[th] = "filter" => Filtered(th)

InOrderUnlessSorting(s) ==
  Sorted(ListOf(s)) \/ \E th \in Thread : apc[th] = "sort" /\ ListingFor(th, s)

(* t is listed if it is pending, and at most once more than it has expired. *)
Enlisted(t) ==
  /\ t \in Pool => Times(ListOf(t.from), t) >= 1 \/ ToBeListed(t)
  /\ ~overlapped => Times(ListOf(t.from), t) + (IF ToBeListed(t) THEN 1 ELSE 0)
                      <= expiries[t] + (IF t \in Pool \/ BeingRemoved(t) THEN 1 ELSE 0)

Right(s) ==
  /\ Apart(s) /\ Held(s) /\ Gone(s) /\ Filtering(s) /\ InOrderUnlessSorting(s)
  /\ \A t \in Tx : t.from = s => Enlisted(t)

ListsRight == \A s \in DOMAIN AccountNonce \ clashed : Right(s)

(* The list of a sender is a list. *)
LEMMA ListOfIs ==
  ASSUME PoolTypes, NEW s \in DOMAIN AccountNonce
  PROVE  ListOf(s) \in Seq(Tx) /\ \A t : Times(ListOf(s), t) \in Nat
<1>1. by_sender[s] \in ListId \cup {NoList} /\ lists \in [ListId -> Seq(Tx)]  BY DEF PoolTypes
<1>2. ListOf(s) \in Seq(Tx)
  <2>1. CASE by_sender[s] = NoList  BY <2>1 DEF ListOf
  <2>2. CASE by_sender[s] # NoList  BY <1>1, <2>2 DEF ListOf
  <2>. QED  BY <2>1, <2>2
<1>3. \A t : Times(ListOf(s), t) \in Nat  BY <1>2, TimesIs
<1>. QED  BY <1>2, <1>3

(* One more at the end of a list. *)
LEMMA AppendTimes ==
  ASSUME NEW list \in Seq(Tx), NEW t \in Tx
  PROVE  /\ Append(list, t) \in Seq(Tx) /\ Times(list, t) \in Nat
         /\ Times(Append(list, t), t) = Times(list, t) + 1
         /\ \A u : u # t => Times(Append(list, t), u) = Times(list, u)
<1> DEFINE longer == Append(list, t)
           D == DOMAIN longer
           at == {i \in DOMAIN list : list[i] = t}
           last == Len(list) + 1
<1>1. /\ longer \in Seq(Tx) /\ D = 1 .. last /\ Len(list) \in Nat
      /\ \A i \in DOMAIN list : i \in D /\ longer[i] = list[i]
      /\ longer[last] = t /\ last \in D /\ last \notin DOMAIN list
      /\ \A i \in D : i # last => i \in DOMAIN list
  OBVIOUS
<1>2. {i \in D : longer[i] = t} = at \cup {last}  BY <1>1
<1>3. \A u : u # t => {i \in D : longer[i] = u} = {i \in DOMAIN list : list[i] = u}  BY <1>1
<1>4. IsFiniteSet(at) /\ last \notin at
  <2>1. Len(list) \in Int /\ 1 \in Int /\ at \in SUBSET (1 .. Len(list))  OBVIOUS
  <2>2. last \notin at  BY <1>1
  <2>. HIDE DEF at
  <2>. QED  BY <2>1, <2>2, FS_Interval, FS_Subset
<1>5. Times(list, t) = Cardinality(at) /\ Times(longer, t) = Cardinality(at \cup {last})
  BY <1>2 DEF Times
<1>6. \A u : u # t => Times(longer, u) = Times(list, u)  BY <1>3 DEF Times
<1>. HIDE DEF at, last
<1>7. Cardinality(at \cup {last}) = Cardinality(at) + 1 /\ Cardinality(at) \in Nat
  BY <1>4, FS_AddElement, FS_CardinalityType
<1>. QED  BY <1>1, <1>5, <1>6, <1>7

(* One more at the end of what has been passed. *)
LEMMA PassedOn ==
  ASSUME NEW list \in Seq(Tx), NEW n \in Nat, n + 1 \in DOMAIN list, NEW u
  PROVE  /\ UpTo(list, n, u) \in Nat
         /\ UpTo(list, n + 1, u) = UpTo(list, n, u) + (IF list[n + 1] = u THEN 1 ELSE 0)
<1> DEFINE A == {i \in 1 .. n : list[i] = u}
           B == {i \in 1 .. n + 1 : list[i] = u}
<1>1. IsFiniteSet(A) /\ Cardinality(A) \in Nat /\ n + 1 \notin A
  <2>1. n \in Int /\ 1 \in Int /\ A \in SUBSET (1 .. n) /\ n + 1 \notin A  OBVIOUS
  <2>. HIDE DEF A
  <2>. QED  BY <2>1, FS_Interval, FS_Subset, FS_CardinalityType
<1>2. B = IF list[n + 1] = u THEN A \cup {n + 1} ELSE A
  <2>1. \A i \in 1 .. n + 1 : i \in 1 .. n \/ i = n + 1  OBVIOUS
  <2>2. \A i \in 1 .. n : i \in 1 .. n + 1  OBVIOUS
  <2>. QED  BY <2>1, <2>2
<1>3. UpTo(list, n, u) = Cardinality(A) /\ UpTo(list, n + 1, u) = Cardinality(B)  BY DEF UpTo
<1>. HIDE DEF A, B
<1>4. Cardinality(A \cup {n + 1}) = Cardinality(A) + 1  BY <1>1, FS_AddElement
<1>. QED  BY <1>1, <1>2, <1>3, <1>4

(* What holds of a sender's list is not touched by a thread that is about  *)
(* another sender's, or none.                                              *)
LEMMA RightStays ==
  ASSUME PoolTypes, PoolTypes', NEW s \in DOMAIN AccountNonce, Right(s),
         NEW th \in Thread, OthersStay(th),
         ~ListingFor(th, s), ~RemovingFor(th, s), ~ListingFor(th, s)', ~RemovingFor(th, s)',
         by_sender'[s] = by_sender[s], ListOf(s)' = ListOf(s),
         \A other \in Thread \ {th} :
           RemovingFor(other, s) /\ apc[other] = "filter" => lists'[held[other]] = lists[held[other]],
         \A t \in Tx : t.from = s => (t \in Pool' <=> t \in Pool),
         UNCHANGED expiries, overlapped => overlapped'
  PROVE  Right(s)'
<1>1. \A other \in Thread \ {th} :
        /\ apc'[other] = apc[other] /\ entry'[other] = entry[other]
        /\ leaving'[other] = leaving[other] /\ held'[other] = held[other]
        /\ passed'[other] = passed[other] /\ kept'[other] = kept[other]
        /\ (ListingFor(other, s)' <=> ListingFor(other, s))
        /\ (RemovingFor(other, s)' <=> RemovingFor(other, s))
  BY DEF OthersStay, ListingFor, RemovingFor
<1>2. /\ Apart(s) /\ Held(s) /\ Gone(s) /\ Filtering(s) /\ InOrderUnlessSorting(s)
      /\ \A t \in Tx : t.from = s => Enlisted(t)
  BY DEF Right
<1>3. Apart(s)'  BY <1>1, <1>2 DEF Apart
<1>4. Held(s)'  BY <1>1, <1>2 DEF Held
<1>5. Gone(s)'
  <2>. SUFFICES ASSUME NEW a \in Thread, RemovingFor(a, s)' PROVE leaving'[a] \notin Pool'
    BY DEF Gone
  <2>1. a # th /\ RemovingFor(a, s) /\ leaving'[a] = leaving[a]  BY <1>1
  <2>2. leaving[a] \notin Pool /\ leaving[a].from = s  BY <1>2, <2>1 DEF Gone, RemovingFor
  <2>3. leaving[a] \in Tx  BY <2>1 DEF RemovingFor, PoolTypes, InStep
  <2>. QED  BY <2>1, <2>2, <2>3
<1>6. Filtering(s)'
  <2>. SUFFICES ASSUME NEW a \in Thread, RemovingFor(a, s)', apc'[a] = "filter"
                PROVE  Filtered(a)'
    BY DEF Filtering
  <2>1. a \in Thread \ {th} /\ RemovingFor(a, s) /\ apc[a] = "filter"  BY <1>1
  <2>2. Filtered(a) /\ leaving[a].from = s  BY <1>2, <2>1 DEF Filtering, RemovingFor
  <2>3. lists'[held[a]] = lists[held[a]]  BY <2>1
  <2>4. /\ leaving'[a] = leaving[a] /\ held'[a] = held[a]
        /\ passed'[a] = passed[a] /\ kept'[a] = kept[a]
    BY <1>1, <2>1
  <2>. HIDE DEF ListOf
  <2>5. ListOf(leaving[a].from)' = ListOf(leaving[a].from)  BY <2>2, <2>4
  <2>. QED  BY <2>2, <2>3, <2>4, <2>5 DEF Filtered
<1>7. InOrderUnlessSorting(s)'
  <2>. HIDE DEF ListOf
  <2>. QED  BY <1>1, <1>2 DEF InOrderUnlessSorting, ListingFor
<1>8. ASSUME NEW t \in Tx, t.from = s PROVE Enlisted(t)'
  <2>1. Enlisted(t)  BY <1>2, <1>8
  <2>2. ToBeListed(t)' <=> ToBeListed(t)
    <3>1. ~(apc[th] \in {"list", "append"} /\ entry[th].tx = t)  BY <1>8 DEF ListingFor
    <3>2. ~(apc'[th] \in {"list", "append"} /\ entry'[th].tx = t)  BY <1>8 DEF ListingFor
    <3>. QED  BY <1>1, <3>1, <3>2 DEF ToBeListed
  <2>3. BeingRemoved(t)' <=> BeingRemoved(t)
    <3>1. ~(apc[th] \in {"find", "filter"} /\ leaving[th] = t)  BY <1>8 DEF RemovingFor
    <3>2. ~(apc'[th] \in {"find", "filter"} /\ leaving'[th] = t)  BY <1>8 DEF RemovingFor
    <3>. QED  BY <1>1, <3>1, <3>2 DEF BeingRemoved
  <2>4. Times(ListOf(t.from), t)' = Times(ListOf(t.from), t)
    <3>. HIDE DEF ListOf
    <3>. QED  BY <1>8
  <2>. QED  BY <1>8, <2>1, <2>2, <2>3, <2>4 DEF Enlisted
<1>. QED  BY <1>3, <1>4, <1>5, <1>6, <1>7, <1>8 DEF Right

(* A step that changes no list a sender's threads refer to leaves its list *)
(* as it is.                                                               *)
LEMMA OtherLists ==
  ASSUME PoolTypes, PoolTypes', NEW s \in DOMAIN AccountNonce,
         \A l \in ListId : Refers(l, s) /\ l \in InUse' => lists'[l] = lists[l],
         NEW th \in Thread, OthersStay(th), by_sender'[s] = by_sender[s]
  PROVE  /\ ListOf(s)' = ListOf(s)
         /\ \A other \in Thread \ {th} :
              RemovingFor(other, s) /\ apc[other] = "filter" => lists'[held[other]] = lists[held[other]]
<1>1. ListOf(s)' = ListOf(s)
  <2>1. by_sender[s] # NoList => /\ by_sender[s] \in ListId /\ by_sender[s] \in InUse'
                                 /\ Refers(by_sender[s], s)
    BY DEF PoolTypes, InUse, Refers
  <2>. QED  BY <2>1 DEF ListOf
<1>2. ASSUME NEW other \in Thread \ {th}, RemovingFor(other, s), apc[other] = "filter"
      PROVE  lists'[held[other]] = lists[held[other]]
  <2>1. held[other] \in ListId /\ HeldFor(other) = s
    BY <1>2 DEF PoolTypes, InStep, HeldFor, RemovingFor
  <2>2. Refers(held[other], s)  BY <2>1 DEF Refers
  <2>3. held[other] \in InUse'
    <3>1. held'[other] = held[other]  BY DEF OthersStay
    <3>. QED  BY <3>1 DEF InUse
  <2>. QED  BY <2>1, <2>2, <2>3
<1>. QED  BY <1>1, <1>2

(* A list that gets a name, or another one who holds it, is still one      *)
(* sender's.                                                               *)
LEMMA OwnedStays ==
  ASSUME Owned, NEW r \in DOMAIN AccountNonce, NEW L,
         \A s \in DOMAIN AccountNonce : Refers(L, s) => s = r,
         \A l \in ListId, s \in DOMAIN AccountNonce : Refers(l, s)' => Refers(l, s) \/ (l = L /\ s = r)
  PROVE  Owned'
<1>. SUFFICES ASSUME NEW l \in ListId, NEW s \in DOMAIN AccountNonce, NEW q \in DOMAIN AccountNonce,
                     Refers(l, s)', Refers(l, q)'
              PROVE  s = q
  BY DEF Owned
<1>1. Refers(l, s) \/ (l = L /\ s = r)  OBVIOUS
<1>2. Refers(l, q) \/ (l = L /\ q = r)  OBVIOUS
<1>. QED  BY <1>1, <1>2 DEF Owned

(* Who refers to a list once a thread has got on. *)
LEMMA RefersNext ==
  ASSUME PoolTypes', NEW th \in Thread, OthersStay(th), NEW l \in ListId, NEW s \in DOMAIN AccountNonce,
         Refers(l, s)'
  PROVE  \/ by_sender'[s] = l
         \/ held'[th] = l /\ HeldFor(th)' = s
         \/ \E other \in Thread \ {th} : held[other] = l /\ HeldFor(other) = s
BY DEF Refers, HeldFor, OthersStay

(* What does not change for the threads that do not get on. *)
LEMMA OthersFor ==
  ASSUME NEW th \in Thread, OthersStay(th), NEW s
  PROVE  \A other \in Thread \ {th} :
           /\ apc'[other] = apc[other] /\ entry'[other] = entry[other]
           /\ leaving'[other] = leaving[other] /\ held'[other] = held[other]
           /\ passed'[other] = passed[other] /\ kept'[other] = kept[other]
           /\ (ListingFor(other, s)' <=> ListingFor(other, s))
           /\ (RemovingFor(other, s)' <=> RemovingFor(other, s))
BY DEF OthersStay, ListingFor, RemovingFor

(* The senders' lists are right if the one a step is about is, and it      *)
(* changes none that the others' threads refer to.                         *)
LEMMA ListsStay ==
  ASSUME PoolTypes, PoolTypes', ListsRight, clashed \subseteq clashed',
         NEW th \in Thread, OthersStay(th), NEW r \in DOMAIN AccountNonce,
         \A s \in DOMAIN AccountNonce \ {r} :
           /\ ~ListingFor(th, s) /\ ~RemovingFor(th, s)
           /\ ~ListingFor(th, s)' /\ ~RemovingFor(th, s)'
           /\ by_sender'[s] = by_sender[s]
           /\ \A l \in ListId : Refers(l, s) /\ l \in InUse' => lists'[l] = lists[l],
         \A t \in Tx : t.from # r => (t \in Pool' <=> t \in Pool),
         UNCHANGED expiries, overlapped => overlapped',
         r \notin clashed' /\ Right(r) => Right(r)'
  PROVE  ListsRight'
<1>. SUFFICES ASSUME NEW s \in DOMAIN AccountNonce \ clashed' PROVE Right(s)'
  BY DEF ListsRight
<1>1. Right(s)  BY DEF ListsRight
<1>2. CASE s = r  BY <1>1, <1>2
<1>3. CASE s # r
  <2>1. /\ ~ListingFor(th, s) /\ ~RemovingFor(th, s)
        /\ ~ListingFor(th, s)' /\ ~RemovingFor(th, s)'
        /\ by_sender'[s] = by_sender[s]
        /\ \A l \in ListId : Refers(l, s) /\ l \in InUse' => lists'[l] = lists[l]
    BY <1>3
  <2>2. /\ ListOf(s)' = ListOf(s)
        /\ \A other \in Thread \ {th} :
             RemovingFor(other, s) /\ apc[other] = "filter" => lists'[held[other]] = lists[held[other]]
    BY <2>1, OtherLists
  <2>3. \A t \in Tx : t.from = s => (t \in Pool' <=> t \in Pool)  BY <1>3
  <2>. QED  BY <1>1, <2>1, <2>2, <2>3, RightStays
<1>. QED  BY <1>2, <1>3

(* A thread that lets go of its list, or holds it for the same sender.     *)
LEMMA OwnedSame ==
  ASSUME PoolTypes', Owned, NEW th \in Thread, OthersStay(th), UNCHANGED by_sender,
         held'[th] = NoList \/ (held'[th] = held[th] /\ HeldFor(th)' = HeldFor(th))
  PROVE  Owned'
<1>1. \A l \in ListId : l # NoList  BY MempoolAssumption DEF NoList
<1>2. ASSUME NEW l \in ListId, NEW s \in DOMAIN AccountNonce, Refers(l, s)' PROVE Refers(l, s)
  <2>1. \/ by_sender'[s] = l
        \/ held'[th] = l /\ HeldFor(th)' = s
        \/ \E other \in Thread \ {th} : held[other] = l /\ HeldFor(other) = s
    BY <1>2, RefersNext
  <2>. QED  BY <1>1, <2>1 DEF Refers
<1>. QED  BY <1>2 DEF Owned

(* A thread that gets hold of the list of the sender it is about, which    *)
(* may be a new one.                                                       *)
LEMMA OwnedTaken ==
  ASSUME PoolTypes, PoolTypes', Owned, NEW th \in Thread, OthersStay(th),
         NEW r \in DOMAIN AccountNonce, NEW L \in ListId,
         by_sender[r] = L \/ Fresh(L),
         \A s \in DOMAIN AccountNonce \ {r} : by_sender'[s] = by_sender[s],
         by_sender'[r] \in {by_sender[r], L},
         held'[th] = NoList \/ (held'[th] = L /\ HeldFor(th)' = r)
  PROVE  /\ Owned'
         /\ \A s \in DOMAIN AccountNonce \ {r} : ~Refers(L, s)
<1>1. \A l \in ListId : l # NoList  BY MempoolAssumption DEF NoList
<1>2. \A s \in DOMAIN AccountNonce : Refers(L, s) => s = r
  <2>1. CASE by_sender[r] = L  BY <2>1 DEF Owned, Refers
  <2>2. CASE Fresh(L)  BY <2>2, FreshIs DEF Refers
  <2>. QED  BY <2>1, <2>2
<1>3. ASSUME NEW l \in ListId, NEW s \in DOMAIN AccountNonce, Refers(l, s)'
      PROVE  Refers(l, s) \/ (l = L /\ s = r)
  <2>1. \/ by_sender'[s] = l
        \/ held'[th] = l /\ HeldFor(th)' = s
        \/ \E other \in Thread \ {th} : held[other] = l /\ HeldFor(other) = s
    BY <1>3, RefersNext
  <2>2. by_sender'[s] = l => Refers(l, s) \/ (l = L /\ s = r)
    BY DEF Refers
  <2>. QED  BY <1>1, <2>1, <2>2 DEF Refers
<1>4. Owned'  BY <1>2, <1>3, OwnedStays
<1>. QED  BY <1>2, <1>4

(* Steps that are about no list at all. *)
LEMMA QuietRight ==
  ASSUME PoolTypes, PoolTypes', Owned, ListsRight, NEW th \in Thread, OthersStay(th),
         apc[th] \notin {"find", "filter", "list", "append", "sort"},
         apc'[th] \notin {"find", "filter", "list", "append", "sort"},
         UNCHANGED <<txs, lists, by_sender, expiries, clashed>>, overlapped => overlapped'
  PROVE  Owned' /\ ListsRight'
<1>1. held'[th] = NoList  BY DEF PoolTypes, InStep
<1>2. Owned'  BY <1>1, OwnedSame
<1>3. ASSUME NEW s \in DOMAIN AccountNonce \ clashed' PROVE Right(s)'
  <2>1. Right(s)  BY <1>3 DEF ListsRight
  <2>2. ~ListingFor(th, s) /\ ~RemovingFor(th, s) /\ ~ListingFor(th, s)' /\ ~RemovingFor(th, s)'
    BY DEF ListingFor, RemovingFor
  <2>3. ListOf(s)' = ListOf(s) /\ Pool' = Pool  BY DEF ListOf, Pool
  <2>. QED  BY <2>1, <2>2, <2>3, RightStays
<1>. QED  BY <1>2, <1>3 DEF ListsRight

(* Storing a transaction: nobody removes one of the sender's meanwhile.    *)
LEMMA StoreRight ==
  ASSUME PoolTypes, Alone, NEW th \in Thread, AddStore(th),
         NEW t \in Tx, entry[th].tx = t, Right(t.from), t.from \notin clashed'
  PROVE  Right(t.from)'
<1> DEFINE s == t.from
<1>1. /\ apc[th] = "store" /\ Goto(th, "list") /\ txs' = Stored(txs, entry[th])
      /\ clashed' = clashed \cup {r \in {s} : \E other \in Thread : RemovingFor(other, r)}
      /\ UNCHANGED <<lists, by_sender, entry, leaving, held, passed, kept, expiries, overlapped>>
  BY DEF AddStore, locals
<1>2. OthersStay(th)  BY AddStoreTypes
<1>3. apc'[th] = "list"  BY <1>1, GotoIs DEF Steps
<1>4. entry[th] \in Entry  BY <1>1 DEF PoolTypes, InStep
<1>5. Pool' = Pool \cup {t}
  <2>1. PoolOf(Stored(txs, entry[th])) = PoolOf(txs) \cup {t}
    BY <1>4, StoredIs DEF PoolTypes
  <2>2. Pool' = PoolOf(txs')  BY DEF Pool, PoolOf
  <2>. QED  BY <1>1, <2>1, <2>2, PoolIs
<1>6. \A other \in Thread : ~RemovingFor(other, s)  BY <1>1
<1>7. \A other \in Thread : ~RemovingFor(other, s)'
  BY <1>2, <1>3, <1>6, OthersFor DEF RemovingFor
<1>8. /\ Held(s) /\ InOrderUnlessSorting(s)
      /\ \A u \in Tx : u.from = s => Enlisted(u)
  BY DEF Right
<1>9. ListOf(s)' = ListOf(s)  BY <1>1 DEF ListOf
<1>10. Apart(s)' /\ Gone(s)' /\ Filtering(s)'  BY <1>7 DEF Apart, Gone, Filtering
<1>11. Held(s)'  BY <1>1, <1>2, <1>3, <1>8, OthersFor DEF Held
<1>12. InOrderUnlessSorting(s)'
  <2>. HIDE DEF ListOf
  <2>. QED  BY <1>1, <1>2, <1>8, <1>9, OthersFor DEF InOrderUnlessSorting
<1>13. ASSUME NEW u \in Tx, u.from = s PROVE Enlisted(u)'
  <2>1. Enlisted(u)  BY <1>8, <1>13
  <2>2. ~BeingRemoved(u) /\ ~BeingRemoved(u)'
    BY <1>6, <1>7, <1>13 DEF BeingRemoved, RemovingFor
  <2>3. Times(ListOf(u.from), u)' = Times(ListOf(u.from), u)  BY <1>9, <1>13
  <2>4. CASE u # t
    <3>1. ToBeListed(u)' <=> ToBeListed(u)
      BY <1>1, <1>2, <1>3, <2>4, OthersFor DEF ToBeListed
    <3>. QED  BY <1>1, <1>5, <2>1, <2>2, <2>3, <2>4, <3>1 DEF Enlisted
  <2>5. CASE u = t
    <3>1. ToBeListed(u)'  BY <1>1, <1>3, <2>5 DEF ToBeListed
    <3>2. ~overlapped => ~ToBeListed(u) /\ u \notin Pool
      <4>. SUFFICES ASSUME ~overlapped PROVE ~ToBeListed(u) /\ u \notin Pool  OBVIOUS
      <4>1. (\A a, b \in Busy : a = b) /\ Prepared(th)  BY DEF Alone
      <4>2. th \in Busy  BY <1>4, EntryIs DEF Busy, Adding
      <4>3. u \notin Pool  BY <1>1, <2>5, <4>1, <4>2 DEF Prepared, Busy
      <4>4. \A a \in Thread : apc[a] \in {"list", "append"} => a \in Busy
        BY EntryIs DEF Busy, Adding, PoolTypes, InStep
      <4>. QED  BY <1>1, <4>1, <4>2, <4>3, <4>4 DEF ToBeListed
    <3>3. Times(ListOf(u.from), u) \in Nat /\ expiries[u] \in Nat
      BY ListOfIs, TxFacts DEF PoolTypes
    <3>4. u \in Pool'  BY <1>5, <2>5
    <3>5. ~overlapped => Times(ListOf(u.from), u) <= expiries[u]
      BY <2>1, <2>2, <3>2, <3>3 DEF Enlisted
    <3>. QED  BY <1>1, <2>3, <3>1, <3>3, <3>4, <3>5 DEF Enlisted
  <2>. QED  BY <2>4, <2>5
<1>. QED  BY <1>10, <1>11, <1>12, <1>13 DEF Right

(* Getting the sender's list, or a new one. *)
LEMMA ListRight ==
  ASSUME PoolTypes, NEW th \in Thread, AddList(th),
         NEW t \in Tx, entry[th].tx = t, Right(t.from)
  PROVE  Right(t.from)'
<1> DEFINE s == t.from
<1>1. PICK l \in ListId :
        /\ held' = [held EXCEPT ![th] = l]
        /\ IF by_sender[s] # NoList THEN l = by_sender[s] /\ UNCHANGED <<lists, by_sender>>
           ELSE /\ Fresh(l) /\ lists' = [lists EXCEPT ![l] = <<>>]
                /\ by_sender' = [by_sender EXCEPT ![s] = l]
  BY DEF AddList
<1>2. /\ apc[th] = "list" /\ Goto(th, "append")
      /\ UNCHANGED <<txs, entry, leaving, passed, kept, expiries, overlapped>>
  BY DEF AddList, history
<1>3. OthersStay(th)  BY AddListTypes
<1>4. apc'[th] = "append"  BY <1>2, GotoIs DEF Steps
<1>5. s \in DOMAIN AccountNonce /\ ListingFor(th, s)  BY <1>2, TxFacts DEF ListingFor
<1>6. /\ Apart(s) /\ Held(s) /\ InOrderUnlessSorting(s)
      /\ \A u \in Tx : u.from = s => Enlisted(u)
  BY DEF Right
<1>7. \A other \in Thread : ~RemovingFor(other, s)
  <2>1. ~RemovingFor(th, s)  BY <1>2 DEF RemovingFor
  <2>. QED  BY <1>5, <1>6, <2>1 DEF Apart
<1>8. \A other \in Thread : ~RemovingFor(other, s)'
  BY <1>3, <1>4, <1>7, OthersFor DEF RemovingFor
<1>9. Apart(s)' /\ Gone(s)' /\ Filtering(s)'  BY <1>8 DEF Apart, Gone, Filtering
<1>10. \A k \in ListId : k # NoList  BY MempoolAssumption DEF NoList
<1>11. by_sender'[s] = l /\ held'[th] = l /\ by_sender[s] \in {l, NoList}
  BY <1>1, <1>5 DEF PoolTypes
<1>12. ListOf(s)' = ListOf(s)
  <2>1. CASE by_sender[s] # NoList  BY <1>1, <2>1 DEF ListOf
  <2>2. CASE by_sender[s] = NoList
    <3> DEFINE S == Seq(Tx)
    <3>1. lists \in [ListId -> S]  BY DEF PoolTypes
    <3>2. lists' = [lists EXCEPT ![l] = <<>>]  BY <1>1, <2>2
    <3>. HIDE DEF S
    <3>3. lists'[l] = <<>>  BY <3>1, <3>2
    <3>. QED  BY <1>10, <1>11, <2>2, <3>3 DEF ListOf
  <2>. QED  BY <2>1, <2>2
<1>13. Held(s)'
  <2>. SUFFICES ASSUME NEW a \in Thread, ListingFor(a, s)', apc'[a] # "list"
                PROVE  held'[a] = by_sender'[s]
    BY DEF Held
  <2>1. CASE a = th  BY <1>11, <2>1
  <2>2. CASE a # th
    <3>1. ListingFor(a, s) /\ apc[a] # "list" /\ held'[a] = held[a]  BY <1>3, <2>2, OthersFor
    <3>2. held[a] = by_sender[s] /\ held[a] \in ListId
      BY <1>6, <3>1 DEF Held, ListingFor, PoolTypes, InStep
    <3>. QED  BY <1>10, <1>11, <3>1, <3>2
  <2>. QED  BY <2>1, <2>2
<1>14. InOrderUnlessSorting(s)'
  <2>. HIDE DEF ListOf
  <2>. QED  BY <1>2, <1>3, <1>6, <1>12, OthersFor DEF InOrderUnlessSorting
<1>15. ASSUME NEW u \in Tx, u.from = s PROVE Enlisted(u)'
  <2>1. Enlisted(u)  BY <1>6, <1>15
  <2>2. ~BeingRemoved(u) /\ ~BeingRemoved(u)'
    BY <1>7, <1>8, <1>15 DEF BeingRemoved, RemovingFor
  <2>3. Times(ListOf(u.from), u)' = Times(ListOf(u.from), u)  BY <1>12, <1>15
  <2>4. ToBeListed(u)' <=> ToBeListed(u)
    BY <1>2, <1>3, <1>4, OthersFor DEF ToBeListed
  <2>5. Pool' = Pool  BY <1>2 DEF Pool
  <2>. QED  BY <1>2, <2>1, <2>2, <2>3, <2>4, <2>5 DEF Enlisted
<1>. QED  BY <1>9, <1>13, <1>14, <1>15 DEF Right

(* The transaction is at the end of the sender's list then.                *)
LEMMA AppendRight ==
  ASSUME PoolTypes, Alone, NEW th \in Thread, AddAppend(th),
         NEW t \in Tx, entry[th].tx = t, Right(t.from)
  PROVE  Right(t.from)'
<1> DEFINE s == t.from
<1>1. /\ apc[th] = "append" /\ Goto(th, "sort")
      /\ lists' = [lists EXCEPT ![held[th]] = Append(@, t)]
      /\ UNCHANGED <<txs, by_sender, entry, leaving, held, passed, kept, expiries, overlapped>>
  BY DEF AddAppend, locals, history
<1>2. OthersStay(th)  BY AddAppendTypes
<1>3. apc'[th] = "sort"  BY <1>1, GotoIs DEF Steps
<1>4. s \in DOMAIN AccountNonce /\ ListingFor(th, s) /\ held[th] \in ListId
  BY <1>1, TxFacts DEF ListingFor, PoolTypes, InStep
<1>5. /\ Apart(s) /\ Held(s) /\ \A u \in Tx : u.from = s => Enlisted(u)
  BY DEF Right
<1>6. \A other \in Thread : ~RemovingFor(other, s)
  <2>1. ~RemovingFor(th, s)  BY <1>1 DEF RemovingFor
  <2>. QED  BY <1>4, <1>5, <2>1 DEF Apart
<1>7. \A other \in Thread : ~RemovingFor(other, s)'
  BY <1>2, <1>3, <1>6, OthersFor DEF RemovingFor
<1>8. Apart(s)' /\ Gone(s)' /\ Filtering(s)'  BY <1>7 DEF Apart, Gone, Filtering
<1>9. by_sender[s] = held[th] /\ by_sender[s] # NoList
  <2>1. by_sender[s] = held[th]  BY <1>1, <1>4, <1>5 DEF Held
  <2>. QED  BY <1>4, <2>1, MempoolAssumption DEF NoList
<1>10. ListOf(s) \in Seq(Tx) /\ ListOf(s)' = Append(ListOf(s), t)
  <2>1. lists \in [ListId -> Seq(Tx)]  BY DEF PoolTypes
  <2>. QED  BY <1>1, <1>4, <1>9, <2>1 DEF ListOf
<1>11. Held(s)'
  <2>1. \A a \in Thread : ListingFor(a, s)' => ListingFor(a, s) /\ (apc'[a] # "list" => apc[a] # "list")
    BY <1>1, <1>2, <1>4, OthersFor
  <2>. QED  BY <1>1, <1>5, <2>1 DEF Held
<1>12. InOrderUnlessSorting(s)'
  <2>1. ListingFor(th, s)'  BY <1>1, <1>3 DEF ListingFor
  <2>. QED  BY <1>3, <2>1 DEF InOrderUnlessSorting
<1>13. ASSUME NEW u \in Tx, u.from = s PROVE Enlisted(u)'
  <2>1. Enlisted(u)  BY <1>5, <1>13
  <2>2. ~BeingRemoved(u) /\ ~BeingRemoved(u)'
    BY <1>6, <1>7, <1>13 DEF BeingRemoved, RemovingFor
  <2>3. Pool' = Pool  BY <1>1 DEF Pool
  <2>. HIDE DEF ListOf
  <2>4. CASE u # t
    <3>1. Times(ListOf(u.from), u)' = Times(ListOf(u.from), u)
      <4>1. Times(ListOf(s), u)' = Times(ListOf(s)', u)  BY DEF Times
      <4>2. Times(Append(ListOf(s), t), u) = Times(ListOf(s), u)  BY <1>10, <2>4, AppendTimes
      <4>. QED  BY <1>10, <1>13, <4>1, <4>2
    <3>2. ToBeListed(u)' <=> ToBeListed(u)
      BY <1>1, <1>2, <1>3, <2>4, OthersFor DEF ToBeListed
    <3>. QED  BY <1>1, <2>1, <2>2, <2>3, <3>1, <3>2 DEF Enlisted
  <2>5. CASE u = t
    <3>1. /\ Times(ListOf(u.from), u)' = Times(ListOf(u.from), u) + 1
          /\ Times(ListOf(u.from), u) \in Nat
      <4>1. Times(ListOf(s), u)' = Times(ListOf(s)', u)  BY DEF Times
      <4>2. /\ Times(Append(ListOf(s), t), u) = Times(ListOf(s), u) + 1
            /\ Times(ListOf(s), u) \in Nat
        BY <1>10, <2>5, AppendTimes
      <4>. QED  BY <1>10, <1>13, <4>1, <4>2
    <3>2. ToBeListed(u)  BY <1>1, <2>5 DEF ToBeListed
    <3>3. ~overlapped => ~ToBeListed(u)'
      <4>. SUFFICES ASSUME ~overlapped PROVE ~ToBeListed(u)'  OBVIOUS
      <4>1. \A a \in Thread : apc[a] \in {"list", "append"} => a \in Busy
        BY EntryIs DEF Busy, Adding, PoolTypes, InStep
      <4>2. \A a, b \in Busy : a = b  BY DEF Alone
      <4>3. \A a \in Thread : apc[a] \in {"list", "append"} => a = th  BY <1>1, <4>1, <4>2
      <4>. QED  BY <1>2, <1>3, <4>3, OthersFor DEF ToBeListed
    <3>4. expiries[u] \in Nat  BY DEF PoolTypes
    <3>. HIDE DEF ToBeListed, BeingRemoved
    <3>5. Times(ListOf(u.from), u)' >= 1  BY <3>1
    <3>6. ~overlapped => Times(ListOf(u.from), u)' + (IF ToBeListed(u)' THEN 1 ELSE 0)
                           <= expiries[u] + (IF u \in Pool THEN 1 ELSE 0)
      BY <2>1, <2>2, <3>1, <3>2, <3>3, <3>4 DEF Enlisted
    <3>. QED  BY <1>1, <2>2, <2>3, <3>5, <3>6 DEF Enlisted
  <2>. QED  BY <2>4, <2>5
<1>. QED  BY <1>8, <1>11, <1>12, <1>13 DEF Right

(* Sorting puts it in its place. *)
LEMMA SortRight ==
  ASSUME PoolTypes, NEW th \in Thread, AddSort(th),
         NEW t \in Tx, entry[th].tx = t, Right(t.from)
  PROVE  Right(t.from)'
<1> DEFINE s == t.from
<1>1. /\ apc[th] = "sort" /\ Goto(th, "count")
      /\ UNCHANGED <<txs, by_sender, entry, leaving, passed, kept, expiries, overlapped>>
  BY DEF AddSort, history
<1>2. /\ PoolTypes' /\ OthersStay(th)
      /\ \A l \in ListId : l \in InUse' =>
           lists'[l] = IF l = held[th] THEN InNonceOrder(lists[l]) ELSE lists[l]
  BY AddSortTypes
<1>3. apc'[th] = "count"  BY <1>1, GotoIs DEF Steps
<1>4. s \in DOMAIN AccountNonce /\ ListingFor(th, s) /\ held[th] \in ListId
  BY <1>1, TxFacts DEF ListingFor, PoolTypes, InStep
<1>5. /\ Apart(s) /\ Held(s) /\ \A u \in Tx : u.from = s => Enlisted(u)
  BY DEF Right
<1>6. \A other \in Thread : ~RemovingFor(other, s)
  <2>1. ~RemovingFor(th, s)  BY <1>1 DEF RemovingFor
  <2>. QED  BY <1>4, <1>5, <2>1 DEF Apart
<1>7. \A other \in Thread : ~RemovingFor(other, s)'
  BY <1>2, <1>3, <1>6, OthersFor DEF RemovingFor
<1>8. Apart(s)' /\ Gone(s)' /\ Filtering(s)'  BY <1>7 DEF Apart, Gone, Filtering
<1>9. by_sender[s] = held[th] /\ by_sender[s] # NoList
  <2>1. by_sender[s] = held[th]  BY <1>1, <1>4, <1>5 DEF Held
  <2>. QED  BY <1>4, <2>1, MempoolAssumption DEF NoList
<1>10. ListOf(s) \in Seq(Tx) /\ ListOf(s)' = InNonceOrder(ListOf(s))
  <2>1. lists \in [ListId -> Seq(Tx)] /\ DOMAIN by_sender' = DOMAIN AccountNonce
    BY <1>2 DEF PoolTypes
  <2>2. held[th] \in InUse'  BY <1>1, <1>4, <1>9, <2>1 DEF InUse
  <2>. QED  BY <1>1, <1>2, <1>4, <1>9, <2>1, <2>2 DEF ListOf
<1>11. Held(s)'
  <2>1. \A a \in Thread : ListingFor(a, s)' =>
          a # th /\ ListingFor(a, s) /\ (apc'[a] # "list" => apc[a] # "list") /\ held'[a] = held[a]
    BY <1>2, <1>3, OthersFor DEF ListingFor
  <2>. QED  BY <1>1, <1>5, <2>1 DEF Held
<1>12. InOrderUnlessSorting(s)'
  <2>. HIDE DEF ListOf
  <2>1. Sorted(InNonceOrder(ListOf(s)))  BY <1>10, SortedIs
  <2>2. Sorted(ListOf(s))'  BY <1>10, <2>1 DEF Sorted
  <2>. QED  BY <2>2 DEF InOrderUnlessSorting
<1>13. ASSUME NEW u \in Tx, u.from = s PROVE Enlisted(u)'
  <2>1. Enlisted(u)  BY <1>5, <1>13
  <2>2. ~BeingRemoved(u) /\ ~BeingRemoved(u)'
    BY <1>6, <1>7, <1>13 DEF BeingRemoved, RemovingFor
  <2>3. Pool' = Pool  BY <1>1 DEF Pool
  <2>4. Times(ListOf(u.from), u)' = Times(ListOf(u.from), u)
    <3>. HIDE DEF ListOf
    <3>1. Times(ListOf(s), u)' = Times(ListOf(s)', u)  BY DEF Times
    <3>2. Times(InNonceOrder(ListOf(s)), u) = Times(ListOf(s), u)  BY <1>10, SortedIs
    <3>. QED  BY <1>10, <1>13, <3>1, <3>2
  <2>5. ToBeListed(u)' <=> ToBeListed(u)
    BY <1>1, <1>2, <1>3, OthersFor DEF ToBeListed
  <2>. QED  BY <1>1, <2>1, <2>2, <2>3, <2>4, <2>5 DEF Enlisted
<1>. QED  BY <1>8, <1>11, <1>12, <1>13 DEF Right

(* Taking a transaction out of the pool, while nobody else lists or        *)
(* removes one of the sender's.                                            *)
LEMMA PopRight ==
  ASSUME PoolTypes, NEW th \in Thread, NEW t \in Tx, t \in Pool, Pop(th, t), OthersStay(th),
         apc[th] \in {"idle", "remove"},
         UNCHANGED <<lists, by_sender, entry, held, passed, kept, expiries, overlapped>>,
         Right(t.from), t.from \notin clashed'
  PROVE  Right(t.from)'
<1> DEFINE s == t.from
<1>1. /\ Goto(th, "find") /\ leaving' = [leaving EXCEPT ![th] = t]
      /\ clashed' = clashed \cup {r \in {s} : \E other \in Thread \ {th} :
                                                ListingFor(other, r) \/ RemovingFor(other, r)}
  BY DEF Pop
<1>2. apc'[th] = "find" /\ leaving'[th] = t
  BY <1>1, GotoIs DEF Steps, PoolTypes
<1>3. Pool' = Pool \ {t}  BY PopIs
<1>4. \A other \in Thread : ~ListingFor(other, s) /\ ~RemovingFor(other, s)
  <2>1. ~ListingFor(th, s) /\ ~RemovingFor(th, s)  BY DEF ListingFor, RemovingFor
  <2>. QED  BY <1>1, <2>1
<1>5. \A other \in Thread : ~ListingFor(other, s)' /\ (RemovingFor(other, s)' => other = th)
  <2>1. ~ListingFor(th, s)'  BY <1>2 DEF ListingFor
  <2>. QED  BY <1>4, <2>1, OthersFor
<1>6. InOrderUnlessSorting(s) /\ \A u \in Tx : u.from = s => Enlisted(u)  BY DEF Right
<1>7. ListOf(s)' = ListOf(s)  BY DEF ListOf
<1>8. Apart(s)'  BY <1>5 DEF Apart
<1>9. Held(s)'  BY <1>5 DEF Held
<1>10. Gone(s)'  BY <1>2, <1>3, <1>5 DEF Gone
<1>11. Filtering(s)'  BY <1>2, <1>5 DEF Filtering
<1>12. InOrderUnlessSorting(s)'
  <2>. HIDE DEF ListOf
  <2>1. Sorted(ListOf(s))  BY <1>4, <1>6 DEF InOrderUnlessSorting
  <2>. QED  BY <1>7, <2>1 DEF InOrderUnlessSorting, Sorted
<1>13. ASSUME NEW u \in Tx, u.from = s PROVE Enlisted(u)'
  <2>1. Enlisted(u)  BY <1>6, <1>13
  <2>2. ~ToBeListed(u) /\ ~ToBeListed(u)'
    BY <1>4, <1>5, <1>13 DEF ToBeListed, ListingFor
  <2>3. ~BeingRemoved(u)  BY <1>4, <1>13 DEF BeingRemoved, RemovingFor
  <2>4. BeingRemoved(u)' <=> u = t
    <3>1. BeingRemoved(t)'  BY <1>2 DEF BeingRemoved
    <3>2. ASSUME BeingRemoved(u)' PROVE u = t
      <4>1. PICK a \in Thread : apc'[a] \in {"find", "filter"} /\ leaving'[a] = u
        BY <3>2 DEF BeingRemoved
      <4>2. RemovingFor(a, s)'  BY <1>13, <4>1 DEF RemovingFor
      <4>. QED  BY <1>2, <1>5, <4>1, <4>2
    <3>. QED  BY <3>1, <3>2
  <2>5. Times(ListOf(u.from), u)' = Times(ListOf(u.from), u)  BY <1>7, <1>13
  <2>6. (u \in Pool' \/ BeingRemoved(u)') <=> (u \in Pool \/ BeingRemoved(u))
    BY <1>3, <2>3, <2>4
  <2>7. u \in Pool' => u \in Pool  BY <1>3
  <2>. HIDE DEF ListOf
  <2>. QED  BY <2>1, <2>2, <2>5, <2>6, <2>7 DEF Enlisted
<1>. QED  BY <1>8, <1>9, <1>10, <1>11, <1>12, <1>13 DEF Right

(* Who removes a transaction has its sender's list for itself.             *)
LEMMA RemoverAlone ==
  ASSUME NEW th \in Thread, NEW s, RemovingFor(th, s), Apart(s)
  PROVE  \A other \in Thread : ~ListingFor(other, s) /\ (RemovingFor(other, s) => other = th)
<1>1. ~ListingFor(th, s)  BY DEF ListingFor, RemovingFor
<1>. QED  BY <1>1 DEF Apart

(* What stays the same while a thread finds and goes through the list.     *)
LEMMA RemoverStays ==
  ASSUME PoolTypes, NEW th \in Thread, OthersStay(th), NEW s \in DOMAIN AccountNonce,
         RemovingFor(th, s), apc'[th] = "filter", UNCHANGED <<txs, entry, leaving, expiries, overlapped>>,
         ListOf(s)' = ListOf(s), Right(s), Filtered(th)'
  PROVE  Right(s)'
<1>1. /\ Apart(s) /\ Gone(s) /\ InOrderUnlessSorting(s)
      /\ \A u \in Tx : u.from = s => Enlisted(u)
  BY DEF Right
<1>2. \A other \in Thread : ~ListingFor(other, s) /\ (RemovingFor(other, s) => other = th)
  BY <1>1, RemoverAlone
<1>3. /\ \A other \in Thread : ~ListingFor(other, s)' /\ (RemovingFor(other, s)' => other = th)
      /\ RemovingFor(th, s)'
  <2>1. ~ListingFor(th, s)' /\ RemovingFor(th, s)'  BY DEF ListingFor, RemovingFor
  <2>. QED  BY <1>2, <2>1, OthersFor
<1>4. Apart(s)' /\ Held(s)'  BY <1>3 DEF Apart, Held
<1>5. Pool' = Pool  BY DEF Pool
<1>6. Gone(s)'  BY <1>1, <1>3, <1>5 DEF Gone
<1>7. Filtering(s)'  BY <1>3 DEF Filtering
<1>8. InOrderUnlessSorting(s)'
  <2>. HIDE DEF ListOf
  <2>1. Sorted(ListOf(s))  BY <1>1, <1>2 DEF InOrderUnlessSorting
  <2>. QED  BY <2>1 DEF InOrderUnlessSorting, Sorted
<1>9. ASSUME NEW u \in Tx, u.from = s PROVE Enlisted(u)'
  <2>1. Enlisted(u)  BY <1>1, <1>9
  <2>2. ~ToBeListed(u) /\ ~ToBeListed(u)'
    BY <1>2, <1>3, <1>9 DEF ToBeListed, ListingFor
  <2>3. BeingRemoved(u)' <=> BeingRemoved(u)
    <3>1. apc[th] \in {"find", "filter"}  BY DEF RemovingFor
    <3>. QED  BY <3>1, OthersFor DEF BeingRemoved
  <2>4. Times(ListOf(u.from), u)' = Times(ListOf(u.from), u)  BY <1>9
  <2>. HIDE DEF ListOf
  <2>. QED  BY <1>5, <2>1, <2>2, <2>3, <2>4 DEF Enlisted
<1>. QED  BY <1>4, <1>6, <1>7, <1>8, <1>9 DEF Right

(* Finding the list it goes through. *)
LEMMA FindRight ==
  ASSUME PoolTypes, NEW th \in Thread, RemoveFind(th),
         NEW s \in DOMAIN AccountNonce, leaving[th].from = s, Right(s)
  PROVE  Right(s)'
<1>1. PICK l \in ListId :
        /\ held' = [held EXCEPT ![th] = l]
        /\ IF by_sender[s] # NoList THEN l = by_sender[s] /\ UNCHANGED lists
           ELSE Fresh(l) /\ lists' = [lists EXCEPT ![l] = <<>>]
  BY DEF RemoveFind
<1>2. /\ apc[th] = "find" /\ Goto(th, "filter")
      /\ UNCHANGED <<txs, by_sender, entry, leaving, passed, kept, expiries, overlapped>>
  BY DEF RemoveFind, history
<1>3. OthersStay(th)  BY RemoveFindTypes
<1>4. apc'[th] = "filter" /\ held'[th] = l  BY <1>1, <1>2, GotoIs DEF Steps, PoolTypes
<1>5. RemovingFor(th, s)  BY <1>2 DEF RemovingFor
<1>6. l # NoList  BY MempoolAssumption DEF NoList
<1>7. ListOf(s)' = ListOf(s) /\ lists'[l] = ListOf(s)
  <2>1. CASE by_sender[s] # NoList  BY <1>1, <1>2, <2>1 DEF ListOf
  <2>2. CASE by_sender[s] = NoList
    <3> DEFINE S == Seq(Tx)
    <3>1. lists \in [ListId -> S]  BY DEF PoolTypes
    <3>2. lists' = [lists EXCEPT ![l] = <<>>]  BY <1>1, <2>2
    <3>. HIDE DEF S
    <3>3. lists'[l] = <<>>  BY <3>1, <3>2
    <3>. QED  BY <1>2, <2>2, <3>3 DEF ListOf
  <2>. QED  BY <2>1, <2>2
<1>8. ListOf(s) \in Seq(Tx)  BY ListOfIs
<1>9. Filtered(th)'
  <2>1. passed'[th] = 0 /\ kept'[th] = <<>>  BY <1>2 DEF PoolTypes, InStep
  <2>2. leaving'[th].from = s  BY <1>2
  <2>. HIDE DEF ListOf
  <2>3. lists'[held'[th]] = ListOf(leaving[th].from)'
    BY <1>4, <1>7, <2>2
  <2>4. Len(lists'[held'[th]]) \in Nat  BY <1>4, <1>7, <1>8
  <2>5. \A u \in Tx : Times(<<>>, u) = 0 /\ \A list : UpTo(list, 0, u) = 0
    <3>. TAKE u \in Tx
    <3>1. {i \in DOMAIN <<>> : <<>>[i] = u} = {}  OBVIOUS
    <3>2. \A list : {i \in 1 .. 0 : list[i] = u} = {}  OBVIOUS
    <3>3. Times(<<>>, u) = Cardinality({})  BY <3>1 DEF Times
    <3>4. \A list : UpTo(list, 0, u) = Cardinality({})  BY <3>2 DEF UpTo
    <3>. QED  BY <3>3, <3>4, FS_EmptySet
  <2>6. Sorted(<<>>) /\ DOMAIN <<>> = {}  BY DEF Sorted
  <2>7. passed'[th] <= Len(lists'[held'[th]])  BY <2>1, <2>4
  <2>8. Sorted(kept'[th]) /\ \A k \in DOMAIN kept'[th] : \E i \in 1 .. passed'[th] : kept'[th][k] = lists'[held'[th]][i]
    BY <2>1, <2>6
  <2>9. \A u \in Tx : Times(kept'[th], u)
           = IF u = leaving'[th] THEN 0 ELSE UpTo(lists'[held'[th]], passed'[th], u)
    BY <2>1, <2>5
  <2>. QED  BY <2>2, <2>3, <2>7, <2>8, <2>9 DEF Filtered, Sorted, Times, UpTo
<1>. QED  BY <1>2, <1>3, <1>4, <1>5, <1>7, <1>9, RemoverStays

(* One transaction more that it has passed, and kept but for its own.      *)
LEMMA FilterRight ==
  ASSUME PoolTypes, NEW th \in Thread, RemoveFilter(th),
         NEW s \in DOMAIN AccountNonce, leaving[th].from = s, Right(s)
  PROVE  Right(s)'
<1> DEFINE list == lists[held[th]]
           n == passed[th]
           next == list[n + 1]
<1>1. /\ apc[th] = "filter" /\ passed' = [passed EXCEPT ![th] = @ + 1]
      /\ UNCHANGED <<txs, lists, by_sender, apc, entry, leaving, held, expiries, overlapped>>
  BY DEF RemoveFilter, history
<1>2. /\ PoolTypes' /\ OthersStay(th)
      /\ held[th] \in ListId /\ leaving[th] \in Tx /\ list \in Seq(Tx)
      /\ n + 1 \in DOMAIN list /\ next \in Tx
      /\ kept'[th] = IF next # leaving[th] THEN Append(kept[th], next) ELSE kept[th]
  BY RemoveFilterTypes
<1>3. n \in Nat /\ passed'[th] = n + 1 /\ kept[th] \in Seq(Tx)  BY <1>1 DEF PoolTypes
<1>4. RemovingFor(th, s)  BY <1>1 DEF RemovingFor
<1>5. ListOf(s)' = ListOf(s)  BY <1>1 DEF ListOf
<1>6. Filtered(th) /\ Sorted(list)
  <2>1. Apart(s) /\ Filtering(s) /\ InOrderUnlessSorting(s)  BY DEF Right
  <2>2. \A other \in Thread : ~ListingFor(other, s)  BY <1>4, <2>1, RemoverAlone
  <2>3. Sorted(ListOf(s))  BY <2>1, <2>2 DEF InOrderUnlessSorting
  <2>4. Filtered(th)  BY <1>1, <1>4, <2>1 DEF Filtering
  <2>5. list = ListOf(s)  BY <2>4 DEF Filtered
  <2>. QED  BY <2>3, <2>4, <2>5
<1>7. /\ list = ListOf(s) /\ Sorted(kept[th])
      /\ \A k \in DOMAIN kept[th] : \E i \in 1 .. n : kept[th][k] = list[i]
      /\ \A u \in Tx : Times(kept[th], u) = IF u = leaving[th] THEN 0 ELSE UpTo(list, n, u)
  BY <1>6 DEF Filtered
<1>8. DOMAIN list = 1 .. Len(list) /\ Len(list) \in Nat /\ n + 1 <= Len(list)  BY <1>2, <1>3
<1>9. \A i \in 1 .. n : i \in DOMAIN list /\ i < n + 1 /\ i \in 1 .. n + 1  BY <1>3, <1>8
<1>a. \A i \in DOMAIN list : list[i] \in Tx  BY <1>2
<1>. HIDE DEF list, n, next
<1>10. Sorted(kept'[th]) /\ \A k \in DOMAIN kept'[th] : \E i \in 1 .. n + 1 : kept'[th][k] = list[i]
  <2>1. CASE next = leaving[th]  BY <1>2, <1>7, <1>9, <2>1
  <2>2. CASE next # leaving[th]
    <3> DEFINE old == kept[th]
    <3>1. kept'[th] = Append(old, next) /\ old \in Seq(Tx)  BY <1>2, <1>3, <2>2
    <3>2. /\ \A k \in DOMAIN old : \E i \in 1 .. n : old[k] = list[i]
          /\ \A j, k \in DOMAIN old : j < k => old[j].nonce <= old[k].nonce
      BY <1>7 DEF Sorted
    <3>. HIDE DEF old
    <3>3. /\ DOMAIN Append(old, next) = 1 .. Len(old) + 1 /\ DOMAIN old = 1 .. Len(old) /\ Len(old) \in Nat
          /\ \A k \in DOMAIN old : Append(old, next)[k] = old[k]
          /\ Append(old, next)[Len(old) + 1] = next
      BY <1>2, <3>1
    <3>4. \A i \in 1 .. n : list[i].nonce <= next.nonce
      BY <1>2, <1>6, <1>9 DEF Sorted, next
    <3>5. \A k \in DOMAIN old : old[k].nonce <= next.nonce  BY <3>2, <3>4
    <3>6. \A k \in 1 .. Len(old) + 1 : k \in DOMAIN old \/ k = Len(old) + 1  BY <3>3
    <3>7. \A k \in DOMAIN old : ~(Len(old) + 1 < k)  BY <3>3
    <3>8. Sorted(Append(old, next))
      <4>. SUFFICES ASSUME NEW j \in 1 .. Len(old) + 1, NEW k \in 1 .. Len(old) + 1, j < k
                    PROVE  Append(old, next)[j].nonce <= Append(old, next)[k].nonce
        BY <3>3 DEF Sorted
      <4>1. j \in DOMAIN old  BY <3>3
      <4>2. CASE k \in DOMAIN old  BY <3>2, <3>3, <4>1, <4>2
      <4>3. CASE k = Len(old) + 1  BY <3>3, <3>5, <4>1, <4>3
      <4>. QED  BY <3>6, <4>2, <4>3
    <3>9. n + 1 \in 1 .. n + 1  BY <1>3
    <3>10. \A k \in 1 .. Len(old) + 1 : \E i \in 1 .. n + 1 : Append(old, next)[k] = list[i]
      BY <1>9, <3>2, <3>3, <3>6, <3>9 DEF next
    <3>. QED  BY <3>1, <3>3, <3>8, <3>10
  <2>. QED  BY <2>1, <2>2
<1>11. \A u \in Tx : Times(kept'[th], u) = IF u = leaving[th] THEN 0 ELSE UpTo(list, n + 1, u)
  <2>. TAKE u \in Tx
  <2>1. UpTo(list, n, u) \in Nat /\ UpTo(list, n + 1, u) = UpTo(list, n, u) + (IF next = u THEN 1 ELSE 0)
    BY <1>2, <1>3, PassedOn DEF next
  <2>2. Times(kept[th], u) = IF u = leaving[th] THEN 0 ELSE UpTo(list, n, u)  BY <1>7
  <2>3. /\ Times(Append(kept[th], next), next) = Times(kept[th], next) + 1
        /\ u # next => Times(Append(kept[th], next), u) = Times(kept[th], u)
    <3> DEFINE old == kept[th]
    <3>1. old \in Seq(Tx) /\ next \in Tx  BY <1>2, <1>3
    <3>. HIDE DEF old
    <3>2. /\ Times(Append(old, next), next) = Times(old, next) + 1
          /\ \A v : v # next => Times(Append(old, next), v) = Times(old, v)
      BY <3>1, AppendTimes, Zenon
    <3>. QED  BY <3>2 DEF old
  <2>4. CASE next = leaving[th]  BY <1>2, <2>1, <2>2, <2>4
  <2>5. CASE next # leaving[th]
    <3>1. kept'[th] = Append(kept[th], next)  BY <1>2, <2>5
    <3>2. CASE u = next  BY <2>1, <2>2, <2>3, <2>5, <3>1, <3>2
    <3>3. CASE u # next  BY <2>1, <2>2, <2>3, <3>1, <3>3
    <3>. QED  BY <3>2, <3>3
  <2>. QED  BY <2>4, <2>5
<1>12. Filtered(th)'
  <2>1. lists'[held'[th]] = list /\ leaving'[th] = leaving[th] /\ passed'[th] = n + 1
    BY <1>1, <1>3 DEF list
  <2>2. ListOf(leaving[th].from)' = ListOf(s)  BY <1>1, <1>5
  <2>3. n + 1 <= Len(list)  BY <1>8
  <2>. HIDE DEF ListOf
  <2>. QED  BY <1>7, <1>10, <1>11, <2>1, <2>2, <2>3 DEF Filtered, Sorted, Times, UpTo
<1>. QED  BY <1>1, <1>2, <1>4, <1>5, <1>12, RemoverStays

(* What it has kept takes the place of the list. *)
LEMMA AssignRight ==
  ASSUME PoolTypes, NEW th \in Thread, RemoveAssign(th),
         NEW s \in DOMAIN AccountNonce, leaving[th].from = s, Right(s)
  PROVE  Right(s)'
<1>1. /\ PoolTypes' /\ OthersStay(th)
      /\ apc'[th] = IF Adding(th) THEN "store" ELSE "idle"
      /\ leaving[th] \in Tx /\ held[th] \in ListId /\ kept[th] \in Seq(Tx)
      /\ passed[th] \in Nat /\ passed[th] >= Len(lists[held[th]]) /\ apc[th] = "filter"
      /\ UNCHANGED <<txs, entry, expiries, overlapped>>
      /\ \E l \in ListId :
           /\ Fresh(l) /\ by_sender' = [by_sender EXCEPT ![leaving[th].from] = l]
           /\ \A k \in ListId : k \in InUse' =>
                lists'[k] = IF k = l THEN kept[th] ELSE lists[k]
  BY RemoveAssignTypes
<1>2. PICK l \in ListId :
        /\ Fresh(l) /\ by_sender' = [by_sender EXCEPT ![s] = l]
        /\ \A k \in ListId : k \in InUse' => lists'[k] = IF k = l THEN kept[th] ELSE lists[k]
  BY <1>1
<1>3. RemovingFor(th, s)  BY <1>1 DEF RemovingFor
<1>4. /\ Apart(s) /\ Gone(s) /\ Filtering(s) /\ \A u \in Tx : u.from = s => Enlisted(u)
  BY DEF Right
<1>5. \A other \in Thread : ~ListingFor(other, s) /\ (RemovingFor(other, s) => other = th)
  BY <1>3, <1>4, RemoverAlone
<1>6. \A other \in Thread : ~ListingFor(other, s)' /\ ~RemovingFor(other, s)'
  <2>1. ~ListingFor(th, s)' /\ ~RemovingFor(th, s)'  BY <1>1 DEF ListingFor, RemovingFor
  <2>. QED  BY <1>1, <1>5, <2>1, OthersFor
<1>7. Apart(s)' /\ Held(s)' /\ Gone(s)' /\ Filtering(s)'  BY <1>6 DEF Apart, Held, Gone, Filtering
<1>8. ListOf(s)' = kept[th]
  <2>1. by_sender'[s] = l /\ DOMAIN by_sender' = DOMAIN AccountNonce  BY <1>1, <1>2 DEF PoolTypes
  <2>2. l \in InUse' /\ l # NoList  BY <2>1, MempoolAssumption DEF InUse, NoList
  <2>. QED  BY <1>2, <2>1, <2>2 DEF ListOf
<1>9. /\ ListOf(s) \in Seq(Tx) /\ Sorted(kept[th])
      /\ \A u \in Tx : Times(kept[th], u) = IF u = leaving[th] THEN 0 ELSE Times(ListOf(s), u)
  <2>1. ListOf(s) \in Seq(Tx)  BY ListOfIs
  <2>2. /\ lists[held[th]] = ListOf(s) /\ passed[th] <= Len(ListOf(s)) /\ Sorted(kept[th])
        /\ \A u \in Tx : Times(kept[th], u) = IF u = leaving[th] THEN 0 ELSE UpTo(ListOf(s), passed[th], u)
    BY <1>1, <1>3, <1>4 DEF Filtering, Filtered
  <2>. HIDE DEF ListOf
  <2>3. passed[th] = Len(ListOf(s))  BY <1>1, <2>1, <2>2
  <2>4. DOMAIN ListOf(s) = 1 .. Len(ListOf(s))  BY <2>1
  <2>5. \A u : UpTo(ListOf(s), passed[th], u) = Times(ListOf(s), u)
    BY <2>3, <2>4 DEF UpTo, Times
  <2>. QED  BY <2>1, <2>2, <2>5
<1>10. InOrderUnlessSorting(s)'
  <2>1. Sorted(ListOf(s))'  BY <1>8, <1>9 DEF Sorted
  <2>. QED  BY <2>1 DEF InOrderUnlessSorting
<1>11. ASSUME NEW u \in Tx, u.from = s PROVE Enlisted(u)'
  <2>1. Enlisted(u)  BY <1>4, <1>11
  <2>2. ~ToBeListed(u) /\ ~ToBeListed(u)'
    BY <1>5, <1>6, <1>11 DEF ToBeListed, ListingFor
  <2>3. ~BeingRemoved(u)' /\ (BeingRemoved(u) => u = leaving[th])
    <3>1. \A a \in Thread : ~(apc'[a] \in {"find", "filter"} /\ leaving'[a] = u)
      BY <1>6, <1>11 DEF RemovingFor
    <3>2. \A a \in Thread : apc[a] \in {"find", "filter"} /\ leaving[a] = u => a = th
      BY <1>5, <1>11 DEF RemovingFor
    <3>. QED  BY <3>1, <3>2 DEF BeingRemoved
  <2>4. Pool' = Pool /\ leaving[th] \notin Pool  BY <1>1, <1>3, <1>4 DEF Pool, Gone
  <2>5. Times(ListOf(u.from), u)' = IF u = leaving[th] THEN 0 ELSE Times(ListOf(u.from), u)
    <3>1. Times(ListOf(s), u)' = Times(ListOf(s)', u)  BY DEF Times
    <3>. QED  BY <1>8, <1>9, <1>11, <3>1
  <2>6. expiries[u] \in Nat /\ Times(ListOf(u.from), u) \in Nat  BY <1>9, <1>11, TimesIs DEF PoolTypes
  <2>. HIDE DEF ListOf
  <2>. QED  BY <1>1, <2>1, <2>2, <2>3, <2>4, <2>5, <2>6 DEF Enlisted
<1>. QED  BY <1>7, <1>10, <1>11 DEF Right

----------------------------------------------------------------------------
(* The lists through every step *)

(* Storing a transaction. *)
LEMMA AddStoreLists ==
  ASSUME PoolTypes, Alone, Owned, ListsRight, NEW th \in Thread, AddStore(th),
         NEW t \in Tx, entry[th].tx = t
  PROVE  Owned' /\ ListsRight'
<1>1. PoolTypes' /\ OthersStay(th)  BY AddStoreTypes
<1>2. /\ apc[th] = "store" /\ Goto(th, "list") /\ txs' = Stored(txs, entry[th])
      /\ clashed \subseteq clashed'
      /\ UNCHANGED <<lists, by_sender, entry, leaving, held, passed, kept, expiries, overlapped>>
  BY DEF AddStore, locals
<1>3. apc'[th] = "list"  BY <1>2, GotoIs DEF Steps
<1>4. held'[th] = NoList  BY <1>1, <1>3 DEF PoolTypes, InStep
<1>5. Owned'  BY <1>1, <1>2, <1>4, OwnedSame
<1>6. \A u \in Tx : u.from # t.from => (u \in Pool' <=> u \in Pool)
  <2>1. entry[th] \in Entry  BY <1>2 DEF PoolTypes, InStep
  <2>2. PoolOf(Stored(txs, entry[th])) = PoolOf(txs) \cup {t}  BY <2>1, StoredIs DEF PoolTypes
  <2>3. Pool' = PoolOf(txs')  BY DEF Pool, PoolOf
  <2>. QED  BY <1>2, <2>2, <2>3, PoolIs
<1>7. t.from \notin clashed' /\ Right(t.from) => Right(t.from)'  BY StoreRight
<1>8. \A s \in DOMAIN AccountNonce \ {t.from} :
        /\ ~ListingFor(th, s) /\ ~RemovingFor(th, s)
        /\ ~ListingFor(th, s)' /\ ~RemovingFor(th, s)'
        /\ by_sender'[s] = by_sender[s]
        /\ \A l \in ListId : Refers(l, s) /\ l \in InUse' => lists'[l] = lists[l]
  BY <1>2, <1>3 DEF ListingFor, RemovingFor
<1>. QED  BY <1>1, <1>2, <1>5, <1>6, <1>7, <1>8, TxFacts, ListsStay

(* Getting its sender's list. *)
LEMMA AddListLists ==
  ASSUME PoolTypes, Owned, ListsRight, NEW th \in Thread, AddList(th),
         NEW t \in Tx, entry[th].tx = t
  PROVE  Owned' /\ ListsRight'
<1> DEFINE r == t.from
<1>1. PoolTypes' /\ OthersStay(th) /\ r \in DOMAIN AccountNonce  BY AddListTypes, TxFacts
<1>2. PICK l \in ListId :
        /\ held' = [held EXCEPT ![th] = l]
        /\ IF by_sender[r] # NoList THEN l = by_sender[r] /\ UNCHANGED <<lists, by_sender>>
           ELSE /\ Fresh(l) /\ lists' = [lists EXCEPT ![l] = <<>>]
                /\ by_sender' = [by_sender EXCEPT ![r] = l]
  BY DEF AddList
<1>3. /\ apc[th] = "list" /\ Goto(th, "append") /\ clashed' = clashed
      /\ UNCHANGED <<txs, entry, leaving, passed, kept, expiries, overlapped>>
  BY DEF AddList, history
<1>4. apc'[th] = "append" /\ held'[th] = l  BY <1>2, <1>3, GotoIs DEF Steps, PoolTypes
<1>5. HeldFor(th)' = r  BY <1>3, <1>4 DEF HeldFor
<1>6. /\ \A s \in DOMAIN AccountNonce \ {r} : by_sender'[s] = by_sender[s]
      /\ by_sender'[r] \in {by_sender[r], l}
      /\ by_sender[r] = l \/ Fresh(l)
  BY <1>2 DEF PoolTypes
<1>7. Owned' /\ \A s \in DOMAIN AccountNonce \ {r} : ~Refers(l, s)
  BY <1>1, <1>4, <1>5, <1>6, OwnedTaken
<1>8. \A k \in ListId \ {l} : lists'[k] = lists[k]
  <2> DEFINE S == Seq(Tx)
  <2>1. lists \in [ListId -> S]  BY DEF PoolTypes
  <2>. HIDE DEF S
  <2>. QED  BY <1>2, <2>1
<1>9. \A s \in DOMAIN AccountNonce \ {r} :
        /\ ~ListingFor(th, s) /\ ~RemovingFor(th, s)
        /\ ~ListingFor(th, s)' /\ ~RemovingFor(th, s)'
        /\ by_sender'[s] = by_sender[s]
        /\ \A k \in ListId : Refers(k, s) /\ k \in InUse' => lists'[k] = lists[k]
  BY <1>3, <1>4, <1>6, <1>7, <1>8 DEF ListingFor, RemovingFor
<1>10. Right(r) => Right(r)'  BY ListRight
<1>11. \A u \in Tx : u.from # r => (u \in Pool' <=> u \in Pool)  BY <1>3 DEF Pool
<1>. QED  BY <1>1, <1>3, <1>7, <1>9, <1>10, <1>11, ListsStay

(* Changing the list in place. *)
LEMMA AddSortLists ==
  ASSUME PoolTypes, Alone, Owned, ListsRight, NEW th \in Thread, AddAppend(th) \/ AddSort(th),
         NEW t \in Tx, entry[th].tx = t
  PROVE  Owned' /\ ListsRight'
<1> DEFINE r == t.from
<1>1. PoolTypes' /\ OthersStay(th) /\ r \in DOMAIN AccountNonce
  BY AddAppendTypes, AddSortTypes, TxFacts
<1>2. /\ UNCHANGED <<txs, by_sender, entry, leaving, passed, kept, expiries, overlapped, clashed>>
      /\ apc[th] \in {"append", "sort"}
  BY DEF AddAppend, AddSort, locals, history
<1>3. /\ apc'[th] \in {"sort", "count"}
      /\ held'[th] = NoList \/ (held'[th] = held[th] /\ apc'[th] # "filter")
  <2>1. CASE AddAppend(th)
    <3>1. Goto(th, "sort") /\ UNCHANGED held  BY <2>1 DEF AddAppend, locals
    <3>. QED  BY <3>1, GotoIs DEF Steps
  <2>2. CASE AddSort(th)
    <3>1. Goto(th, "count")  BY <2>2 DEF AddSort
    <3>2. held'[th] = NoList  BY <2>2, AddSortTypes
    <3>. QED  BY <3>1, <3>2, GotoIs DEF Steps
  <2>. QED  BY <2>1, <2>2
<1>4. held[th] \in ListId /\ HeldFor(th) = r  BY <1>2 DEF PoolTypes, InStep, HeldFor
<1>5. held'[th] = NoList \/ (held'[th] = held[th] /\ HeldFor(th)' = HeldFor(th))
  BY <1>2, <1>3 DEF HeldFor
<1>6. Owned'  BY <1>1, <1>2, <1>5, OwnedSame
<1>7. \A k \in ListId \ {held[th]} : k \in InUse' => lists'[k] = lists[k]
  <2>1. CASE AddAppend(th)
    <3> DEFINE x == Append(lists[held[th]], entry[th].tx)
    <3>1. lists' = [lists EXCEPT ![held[th]] = x]  BY <2>1 DEF AddAppend
    <3>2. DOMAIN lists = ListId  BY DEF PoolTypes
    <3>. HIDE DEF x
    <3>. QED  BY <3>1, <3>2
  <2>2. CASE AddSort(th)  BY <2>2, AddSortTypes
  <2>. QED  BY <2>1, <2>2
<1>8. \A s \in DOMAIN AccountNonce \ {r} : ~Refers(held[th], s)
  <2>1. Refers(held[th], r)  BY <1>4 DEF Refers
  <2>. QED  BY <1>1, <1>4, <2>1 DEF Owned
<1>9. \A s \in DOMAIN AccountNonce \ {r} :
        /\ ~ListingFor(th, s) /\ ~RemovingFor(th, s)
        /\ ~ListingFor(th, s)' /\ ~RemovingFor(th, s)'
        /\ by_sender'[s] = by_sender[s]
        /\ \A k \in ListId : Refers(k, s) /\ k \in InUse' => lists'[k] = lists[k]
  BY <1>2, <1>3, <1>7, <1>8 DEF ListingFor, RemovingFor
<1>10. Right(r) => Right(r)'  BY AppendRight, SortRight
<1>11. \A u \in Tx : u.from # r => (u \in Pool' <=> u \in Pool)  BY <1>2 DEF Pool
<1>. QED  BY <1>1, <1>2, <1>6, <1>9, <1>10, <1>11, ListsStay

(* Taking a transaction out of the pool. *)
LEMMA PopLists ==
  ASSUME PoolTypes, PoolTypes', Owned, ListsRight, NEW th \in Thread, OthersStay(th),
         NEW t \in Tx, t \in Pool, Pop(th, t), apc[th] \in {"idle", "remove"},
         UNCHANGED <<lists, by_sender, entry, held, passed, kept, expiries, overlapped>>
  PROVE  Owned' /\ ListsRight'
<1>1. Goto(th, "find") /\ leaving' = [leaving EXCEPT ![th] = t] /\ clashed \subseteq clashed'
  BY DEF Pop
<1>2. apc'[th] = "find" /\ leaving'[th] = t  BY <1>1, GotoIs DEF Steps, PoolTypes
<1>3. held'[th] = NoList  BY <1>2 DEF PoolTypes, InStep
<1>4. Owned'  BY <1>3, OwnedSame
<1>5. \A s \in DOMAIN AccountNonce \ {t.from} :
        /\ ~ListingFor(th, s) /\ ~RemovingFor(th, s)
        /\ ~ListingFor(th, s)' /\ ~RemovingFor(th, s)'
        /\ by_sender'[s] = by_sender[s]
        /\ \A k \in ListId : Refers(k, s) /\ k \in InUse' => lists'[k] = lists[k]
  BY <1>2 DEF ListingFor, RemovingFor
<1>6. t.from \notin clashed' /\ Right(t.from) => Right(t.from)'  BY PopRight
<1>7. \A u \in Tx : u.from # t.from => (u \in Pool' <=> u \in Pool)  BY PopIs
<1>. QED  BY <1>1, <1>4, <1>5, <1>6, <1>7, TxFacts, ListsStay

LEMMA RemoveTxLists ==
  ASSUME PoolTypes, Owned, ListsRight, NEW th \in Thread, NEW t \in Tx, RemoveTx(th, t)
  PROVE  Owned' /\ ListsRight'
<1>1. PoolTypes' /\ OthersStay(th)  BY RemoveTxTypes
<1>. QED  BY <1>1, PopLists DEF RemoveTx

LEMMA AddEvictLists ==
  ASSUME PoolTypes, Owned, ListsRight, NEW th \in Thread, AddEvict(th)
  PROVE  Owned' /\ ListsRight'
<1>1. PoolTypes' /\ OthersStay(th)  BY AddEvictTypes
<1>2. /\ apc[th] = "remove"
      /\ UNCHANGED <<lists, by_sender, entry, held, passed, kept, expiries, overlapped>>
  BY DEF AddEvict
<1>3. CASE leaving[th] \in Pool
  <2>1. leaving[th] \in Tx  BY <1>2 DEF PoolTypes, InStep
  <2>2. Pop(th, leaving[th])  BY <1>3 DEF AddEvict
  <2>. QED  BY <1>1, <1>2, <1>3, <2>1, <2>2, PopLists
<1>4. CASE leaving[th] \notin Pool
  <2>1. Goto(th, "store") /\ UNCHANGED <<txs, clashed>>  BY <1>4 DEF AddEvict
  <2>2. apc'[th] = "store"  BY <2>1, GotoIs DEF Steps
  <2>. QED  BY <1>1, <1>2, <2>1, <2>2, QuietRight
<1>. QED  BY <1>3, <1>4

(* Finding the list, and going through it. *)
LEMMA RemoveFindLists ==
  ASSUME PoolTypes, Owned, ListsRight, NEW th \in Thread, RemoveFind(th),
         NEW r \in DOMAIN AccountNonce, leaving[th].from = r
  PROVE  Owned' /\ ListsRight'
<1>1. PoolTypes' /\ OthersStay(th)  BY RemoveFindTypes
<1>2. PICK l \in ListId :
        /\ held' = [held EXCEPT ![th] = l]
        /\ IF by_sender[r] # NoList THEN l = by_sender[r] /\ UNCHANGED lists
           ELSE Fresh(l) /\ lists' = [lists EXCEPT ![l] = <<>>]
  BY DEF RemoveFind
<1>3. /\ apc[th] = "find" /\ Goto(th, "filter")
      /\ UNCHANGED <<txs, by_sender, entry, leaving, passed, kept, expiries, overlapped, clashed>>
  BY DEF RemoveFind, history
<1>4. apc'[th] = "filter" /\ held'[th] = l  BY <1>2, <1>3, GotoIs DEF Steps, PoolTypes
<1>5. HeldFor(th)' = r  BY <1>3, <1>4 DEF HeldFor
<1>6. by_sender[r] = l \/ Fresh(l)  BY <1>2
<1>7. Owned' /\ \A s \in DOMAIN AccountNonce \ {r} : ~Refers(l, s)
  BY <1>1, <1>3, <1>4, <1>5, <1>6, OwnedTaken
<1>8. \A k \in ListId \ {l} : lists'[k] = lists[k]
  <2> DEFINE S == Seq(Tx)
  <2>1. lists \in [ListId -> S]  BY DEF PoolTypes
  <2>. HIDE DEF S
  <2>. QED  BY <1>2, <2>1
<1>9. \A s \in DOMAIN AccountNonce \ {r} :
        /\ ~ListingFor(th, s) /\ ~RemovingFor(th, s)
        /\ ~ListingFor(th, s)' /\ ~RemovingFor(th, s)'
        /\ by_sender'[s] = by_sender[s]
        /\ \A k \in ListId : Refers(k, s) /\ k \in InUse' => lists'[k] = lists[k]
  BY <1>3, <1>4, <1>7, <1>8 DEF ListingFor, RemovingFor
<1>10. Right(r) => Right(r)'  BY FindRight
<1>11. \A u \in Tx : u.from # r => (u \in Pool' <=> u \in Pool)  BY <1>3 DEF Pool
<1>. QED  BY <1>1, <1>3, <1>7, <1>9, <1>10, <1>11, ListsStay

LEMMA RemoveFilterLists ==
  ASSUME PoolTypes, Owned, ListsRight, NEW th \in Thread, RemoveFilter(th),
         NEW r \in DOMAIN AccountNonce, leaving[th].from = r
  PROVE  Owned' /\ ListsRight'
<1>1. PoolTypes' /\ OthersStay(th)  BY RemoveFilterTypes
<1>2. /\ apc[th] = "filter"
      /\ UNCHANGED <<txs, lists, by_sender, apc, entry, leaving, held, expiries, overlapped, clashed>>
  BY DEF RemoveFilter, history
<1>3. Owned'  BY <1>1, <1>2, OwnedSame DEF HeldFor
<1>4. \A s \in DOMAIN AccountNonce \ {r} :
        /\ ~ListingFor(th, s) /\ ~RemovingFor(th, s)
        /\ ~ListingFor(th, s)' /\ ~RemovingFor(th, s)'
        /\ by_sender'[s] = by_sender[s]
        /\ \A k \in ListId : Refers(k, s) /\ k \in InUse' => lists'[k] = lists[k]
  BY <1>2 DEF ListingFor, RemovingFor
<1>5. Right(r) => Right(r)'  BY FilterRight
<1>6. \A u \in Tx : u.from # r => (u \in Pool' <=> u \in Pool)  BY <1>2 DEF Pool
<1>. QED  BY <1>1, <1>2, <1>3, <1>4, <1>5, <1>6, ListsStay

(* Putting a new list in its place. *)
LEMMA RemoveAssignLists ==
  ASSUME PoolTypes, Owned, ListsRight, NEW th \in Thread, RemoveAssign(th),
         NEW r \in DOMAIN AccountNonce, leaving[th].from = r
  PROVE  Owned' /\ ListsRight'
<1>1. /\ PoolTypes' /\ OthersStay(th)
      /\ apc'[th] = (IF Adding(th) THEN "store" ELSE "idle")
      /\ apc[th] = "filter" /\ held'[th] = NoList
      /\ UNCHANGED <<txs, entry, expiries, overlapped, clashed>>
      /\ \E l \in ListId :
           /\ Fresh(l) /\ by_sender' = [by_sender EXCEPT ![leaving[th].from] = l]
           /\ \A k \in ListId : k \in InUse' =>
                lists'[k] = IF k = l THEN kept[th] ELSE lists[k]
  BY RemoveAssignTypes
<1>2. PICK l \in ListId :
        /\ Fresh(l) /\ by_sender' = [by_sender EXCEPT ![r] = l]
        /\ \A k \in ListId : k \in InUse' => lists'[k] = IF k = l THEN kept[th] ELSE lists[k]
  BY <1>1
<1>3. apc'[th] \in {"store", "idle"}  BY <1>1
<1>4. /\ \A s \in DOMAIN AccountNonce \ {r} : by_sender'[s] = by_sender[s]
      /\ by_sender'[r] \in {by_sender[r], l}
  BY <1>2 DEF PoolTypes
<1>5. Owned' /\ \A s \in DOMAIN AccountNonce \ {r} : ~Refers(l, s)
  BY <1>1, <1>2, <1>4, OwnedTaken
<1>6. \A s \in DOMAIN AccountNonce \ {r} :
        /\ ~ListingFor(th, s) /\ ~RemovingFor(th, s)
        /\ ~ListingFor(th, s)' /\ ~RemovingFor(th, s)'
        /\ by_sender'[s] = by_sender[s]
        /\ \A k \in ListId : Refers(k, s) /\ k \in InUse' => lists'[k] = lists[k]
  BY <1>1, <1>2, <1>3, <1>4, <1>5 DEF ListingFor, RemovingFor
<1>7. Right(r) => Right(r)'  BY AssignRight
<1>8. \A u \in Tx : u.from # r => (u \in Pool' <=> u \in Pool)  BY <1>1 DEF Pool
<1>. QED  BY <1>1, <1>5, <1>6, <1>7, <1>8, ListsStay

(* Expiry takes transactions from the pool, and not from their lists.      *)
LEMMA ExpiryLists ==
  ASSUME PoolTypes, Owned, ListsRight, EvictExpired,
         UNCHANGED <<lists, by_sender, apc, locals, overlapped, clashed>>
  PROVE  Owned' /\ ListsRight'
<1>1. UNCHANGED <<lists, by_sender, apc, entry, leaving, held, passed, kept, overlapped, clashed>>
  BY DEF locals
<1>2. /\ Pool' \in SUBSET Pool
      /\ \A t \in Tx : \/ expiries'[t] = expiries[t] /\ (t \in Pool' <=> t \in Pool)
                       \/ expiries'[t] = expiries[t] + 1
  BY ExpiryIs
<1>3. Owned'  BY <1>1 DEF Owned, Refers, HeldFor
<1>4. ASSUME NEW s \in DOMAIN AccountNonce \ clashed' PROVE Right(s)'
  <2>1. /\ Apart(s) /\ Held(s) /\ Gone(s) /\ Filtering(s) /\ InOrderUnlessSorting(s)
        /\ \A t \in Tx : t.from = s => Enlisted(t)
    BY <1>1, <1>4 DEF ListsRight, Right
  <2>2. Apart(s)' /\ Held(s)'  BY <1>1, <2>1 DEF Apart, Held, ListingFor, RemovingFor
  <2>3. Gone(s)'  BY <1>1, <1>2, <2>1 DEF Gone, RemovingFor
  <2>4. Filtering(s)'  BY <1>1, <2>1 DEF Filtering, Filtered, RemovingFor, ListOf, Sorted, Times, UpTo
  <2>5. InOrderUnlessSorting(s)'
    BY <1>1, <2>1 DEF InOrderUnlessSorting, ListingFor, ListOf, Sorted
  <2>6. ASSUME NEW t \in Tx, t.from = s PROVE Enlisted(t)'
    <3>1. Enlisted(t)  BY <2>1, <2>6
    <3>2. /\ Times(ListOf(t.from), t)' = Times(ListOf(t.from), t)
          /\ (ToBeListed(t)' <=> ToBeListed(t)) /\ (BeingRemoved(t)' <=> BeingRemoved(t))
      BY <1>1 DEF ListOf, Times, ToBeListed, BeingRemoved
    <3>3. Times(ListOf(t.from), t) \in Nat /\ expiries[t] \in Nat
      BY ListOfIs, TxFacts DEF PoolTypes
    <3>4. \/ expiries'[t] = expiries[t] /\ (t \in Pool' <=> t \in Pool)
          \/ expiries'[t] = expiries[t] + 1
      BY <1>2
    <3>. QED  BY <1>1, <1>2, <3>1, <3>2, <3>3, <3>4 DEF Enlisted
  <2>. QED  BY <2>2, <2>3, <2>4, <2>5, <2>6 DEF Right
<1>. QED  BY <1>3, <1>4 DEF ListsRight

(* No sender has a list at first. *)
LEMMA InitLists == PoolInit => Owned /\ ListsRight
<1>. SUFFICES ASSUME PoolInit PROVE Owned /\ ListsRight  OBVIOUS
<1>1. \A l \in ListId : l # NoList  BY MempoolAssumption DEF NoList
<1>2. /\ \A s \in DOMAIN AccountNonce : by_sender[s] = NoList
      /\ \A th \in Thread : apc[th] = "idle" /\ held[th] = NoList
      /\ Pool = {} /\ \A t \in Tx : expiries[t] = 0
  BY DEF PoolInit, Pool
<1>3. Owned  BY <1>1, <1>2 DEF Owned, Refers
<1>4. \A s : \A th \in Thread : ~ListingFor(th, s) /\ ~RemovingFor(th, s)
  BY <1>2 DEF ListingFor, RemovingFor
<1>5. ASSUME NEW s \in DOMAIN AccountNonce PROVE Right(s)
  <2>1. ListOf(s) = <<>>  BY <1>2 DEF ListOf
  <2>2. Apart(s) /\ Held(s) /\ Gone(s) /\ Filtering(s)  BY <1>4 DEF Apart, Held, Gone, Filtering
  <2>3. InOrderUnlessSorting(s)
    <3>1. Sorted(<<>>)  BY DEF Sorted
    <3>. QED  BY <2>1, <3>1 DEF InOrderUnlessSorting
  <2>4. ASSUME NEW t \in Tx, t.from = s PROVE Enlisted(t)
    <3>1. Times(<<>>, t) = 0
      <4>1. {i \in DOMAIN <<>> : <<>>[i] = t} = {}  OBVIOUS
      <4>2. Times(<<>>, t) = Cardinality({})  BY <4>1 DEF Times
      <4>. QED  BY <4>2, FS_EmptySet
    <3>2. ~ToBeListed(t) /\ ~BeingRemoved(t)  BY <1>2 DEF ToBeListed, BeingRemoved
    <3>. QED  BY <1>2, <2>1, <2>4, <3>1, <3>2 DEF Enlisted
  <2>. QED  BY <2>2, <2>3, <2>4 DEF Right
<1>. QED  BY <1>3, <1>5 DEF ListsRight

(* Types, the size and the counters, and the lists hold together.          *)
PoolIInv == PoolTypes /\ Alone /\ Owned /\ ListsRight

LEMMA AddStepIInv ==
  ASSUME PoolIInv, NEW th \in Thread, AddStep(th)
  PROVE  PoolIInv'
<1>. USE DEF PoolIInv
<1>1. CASE AddRoom(th)
  <2>1. PoolTypes' /\ OthersStay(th) /\ Alone'  BY <1>1, AddRoomTypes, AddRoomAlone
  <2>2. PICK label \in {"evict", "store"} : Goto(th, label)  BY <1>1 DEF AddRoom
  <2>3. apc'[th] = label /\ apc[th] = "room"  BY <1>1, <2>2, GotoIs DEF Steps, AddRoom
  <2>4. Owned' /\ ListsRight'
    BY <1>1, <2>1, <2>3, QuietRight DEF AddRoom, history
  <2>. QED  BY <2>1, <2>4
<1>2. CASE AddChoose(th)
  <2>1. PoolTypes' /\ OthersStay(th) /\ Alone'  BY <1>2, AddChooseTypes, AddChooseAlone
  <2>2. PICK label \in {"store", "remove"} : Goto(th, label)  BY <1>2 DEF AddChoose
  <2>3. apc'[th] = label /\ apc[th] = "evict"  BY <1>2, <2>2, GotoIs DEF Steps, AddChoose
  <2>4. Owned' /\ ListsRight'
    BY <1>2, <2>1, <2>3, QuietRight DEF AddChoose, history
  <2>. QED  BY <2>1, <2>4
<1>3. CASE AddEvict(th)  BY <1>3, AddEvictTypes, AddEvictAlone, AddEvictLists
<1>4. CASE AddStore(th) \/ AddList(th) \/ AddAppend(th) \/ AddSort(th)
  <2>1. apc[th] \notin {"idle", "find", "filter"}
    BY <1>4 DEF AddStore, AddList, AddAppend, AddSort
  <2>2. entry[th] \in Entry  BY <2>1 DEF PoolTypes, InStep
  <2>3. PICK t \in Tx : entry[th].tx = t  BY <2>2, EntryIs
  <2>4. CASE AddStore(th)  BY <2>3, <2>4, AddStoreTypes, AddStoreAlone, AddStoreLists
  <2>5. CASE AddList(th)  BY <2>3, <2>5, AddListTypes, ListingAlone, AddListLists
  <2>6. CASE AddAppend(th)  BY <2>3, <2>6, AddAppendTypes, ListingAlone, AddSortLists
  <2>7. CASE AddSort(th)  BY <2>3, <2>7, AddSortTypes, ListingAlone, AddSortLists
  <2>. QED  BY <1>4, <2>4, <2>5, <2>6, <2>7
<1>5. CASE AddCount(th)
  <2>1. PoolTypes' /\ OthersStay(th) /\ Alone'  BY <1>5, AddCountTypes, AddCountAlone
  <2>2. Goto(th, "idle") /\ apc[th] = "count"  BY <1>5 DEF AddCount
  <2>3. apc'[th] = "idle"  BY <2>2, GotoIs DEF Steps
  <2>4. Owned' /\ ListsRight'
    BY <1>5, <2>1, <2>2, <2>3, QuietRight DEF AddCount, history
  <2>. QED  BY <2>1, <2>4
<1>. QED  BY <1>1, <1>2, <1>3, <1>4, <1>5 DEF AddStep

LEMMA RemoveStepIInv ==
  ASSUME PoolIInv, NEW th \in Thread, RemoveStep(th)
  PROVE  PoolIInv'
<1>. USE DEF PoolIInv
<1>1. leaving[th] \in Tx
  BY DEF RemoveStep, RemoveFind, RemoveFilter, RemoveAssign, PoolTypes, InStep
<1>2. PICK r \in DOMAIN AccountNonce : leaving[th].from = r  BY <1>1, TxFacts
<1>3. CASE RemoveFind(th)
  BY <1>2, <1>3, RemoveFindTypes, RemoveFilterAlone, RemoveFindLists
<1>4. CASE RemoveFilter(th)
  BY <1>2, <1>4, RemoveFilterTypes, RemoveFilterAlone, RemoveFilterLists
<1>5. CASE RemoveAssign(th)
  BY <1>2, <1>5, RemoveAssignTypes, RemoveAssignAlone, RemoveAssignLists
<1>. QED  BY <1>3, <1>4, <1>5 DEF RemoveStep

LEMMA ExpiryIInv ==
  ASSUME PoolIInv, NEW th \in Thread, SelectForBlock(th) \/ GetStats(th)
  PROVE  PoolIInv'
<1>1. /\ EvictExpired
      /\ UNCHANGED <<lists, by_sender, clock, apc, locals, overlapped, clashed>>
  BY DEF SelectForBlock, GetStats
<1>2. PoolTypes' /\ Alone'  BY <1>1, ExpiryAlone DEF PoolIInv
<1>3. Owned' /\ ListsRight'  BY <1>1, ExpiryLists DEF PoolIInv
<1>. QED  BY <1>2, <1>3 DEF PoolIInv

LEMMA AddCheckIInv ==
  ASSUME PoolIInv, NEW th \in Thread, NEW t \in Tx, AddCheck(th, t)
  PROVE  PoolIInv'
<1>1. PoolTypes' /\ OthersStay(th) /\ Alone'  BY AddCheckTypes, AddCheckAlone DEF PoolIInv
<1>2. apc[th] = "idle" /\ Goto(th, "room")  BY DEF AddCheck
<1>3. apc'[th] = "room"  BY <1>2, GotoIs DEF Steps, PoolIInv
<1>4. overlapped => overlapped'  BY DEF AddCheck
<1>5. Owned' /\ ListsRight'
  BY <1>1, <1>2, <1>3, <1>4, QuietRight DEF PoolIInv, AddCheck
<1>. QED  BY <1>1, <1>5 DEF PoolIInv

(* What does not change a pool but its clock, or what was selected.        *)
LEMMA StillIInv ==
  ASSUME PoolIInv, clock' \in Nat,
         UNCHANGED <<txs, lists, by_sender, stats, apc, entry, leaving, held, passed, kept,
                     expiries, expired, overlapped, clashed>>
  PROVE  PoolIInv'
<1>1. PoolTypes'  BY DEF PoolIInv, PoolTypes, InStep, Uncounted, Unfinished
<1>2. Alone'
  BY DEF PoolIInv, Alone, Busy, Adding, Prepared, CountersAgree, Uncounted, Unfinished, Pool
<1>3. Owned'  BY DEF PoolIInv, Owned, Refers, HeldFor
<1>4. ASSUME NEW s \in DOMAIN AccountNonce \ clashed' PROVE Right(s)'
  <2>1. /\ Apart(s) /\ Held(s) /\ Gone(s) /\ Filtering(s) /\ InOrderUnlessSorting(s)
        /\ \A t \in Tx : t.from = s => Enlisted(t)
    BY <1>4 DEF PoolIInv, ListsRight, Right
  <2>2. Apart(s)' /\ Held(s)' /\ Gone(s)'
    BY <2>1 DEF Apart, Held, Gone, ListingFor, RemovingFor, Pool
  <2>3. Filtering(s)'  BY <2>1 DEF Filtering, Filtered, RemovingFor, ListOf, Sorted, Times, UpTo
  <2>4. InOrderUnlessSorting(s)'  BY <2>1 DEF InOrderUnlessSorting, ListingFor, ListOf, Sorted
  <2>5. \A t \in Tx : t.from = s => Enlisted(t)'
    BY <2>1 DEF Enlisted, ListOf, Times, ToBeListed, BeingRemoved, Pool
  <2>. QED  BY <2>2, <2>3, <2>4, <2>5 DEF Right
<1>. QED  BY <1>1, <1>2, <1>3, <1>4 DEF PoolIInv, ListsRight

LEMMA SpecPoolIInv == PoolSpec => []PoolIInv
<1>1. PoolInit => PoolIInv  BY InitAlone, InitLists DEF PoolIInv
<1>2. PoolIInv /\ [PoolNext]_poolVars => PoolIInv'
  <2>. SUFFICES ASSUME PoolIInv, [PoolNext]_poolVars PROVE PoolIInv'  OBVIOUS
  <2>1. CASE Tick
    <3>1. clock' \in Nat  BY <2>1 DEF Tick, PoolIInv, PoolTypes
    <3>. QED  BY <2>1, <3>1, StillIInv DEF Tick, locals, history
  <2>2. ASSUME NEW th \in Thread, AddStep(th) PROVE PoolIInv'  BY <2>2, AddStepIInv
  <2>3. ASSUME NEW th \in Thread, RemoveStep(th) PROVE PoolIInv'  BY <2>3, RemoveStepIInv
  <2>4. ASSUME NEW th \in Thread, SelectForBlock(th) \/ GetStats(th) PROVE PoolIInv'
    BY <2>4, ExpiryIInv
  <2>5. ASSUME NEW th \in Thread, NEW t \in Tx, AddCheck(th, t) PROVE PoolIInv'
    BY <2>5, AddCheckIInv
  <2>6. ASSUME NEW th \in Thread, NEW t \in Tx, RemoveTx(th, t) PROVE PoolIInv'
    BY <2>6, RemoveTxTypes, RemoveTxAlone, RemoveTxLists DEF PoolIInv
  <2>7. CASE UNCHANGED poolVars
    <3>1. clock' \in Nat  BY <2>7 DEF poolVars, PoolIInv, PoolTypes
    <3>. QED  BY <2>7, <3>1, StillIInv DEF poolVars, locals, history
  <2>. QED  BY <2>1, <2>2, <2>3, <2>4, <2>5, <2>6, <2>7 DEF PoolNext
<1>. QED  BY <1>1, <1>2, PTL DEF PoolSpec

(* Within the capacity, and with every transaction added accounted for,    *)
(* however evictions, removals and expiries fall between the steps of one  *)
(* call of add -- as long as two never overlap (mempool.py:85-138).        *)
THEOREM PoolAlwaysAccounted == PoolSpec => []PoolAccounted
<1>1. PoolIInv => PoolAccounted
  <2>. SUFFICES ASSUME PoolIInv PROVE PoolAccounted  OBVIOUS
  <2>1. overlapped \/ (Len(txs) <= Capacity /\ CountersAgree)  BY DEF PoolIInv, Alone
  <2>. QED  BY <2>1 DEF PoolAccounted, CapacityRespected, CountersBalance, CountersAgree
<1>. QED  BY <1>1, SpecPoolIInv, PTL

(* pending_for(sender) answers with all of the sender's transactions that  *)
(* are pending, in nonce order, but for those a call of add is at listing, *)
(* and unless two calls about the sender overlapped, one of them a removal *)
(* (mempool.py:128-135, 180-193, 206-207).                                 *)
THEOREM PendingAlwaysListed == PoolSpec => []PendingListed
<1>1. PoolIInv => PendingListed
  <2>. SUFFICES ASSUME PoolIInv PROVE PendingListed  OBVIOUS
  <2>1. PoolTypes /\ ListsRight  BY DEF PoolIInv
  <2>. SUFFICES ASSUME NEW s \in DOMAIN AccountNonce \ clashed
                PROVE  /\ \/ \E th \in Thread : apc[th] = "sort" /\ ListingFor(th, s)
                          \/ Sorted(ListOf(s))
                       /\ \A t \in Pool : t.from = s =>
                            /\ Times(ListOf(s), t) >= 1
                                 \/ \E th \in Thread : apc[th] \in {"list", "append"} /\ entry[th].tx = t
                            /\ overlapped \/ Times(ListOf(s), t) <= 1 + expiries[t]
    <3>1. DOMAIN by_sender = DOMAIN AccountNonce  BY <2>1 DEF PoolTypes
    <3>. QED  BY <3>1 DEF PendingListed, Sorted, Times
  <2>2. Right(s)  BY <2>1 DEF ListsRight
  <2>3. Sorted(ListOf(s)) \/ \E th \in Thread : apc[th] = "sort" /\ ListingFor(th, s)
    BY <2>2 DEF Right, InOrderUnlessSorting
  <2>4. ASSUME NEW t \in Pool, t.from = s
        PROVE  /\ Times(ListOf(s), t) >= 1
                    \/ \E th \in Thread : apc[th] \in {"list", "append"} /\ entry[th].tx = t
               /\ overlapped \/ Times(ListOf(s), t) <= 1 + expiries[t]
    <3>1. t \in Tx  BY <2>1, PoolInTx
    <3>2. Enlisted(t)  BY <2>2, <2>4, <3>1 DEF Right
    <3>3. Times(ListOf(s), t) \in Nat /\ expiries[t] \in Nat
      BY <2>1, <3>1, ListOfIs DEF PoolTypes
    <3>. QED  BY <2>4, <3>2, <3>3 DEF Enlisted, ToBeListed
  <2>. QED  BY <2>3, <2>4
<1>. QED  BY <1>1, SpecPoolIInv, PTL

----------------------------------------------------------------------------
(* The selection for a block *)

(* What the selection sorts by orders the pool's positions, so that it     *)
(* goes through transactions of rising prices.                             *)
LEMMA ByPriceIs ==
  ASSUME NEW pool \in Seq(Entry)
  PROVE  /\ ByPrice(pool) \in Seq(Tx)
         /\ \A i, j \in DOMAIN ByPrice(pool) :
              i < j => ByPrice(pool)[i].gas_price <= ByPrice(pool)[j].gas_price
<1> DEFINE D == DOMAIN pool
           price(i) == pool[i].tx.gas_price
           before == {p \in D \X D :
                        LET a == pool[p[1]].tx.gas_price
                            b == pool[p[2]].tx.gas_price
                        IN  a < b \/ (a = b /\ p[1] < p[2])}
           list == [i \in D |-> pool[i].tx]
           n == Cardinality(D)
           sorted == Arranged(list, D, before)
<1>0. ByPrice(pool) = sorted  BY DEF ByPrice
<1>1. \A i \in D : i \in Nat /\ price(i) \in Nat /\ list[i] \in Tx /\ list[i].gas_price = price(i)
  <2>. TAKE i \in D
  <2>1. pool[i] \in Entry /\ i \in Nat  OBVIOUS
  <2>. QED  BY <2>1, TxFacts DEF Entry
<1>2. \A i, j \in D : <<i, j>> \in before <=> price(i) < price(j) \/ (price(i) = price(j) /\ i < j)
  OBVIOUS
<1>3. IsFiniteSet(D) /\ n \in Nat
  <2>1. Len(pool) \in Int /\ 1 \in Int /\ D = 1 .. Len(pool)  OBVIOUS
  <2>. HIDE DEF D
  <2>2. IsFiniteSet(D)  BY <2>1, FS_Interval
  <2>. QED  BY <2>2, FS_CardinalityType
<1>. HIDE DEF D, price, before, list
<1>4. IsOrder(D, before)  BY <1>1, <1>2 DEF IsOrder
<1>5. PICK p : Lists(p, D, before) /\ sorted = [k \in 1 .. n |-> list[p[k]]]
  BY <1>3, <1>4, ArrangedIs
<1>. HIDE DEF n, sorted
<1>6. /\ p \in [1 .. n -> D]
      /\ \A k, l \in 1 .. n : k < l => <<p[k], p[l]>> \in before
  BY <1>5 DEF Lists, n
<1>7. \A k \in 1 .. n : p[k] \in D /\ list[p[k]] \in Tx  BY <1>1, <1>6
<1>8. sorted \in Seq(Tx) /\ DOMAIN sorted = 1 .. n  BY <1>3, <1>5, <1>7
<1>9. ASSUME NEW i \in 1 .. n, NEW j \in 1 .. n, i < j
      PROVE  sorted[i].gas_price <= sorted[j].gas_price
  <2>1. sorted[i].gas_price = price(p[i]) /\ sorted[j].gas_price = price(p[j])
    BY <1>1, <1>5, <1>7
  <2>2. <<p[i], p[j]>> \in before  BY <1>6, <1>9
  <2>3. price(p[i]) < price(p[j]) \/ price(p[i]) = price(p[j])  BY <1>2, <1>7, <2>2
  <2>4. price(p[i]) \in Nat /\ price(p[j]) \in Nat  BY <1>1, <1>7
  <2>. QED  BY <2>1, <2>3, <2>4
<1>. QED  BY <1>0, <1>8, <1>9

(* The gas of a list is counted transaction by transaction.                *)
LEMMA GasFacts ==
  ASSUME NEW s \in Seq(Tx)
  PROVE  /\ GasUpTo(s)[0] = 0
         /\ \A i \in 1 .. Len(s) : GasUpTo(s)[i] = GasUpTo(s)[i - 1] + s[i].gas_limit
<1> DEFINE n == Len(s)
           step == [i \in 1 .. n |-> [x \in Nat |-> x + s[i].gas_limit]]
           Rec(f) == f = [i \in 0 .. n |-> IF i = 0 THEN 0 ELSE f[i - 1] + s[i].gas_limit]
<1>1. n \in Nat /\ \A i \in 1 .. n : s[i].gas_limit \in Nat
  <2>1. n \in Nat /\ \A i \in 1 .. n : s[i] \in Tx  OBVIOUS
  <2>. QED  BY <2>1, TxFacts
<1>2. step \in [1 .. n -> [Nat -> Nat]]
  <2>. HIDE DEF n
  <2>. QED  BY <1>1
<1>3. HasRun(n, Nat, 0, step)
  <2>. HIDE DEF n, step
  <2>1. 0 \in Nat  OBVIOUS
  <2>. QED  BY <1>1, <1>2, <2>1, Recursion, Zenon
<1>. HIDE DEF n
<1>4. PICK f : IsRun(n, Nat, 0, step, f)  BY <1>3 DEF HasRun
<1>5. ASSUME NEW i \in 1 .. n PROVE f[i] = f[i - 1] + s[i].gas_limit
  <2>1. i - 1 \in 0 .. n  BY <1>1
  <2>2. f[i - 1] \in Nat  BY <1>4, <2>1 DEF IsRun
  <2>. QED  BY <1>4, <2>2 DEF IsRun
<1>6. Rec(f)
  <2>1. ASSUME NEW i \in 0 .. n PROVE f[i] = IF i = 0 THEN 0 ELSE f[i - 1] + s[i].gas_limit
    BY <1>1, <1>4, <1>5 DEF IsRun
  <2>2. f = [i \in 0 .. n |-> f[i]]  BY <1>4 DEF IsRun
  <2>. QED  BY <2>1, <2>2
<1>7. Rec(GasUpTo(s))  BY <1>6, Zenon DEF GasUpTo, n
<1> DEFINE g == GasUpTo(s)
<1>. HIDE DEF g
<1>8. g[0] = 0 /\ \A i \in 1 .. n : g[i] = g[i - 1] + s[i].gas_limit  BY <1>1, <1>7 DEF g
<1>. QED  BY <1>8 DEF g, n

(* The gas of a longer list. *)
LEMMA GasOfAppend ==
  ASSUME NEW s \in Seq(Tx), NEW t \in Tx
  PROVE  GasOf(<<>>) = 0 /\ GasOf(Append(s, t)) = GasOf(s) + t.gas_limit
<1> DEFINE r == Append(s, t)
           g == GasUpTo(s)
           h == GasUpTo(r)
           n == Len(s)
           P == {i \in Nat : g[i] = h[i]}
<1>1. n \in Nat /\ r \in Seq(Tx) /\ Len(r) = n + 1 /\ r[n + 1] = t /\ \A i \in 1 .. n : r[i] = s[i]
  OBVIOUS
<1>2. g[0] = 0 /\ \A i \in 1 .. n : g[i] = g[i - 1] + s[i].gas_limit  BY GasFacts
<1>3. h[0] = 0 /\ \A i \in 1 .. Len(r) : h[i] = h[i - 1] + r[i].gas_limit  BY <1>1, GasFacts
<1>. HIDE DEF r, g, h, n
<1>4. \A i \in 1 .. n : h[i] = h[i - 1] + s[i].gas_limit  BY <1>1, <1>3
<1>5. \A i \in 0 .. n : i \in P
  <2>1. 0 \in P  BY <1>2, <1>3
  <2>2. ASSUME NEW i \in 1 .. n, i - 1 \in P PROVE i \in P
    <3>1. g[i - 1] = h[i - 1] /\ i \in Nat  BY <1>1, <2>2
    <3>. QED  BY <1>2, <1>4, <3>1
  <2>. HIDE DEF P
  <2>. QED  BY <1>1, <2>1, <2>2, InductTo
<1>6. h[n + 1] = h[n] + t.gas_limit
  <2>1. n + 1 \in 1 .. Len(r) /\ (n + 1) - 1 = n  BY <1>1
  <2>. QED  BY <1>1, <1>3, <2>1
<1>7. h[n] = g[n]
  <2>1. n \in 0 .. n  BY <1>1
  <2>. QED  BY <1>5, <2>1
<1>8. GasOf(<<>>) = 0
  <2>1. <<>> \in Seq(Tx) /\ Len(<<>>) = 0  OBVIOUS
  <2>. QED  BY <2>1, GasFacts DEF GasOf
<1>9. GasOf(s) = g[n] /\ GasOf(r) = h[n + 1]  BY <1>1 DEF GasOf, g, h, n
<1>. QED  BY <1>6, <1>7, <1>8, <1>9 DEF r

Choice == [txs : Seq(Tx), gas : Nat, expected : [DOMAIN AccountNonce -> SUBSET Nat]]

(* A candidate considered leaves a choice. *)
LEMMA ConsiderType ==
  ASSUME NEW c \in Choice, NEW t \in Tx
  PROVE  Consider(c, t) \in Choice
<1>1. t.gas_limit \in Nat /\ t.nonce + 1 \in Nat /\ t.from \in DOMAIN AccountNonce  BY TxFacts
<1>2. /\ Append(c.txs, t) \in Seq(Tx) /\ c.gas + t.gas_limit \in Nat
      /\ [c.expected EXCEPT ![t.from] = {t.nonce + 1}] \in [DOMAIN AccountNonce -> SUBSET Nat]
  BY <1>1 DEF Choice
<1>. QED  BY <1>2 DEF Consider, Choice

(* The choice is made candidate by candidate.                              *)
LEMMA ChoiceAfterFacts ==
  ASSUME NEW s \in Seq(Tx)
  PROVE  /\ ChoiceAfter(s)[0] = NothingChosen
         /\ \A i \in 1 .. Len(s) : ChoiceAfter(s)[i] = Consider(ChoiceAfter(s)[i - 1], s[i])
<1> DEFINE n == Len(s)
           step == [i \in 1 .. n |-> [c \in Choice |-> Consider(c, s[i])]]
           Rec(f) == f = [k \in 0 .. n |->
                            IF k = 0 THEN NothingChosen ELSE Consider(f[k - 1], s[k])]
<1>1. n \in Nat /\ \A i \in 1 .. n : s[i] \in Tx  OBVIOUS
<1>2. step \in [1 .. n -> [Choice -> Choice]]
  <2>. HIDE DEF n
  <2>. QED  BY <1>1, ConsiderType
<1>a. NothingChosen \in Choice  BY DEF NothingChosen, Choice
<1>3. HasRun(n, Choice, NothingChosen, step)
  <2>. HIDE DEF n, step
  <2>. QED  BY <1>1, <1>2, <1>a, Recursion, Zenon
<1>. HIDE DEF n
<1>4. PICK f : IsRun(n, Choice, NothingChosen, step, f)  BY <1>3 DEF HasRun
<1>5. ASSUME NEW i \in 1 .. n PROVE f[i] = Consider(f[i - 1], s[i])
  <2>1. i - 1 \in 0 .. n  BY <1>1
  <2>2. f[i - 1] \in Choice  BY <1>4, <2>1 DEF IsRun
  <2>. QED  BY <1>4, <2>2 DEF IsRun
<1>6. Rec(f)
  <2>1. ASSUME NEW i \in 0 .. n
        PROVE  f[i] = IF i = 0 THEN NothingChosen ELSE Consider(f[i - 1], s[i])
    BY <1>1, <1>4, <1>5 DEF IsRun
  <2>2. f = [i \in 0 .. n |-> f[i]]  BY <1>4 DEF IsRun
  <2>. QED  BY <2>1, <2>2
<1>7. Rec(ChoiceAfter(s))  BY <1>6, Zenon DEF ChoiceAfter, n
<1> DEFINE g == ChoiceAfter(s)
<1>. HIDE DEF g
<1>8. g[0] = NothingChosen /\ \A i \in 1 .. n : g[i] = Consider(g[i - 1], s[i])
  BY <1>1, <1>7 DEF g
<1>. QED  BY <1>8 DEF g, n

(* How many of list, after position i and up to j, are of i's sender.      *)
SameSender(list, i, j) == Cardinality({k \in i + 1 .. j : list[k].from = list[i].from})

RunsOn(list) ==
  \A i, j \in DOMAIN list :
    i < j /\ list[i].from = list[j].from
      => list[j].nonce = list[i].nonce + SameSender(list, i, j)

(* What holds of the choice after the first k candidates.                  *)
Chosen(c, s, k) ==
  /\ c \in Choice
  /\ Len(c.txs) <= MaxTxs
  /\ c.gas = GasOf(c.txs) /\ c.gas <= MaxGas
  /\ \A i \in DOMAIN c.txs : \E m \in 1 .. k : c.txs[i] = s[m]
  /\ \A i, j \in DOMAIN c.txs : i < j => c.txs[i].gas_price <= c.txs[j].gas_price
  /\ RunsOn(c.txs)
  /\ \A i \in DOMAIN c.txs :
       c.expected[c.txs[i].from]
         = {c.txs[i].nonce + SameSender(c.txs, i, Len(c.txs)) + 1}

(* Appending a transaction is one more of its sender's. *)
LEMMA SameSenderAppend ==
  ASSUME NEW list \in Seq(Tx), NEW t \in Tx, NEW i \in 1 .. Len(list)
  PROVE  /\ SameSender(list, i, Len(list)) \in Nat
         /\ SameSender(Append(list, t), i, Len(list) + 1)
              = SameSender(list, i, Len(list)) + (IF t.from = list[i].from THEN 1 ELSE 0)
         /\ \A j \in 1 .. Len(list) :
              SameSender(Append(list, t), i, j) = SameSender(list, i, j)
<1> DEFINE n == Len(list)
           r == Append(list, t)
           A == {k \in i + 1 .. n : list[k].from = list[i].from}
           B == {k \in i + 1 .. n + 1 : r[k].from = r[i].from}
<1>1. n \in Nat /\ r[n + 1] = t /\ \A k \in 1 .. n : r[k] = list[k]  OBVIOUS
<1>2. \A k \in i + 1 .. n + 1 : k = n + 1 \/ (k \in 1 .. n /\ k \in i + 1 .. n)  BY <1>1
<1>3. n + 1 \notin A /\ n + 1 \in i + 1 .. n + 1  BY <1>1
<1>a. \A k \in i + 1 .. n : k \in 1 .. n /\ k \in i + 1 .. n + 1  BY <1>1
<1>4. IsFiniteSet(A) /\ Cardinality(A) \in Nat
  <2>1. i + 1 \in Int /\ n \in Int /\ A \in SUBSET (i + 1 .. n)  BY <1>1
  <2>. HIDE DEF A, n
  <2>2. IsFiniteSet(i + 1 .. n)  BY <2>1, FS_Interval
  <2>3. IsFiniteSet(A)  BY <2>1, <2>2, FS_Subset
  <2>. QED  BY <2>3, FS_CardinalityType
<1>. HIDE DEF n, r
<1>5. Cardinality(B) = Cardinality(A) + (IF t.from = list[i].from THEN 1 ELSE 0)
  <2>1. CASE t.from = list[i].from
    <3>1. B = A \cup {n + 1}  BY <1>1, <1>2, <1>3, <1>a, <2>1 DEF n
    <3>. HIDE DEF A, B
    <3>2. Cardinality(B) = Cardinality(A) + 1  BY <1>3, <1>4, <3>1, FS_AddElement
    <3>. QED  BY <2>1, <3>2
  <2>2. CASE t.from # list[i].from
    <3>1. B = A  BY <1>1, <1>2, <1>3, <1>a, <2>2 DEF n
    <3>. HIDE DEF A, B
    <3>. QED  BY <1>4, <2>2, <3>1
  <2>. QED  BY <2>1, <2>2
<1>6. SameSender(list, i, n) = Cardinality(A) /\ SameSender(r, i, n + 1) = Cardinality(B)
  BY DEF SameSender
<1>. HIDE DEF A, B
<1>7. ASSUME NEW j \in 1 .. n PROVE SameSender(r, i, j) = SameSender(list, i, j)
  <2>1. \A k \in i + 1 .. j : k \in 1 .. n  BY <1>1, <1>7 DEF n
  <2>2. {k \in i + 1 .. j : r[k].from = r[i].from}
          = {k \in i + 1 .. j : list[k].from = list[i].from}
    BY <1>1, <2>1 DEF n
  <2>. QED  BY <2>2 DEF SameSender
<1>. QED  BY <1>4, <1>5, <1>6, <1>7 DEF n, r

(* One more candidate, taken or not. *)
LEMMA ConsiderKeepsChosen ==
  ASSUME NEW s \in Seq(Tx), NEW k \in 1 .. Len(s), NEW c, Chosen(c, s, k - 1),
         \A i, j \in DOMAIN s : i < j => s[i].gas_price <= s[j].gas_price
  PROVE  Chosen(Consider(c, s[k]), s, k)
<1> DEFINE t == s[k]
           d == Consider(c, t)
           n == Len(c.txs)
           r == Append(c.txs, t)
<1>1. /\ t \in Tx /\ k \in Nat /\ k \in DOMAIN s
      /\ \A m \in 1 .. k - 1 : m \in 1 .. k /\ m \in DOMAIN s /\ m < k
  OBVIOUS
<1>2. /\ c \in Choice /\ c.txs \in Seq(Tx) /\ n \in Nat /\ DOMAIN c.txs = 1 .. n
      /\ c.gas \in Nat /\ c.expected \in [DOMAIN AccountNonce -> SUBSET Nat]
  BY DEF Chosen, Choice
<1>. HIDE DEF t
<1>3. d \in Choice  BY <1>1, <1>2, ConsiderType
<1>4. /\ t.from \in DOMAIN AccountNonce /\ t.nonce \in Nat /\ t.gas_limit \in Nat
      /\ t.gas_price \in Nat
  BY <1>1, TxFacts
<1>5. CASE ~(/\ n < MaxTxs /\ c.gas + t.gas_limit <= MaxGas
             /\ c.expected[t.from] \in {{}, {t.nonce}})
  <2>1. d = c  BY <1>5 DEF Consider
  <2>2. \A i \in DOMAIN c.txs : \E m \in 1 .. k : c.txs[i] = s[m]
    BY <1>1 DEF Chosen
  <2>. QED  BY <2>1, <2>2 DEF Chosen, t
<1>6. CASE /\ n < MaxTxs /\ c.gas + t.gas_limit <= MaxGas
           /\ c.expected[t.from] \in {{}, {t.nonce}}
  <2>1. /\ d.txs = r /\ d.gas = c.gas + t.gas_limit
        /\ d.expected = [c.expected EXCEPT ![t.from] = {t.nonce + 1}]
    BY <1>6 DEF Consider
  <2>2. /\ r \in Seq(Tx) /\ Len(r) = n + 1 /\ DOMAIN r = 1 .. n + 1 /\ r[n + 1] = t
        /\ \A i \in 1 .. n : r[i] = c.txs[i] /\ r[i] \in Tx
    BY <1>1, <1>2
  <2>3. \A i \in 1 .. n + 1 : i = n + 1 \/ i \in 1 .. n  BY <1>2
  <2>. HIDE DEF d, r
  <2>4. Len(d.txs) <= MaxTxs  BY <1>2, <1>6, <2>1, <2>2, MempoolAssumption
  <2>5. d.gas = GasOf(d.txs) /\ d.gas <= MaxGas
    <3>1. c.gas = GasOf(c.txs)  BY DEF Chosen
    <3>2. GasOf(r) = GasOf(c.txs) + t.gas_limit  BY <1>1, <1>2, GasOfAppend DEF r
    <3>. QED  BY <1>6, <2>1, <3>1, <3>2
  <2>6. \A i \in 1 .. n + 1 : \E m \in 1 .. k : r[i] = s[m]
    <3>1. \A i \in 1 .. n : \E m \in 1 .. k - 1 : c.txs[i] = s[m]  BY <1>2 DEF Chosen
    <3>2. k \in 1 .. k  BY <1>1
    <3>3. r[n + 1] = s[k]  BY <2>2 DEF t
    <3>4. ASSUME NEW i \in 1 .. n PROVE \E m \in 1 .. k : r[i] = s[m]
      <4>1. PICK m \in 1 .. k - 1 : c.txs[i] = s[m]  BY <3>1
      <4>. QED  BY <1>1, <2>2, <4>1
    <3>. QED  BY <2>3, <3>2, <3>3, <3>4
  <2>7. \A i, j \in 1 .. n + 1 : i < j => r[i].gas_price <= r[j].gas_price
    <3>. TAKE i, j \in 1 .. n + 1
    <3>. HAVE i < j
    <3>1. i \in 1 .. n  BY <1>2
    <3>2. CASE j = n + 1
      <4>1. PICK m \in 1 .. k - 1 : c.txs[i] = s[m]  BY <1>2, <3>1 DEF Chosen
      <4>2. s[m].gas_price <= s[k].gas_price  BY <1>1, <4>1
      <4>. QED  BY <2>2, <3>1, <3>2, <4>1, <4>2 DEF t
    <3>3. CASE j \in 1 .. n
      <4>1. c.txs[i].gas_price <= c.txs[j].gas_price  BY <1>2, <3>1, <3>3 DEF Chosen
      <4>. QED  BY <2>2, <3>1, <3>3, <4>1
    <3>. QED  BY <2>3, <3>2, <3>3
  <2>8. \A i \in 1 .. n : /\ SameSender(c.txs, i, n) \in Nat
                          /\ SameSender(r, i, n + 1)
                               = SameSender(c.txs, i, n) + (IF t.from = c.txs[i].from THEN 1 ELSE 0)
                          /\ \A j \in 1 .. n : SameSender(r, i, j) = SameSender(c.txs, i, j)
    BY <1>1, <1>2, SameSenderAppend DEF r
  <2>9. \A i \in 1 .. n : /\ c.expected[c.txs[i].from]
                               = {c.txs[i].nonce + SameSender(c.txs, i, n) + 1}
                          /\ c.txs[i].nonce \in Nat /\ c.txs[i].from \in DOMAIN AccountNonce
    <3>. TAKE i \in 1 .. n
    <3>1. c.txs[i] \in Tx  BY <2>2
    <3>. QED  BY <1>2, <3>1, TxFacts DEF Chosen
  <2>10. RunsOn(r)
    <3>. SUFFICES ASSUME NEW i \in 1 .. n + 1, NEW j \in 1 .. n + 1, i < j, r[i].from = r[j].from
                  PROVE  r[j].nonce = r[i].nonce + SameSender(r, i, j)
      BY <2>2 DEF RunsOn
    <3>1. i \in 1 .. n  BY <1>2
    <3>2. CASE j = n + 1
      <4>1. t.from = c.txs[i].from  BY <2>2, <3>1, <3>2
      <4>2. c.expected[t.from] = {c.txs[i].nonce + SameSender(c.txs, i, n) + 1}
        BY <2>9, <3>1, <4>1
      <4>3. c.expected[t.from] = {t.nonce}  BY <1>6, <4>2
      <4>4. t.nonce = c.txs[i].nonce + SameSender(c.txs, i, n) + 1  BY <4>2, <4>3
      <4>5. SameSender(r, i, n + 1) = SameSender(c.txs, i, n) + 1  BY <2>8, <3>1, <4>1
      <4>6. r[j].nonce = t.nonce /\ r[i].nonce = c.txs[i].nonce  BY <2>2, <3>1, <3>2
      <4>7. SameSender(c.txs, i, n) \in Int /\ c.txs[i].nonce \in Int  BY <2>8, <2>9, <3>1
      <4>. QED  BY <3>2, <4>4, <4>5, <4>6, <4>7
    <3>3. CASE j \in 1 .. n
      <4>1. c.txs[j].nonce = c.txs[i].nonce + SameSender(c.txs, i, j)
        BY <1>2, <2>2, <3>1, <3>3 DEF Chosen, RunsOn
      <4>. QED  BY <2>2, <2>8, <3>1, <3>3, <4>1
    <3>. QED  BY <2>3, <3>2, <3>3
  <2>11. ASSUME NEW i \in 1 .. n + 1
         PROVE  d.expected[r[i].from] = {r[i].nonce + SameSender(r, i, n + 1) + 1}
    <3>1. CASE i = n + 1
      <4>1. (n + 1) + 1 .. n + 1 = {}  BY <1>2
      <4>2. SameSender(r, n + 1, n + 1) = 0
        <5>1. {m \in (n + 1) + 1 .. n + 1 : r[m].from = r[n + 1].from} = {}  BY <4>1
        <5>. QED  BY <5>1, FS_EmptySet DEF SameSender
      <4>3. d.expected[t.from] = {t.nonce + 1}  BY <1>2, <1>4, <2>1
      <4>4. r[i] = t  BY <2>2, <3>1
      <4>. QED  BY <1>4, <3>1, <4>2, <4>3, <4>4
    <3>2. CASE i \in 1 .. n
      <4>1. r[i] = c.txs[i]  BY <2>2, <3>2
      <4>2. SameSender(c.txs, i, n) \in Int /\ c.txs[i].nonce \in Int  BY <2>8, <2>9, <3>2
      <4>3. CASE t.from = c.txs[i].from
        <5>1. c.expected[t.from] = {c.txs[i].nonce + SameSender(c.txs, i, n) + 1}
          BY <2>9, <3>2, <4>3
        <5>2. c.expected[t.from] = {t.nonce}  BY <1>6, <5>1
        <5>3. t.nonce = c.txs[i].nonce + SameSender(c.txs, i, n) + 1  BY <5>1, <5>2
        <5>4. SameSender(r, i, n + 1) = SameSender(c.txs, i, n) + 1  BY <2>8, <3>2, <4>3
        <5>5. d.expected[t.from] = {t.nonce + 1}  BY <1>2, <1>4, <2>1
        <5>6. t.nonce + 1 = c.txs[i].nonce + SameSender(r, i, n + 1) + 1
          BY <4>2, <5>3, <5>4
        <5>. QED  BY <4>1, <4>3, <5>5, <5>6
      <4>4. CASE t.from # c.txs[i].from
        <5>1. d.expected[c.txs[i].from] = c.expected[c.txs[i].from]
          BY <1>2, <2>1, <2>9, <3>2, <4>4
        <5>2. SameSender(r, i, n + 1) = SameSender(c.txs, i, n)  BY <2>8, <3>2, <4>2, <4>4
        <5>. QED  BY <2>9, <3>2, <4>1, <5>1, <5>2
      <4>. QED  BY <4>3, <4>4
    <3>. QED  BY <2>3, <3>1, <3>2
  <2>12. Chosen(d, s, k)
    <3>1. DOMAIN d.txs = 1 .. n + 1 /\ Len(d.txs) = n + 1 /\ RunsOn(d.txs)
      BY <2>1, <2>2, <2>10
    <3>2. \A i \in 1 .. n + 1 : \E m \in 1 .. k : d.txs[i] = s[m]  BY <2>1, <2>6
    <3>3. \A i, j \in 1 .. n + 1 : i < j => d.txs[i].gas_price <= d.txs[j].gas_price
      BY <2>1, <2>7
    <3>4. \A i \in 1 .. n + 1 :
            d.expected[d.txs[i].from] = {d.txs[i].nonce + SameSender(d.txs, i, n + 1) + 1}
      BY <2>1, <2>11
    <3>. QED  BY <1>3, <2>4, <2>5, <3>1, <3>2, <3>3, <3>4 DEF Chosen
  <2>. QED  BY <2>12 DEF d, t
<1>. QED  BY <1>5, <1>6

(* What the selection returns from candidates of rising prices. *)
LEMMA SelectedIs ==
  ASSUME NEW s \in Seq(Tx),
         \A i, j \in DOMAIN s : i < j => s[i].gas_price <= s[j].gas_price
  PROVE  Chosen(ChoiceAfter(s)[Len(s)], s, Len(s))
<1> DEFINE n == Len(s)
           P == {k \in Nat : Chosen(ChoiceAfter(s)[k], s, k)}
<1>1. n \in Nat  OBVIOUS
<1>2. 0 \in P
  <2>1. NothingChosen \in Choice  BY DEF NothingChosen, Choice
  <2>2. NothingChosen.txs = <<>> /\ NothingChosen.gas = 0 /\ Len(<<>>) = 0 /\ DOMAIN <<>> = {}
    BY DEF NothingChosen
  <2>3. 0 <= MaxTxs /\ 0 <= MaxGas  BY MempoolAssumption
  <2>4. GasOf(<<>>) = 0
    <3>1. <<>> \in Seq(Tx) /\ Len(<<>>) = 0  OBVIOUS
    <3>. QED  BY <3>1, GasFacts DEF GasOf
  <2>5. Chosen(NothingChosen, s, 0)
    BY <2>1, <2>2, <2>3, <2>4 DEF Chosen, RunsOn
  <2>. QED  BY <2>5, ChoiceAfterFacts
<1>3. ASSUME NEW k \in 1 .. n, k - 1 \in P PROVE k \in P
  <2>1. Chosen(ChoiceAfter(s)[k - 1], s, k - 1) /\ k \in Nat  BY <1>1, <1>3
  <2>2. Chosen(Consider(ChoiceAfter(s)[k - 1], s[k]), s, k)
    BY <2>1, ConsiderKeepsChosen
  <2>. QED  BY <2>1, <2>2, ChoiceAfterFacts
<1>4. n \in P
  <2>. HIDE DEF P, n
  <2>1. \A k \in 0 .. n : k \in P  BY <1>1, <1>2, <1>3, InductTo
  <2>. QED  BY <1>1, <2>1
<1>. QED  BY <1>4

SoundSelection(list) ==
  /\ Len(list) <= MaxTxs
  /\ GasOf(list) <= MaxGas
  /\ \A i, j \in DOMAIN list : i < j =>
       /\ list[i].gas_price <= list[j].gas_price
       /\ list[i].from = list[j].from
            => list[j].nonce = list[i].nonce
                 + Cardinality({k \in i + 1 .. j : list[k].from = list[i].from})

(* Whatever the pool holds when select_for_block is called, what it has    *)
(* returned fits into a block, has every sender's nonces in unbroken runs, *)
(* and comes cheapest first.                                               *)
THEOREM SelectionAlwaysSound == PoolSpec => []SelectionSound
<1>1. PoolInit => SelectionSound
  <2>. SUFFICES ASSUME PoolInit PROVE SelectionSound  OBVIOUS
  <2>1. selected = <<>> /\ Len(<<>>) = 0 /\ DOMAIN <<>> = {}  BY DEF PoolInit
  <2>2. 0 <= MaxTxs /\ 0 <= MaxGas  BY MempoolAssumption
  <2>3. GasOf(<<>>) = 0
    <3>1. <<>> \in Seq(Tx) /\ Len(<<>>) = 0  OBVIOUS
    <3>. QED  BY <3>1, GasFacts DEF GasOf
  <2>. QED  BY <2>1, <2>2, <2>3 DEF SelectionSound
<1>2. PoolIInv /\ SelectionSound /\ [PoolNext]_poolVars => SelectionSound'
  <2>. SUFFICES ASSUME PoolIInv, SelectionSound, [PoolNext]_poolVars PROVE SelectionSound'
    OBVIOUS
  <2>1. ASSUME NEW th \in Thread, SelectForBlock(th) PROVE SelectionSound'
    <3> DEFINE s == ByPrice(txs')
    <3>1. EvictExpired /\ selected' = Selected(s)  BY <2>1 DEF SelectForBlock
    <3>2. txs' \in Seq(Entry)  BY <3>1, ExpiryIs DEF PoolIInv
    <3>3. /\ s \in Seq(Tx)
          /\ \A i, j \in DOMAIN s : i < j => s[i].gas_price <= s[j].gas_price
      BY <3>2, ByPriceIs
    <3>. HIDE DEF s
    <3> DEFINE c == ChoiceAfter(s)[Len(s)]
    <3>4. Chosen(c, s, Len(s)) /\ selected' = c.txs  BY <3>1, <3>3, SelectedIs DEF Selected
    <3>. HIDE DEF c
    <3>5. Len(c.txs) <= MaxTxs /\ GasOf(c.txs) <= MaxGas  BY <3>4 DEF Chosen
    <3>6. \A i, j \in DOMAIN c.txs : i < j =>
            /\ c.txs[i].gas_price <= c.txs[j].gas_price
            /\ c.txs[i].from = c.txs[j].from
                 => c.txs[j].nonce = c.txs[i].nonce
                      + Cardinality({k \in i + 1 .. j : c.txs[k].from = c.txs[i].from})
      BY <3>4 DEF Chosen, RunsOn, SameSender
    <3>7. SoundSelection(c.txs)  BY <3>5, <3>6 DEF SoundSelection
    <3>8. SoundSelection(selected')  BY <3>4, <3>7
    <3>. QED  BY <3>8 DEF SelectionSound, SoundSelection
  <2>2. CASE UNCHANGED selected
    <3>1. SoundSelection(selected)  BY DEF SelectionSound, SoundSelection
    <3>2. SoundSelection(selected')  BY <2>2, <3>1
    <3>. QED  BY <3>2 DEF SelectionSound, SoundSelection
  <2>3. UNCHANGED selected \/ \E th \in Thread : SelectForBlock(th)
    BY DEF PoolNext, poolVars, Tick, AddCheck, AddStep, AddRoom, AddChoose, AddEvict, AddStore,
           AddList, AddAppend, AddSort, AddCount, RemoveTx, RemoveStep, RemoveFind, RemoveFilter,
           RemoveAssign, GetStats
  <2>. QED  BY <2>1, <2>2, <2>3
<1>. QED  BY <1>1, <1>2, SpecPoolIInv, PTL DEF PoolSpec

----------------------------------------------------------------------------
(* The accounts behind the trie *)

Account == [balance : Nat, nonce : Nat, code : BOOLEAN]

(* Maps from some of the accounts to what they hold. *)
Maps == UNION {[A -> Account] : A \in SUBSET Accounts}

(* An account has something in every map. *)
LEMMA AccountInMap ==
  ASSUME NEW m \in Maps, NEW a \in Accounts
  PROVE  AccountIn(m, a) \in Account /\ AccountIn(m, a).balance \in Nat
<1>1. PICK A \in SUBSET Accounts : m \in [A -> Account]  BY DEF Maps
<1>2. NewAccount \in Account  BY DEF NewAccount, Account
<1>3. AccountIn(m, a) \in Account  BY <1>1, <1>2 DEF AccountIn
<1>. QED  BY <1>3 DEF Account

(* put changes one account and no other. *)
LEMMA PutIs ==
  ASSUME NEW s, s.map \in Maps, NEW a \in Accounts, NEW acc \in Account
  PROVE  /\ PutIn(s, a, acc).map \in Maps
         /\ DOMAIN PutIn(s, a, acc).map = DOMAIN s.map \cup {a}
         /\ \A b \in Accounts :
              AccountIn(PutIn(s, a, acc).map, b) = IF b = a THEN acc ELSE AccountIn(s.map, b)
<1> DEFINE new == [b \in DOMAIN s.map \cup {a} |-> IF b = a THEN acc ELSE s.map[b]]
<1>1. PICK A \in SUBSET Accounts : s.map \in [A -> Account]  BY DEF Maps
<1>2. PutIn(s, a, acc).map = new  BY DEF PutIn
<1>3. A \cup {a} \in SUBSET Accounts /\ DOMAIN s.map = A  BY <1>1
<1>4. new \in [A \cup {a} -> Account]  BY <1>1, <1>3
<1>5. new \in Maps  BY <1>3, <1>4 DEF Maps
<1>6. \A b \in Accounts : AccountIn(new, b) = IF b = a THEN acc ELSE AccountIn(s.map, b)
  BY <1>3 DEF AccountIn
<1>7. DOMAIN new = DOMAIN s.map \cup {a}  OBVIOUS
<1>. HIDE DEF new
<1>. QED  BY <1>2, <1>5, <1>6, <1>7

(* update_balance adds to one balance as far as the floor at zero allows.  *)
LEMMA BalancedIs ==
  ASSUME NEW s, s.map \in Maps, NEW a \in Accounts, NEW delta \in Int, NEW sum \in Int,
         sum = AccountIn(s.map, a).balance + delta
  PROVE  /\ Balanced(s, a, delta).map \in Maps
         /\ AccountIn(Balanced(s, a, delta).map, a).balance = IF sum < 0 THEN 0 ELSE sum
         /\ \A b \in Accounts :
              b # a => AccountIn(Balanced(s, a, delta).map, b) = AccountIn(s.map, b)
<1> DEFINE acc == AccountIn(s.map, a)
           new == [acc EXCEPT !.balance = IF sum < 0 THEN 0 ELSE sum]
<1>1. acc \in Account  BY AccountInMap
<1>2. Balanced(s, a, delta) = PutIn(s, a, new)  BY DEF Balanced
<1>. HIDE DEF acc
<1>3. new \in Account /\ new.balance = IF sum < 0 THEN 0 ELSE sum  BY <1>1 DEF Account
<1>. HIDE DEF new
<1>. QED  BY <1>2, <1>3, PutIs

(* A changed balance leaves the cache a map of accounts. *)
LEMMA BalancedInMaps ==
  ASSUME NEW s, s.map \in Maps, NEW a \in Accounts, NEW delta \in Int
  PROVE  Balanced(s, a, delta).map \in Maps
<1> DEFINE sum == AccountIn(s.map, a).balance + delta
<1>1. sum \in Int  BY AccountInMap
<1>. HIDE DEF sum
<1>. QED  BY <1>1, BalancedIs DEF sum

(* increment_nonce leaves the balances alone. *)
LEMMA CountedIs ==
  ASSUME NEW s, s.map \in Maps, NEW a \in Accounts
  PROVE  /\ Counted(s, a).map \in Maps
         /\ \A b \in Accounts :
              AccountIn(Counted(s, a).map, b).balance = AccountIn(s.map, b).balance
<1> DEFINE acc == AccountIn(s.map, a)
           new == [acc EXCEPT !.nonce = @ + 1]
<1>1. acc \in Account  BY AccountInMap
<1>2. Counted(s, a) = PutIn(s, a, new)  BY DEF Counted
<1>. HIDE DEF acc
<1>3. new \in Account /\ new.balance = acc.balance  BY <1>1 DEF Account
<1>. HIDE DEF new
<1>. QED  BY <1>2, <1>3, PutIs DEF acc

Balances(m) == [i \in 1 .. Cardinality(Accounts) |-> AccountIn(m, AccountSeq[i]).balance]

(* The accounts are listed, each once. *)
LEMMA AccountsListed ==
  /\ Cardinality(Accounts) \in Nat
  /\ AccountSeq \in [1 .. Cardinality(Accounts) -> Accounts]
  /\ \A i, j \in 1 .. Cardinality(Accounts) : AccountSeq[i] = AccountSeq[j] => i = j
  /\ \A a \in Accounts : \E i \in 1 .. Cardinality(Accounts) : AccountSeq[i] = a
<1> DEFINE n == Cardinality(Accounts)
           at == SetToSeq(Accounts)
<1>1. IsFiniteSet(Accounts)  BY TrieAssumption
<1>2. n \in Nat /\ \E f \in [1 .. n -> Accounts] : \A i, j \in 1 .. n : f[i] = f[j] => i = j
  BY <1>1, Listing
<1>3. \E f \in [1 .. n -> Accounts] : IsInjective(f)  BY <1>2 DEF IsInjective
<1>4. at \in [1 .. n -> Accounts] /\ IsInjective(at)  BY <1>3, Zenon DEF SetToSeq
<1>5. \A i, j \in 1 .. n : at[i] = at[j] => i = j
  <2>. HIDE DEF at, n
  <2>. QED  BY <1>4 DEF IsInjective
<1>6. \A a \in Accounts : \E i \in 1 .. n : at[i] = a  BY <1>1, <1>4, <1>5, Listing
<1>. QED  BY <1>2, <1>4, <1>5, <1>6 DEF AccountSeq

(* The total adds up the balances. *)
LEMMA TotalAddsUp ==
  ASSUME NEW m \in Maps
  PROVE  \E f : /\ AddsUp(Cardinality(Accounts), Balances(m), f)
                /\ Total(m) = f[Cardinality(Accounts)]
<1> DEFINE n == Cardinality(Accounts)
           s == Balances(m)
           Rec(f) == f = [i \in 0 .. n |->
                            IF i = 0 THEN 0 ELSE f[i - 1] + AccountIn(m, AccountSeq[i]).balance]
           total == CHOOSE f : Rec(f)
<1>1. n \in Nat /\ \A i \in 1 .. n : AccountSeq[i] \in Accounts  BY AccountsListed
<1>2. \A i \in 1 .. n : s[i] = AccountIn(m, AccountSeq[i]).balance  BY DEF Balances
<1>3. Total(m) = total[n]  BY DEF Total
<1>. HIDE DEF n, s
<1>4. \A i \in 1 .. n : s[i] \in Nat  BY <1>1, <1>2, AccountInMap
<1>5. PICK f : SumOf(n, s, f)  BY <1>1, <1>4, SumExists
<1>6. \A g : Rec(g) <=> SumOf(n, s, g)
  <2>. TAKE g
  <2>1. [i \in 0 .. n |-> IF i = 0 THEN 0 ELSE g[i - 1] + AccountIn(m, AccountSeq[i]).balance]
          = [i \in 0 .. n |-> IF i = 0 THEN 0 ELSE g[i - 1] + s[i]]
    BY <1>1, <1>2
  <2>. QED  BY <2>1 DEF SumOf
<1>. HIDE DEF Rec
<1>7. SumOf(n, s, total)  BY <1>5, <1>6
<1>. HIDE DEF total
<1>8. AddsUp(n, s, total)  BY <1>1, <1>4, <1>7, SumAddsUp
<1>. QED  BY <1>3, <1>8 DEF n, s

(* One balance changes the total by as much as it changes. *)
LEMMA TotalMoves ==
  ASSUME NEW m \in Maps, NEW k \in Maps, NEW a \in Accounts,
         \A b \in Accounts : b # a => AccountIn(k, b).balance = AccountIn(m, b).balance
  PROVE  /\ Total(m) \in Nat
         /\ Total(k) = Total(m) + AccountIn(k, a).balance - AccountIn(m, a).balance
<1> DEFINE n == Cardinality(Accounts)
           s == Balances(m)
           z == Balances(k)
<1>1. n \in Nat /\ \A i \in 1 .. n : AccountSeq[i] \in Accounts  BY AccountsListed
<1>2. PICK j \in 1 .. n : AccountSeq[j] = a  BY AccountsListed
<1>3. \A i \in 1 .. n : i # j => AccountSeq[i] # a  BY <1>2, AccountsListed
<1>4. \A i \in 1 .. n : /\ s[i] = AccountIn(m, AccountSeq[i]).balance
                        /\ z[i] = AccountIn(k, AccountSeq[i]).balance
  BY DEF Balances
<1>5. PICK f : AddsUp(n, s, f) /\ Total(m) = f[n]  BY TotalAddsUp
<1>6. PICK g : AddsUp(n, z, g) /\ Total(k) = g[n]  BY TotalAddsUp
<1>. HIDE DEF n, s, z
<1>7. DifferAt(n, s, z, j)  BY <1>1, <1>3, <1>4, AccountInMap DEF DifferAt
<1>8. g[n] = f[n] + z[j] - s[j]  BY <1>1, <1>2, <1>5, <1>6, <1>7, SumChanges
<1>9. f[n] \in Nat  BY <1>1, <1>5 DEF AddsUp
<1>. QED  BY <1>2, <1>4, <1>5, <1>6, <1>8, <1>9

(* A covered transfer takes from one balance what it gives to the other.   *)
LEMMA TransferKeepsTotal ==
  ASSUME cache \in Maps, NEW a \in Accounts, NEW b \in Accounts,
         NEW amount \in 0 .. MaxAmount, ApplyTransfer(a, b, amount)
  PROVE  Total(cache') = Total(cache)
<1> DEFINE s1 == Balanced(State, a, -amount)
           s2 == Balanced(s1, b, amount)
           s3 == Counted(s2, a)
<1>1. amount \in Nat /\ -amount \in Int  BY TrieAssumption
<1>2. State.map = cache /\ AccountIn(cache, a).balance >= amount /\ cache' = s3.map
  BY DEF State, ApplyTransfer, Becomes
<1>3. AccountIn(cache, a).balance \in Nat  BY AccountInMap
<1> DEFINE left == AccountIn(cache, a).balance - amount
<1>4. /\ s1.map \in Maps /\ AccountIn(s1.map, a).balance = left
      /\ \A c \in Accounts : c # a => AccountIn(s1.map, c) = AccountIn(cache, c)
  <2>1. left \in Nat /\ left = AccountIn(State.map, a).balance + (-amount)  BY <1>1, <1>2, <1>3
  <2>2. State.map \in Maps  BY <1>2
  <2>. HIDE DEF left
  <2>3. left \in Int /\ ~(left < 0)  BY <2>1
  <2>. QED  BY <1>1, <1>2, <2>1, <2>2, <2>3, BalancedIs
<1>. HIDE DEF s1
<1>5. AccountIn(s1.map, b).balance \in Nat  BY <1>4, AccountInMap
<1> DEFINE paid == AccountIn(s1.map, b).balance + amount
<1>6. /\ s2.map \in Maps /\ AccountIn(s2.map, b).balance = paid
      /\ \A c \in Accounts : c # b => AccountIn(s2.map, c) = AccountIn(s1.map, c)
  <2>1. paid \in Nat  BY <1>1, <1>5
  <2>. HIDE DEF paid
  <2>2. paid \in Int /\ ~(paid < 0) /\ amount \in Int  BY <1>1, <2>1
  <2>3. paid = AccountIn(s1.map, b).balance + amount  BY DEF paid
  <2>. QED  BY <1>4, <2>2, <2>3, BalancedIs
<1>. HIDE DEF s2
<1>7. s3.map \in Maps /\ \A c \in Accounts : AccountIn(s3.map, c).balance = AccountIn(s2.map, c).balance
  BY <1>6, CountedIs
<1>. HIDE DEF s3
<1>8. Total(cache) \in Nat /\ Total(s1.map) = Total(cache) - amount
  <2>1. /\ Total(cache) \in Nat
        /\ Total(s1.map) = Total(cache) + AccountIn(s1.map, a).balance - AccountIn(cache, a).balance
    BY <1>4, TotalMoves
  <2>. QED  BY <1>1, <1>3, <1>4, <2>1
<1>9. Total(s1.map) \in Nat /\ Total(s2.map) = Total(s1.map) + amount
  <2>1. /\ Total(s1.map) \in Nat
        /\ Total(s2.map) = Total(s1.map) + AccountIn(s2.map, b).balance - AccountIn(s1.map, b).balance
    BY <1>4, <1>6, TotalMoves
  <2>. QED  BY <1>1, <1>5, <1>6, <2>1
<1>10. Total(s3.map) = Total(s2.map)
  <2>1. /\ Total(s2.map) \in Nat
        /\ Total(s3.map) = Total(s2.map) + AccountIn(s3.map, a).balance - AccountIn(s2.map, a).balance
    BY <1>6, <1>7, TotalMoves
  <2>2. AccountIn(s2.map, a).balance \in Nat  BY <1>6, AccountInMap
  <2>. QED  BY <1>7, <2>1, <2>2
<1>. QED  BY <1>1, <1>2, <1>8, <1>9, <1>10

CacheOk == cache \in Maps

(* The cache is a map of accounts in every state. *)
LEMMA CacheIsMap == TrieSpec => []CacheOk
<1>1. TrieInit => CacheOk
  <2>1. SUFFICES ASSUME TrieInit PROVE cache \in Maps  BY DEF CacheOk
  <2>2. cache \in [{} -> Account]  BY <2>1 DEF TrieInit
  <2>. QED  BY <2>2 DEF Maps
<1>2. CacheOk /\ [TrieNext]_trieVars => CacheOk'
  <2>1. SUFFICES ASSUME cache \in Maps, [TrieNext]_trieVars PROVE cache' \in Maps  BY DEF CacheOk
  <2>2. State.map = cache  BY DEF State
  <2>3. CASE UNCHANGED trieVars  BY <2>1, <2>3 DEF trieVars
  <2>4. CASE TrieNext
    <3>1. PICK a \in Accounts :
            \/ \E delta \in -MaxAmount .. MaxAmount : UpdateBalance(a, delta)
            \/ IncrementNonce(a) \/ SetContractCode(a) \/ Delete(a)
            \/ \E b \in Accounts, amount \in 0 .. MaxAmount : ApplyTransfer(a, b, amount)
      BY <2>4 DEF TrieNext
    <3>2. AccountIn(cache, a) \in Account /\ AccountIn(cache, a).balance \in Nat
      BY <2>1, AccountInMap
    <3>3. CASE \E delta \in -MaxAmount .. MaxAmount : UpdateBalance(a, delta)
      <4>1. PICK delta \in -MaxAmount .. MaxAmount : UpdateBalance(a, delta)  BY <3>3
      <4>2. delta \in Int  OBVIOUS
      <4>3. cache' = Balanced(State, a, delta).map  BY <4>1 DEF UpdateBalance, Becomes
      <4>. QED  BY <2>1, <2>2, <4>2, <4>3, BalancedInMaps
    <3>4. CASE IncrementNonce(a)
      <4>1. cache' = Counted(State, a).map  BY <3>4 DEF IncrementNonce, Becomes
      <4>. QED  BY <2>1, <2>2, <4>1, CountedIs
    <3>5. CASE SetContractCode(a)
      <4> DEFINE new == [AccountIn(cache, a) EXCEPT !.code = TRUE]
      <4>1. new \in Account  BY <3>2 DEF Account
      <4>2. cache' = PutIn(State, a, new).map  BY <3>5 DEF SetContractCode, Becomes
      <4>. HIDE DEF new
      <4>. QED  BY <2>1, <2>2, <4>1, <4>2, PutIs
    <3>6. CASE Delete(a)
      <4>1. PICK A \in SUBSET Accounts : cache \in [A -> Account]  BY <2>1 DEF Maps
      <4>2. cache' = [b \in A \ {a} |-> cache[b]]  BY <3>6, <4>1 DEF Delete
      <4>3. A \ {a} \in SUBSET Accounts /\ cache' \in [A \ {a} -> Account]  BY <4>1, <4>2
      <4>. QED  BY <4>3 DEF Maps
    <3>7. CASE \E b \in Accounts, amount \in 0 .. MaxAmount : ApplyTransfer(a, b, amount)
      <4>1. PICK b \in Accounts, amount \in 0 .. MaxAmount : ApplyTransfer(a, b, amount)  BY <3>7
      <4> DEFINE s1 == Balanced(State, a, -amount)
                 s2 == Balanced(s1, b, amount)
      <4>2. amount \in Int /\ -amount \in Int  OBVIOUS
      <4>3. cache' = Counted(s2, a).map  BY <4>1 DEF ApplyTransfer, Becomes
      <4>4. s1.map \in Maps  BY <2>1, <2>2, <4>2, BalancedInMaps
      <4>. HIDE DEF s1
      <4>5. s2.map \in Maps  BY <4>2, <4>4, BalancedInMaps
      <4>. HIDE DEF s2
      <4>. QED  BY <4>3, <4>5, CountedIs
    <3>. QED  BY <3>1, <3>3, <3>4, <3>5, <3>6, <3>7
  <2>. QED  BY <2>1, <2>3, <2>4
<1>. QED  BY <1>1, <1>2, PTL DEF TrieSpec

(* A transfer moves balance and makes none, with any accounts, paths and   *)
(* bounds, also from an account to itself (state_trie.py:316).             *)
THEOREM TransfersAlwaysConserve == TrieSpec => TransfersConserve
<1> DEFINE Conserves ==
      Total(cache') # Total(cache) =>
        \A a, b \in Accounts, amount \in 0 .. MaxAmount : ~ApplyTransfer(a, b, amount)
<1>1. CacheOk /\ [TrieNext]_trieVars => [Conserves]_trieVars
  <2>1. CacheOk => Conserves  BY TransferKeepsTotal DEF CacheOk
  <2>. QED  BY <2>1
<1>. QED  BY <1>1, CacheIsMap, PTL DEF TrieSpec, TransfersConserve

----------------------------------------------------------------------------
(* Paths *)

Paths(k) == [1 .. k -> Nibble]

StartsWith(p, e) == \A i \in 1 .. Len(e) : p[i] = e[i]

(* A path is a sequence of nibbles of its length. *)
LEMMA PathIs ==
  ASSUME NEW k \in Nat, NEW p
  PROVE  p \in Paths(k) <=> p \in Seq(Nibble) /\ Len(p) = k
<1>1. ASSUME p \in Paths(k) PROVE p \in Seq(Nibble) /\ Len(p) = k  BY <1>1 DEF Paths
<1>2. ASSUME p \in Seq(Nibble), Len(p) = k PROVE p \in Paths(k)  BY <1>2 DEF Paths
<1>. QED  BY <1>1, <1>2

(* The two parts of a path. *)
LEMMA PathParts ==
  ASSUME NEW k \in Nat, NEW p \in Paths(k), NEW n \in 0 .. k
  PROVE  /\ From(p, n) \in Paths(k - n) /\ Len(From(p, n)) = k - n
         /\ \A i \in 1 .. k - n : From(p, n)[i] = p[n + i]
         /\ Upto(p, n) \in Paths(n) /\ Len(Upto(p, n)) = n
         /\ \A i \in 1 .. n : Upto(p, n)[i] = p[i]
<1>1. p \in Seq(Nibble) /\ Len(p) = k  BY PathIs
<1>2. /\ From(p, n) \in Seq(Nibble) /\ Len(From(p, n)) = k - n
      /\ \A i \in 1 .. k - n : From(p, n)[i] = p[n + i]
  BY <1>1 DEF From
<1>3. /\ Upto(p, n) \in Seq(Nibble) /\ Len(Upto(p, n)) = n
      /\ \A i \in 1 .. n : Upto(p, n)[i] = p[i]
  BY <1>1 DEF Upto
<1>. QED  BY <1>2, <1>3, PathIs

(* A prefix of a path is a path. *)
LEMMA UptoIs ==
  \A k \in Nat : \A p \in Paths(k), n \in 0 .. k :
    Upto(p, n) \in Paths(n) /\ Len(Upto(p, n)) = n /\ \A i \in 1 .. n : Upto(p, n)[i] = p[i]
BY PathParts

(* Paths with the same nibbles are the same. *)
LEMMA PathEqual ==
  ASSUME NEW k \in Nat, NEW p \in Paths(k), NEW q \in Paths(k), \A i \in 1 .. k : p[i] = q[i]
  PROVE  p = q
BY DEF Paths

(* What follows the first nibble of a path is a path. *)
LEMMA PathTail ==
  ASSUME NEW k \in Nat \ {0}, NEW p \in Paths(k)
  PROVE  /\ p # << >> /\ p[1] \in Nibble
         /\ Tail(p) = From(p, 1) /\ Tail(p) \in Paths(k - 1) /\ Len(Tail(p)) = k - 1
         /\ \A i \in 1 .. k - 1 : Tail(p)[i] = p[i + 1]
<1>1. p \in Seq(Nibble) /\ Len(p) = k /\ p # << >>  BY PathIs
<1>2. Tail(p) = From(p, 1)  BY <1>1, TailIsSubSeq DEF From
<1>3. p[1] \in Nibble  BY DEF Paths
<1>4. /\ From(p, 1) \in Paths(k - 1) /\ Len(From(p, 1)) = k - 1
      /\ \A i \in 1 .. k - 1 : From(p, 1)[i] = p[1 + i]
  BY PathParts
<1>5. \A i \in 1 .. k - 1 : From(p, 1)[i] = p[i + 1]  BY <1>4
<1>. QED  BY <1>1, <1>2, <1>3, <1>4, <1>5

(* Parts of parts. *)
LEMMA PathFrom ==
  ASSUME NEW k \in Nat, NEW p \in Paths(k)
  PROVE  /\ From(p, 0) = p
         /\ \A n \in 0 .. k : \A m \in 0 .. k - n : From(From(p, n), m) = From(p, n + m)
<1>1. From(p, 0) = p
  <2>1. From(p, 0) \in Paths(k) /\ \A i \in 1 .. k : From(p, 0)[i] = p[i]  BY PathParts
  <2>. QED  BY <2>1, PathEqual
<1>2. ASSUME NEW n \in 0 .. k, NEW m \in 0 .. k - n
      PROVE  From(From(p, n), m) = From(p, n + m)
  <2>a. k - n \in Nat /\ n + m \in 0 .. k /\ k - (n + m) = k - n - m /\ k - n - m \in Nat
    OBVIOUS
  <2>1. /\ From(p, n) \in Paths(k - n)
        /\ \A i \in 1 .. k - n : From(p, n)[i] = p[n + i]
    BY PathParts
  <2>2. /\ From(From(p, n), m) \in Paths(k - n - m)
        /\ \A i \in 1 .. k - n - m : From(From(p, n), m)[i] = From(p, n)[m + i]
    BY <2>a, <2>1, PathParts
  <2>3. /\ From(p, n + m) \in Paths(k - (n + m))
        /\ \A i \in 1 .. k - (n + m) : From(p, n + m)[i] = p[(n + m) + i]
    BY <2>a, PathParts
  <2>4. \A i \in 1 .. k - n - m : From(From(p, n), m)[i] = From(p, n + m)[i]
    BY <2>a, <2>1, <2>2, <2>3
  <2>. QED  BY <2>a, <2>2, <2>3, <2>4, PathEqual
<1>. QED  BY <1>1, <1>2

(* Two paths are equal if they are so up to a nibble, at it and behind it. *)
LEMMA PathSplit ==
  ASSUME NEW k \in Nat, NEW p \in Paths(k), NEW q \in Paths(k), NEW m \in 0 .. k - 1
  PROVE  q = p <=> /\ StartsWith(q, Upto(p, m)) /\ q[m + 1] = p[m + 1]
                   /\ From(q, m + 1) = From(p, m + 1)
<1>a. m \in 0 .. k /\ m + 1 \in 0 .. k  OBVIOUS
<1>b. Len(Upto(p, m)) = m /\ \A i \in 1 .. m : Upto(p, m)[i] = p[i]  BY <1>a, UptoIs
<1>c. \A i \in 1 .. k - (m + 1) : /\ From(p, m + 1)[i] = p[m + 1 + i]
                                 /\ From(q, m + 1)[i] = q[m + 1 + i]
  BY <1>a, PathParts
<1>1. /\ Len(Upto(p, m)) = m /\ \A i \in 1 .. m : Upto(p, m)[i] = p[i]
      /\ \A i \in 1 .. k - (m + 1) : /\ From(p, m + 1)[i] = p[m + 1 + i]
                                     /\ From(q, m + 1)[i] = q[m + 1 + i]
  BY <1>b, <1>c
<1>2. ASSUME StartsWith(q, Upto(p, m)), q[m + 1] = p[m + 1], From(q, m + 1) = From(p, m + 1)
      PROVE  q = p
  <2>1. ASSUME NEW i \in 1 .. k PROVE q[i] = p[i]
    <3>1. CASE i \in 1 .. m  BY <1>1, <1>2, <3>1 DEF StartsWith
    <3>2. CASE i = m + 1  BY <1>2, <3>2
    <3>3. CASE i > m + 1
      <4>1. i - (m + 1) \in 1 .. k - (m + 1) /\ m + 1 + (i - (m + 1)) = i  BY <3>3
      <4>. QED  BY <1>1, <1>2, <4>1
    <3>. QED  BY <3>1, <3>2, <3>3
  <2>. QED  BY <2>1, PathEqual
<1>3. ASSUME q = p PROVE StartsWith(q, Upto(p, m))  BY <1>1, <1>3 DEF StartsWith
<1>. QED  BY <1>2, <1>3

(* How far two paths go together. *)
LEMMA CommonPrefix ==
  ASSUME NEW j \in Nat, NEW e \in Paths(j), NEW k \in Nat, NEW p \in Paths(k)
  PROVE  LET n == CommonPrefixLength(e, p)
         IN  /\ n \in 0 .. j /\ n \in 0 .. k
             /\ \A i \in 1 .. n : e[i] = p[i]
             /\ n < j /\ n < k => e[n + 1] # p[n + 1]
             /\ n = j <=> j <= k /\ StartsWith(p, e)
<1> DEFINE length == IF j < k THEN j ELSE k
           S == {i \in 0 .. length : i = length \/ e[i + 1] # p[i + 1]}
           n == CommonPrefixLength(e, p)
<1>1. Len(e) = j /\ Len(p) = k  BY PathIs
<1>2. n = Min(S)  BY <1>1 DEF CommonPrefixLength
<1>3. S \in SUBSET Nat /\ length \in S  OBVIOUS
<1>4. n \in S /\ \A y \in S : n <= y  BY <1>2, <1>3, MinInSet
<1>. HIDE DEF n
<1>5. ASSUME NEW i \in 1 .. n PROVE e[i] = p[i]
  <2>1. i - 1 \in 0 .. length /\ i - 1 # length /\ ~(n <= i - 1) /\ (i - 1) + 1 = i  BY <1>4
  <2>2. i - 1 \notin S  BY <1>4, <2>1
  <2>. QED  BY <2>1, <2>2
<1>6. n \in 0 .. j /\ n \in 0 .. k /\ n \in 0 .. length  BY <1>4
<1>7. n < j /\ n < k => e[n + 1] # p[n + 1]  BY <1>4
<1>8. ASSUME n = j PROVE j <= k /\ StartsWith(p, e)  BY <1>1, <1>5, <1>6, <1>8 DEF StartsWith
<1>9. ASSUME j <= k, StartsWith(p, e) PROVE n = j
  <2>1. \A i \in 1 .. j : p[i] = e[i]  BY <1>1, <1>9 DEF StartsWith
  <2>2. ~(n < j)
    <3>. SUFFICES ASSUME n < j PROVE FALSE  OBVIOUS
    <3>1. n < k /\ n + 1 \in 1 .. j  BY <1>6, <1>9
    <3>. QED  BY <1>7, <2>1, <3>1
  <2>. QED  BY <1>6, <2>2
<1>. HIDE DEF S, length
<1>. QED  BY <1>5, <1>6, <1>7, <1>8, <1>9 DEF n

----------------------------------------------------------------------------
(* Tries *)

Several(children) == \E i, j \in Nibble : i # j /\ children[i] # Null /\ children[j] # Null

(* The tries below which paths of k nibbles end, from those for shorter    *)
(* paths; reduced ones have no branch with a single child and extensions   *)
(* above branches only.                                                    *)
Nodes(T, k, reduced) ==
  {Null} \cup {LeafNode(p, v) : p \in Paths(k), v \in Account}
    \cup (IF k = 0 THEN {}
          ELSE {Branch(ch, Null) : ch \in {f \in [Nibble -> T[k - 1]] : reduced => Several(f)}})
    \cup UNION {{Extension(e, c) : e \in Paths(j),
                                   c \in {d \in T[k - j] : d # Null /\ (reduced => IsBranch(d))}}
                  : j \in 1 .. k}

IsTries(T, n, reduced) == \A k \in 0 .. n : T[k] = Nodes(T, k, reduced)

(* The tries of a length depend on the shorter ones only. *)
LEMMA NodesSame ==
  ASSUME NEW k \in Nat, NEW T, NEW U, \A j \in 0 .. k - 1 : T[j] = U[j], NEW reduced
  PROVE  Nodes(T, k, reduced) = Nodes(U, k, reduced)
<1> DEFINE Some(W, j) == {d \in W[k - j] : d # Null /\ (reduced => IsBranch(d))}
           Ext(W, j) == {Extension(e, c) : e \in Paths(j), c \in Some(W, j)}
           Whole(W) == {f \in [Nibble -> W[k - 1]] : reduced => Several(f)}
           Br(W) == IF k = 0 THEN {} ELSE {Branch(ch, Null) : ch \in Whole(W)}
<1>1. \A j \in 1 .. k : k - j \in 0 .. k - 1  OBVIOUS
<1>2. \A j \in 1 .. k : T[k - j] = U[k - j]  BY <1>1
<1>3. \A j \in 1 .. k : Some(T, j) = Some(U, j)  BY <1>2
<1>. HIDE DEF Some
<1>4. \A j \in 1 .. k : Ext(T, j) = Ext(U, j)  BY <1>3
<1>. HIDE DEF Ext
<1>5. {Ext(T, j) : j \in 1 .. k} = {Ext(U, j) : j \in 1 .. k}  BY <1>4
<1>6. Br(T) = Br(U)
  <2>1. CASE k = 0  BY <2>1
  <2>2. CASE k # 0
    <3>1. k - 1 \in 0 .. k - 1  BY <2>2
    <3>2. T[k - 1] = U[k - 1]  BY <3>1
    <3>3. Whole(T) = Whole(U)  BY <3>2
    <3>. QED  BY <3>3
  <2>. QED  BY <2>1, <2>2
<1>7. \A W : Nodes(W, k, reduced) =
          {Null} \cup {LeafNode(p, v) : p \in Paths(k), v \in Account}
            \cup Br(W) \cup UNION {Ext(W, j) : j \in 1 .. k}
  BY DEF Nodes, Ext, Some
<1>. HIDE DEF Br
<1>. QED  BY <1>5, <1>6, <1>7

(* Such sets exist. *)
LEMMA TriesExist ==
  ASSUME NEW n \in Nat, NEW reduced
  PROVE  \E T : IsTries(T, n, reduced)
<1> DEFINE P == {k \in Nat : \E T : IsTries(T, k, reduced)}
<1>1. 0 \in P
  <2> DEFINE none == [i \in {} |-> {}]
             T == [i \in 0 .. 0 |-> Nodes(none, 0, reduced)]
  <2>1. \A j \in 0 .. 0 - 1 : T[j] = none[j]  OBVIOUS
  <2>2. T[0] = Nodes(none, 0, reduced)  OBVIOUS
  <2>. HIDE DEF T, none
  <2>3. Nodes(T, 0, reduced) = Nodes(none, 0, reduced)  BY <2>1, NodesSame
  <2>4. IsTries(T, 0, reduced)  BY <2>2, <2>3 DEF IsTries
  <2>. QED  BY <2>4
<1>2. ASSUME NEW i \in 1 .. n, i - 1 \in P PROVE i \in P
  <2>1. PICK U : IsTries(U, i - 1, reduced)  BY <1>2
  <2> DEFINE T == [k \in 0 .. i |-> IF k = i THEN Nodes(U, i, reduced) ELSE U[k]]
  <2>2. i \in Nat /\ \A j \in 0 .. i - 1 : T[j] = U[j]  OBVIOUS
  <2>3. T[i] = Nodes(U, i, reduced)  OBVIOUS
  <2>. HIDE DEF T
  <2>4. \A k \in 0 .. i : Nodes(T, k, reduced) = Nodes(U, k, reduced)
    <3>. TAKE k \in 0 .. i
    <3>1. k \in Nat /\ \A j \in 0 .. k - 1 : T[j] = U[j]  BY <2>2
    <3>. QED  BY <3>1, NodesSame
  <2>5. ASSUME NEW k \in 0 .. i PROVE T[k] = Nodes(T, k, reduced)
    <3>1. CASE k = i  BY <2>3, <2>4, <3>1
    <3>2. CASE k # i
      <4>1. k \in 0 .. i - 1  BY <3>2
      <4>. QED  BY <2>1, <2>2, <2>4, <4>1 DEF IsTries
    <3>. QED  BY <3>1, <3>2
  <2>6. IsTries(T, i, reduced)  BY <2>5 DEF IsTries
  <2>. QED  BY <2>2, <2>6
<1>. HIDE DEF P
<1>3. n \in P
  <2>1. \A i \in 1 .. n : i - 1 \in P => i \in P  BY <1>2
  <2>2. \A i \in 0 .. n : i \in P  BY <1>1, <2>1, InductTo
  <2>. QED  BY <2>2
<1>. QED  BY <1>3 DEF P

(* The four kinds of nodes. *)
LeafOf(k, node) == \E p \in Paths(k), v \in Account : node = LeafNode(p, v)
BranchOf(T, k, reduced, node) ==
  k > 0 /\ \E ch \in [Nibble -> T[k - 1]] : (reduced => Several(ch)) /\ node = Branch(ch, Null)
ExtensionOf(T, k, reduced, node) ==
  \E j \in 1 .. k : \E e \in Paths(j), c \in T[k - j] :
    c # Null /\ (reduced => IsBranch(c)) /\ node = Extension(e, c)

(* A trie is nothing, a leaf, a branch or an extension. *)
LEMMA NodeIs ==
  ASSUME NEW n \in Nat, NEW T, NEW reduced, IsTries(T, n, reduced), NEW k \in 0 .. n, NEW node
  PROVE  node \in T[k] <=>
           \/ node = Null \/ LeafOf(k, node)
           \/ BranchOf(T, k, reduced, node) \/ ExtensionOf(T, k, reduced, node)
<1>1. T[k] = Nodes(T, k, reduced)  BY DEF IsTries
<1> DEFINE Br == IF k = 0 THEN {}
                 ELSE {Branch(ch, Null) : ch \in {f \in [Nibble -> T[k - 1]] : reduced => Several(f)}}
           Ext(j) == {Extension(e, c) : e \in Paths(j),
                                   c \in {d \in T[k - j] : d # Null /\ (reduced => IsBranch(d))}}
<1>2. node \in Br <=> BranchOf(T, k, reduced, node)  BY DEF BranchOf
<1>3. \A j : node \in Ext(j) <=>
        \E e \in Paths(j), c \in T[k - j] :
          c # Null /\ (reduced => IsBranch(c)) /\ node = Extension(e, c)
  OBVIOUS
<1>4. T[k] = {Null} \cup {LeafNode(p, v) : p \in Paths(k), v \in Account}
               \cup Br \cup UNION {Ext(j) : j \in 1 .. k}
  BY <1>1 DEF Nodes
<1>. HIDE DEF Br, Ext
<1>5. node \in UNION {Ext(j) : j \in 1 .. k} <=> ExtensionOf(T, k, reduced, node)
  BY <1>3 DEF ExtensionOf
<1>6. node \in {LeafNode(p, v) : p \in Paths(k), v \in Account} <=> LeafOf(k, node)
  BY DEF LeafOf
<1>. QED  BY <1>2, <1>4, <1>5, <1>6

(* What tells the kinds apart. *)
LEMMA Kinds ==
  /\ ~IsBranch(Null) /\ ~IsExtension(Null)
  /\ \A p, v : /\ LeafNode(p, v) # Null /\ LeafNode(p, v)[1] = "leaf"
               /\ LeafNode(p, v)[2] = p /\ LeafNode(p, v)[3] = v
               /\ ~IsBranch(LeafNode(p, v)) /\ ~IsExtension(LeafNode(p, v))
  /\ \A p, v : /\ Branch(p, v) # Null /\ Branch(p, v)[1] = "branch"
               /\ Branch(p, v)[2] = p /\ Branch(p, v)[3] = v
               /\ IsBranch(Branch(p, v)) /\ ~IsExtension(Branch(p, v))
  /\ \A p, v : /\ Extension(p, v) # Null /\ Extension(p, v)[1] = "extension"
               /\ Extension(p, v)[2] = p /\ Extension(p, v)[3] = v
               /\ ~IsBranch(Extension(p, v)) /\ IsExtension(Extension(p, v))
BY DEF Null, LeafNode, Branch, Extension, IsBranch, IsExtension

----------------------------------------------------------------------------
(* Walks *)

CallOf(node, path) == [node |-> node, path |-> path]
NextCall(c) == IF Descends(c) THEN Inner(c) ELSE c

(* The nested calls. *)
LEMMA CallsAre ==
  ASSUME NEW node, NEW path \in Seq(Nibble)
  PROVE  /\ Calls(node, path)[0] = CallOf(node, path)
         /\ \A k \in 1 .. Len(path) : Calls(node, path)[k] = NextCall(Calls(node, path)[k - 1])
<1> DEFINE n == Len(path)
           Run(m, f) == f = [k \in 0 .. m |-> IF k = 0 THEN CallOf(node, path) ELSE NextCall(f[k - 1])]
           P == {m \in Nat : \E f : Run(m, f)}
<1>0. n \in Nat  OBVIOUS
<1>. HIDE DEF n
<1>1. 0 \in P
  <2>1. Run(0, [k \in 0 .. 0 |-> CallOf(node, path)])  OBVIOUS
  <2>. QED  BY <2>1
<1>2. ASSUME NEW i \in 1 .. n, i - 1 \in P PROVE i \in P
  <2>1. PICK f : Run(i - 1, f)  BY <1>2
  <2> DEFINE g == [k \in 0 .. i |-> IF k = i THEN NextCall(f[i - 1]) ELSE f[k]]
  <2>2. \A k \in 0 .. i - 1 : f[k] = IF k = 0 THEN CallOf(node, path) ELSE NextCall(f[k - 1])
    BY <2>1
  <2>3. ASSUME NEW k \in 0 .. i
        PROVE  g[k] = IF k = 0 THEN CallOf(node, path) ELSE NextCall(g[k - 1])
    <3>1. CASE k = i
      <4>1. k # 0 /\ k - 1 \in 0 .. i /\ k - 1 # i  BY <3>1
      <4>. QED  BY <3>1, <4>1
    <3>2. CASE k # i
      <4>1. k \in 0 .. i - 1  BY <3>2
      <4>2. CASE k = 0  BY <2>2, <3>2, <4>1, <4>2
      <4>3. CASE k # 0
        <5>1. k - 1 \in 0 .. i /\ k - 1 # i  BY <4>1, <4>3
        <5>. QED  BY <2>2, <3>2, <4>1, <4>3, <5>1
      <4>. QED  BY <4>2, <4>3
    <3>. QED  BY <3>1, <3>2
  <2>4. g = [k \in 0 .. i |-> g[k]]  OBVIOUS
  <2>. HIDE DEF g
  <2>5. Run(i, g)  BY <2>3, <2>4
  <2>. QED  BY <2>5
<1>3. n \in P
  <2>. HIDE DEF P
  <2>1. \A i \in 1 .. n : i - 1 \in P => i \in P  BY <1>2
  <2>2. \A i \in 0 .. n : i \in P  BY <1>0, <1>1, <2>1, InductTo
  <2>. QED  BY <1>0, <2>2
<1>4. \E f : Run(n, f)
  <2>. HIDE DEF Run
  <2>. QED  BY <1>3
<1>5. Calls(node, path) = CHOOSE f : Run(n, f)
  BY DEF Calls, NextCall, CallOf, n
<1>6. Run(n, Calls(node, path))
  <2>. HIDE DEF Run
  <2>. QED  BY <1>4, <1>5
<1>7. \A k \in 0 .. n : Calls(node, path)[k] =
        IF k = 0 THEN CallOf(node, path) ELSE NextCall(Calls(node, path)[k - 1])
  BY <1>6
<1>. QED  BY <1>0, <1>7 DEF n

(* From the second call on they are those of the second call. *)
LEMMA CallsShift ==
  ASSUME NEW node, NEW path \in Seq(Nibble), Descends(CallOf(node, path)),
         NEW child, NEW rest \in Seq(Nibble), Inner(CallOf(node, path)) = CallOf(child, rest),
         Len(rest) < Len(path)
  PROVE  \A k \in 0 .. Len(rest) : Calls(child, rest)[k] = Calls(node, path)[k + 1]
<1> DEFINE P == {k \in Nat : Calls(child, rest)[k] = Calls(node, path)[k + 1]}
<1>0. Len(rest) \in Nat /\ Len(path) \in Nat  OBVIOUS
<1>1. 0 \in P
  <2>1. Calls(node, path)[0] = CallOf(node, path)
        /\ \A k \in 1 .. Len(path) : Calls(node, path)[k] = NextCall(Calls(node, path)[k - 1])
    BY CallsAre
  <2>2. 1 \in 1 .. Len(path) /\ 1 - 1 = 0 /\ 0 + 1 = 1  BY <1>0
  <2>3. Calls(node, path)[1] = CallOf(child, rest)  BY <2>1, <2>2 DEF NextCall
  <2>4. Calls(child, rest)[0] = CallOf(child, rest)  BY CallsAre
  <2>. QED  BY <2>2, <2>3, <2>4
<1>2. ASSUME NEW k \in 1 .. Len(rest), k - 1 \in P PROVE k \in P
  <2>1. /\ \A i \in 1 .. Len(path) : Calls(node, path)[i] = NextCall(Calls(node, path)[i - 1])
        /\ \A i \in 1 .. Len(rest) : Calls(child, rest)[i] = NextCall(Calls(child, rest)[i - 1])
    BY CallsAre
  <2>2. k \in Nat /\ k + 1 \in 1 .. Len(path) /\ (k - 1) + 1 = k /\ (k + 1) - 1 = k  BY <1>0
  <2>3. Calls(child, rest)[k - 1] = Calls(node, path)[k]  BY <1>2, <2>2
  <2>4. Calls(child, rest)[k] = Calls(node, path)[k + 1]  BY <2>1, <2>2, <2>3
  <2>. QED  BY <2>2, <2>4
<1>. HIDE DEF P
<1>3. \A k \in 1 .. Len(rest) : k - 1 \in P => k \in P  BY <1>2
<1>4. \A k \in 0 .. Len(rest) : k \in P  BY <1>0, <1>1, <1>3, InductTo
<1>. QED  BY <1>4 DEF P

(* A call that answers by itself is the last. *)
LEMMA CallsStay ==
  ASSUME NEW node, NEW path \in Seq(Nibble), NEW m \in 0 .. Len(path),
         ~Descends(Calls(node, path)[m])
  PROVE  \A k \in m .. Len(path) : Calls(node, path)[k] = Calls(node, path)[m]
<1> DEFINE P == {k \in Nat : k >= m => Calls(node, path)[k] = Calls(node, path)[m]}
<1>0. Len(path) \in Nat /\ m \in Nat  OBVIOUS
<1>1. 0 \in P  BY <1>0
<1>2. ASSUME NEW k \in 1 .. Len(path), k - 1 \in P PROVE k \in P
  <2>1. Calls(node, path)[k] = NextCall(Calls(node, path)[k - 1])  BY CallsAre
  <2>2. CASE k > m
    <3>1. k - 1 >= m  BY <1>0, <2>2
    <3>2. Calls(node, path)[k - 1] = Calls(node, path)[m]  BY <1>2, <3>1
    <3>. QED  BY <2>1, <3>2 DEF NextCall
  <2>3. CASE ~(k > m)
    <3>1. k >= m => k = m  BY <1>0, <2>3
    <3>. QED  BY <3>1
  <2>. QED  BY <2>2, <2>3
<1>. HIDE DEF P
<1>3. \A k \in 1 .. Len(path) : k - 1 \in P => k \in P  BY <1>2
<1>4. \A k \in 0 .. Len(path) : k \in P  BY <1>0, <1>1, <1>3, InductTo
<1>5. \A k \in m .. Len(path) : k \in 0 .. Len(path) /\ k >= m  BY <1>0
<1>. QED  BY <1>4, <1>5 DEF P

(* Which calls go on, and to what. *)
LEMMA StopsAt ==
  ASSUME NEW path
  PROVE  /\ ~Descends(CallOf(Null, path))
         /\ \A p, v : ~Descends(CallOf(LeafNode(p, v), path))
BY Kinds DEF Descends, CallOf

(* At a branch a call goes on to the child at the first nibble. *)
LEMMA BranchGoesOn ==
  ASSUME NEW k \in Nat \ {0}, NEW path \in Paths(k), NEW ch, NEW v
  PROVE  /\ Descends(CallOf(Branch(ch, v), path))
         /\ Inner(CallOf(Branch(ch, v), path)) = CallOf(ch[path[1]], Tail(path))
<1> DEFINE b == Branch(ch, v)
<1>1. path # << >>  BY PathTail
<1>2. IsBranch(b) /\ ~IsExtension(b) /\ b[2] = ch  BY Kinds
<1>. HIDE DEF b
<1>3. Descends(CallOf(b, path))  BY <1>1, <1>2 DEF Descends, CallOf
<1>4. Inner(CallOf(b, path)) = CallOf(ch[path[1]], Tail(path))  BY <1>2 DEF Inner, CallOf
<1>. QED  BY <1>3, <1>4 DEF b

(* At an extension it goes on below it if the path begins with the extension's. *)
LEMMA ExtensionGoesOn ==
  ASSUME NEW k \in Nat, NEW path \in Paths(k), NEW j \in Nat, NEW e \in Paths(j), NEW c
  PROVE  /\ Descends(CallOf(Extension(e, c), path)) <=> j <= k /\ StartsWith(path, e)
         /\ Inner(CallOf(Extension(e, c), path)) = CallOf(c, From(path, j))
<1>1. Len(e) = j  BY PathIs
<1>2. CommonPrefixLength(e, path) = j <=> j <= k /\ StartsWith(path, e)  BY CommonPrefix
<1>3. Descends(CallOf(Extension(e, c), path)) <=> CommonPrefixLength(e, path) = j
  BY <1>1, Kinds DEF Descends, CallOf
<1>4. Inner(CallOf(Extension(e, c), path)) = CallOf(c, From(path, j))
  BY <1>1, Kinds DEF Inner, CallOf
<1>. QED  BY <1>2, <1>3, <1>4

(* A call on a trie calls itself on a trie for shorter paths. *)
GoesTo(T, k, c) ==
  \E j \in 0 .. k - 1 : \E child \in T[j], rest \in Paths(j) : Inner(c) = CallOf(child, rest)

(* A call that goes on goes on in a trie of shorter paths. *)
LEMMA InnerGood ==
  ASSUME NEW n \in Nat, NEW T, NEW reduced, IsTries(T, n, reduced), NEW k \in 0 .. n,
         NEW node \in T[k], NEW path \in Paths(k), Descends(CallOf(node, path))
  PROVE  GoesTo(T, k, CallOf(node, path))
<1>1. \/ node = Null \/ LeafOf(k, node)
      \/ BranchOf(T, k, reduced, node) \/ ExtensionOf(T, k, reduced, node)
  BY NodeIs
<1>2. CASE node = Null  BY <1>2, StopsAt
<1>3. CASE LeafOf(k, node)  BY <1>3, StopsAt DEF LeafOf
<1>4. CASE BranchOf(T, k, reduced, node)
  <2>1. PICK ch \in [Nibble -> T[k - 1]] : node = Branch(ch, Null)  BY <1>4 DEF BranchOf
  <2>2. k \in Nat \ {0} /\ k - 1 \in 0 .. k - 1  BY <1>4 DEF BranchOf
  <2>3. Inner(CallOf(node, path)) = CallOf(ch[path[1]], Tail(path))  BY <2>1, <2>2, BranchGoesOn
  <2>4. path[1] \in Nibble /\ Tail(path) \in Paths(k - 1)  BY <2>2, PathTail
  <2>. QED  BY <2>1, <2>2, <2>3, <2>4 DEF GoesTo
<1>5. CASE ExtensionOf(T, k, reduced, node)
  <2>1. PICK j \in 1 .. k : \E e \in Paths(j), c \in T[k - j] : node = Extension(e, c)
    BY <1>5 DEF ExtensionOf
  <2>2. PICK e \in Paths(j), c \in T[k - j] : node = Extension(e, c)  BY <2>1
  <2>3. j \in Nat /\ k \in Nat /\ j \in 0 .. k /\ k - j \in 0 .. k - 1  OBVIOUS
  <2>4. Inner(CallOf(node, path)) = CallOf(c, From(path, j))  BY <2>2, <2>3, ExtensionGoesOn
  <2>5. From(path, j) \in Paths(k - j)  BY <2>3, PathParts
  <2>. QED  BY <2>2, <2>3, <2>4, <2>5 DEF GoesTo
<1>. QED  BY <1>1, <1>2, <1>3, <1>4, <1>5

(* The last call answers by itself. *)
LEMMA WalkEnds ==
  ASSUME NEW n \in Nat, NEW T, NEW reduced, IsTries(T, n, reduced), NEW k \in 0 .. n,
         NEW node \in T[k], NEW path \in Paths(k)
  PROVE  ~Descends(Calls(node, path)[k])
<1> DEFINE call == Calls(node, path)
           Good(m) == \E i \in 0 .. k : \E child \in T[i], rest \in Paths(i) :
                         call[m] = CallOf(child, rest) /\ (i <= k - m \/ ~Descends(call[m]))
           P == {m \in Nat : Good(m)}
<1>0. path \in Seq(Nibble) /\ Len(path) = k /\ k \in Nat  BY PathIs
<1>1. call[0] = CallOf(node, path) /\ \A m \in 1 .. k : call[m] = NextCall(call[m - 1])
  BY <1>0, CallsAre
<1>. HIDE DEF call
<1>2. 0 \in P
  <2>1. k \in 0 .. k /\ k <= k - 0  BY <1>0
  <2>2. Good(0)  BY <1>1, <2>1
  <2>. QED  BY <2>2
<1>3. ASSUME NEW m \in 1 .. k, m - 1 \in P PROVE m \in P
  <2>1. PICK i \in 0 .. k : \E child \in T[i], rest \in Paths(i) :
          call[m - 1] = CallOf(child, rest) /\ (i <= k - (m - 1) \/ ~Descends(call[m - 1]))
    BY <1>3
  <2>2. PICK child \in T[i], rest \in Paths(i) :
          call[m - 1] = CallOf(child, rest) /\ (i <= k - (m - 1) \/ ~Descends(call[m - 1]))
    BY <2>1
  <2>3. call[m] = NextCall(call[m - 1])  BY <1>1
  <2>4. CASE ~Descends(call[m - 1])
    <3>1. call[m] = CallOf(child, rest) /\ ~Descends(call[m])  BY <2>2, <2>3, <2>4 DEF NextCall
    <3>2. Good(m)  BY <3>1
    <3>. QED  BY <3>2
  <2>5. CASE Descends(call[m - 1])
    <3>1. i \in 0 .. n /\ Descends(CallOf(child, rest))  BY <2>2, <2>5
    <3>2. PICK j \in 0 .. i - 1 : \E c \in T[j], r \in Paths(j) :
            Inner(CallOf(child, rest)) = CallOf(c, r)
      <4>. HIDE DEF P, Good
      <4>1. GoesTo(T, i, CallOf(child, rest))  BY <3>1, InnerGood
      <4>. QED  BY <4>1 DEF GoesTo
    <3>3. PICK c \in T[j], r \in Paths(j) : Inner(CallOf(child, rest)) = CallOf(c, r)  BY <3>2
    <3>4. call[m] = CallOf(c, r)  BY <2>2, <2>3, <2>5, <3>3 DEF NextCall
    <3>5. j \in 0 .. k /\ j <= k - m  BY <2>2, <2>5
    <3>6. Good(m)  BY <3>4, <3>5
    <3>. QED  BY <3>6
  <2>. QED  BY <2>4, <2>5
<1>4. k \in P
  <2>. HIDE DEF P
  <2>1. \A m \in 1 .. k : m - 1 \in P => m \in P  BY <1>3
  <2>2. \A m \in 0 .. k : m \in P  BY <1>0, <1>2, <2>1, InductTo
  <2>. QED  BY <1>0, <2>2
<1>5. PICK i \in 0 .. k : \E child \in T[i], rest \in Paths(i) :
        call[k] = CallOf(child, rest) /\ (i <= k - k \/ ~Descends(call[k]))
  BY <1>4
<1>6. PICK child \in T[i], rest \in Paths(i) :
        call[k] = CallOf(child, rest) /\ (i <= k - k \/ ~Descends(call[k]))
  BY <1>5
<1>7. CASE Descends(call[k])
  <2>1. i \in 0 .. n /\ Descends(CallOf(child, rest))  BY <1>6, <1>7
  <2>2. GoesTo(T, i, CallOf(child, rest))  BY <2>1, InnerGood
  <2>3. i <= 0  BY <1>0, <1>6, <1>7
  <2>. QED  BY <2>2, <2>3 DEF GoesTo
<1>. QED  BY <1>7 DEF call

(* What a call finds by itself. *)
Answer(c) ==
  CASE c.node = Null \/ IsExtension(c.node) -> Null
    [] IsBranch(c.node) -> IF c.node[3] = Null THEN Null ELSE <<c.node[3]>>
    [] OTHER -> IF c.node[2] = c.path THEN <<c.node[3]>> ELSE Null

(* Where a call stops, what it finds is its answer there. *)
LEMMA FoundHere ==
  ASSUME NEW node, NEW path \in Seq(Nibble), ~Descends(CallOf(node, path))
  PROVE  Found(node, path) = Answer(CallOf(node, path))
<1>1. Calls(node, path)[0] = CallOf(node, path)  BY CallsAre
<1>2. 0 \in 0 .. Len(path) /\ Len(path) \in 0 .. Len(path)  OBVIOUS
<1>3. Calls(node, path)[Len(path)] = CallOf(node, path)  BY <1>1, <1>2, CallsStay
<1>. QED  BY <1>3 DEF Found, Answer

(* Where it goes on, it finds what is found below. *)
LEMMA FoundBelow ==
  ASSUME NEW n \in Nat, NEW T, NEW reduced, IsTries(T, n, reduced), NEW k \in 0 .. n,
         NEW node, NEW path \in Paths(k), Descends(CallOf(node, path)),
         NEW j \in 0 .. k - 1, NEW child \in T[j], NEW rest \in Paths(j),
         Inner(CallOf(node, path)) = CallOf(child, rest)
  PROVE  Found(node, path) = Found(child, rest)
<1>1. /\ path \in Seq(Nibble) /\ Len(path) = k /\ rest \in Seq(Nibble) /\ Len(rest) = j
      /\ k \in Nat /\ j \in Nat /\ j < k
  BY PathIs
<1>2. Calls(child, rest)[j] = Calls(node, path)[j + 1]
  <2>1. \A m \in 0 .. Len(rest) : Calls(child, rest)[m] = Calls(node, path)[m + 1]
    BY <1>1, CallsShift
  <2>. QED  BY <1>1, <2>1
<1>3. ~Descends(Calls(node, path)[j + 1])
  <2>1. j \in 0 .. n  OBVIOUS
  <2>. QED  BY <1>2, <2>1, WalkEnds
<1>4. j + 1 \in 0 .. Len(path) /\ Len(path) \in j + 1 .. Len(path)  BY <1>1
<1>5. Calls(node, path)[Len(path)] = Calls(node, path)[j + 1]  BY <1>1, <1>3, <1>4, CallsStay
<1>. QED  BY <1>1, <1>2, <1>5 DEF Found

----------------------------------------------------------------------------
(* What put and delete return *)

(* A call returns this if the one it makes returns next. *)
Returned(op, c, value, next) ==
  IF op = "put" THEN IF Descends(c) THEN WithChild(c, next) ELSE InsertedHere(c, value)
  ELSE IF Descends(c) THEN WithoutChild(c, next) ELSE WithoutHere(c)

Results(op, n, call, value, f) == \A k \in 0 .. n : f[k] = Returned(op, call[k], value, f[k + 1])

AllResults(op, n, call, value, f) == f = [k \in 0 .. n |-> Returned(op, call[k], value, f[k + 1])]

Result(op, node, path, value) ==
  IF op = "put" THEN Inserted(node, path, value) ELSE Without(node, path)

(* What the innermost call returns does not depend on a further one. *)
LEMMA LastReturns ==
  \A op, c, value : ~Descends(c) => \A x, y : Returned(op, c, value, x) = Returned(op, c, value, y)
BY DEF Returned

(* The calls return, from the last on. *)
LEMMA ResultsExist ==
  ASSUME NEW op, NEW n \in Nat, NEW call, ~Descends(call[n]), NEW value
  PROVE  \E f : AllResults(op, n, call, value, f)
<1> DEFINE Back(m, g) == \A i \in 0 .. m : g[i] = Returned(op, call[n - i], value, g[i - 1])
           P == {m \in Nat : \E g : Back(m, g)}
<1>1. 0 \in P
  <2> DEFINE g == [i \in 0 .. 0 |-> Returned(op, call[n], value, Null)]
  <2>1. n - 0 = n /\ g[0] = Returned(op, call[n], value, Null)  OBVIOUS
  <2>. HIDE DEF g
  <2>2. Back(0, g)  BY <2>1, LastReturns
  <2>. QED  BY <2>2
<1>2. ASSUME NEW m \in 1 .. n, m - 1 \in P PROVE m \in P
  <2>1. PICK f : Back(m - 1, f)  BY <1>2
  <2> DEFINE new == Returned(op, call[n - m], value, f[m - 1])
             g == [i \in 0 .. m |-> IF i = m THEN new ELSE f[i]]
  <2>2. g[m] = new /\ \A i \in 0 .. m - 1 : g[i] = f[i]  OBVIOUS
  <2>3. m - 1 \in 0 .. m - 1  OBVIOUS
  <2>4. new = Returned(op, call[n - m], value, g[m - 1])  BY <2>2, <2>3
  <2>. HIDE DEF g, new
  <2>5. ASSUME NEW i \in 0 .. m PROVE g[i] = Returned(op, call[n - i], value, g[i - 1])
    <3>1. CASE i = m  BY <2>2, <2>4, <3>1
    <3>2. CASE i # m /\ i # 0
      <4>1. i \in 0 .. m - 1 /\ i - 1 \in 0 .. m - 1  BY <3>2
      <4>. QED  BY <2>1, <2>2, <4>1
    <3>3. CASE i = 0 /\ i # m
      <4>1. n - i = n /\ i \in 0 .. m - 1  BY <3>3
      <4>. QED  BY <2>1, <2>2, <4>1, LastReturns
    <3>. QED  BY <3>1, <3>2, <3>3
  <2>6. Back(m, g)  BY <2>5
  <2>. QED  BY <2>6
<1>3. n \in P
  <2>. HIDE DEF P
  <2>1. \A m \in 1 .. n : m - 1 \in P => m \in P  BY <1>2
  <2>2. \A m \in 0 .. n : m \in P  BY <1>1, <2>1, InductTo
  <2>. QED  BY <2>2
<1>4. PICK g : Back(n, g)  BY <1>3
<1> DEFINE f == [k \in 0 .. n |-> g[n - k]]
<1>5. ASSUME NEW k \in 0 .. n PROVE f[k] = Returned(op, call[k], value, f[k + 1])
  <2>1. n - k \in 0 .. n /\ n - (n - k) = k /\ f[k] = g[n - k]  OBVIOUS
  <2>2. f[k] = Returned(op, call[k], value, g[n - k - 1])  BY <1>4, <2>1
  <2>3. CASE k # n
    <3>1. k + 1 \in 0 .. n /\ n - (k + 1) = n - k - 1  BY <2>3
    <3>2. f[k + 1] = g[n - k - 1]  BY <3>1
    <3>. QED  BY <2>2, <3>2
  <2>4. CASE k = n  BY <2>2, <2>4, LastReturns
  <2>. QED  BY <2>3, <2>4
<1>6. f = [k \in 0 .. n |-> f[k]]  OBVIOUS
<1>. HIDE DEF f
<1>7. f = [k \in 0 .. n |-> Returned(op, call[k], value, f[k + 1])]  BY <1>5, <1>6
<1>. QED  BY <1>7 DEF AllResults

(* That is how _insert and _delete walk. *)
LEMMA ResultIs ==
  ASSUME NEW op \in {"put", "delete"}, NEW node, NEW path \in Seq(Nibble),
         ~Descends(Calls(node, path)[Len(path)]), NEW value
  PROVE  \E f : /\ Results(op, Len(path), Calls(node, path), value, f)
                /\ Result(op, node, path, value) = f[0]
<1> DEFINE n == Len(path)
           call == Calls(node, path)
           Run(f) == f = [k \in 0 .. n |-> Returned(op, call[k], value, f[k + 1])]
           result == CHOOSE f : Run(f)
<1>1. n \in Nat  OBVIOUS
<1>2. Result(op, node, path, value) = result[0]
  <2>1. CASE op = "put"
    <3>1. result = CHOOSE f : f = [k \in 0 .. n |-> IF Descends(call[k]) THEN WithChild(call[k], f[k + 1])
                                                    ELSE InsertedHere(call[k], value)]
      BY <2>1 DEF Returned
    <3>. HIDE DEF result
    <3>. QED  BY <2>1, <3>1 DEF Result, Inserted
  <2>2. CASE op # "put"
    <3>1. result = CHOOSE f : f = [k \in 0 .. n |-> IF Descends(call[k]) THEN WithoutChild(call[k], f[k + 1])
                                                    ELSE WithoutHere(call[k])]
      BY <2>2 DEF Returned
    <3>. HIDE DEF result
    <3>. QED  BY <2>2, <3>1 DEF Result, Without
  <2>. QED  BY <2>1, <2>2
<1>. HIDE DEF n, call
<1>3. ~Descends(call[n])  BY DEF call, n
<1>4. \E f : Run(f)
  <2>1. \E f : AllResults(op, n, call, value, f)  BY <1>1, <1>3, ResultsExist
  <2>2. \A f : AllResults(op, n, call, value, f) => Run(f)  BY DEF AllResults
  <2>. HIDE DEF Run
  <2>. QED  BY <2>1, <2>2
<1>5. Run(result)
  <2>. HIDE DEF Run
  <2>. QED  BY <1>4
<1>. HIDE DEF result
<1>6. Results(op, n, call, value, result)  BY <1>5 DEF Results
<1>. QED  BY <1>2, <1>6 DEF n, call

(* A call that calls itself makes something of what the nested one returns. *)
LEMMA ResultFurther ==
  ASSUME NEW op \in {"put", "delete"}, NEW n \in Nat, NEW T, NEW reduced, IsTries(T, n, reduced),
         NEW k \in 0 .. n, NEW node \in T[k], NEW path \in Paths(k), Descends(CallOf(node, path)),
         NEW j \in 0 .. k - 1, NEW child \in T[j], NEW rest \in Paths(j),
         Inner(CallOf(node, path)) = CallOf(child, rest), NEW value
  PROVE  Result(op, node, path, value) =
           Returned(op, CallOf(node, path), value, Result(op, child, rest, value))
<1> DEFINE outer == Calls(node, path)
           inner == Calls(child, rest)
<1>1. /\ path \in Seq(Nibble) /\ Len(path) = k /\ rest \in Seq(Nibble) /\ Len(rest) = j
      /\ k \in Nat /\ j \in Nat /\ j < k /\ j \in 0 .. n
  BY PathIs
<1>2. \A m \in 0 .. j : inner[m] = outer[m + 1]  BY <1>1, CallsShift
<1>3. outer[0] = CallOf(node, path)  BY <1>1, CallsAre
<1>4. ~Descends(outer[k])  BY WalkEnds
<1>5. ~Descends(inner[j])  BY <1>1, WalkEnds
<1>6. PICK f : Results(op, k, outer, value, f) /\ Result(op, node, path, value) = f[0]
  BY <1>1, <1>4, ResultIs
<1>7. PICK g : Results(op, j, inner, value, g) /\ Result(op, child, rest, value) = g[0]
  BY <1>1, <1>5, ResultIs
<1>. HIDE DEF inner, outer
<1> DEFINE P == {i \in Nat : g[j - i] = f[j - i + 1]}
<1>8. 0 \in P
  <2>1. j - 0 = j /\ j \in 0 .. j /\ j + 1 \in 0 .. k /\ 0 \in Nat  BY <1>1
  <2>2. g[j] = Returned(op, inner[j], value, g[j + 1])  BY <1>7, <2>1 DEF Results
  <2>3. f[j + 1] = Returned(op, outer[j + 1], value, f[j + 1 + 1])  BY <1>6, <2>1 DEF Results
  <2>4. g[j] = f[j + 1]  BY <1>2, <1>5, <2>1, <2>2, <2>3, LastReturns
  <2>. QED  BY <2>1, <2>4
<1>9. ASSUME NEW i \in 1 .. j, i - 1 \in P PROVE i \in P
  <2> DEFINE m == j - i
  <2>1. /\ m \in 0 .. j /\ m + 1 \in 0 .. k /\ j - (i - 1) = m + 1
        /\ j - (i - 1) + 1 = m + 1 + 1 /\ i \in Nat
    BY <1>1
  <2>2. g[m + 1] = f[m + 1 + 1]  BY <1>9, <2>1
  <2>. HIDE DEF m
  <2>3. g[m] = Returned(op, inner[m], value, g[m + 1])  BY <1>7, <2>1 DEF Results
  <2>4. f[m + 1] = Returned(op, outer[m + 1], value, f[m + 1 + 1])  BY <1>6, <2>1 DEF Results
  <2>5. inner[m] = outer[m + 1]  BY <1>2, <2>1
  <2>6. g[m] = f[m + 1]  BY <2>2, <2>3, <2>4, <2>5
  <2>. QED  BY <2>1, <2>6 DEF m
<1>10. j \in P
  <2>. HIDE DEF P
  <2>1. \A i \in 1 .. j : i - 1 \in P => i \in P  BY <1>9
  <2>2. \A i \in 0 .. j : i \in P  BY <1>1, <1>8, <2>1, InductTo
  <2>. QED  BY <1>1, <2>2
<1>11. g[0] = f[1]  BY <1>1, <1>10
<1>12. f[0] = Returned(op, outer[0], value, f[1])
  <2>1. 0 \in 0 .. k /\ 0 + 1 = 1  BY <1>1
  <2>. QED  BY <1>6, <2>1 DEF Results
<1>. QED  BY <1>3, <1>6, <1>7, <1>11, <1>12

(* A call that answers by itself. *)
LEMMA ResultAtOnce ==
  ASSUME NEW op \in {"put", "delete"}, NEW node, NEW path \in Seq(Nibble),
         ~Descends(CallOf(node, path)), NEW value
  PROVE  \E next : Result(op, node, path, value) = Returned(op, CallOf(node, path), value, next)
<1> DEFINE call == Calls(node, path)
<1>1. call[0] = CallOf(node, path)  BY CallsAre
<1>2. 0 \in 0 .. Len(path) /\ Len(path) \in 0 .. Len(path)  OBVIOUS
<1>3. call[Len(path)] = CallOf(node, path)  BY <1>1, <1>2, CallsStay
<1>4. PICK f : Results(op, Len(path), call, value, f) /\ Result(op, node, path, value) = f[0]
  BY <1>3, ResultIs
<1>. HIDE DEF call
<1>5. f[0] = Returned(op, call[0], value, f[0 + 1])  BY <1>2, <1>4 DEF Results
<1>. QED  BY <1>1, <1>4, <1>5

(* An insertion that goes on puts what comes back in the child's place. *)
LEMMA InsertedFurther ==
  ASSUME NEW n \in Nat, NEW T, NEW reduced, IsTries(T, n, reduced), NEW k \in 0 .. n,
         NEW node \in T[k], NEW path \in Paths(k), Descends(CallOf(node, path)),
         NEW j \in 0 .. k - 1, NEW child \in T[j], NEW rest \in Paths(j),
         Inner(CallOf(node, path)) = CallOf(child, rest), NEW value
  PROVE  Inserted(node, path, value) = WithChild(CallOf(node, path), Inserted(child, rest, value))
<1>1. Result("put", node, path, value) =
        Returned("put", CallOf(node, path), value, Result("put", child, rest, value))
  BY ResultFurther
<1>. QED  BY <1>1 DEF Result, Returned

(* So does a deletion, which then compacts. *)
LEMMA WithoutFurther ==
  ASSUME NEW n \in Nat, NEW T, NEW reduced, IsTries(T, n, reduced), NEW k \in 0 .. n,
         NEW node \in T[k], NEW path \in Paths(k), Descends(CallOf(node, path)),
         NEW j \in 0 .. k - 1, NEW child \in T[j], NEW rest \in Paths(j),
         Inner(CallOf(node, path)) = CallOf(child, rest)
  PROVE  Without(node, path) = WithoutChild(CallOf(node, path), Without(child, rest))
<1>1. PICK v : TRUE  OBVIOUS
<1>2. Result("delete", node, path, v) =
        Returned("delete", CallOf(node, path), v, Result("delete", child, rest, v))
  BY ResultFurther
<1>. QED  BY <1>2 DEF Result, Returned

(* An insertion that stops is decided by the node it has come to. *)
LEMMA InsertedAtOnce ==
  ASSUME NEW node, NEW path \in Seq(Nibble), ~Descends(CallOf(node, path)), NEW value
  PROVE  Inserted(node, path, value) = InsertedHere(CallOf(node, path), value)
<1>1. PICK next : Result("put", node, path, value) = Returned("put", CallOf(node, path), value, next)
  BY ResultAtOnce
<1>. QED  BY <1>1 DEF Result, Returned

(* So is a deletion. *)
LEMMA WithoutAtOnce ==
  ASSUME NEW node, NEW path \in Seq(Nibble), ~Descends(CallOf(node, path))
  PROVE  Without(node, path) = WithoutHere(CallOf(node, path))
<1>1. PICK next : Result("delete", node, path, Null) = Returned("delete", CallOf(node, path), Null, next)
  BY ResultAtOnce
<1>. QED  BY <1>1 DEF Result, Returned

----------------------------------------------------------------------------
(* What is found in a node of each kind *)

LEMMA FoundStops ==
  ASSUME NEW path \in Seq(Nibble)
  PROVE  /\ Found(Null, path) = Null
         /\ \A p, v : Found(LeafNode(p, v), path) = IF p = path THEN <<v>> ELSE Null
<1>1. Found(Null, path) = Null
  <2>1. Found(Null, path) = Answer(CallOf(Null, path))  BY StopsAt, FoundHere
  <2>2. ~IsBranch(Null)  BY Kinds
  <2>. QED  BY <2>1, <2>2 DEF Answer, CallOf
<1>2. ASSUME NEW p, NEW v
      PROVE  Found(LeafNode(p, v), path) = IF p = path THEN <<v>> ELSE Null
  <2> DEFINE node == LeafNode(p, v)
  <2>1. ~Descends(CallOf(node, path))  BY StopsAt
  <2>2. node # Null /\ ~IsBranch(node) /\ ~IsExtension(node) /\ node[2] = p /\ node[3] = v
    BY Kinds
  <2>. HIDE DEF node
  <2>3. Found(node, path) = Answer(CallOf(node, path))  BY <2>1, FoundHere
  <2>. QED  BY <2>2, <2>3 DEF Answer, CallOf, node
<1>. QED  BY <1>1, <1>2

(* What a branch holds on a path is what its child holds on the rest. *)
LEMMA FoundInBranch ==
  ASSUME NEW n \in Nat, NEW T, NEW reduced, IsTries(T, n, reduced), NEW k \in 1 .. n,
         NEW ch \in [Nibble -> T[k - 1]], NEW path \in Paths(k)
  PROVE  Found(Branch(ch, Null), path) = Found(ch[path[1]], Tail(path))
<1>1. k \in Nat \ {0} /\ k \in 0 .. n /\ k - 1 \in 0 .. k - 1  OBVIOUS
<1>2. path[1] \in Nibble /\ Tail(path) \in Paths(k - 1)  BY <1>1, PathTail
<1>3. ch[path[1]] \in T[k - 1]  BY <1>2
<1>4. /\ Descends(CallOf(Branch(ch, Null), path))
      /\ Inner(CallOf(Branch(ch, Null), path)) = CallOf(ch[path[1]], Tail(path))
  BY <1>1, BranchGoesOn
<1>. QED  BY <1>1, <1>2, <1>3, <1>4, FoundBelow

(* An extension holds what is below it, on the paths that begin with its own. *)
LEMMA FoundInExtension ==
  ASSUME NEW n \in Nat, NEW T, NEW reduced, IsTries(T, n, reduced), NEW k \in 1 .. n,
         NEW j \in 1 .. k, NEW e \in Paths(j), NEW c \in T[k - j], NEW path \in Paths(k)
  PROVE  Found(Extension(e, c), path) = IF StartsWith(path, e) THEN Found(c, From(path, j)) ELSE Null
<1>1. k \in Nat /\ k \in 0 .. n /\ j \in Nat /\ j \in 0 .. k /\ k - j \in 0 .. k - 1 /\ j <= k  OBVIOUS
<1>2. From(path, j) \in Paths(k - j)  BY <1>1, PathParts
<1>3. /\ Descends(CallOf(Extension(e, c), path)) <=> j <= k /\ StartsWith(path, e)
      /\ Inner(CallOf(Extension(e, c), path)) = CallOf(c, From(path, j))
  BY <1>1, ExtensionGoesOn
<1>4. CASE StartsWith(path, e)  BY <1>1, <1>2, <1>3, <1>4, FoundBelow
<1>5. CASE ~StartsWith(path, e)
  <2>1. path \in Seq(Nibble)  BY <1>1, PathIs
  <2>2. Found(Extension(e, c), path) = Answer(CallOf(Extension(e, c), path))
    BY <1>3, <1>5, <2>1, FoundHere
  <2>3. IsExtension(Extension(e, c)) /\ ~IsBranch(Extension(e, c))  BY Kinds
  <2>. QED  BY <1>5, <2>2, <2>3 DEF Answer, CallOf
<1>. QED  BY <1>4, <1>5

(* A branch below the first m nibbles of a path. *)
LEMMA WrappedIs ==
  ASSUME NEW n \in Nat, NEW T, NEW reduced, IsTries(T, n, reduced), NEW k \in 1 .. n,
         NEW p \in Paths(k), NEW m \in 0 .. k - 1,
         NEW ch \in [Nibble -> T[k - m - 1]], reduced => Several(ch)
  PROVE  /\ Wrapped(p, m, Branch(ch, Null)) \in T[k] /\ Wrapped(p, m, Branch(ch, Null)) # Null
         /\ \A q \in Paths(k) : Found(Wrapped(p, m, Branch(ch, Null)), q) =
              IF StartsWith(q, Upto(p, m)) THEN Found(ch[q[m + 1]], From(q, m + 1)) ELSE Null
<1> DEFINE b == Branch(ch, Null)
<1>1. /\ k \in Nat /\ k \in 0 .. n /\ m \in 0 .. k /\ k - m \in 1 .. n /\ k - m \in 0 .. n
      /\ (k - m) - 1 = k - m - 1 /\ k - m > 0
  OBVIOUS
<1>2. b \in T[k - m]
  <2>1. BranchOf(T, k - m, reduced, b)  BY <1>1 DEF BranchOf
  <2>. QED  BY <1>1, <2>1, NodeIs
<1>3. b # Null /\ IsBranch(b)  BY Kinds
<1>4. Upto(p, m) \in Paths(m) /\ Len(Upto(p, m)) = m  BY <1>1, PathParts
<1>5. ASSUME NEW q \in Paths(k)
      PROVE  /\ From(q, m) \in Paths(k - m)
             /\ Found(b, From(q, m)) = Found(ch[q[m + 1]], From(q, m + 1))
  <2>1. From(q, m) \in Paths(k - m) /\ \A i \in 1 .. k - m : From(q, m)[i] = q[m + i]
    BY <1>1, PathParts
  <2>2. From(q, m)[1] = q[m + 1]  BY <1>1, <2>1
  <2>3. Tail(From(q, m)) = From(From(q, m), 1)
    <3>1. k - m \in Nat \ {0}  BY <1>1
    <3>. QED  BY <2>1, <3>1, PathTail
  <2>4. From(From(q, m), 1) = From(q, m + 1)
    <3>1. 1 \in 0 .. k - m  BY <1>1
    <3>2. \A x \in 0 .. k : \A y \in 0 .. k - x : From(From(q, x), y) = From(q, x + y)
      BY <1>1, PathFrom
    <3>. QED  BY <1>1, <3>1, <3>2
  <2>5. ch \in [Nibble -> T[(k - m) - 1]]  BY <1>1
  <2>6. Found(b, From(q, m)) = Found(ch[From(q, m)[1]], Tail(From(q, m)))
    BY <1>1, <2>1, <2>5, FoundInBranch
  <2>. QED  BY <2>1, <2>2, <2>3, <2>4, <2>6
<1>. HIDE DEF b
<1>6. CASE m = 0
  <2>1. Wrapped(p, m, b) = b  BY <1>6 DEF Wrapped
  <2>2. \A q \in Paths(k) : From(q, 0) = q  BY <1>1, PathFrom
  <2>3. \A q : StartsWith(q, Upto(p, m))  BY <1>4, <1>6 DEF StartsWith
  <2>4. b \in T[k]  BY <1>2, <1>6
  <2>. QED  BY <1>3, <1>5, <1>6, <2>1, <2>2, <2>3, <2>4 DEF b
<1>7. CASE m > 0
  <2>1. m \in 1 .. k  BY <1>1, <1>7
  <2>2. Wrapped(p, m, b) = Extension(Upto(p, m), b)  BY <1>7 DEF Wrapped
  <2>3. ExtensionOf(T, k, reduced, Extension(Upto(p, m), b))
    BY <1>2, <1>3, <1>4, <2>1 DEF ExtensionOf
  <2>4. Extension(Upto(p, m), b) \in T[k]  BY <1>1, <2>3, NodeIs
  <2>5. Extension(Upto(p, m), b) # Null  BY Kinds
  <2>6. ASSUME NEW q \in Paths(k)
        PROVE  Found(Extension(Upto(p, m), b), q) =
                 IF StartsWith(q, Upto(p, m)) THEN Found(b, From(q, m)) ELSE Null
    BY <1>2, <1>4, <2>1, FoundInExtension
  <2>. QED  BY <1>5, <2>2, <2>4, <2>5, <2>6 DEF b
<1>. QED  BY <1>1, <1>6, <1>7

(* A branch that parts a path from another trie at its nibble m + 1. *)
Parted(p, m, i, other, v) ==
  Wrapped(p, m, Branch([NoChildren EXCEPT ![i] = other, ![p[m + 1]] = LeafNode(From(p, m + 1), v)],
                       Null))

(* A path parted after m nibbles: the new entry on one side, the old node on the other. *)
LEMMA PartedIs ==
  ASSUME NEW n \in Nat, NEW T, NEW reduced, IsTries(T, n, reduced), NEW k \in 1 .. n,
         NEW p \in Paths(k), NEW m \in 0 .. k - 1, NEW i \in Nibble, i # p[m + 1],
         NEW other \in T[k - m - 1], other # Null, NEW v \in Account
  PROVE  /\ Parted(p, m, i, other, v) \in T[k] /\ Parted(p, m, i, other, v) # Null
         /\ \A q \in Paths(k) : Found(Parted(p, m, i, other, v), q) =
              IF q = p THEN <<v>>
              ELSE IF StartsWith(q, Upto(p, m)) /\ q[m + 1] = i THEN Found(other, From(q, m + 1))
              ELSE Null
<1> DEFINE leaf == LeafNode(From(p, m + 1), v)
           ch == [NoChildren EXCEPT ![i] = other, ![p[m + 1]] = leaf]
<1>1. /\ k \in Nat /\ k \in 0 .. n /\ m + 1 \in 0 .. k /\ m + 1 \in 1 .. k
      /\ k - (m + 1) = k - m - 1 /\ k - m - 1 \in 0 .. n /\ k - m - 1 \in Nat
  OBVIOUS
<1>2. From(p, m + 1) \in Paths(k - m - 1) /\ p[m + 1] \in Nibble
  <2>1. From(p, m + 1) \in Paths(k - (m + 1))  BY <1>1, PathParts
  <2>. QED  BY <1>1, <2>1 DEF Paths
<1>3. leaf \in T[k - m - 1] /\ leaf # Null /\ Null \in T[k - m - 1]
  <2>1. LeafOf(k - m - 1, leaf)  BY <1>2 DEF LeafOf
  <2>2. leaf \in T[k - m - 1]  BY <1>1, <2>1, NodeIs
  <2>3. Null \in T[k - m - 1]  BY <1>1, NodeIs
  <2>4. leaf # Null  BY Kinds
  <2>. QED  BY <2>2, <2>3, <2>4
<1>4. \A x \in Nibble : ch[x] = IF x = p[m + 1] THEN leaf ELSE IF x = i THEN other ELSE Null
  BY <1>2 DEF NoChildren
<1>5. ch = [x \in Nibble |-> ch[x]]  BY DEF NoChildren
<1>6. Parted(p, m, i, other, v) = Wrapped(p, m, Branch(ch, Null))  BY DEF Parted
<1>. HIDE DEF ch
<1>7. ch \in [Nibble -> T[k - m - 1]]  BY <1>3, <1>4, <1>5
<1>8. Several(ch)  BY <1>2, <1>3, <1>4 DEF Several
<1>9. /\ Wrapped(p, m, Branch(ch, Null)) \in T[k] /\ Wrapped(p, m, Branch(ch, Null)) # Null
      /\ \A q \in Paths(k) : Found(Wrapped(p, m, Branch(ch, Null)), q) =
           IF StartsWith(q, Upto(p, m)) THEN Found(ch[q[m + 1]], From(q, m + 1)) ELSE Null
  BY <1>7, <1>8, WrappedIs
<1>10. ASSUME NEW q \in Paths(k)
       PROVE  Found(Parted(p, m, i, other, v), q) =
              IF q = p THEN <<v>>
              ELSE IF StartsWith(q, Upto(p, m)) /\ q[m + 1] = i THEN Found(other, From(q, m + 1))
              ELSE Null
  <2>1. From(q, m + 1) \in Seq(Nibble) /\ q[m + 1] \in Nibble
    <3>1. From(q, m + 1) \in Paths(k - (m + 1))  BY <1>1, PathParts
    <3>. QED  BY <1>1, <3>1, PathIs DEF Paths
  <2>2. q = p <=> /\ StartsWith(q, Upto(p, m)) /\ q[m + 1] = p[m + 1]
                  /\ From(q, m + 1) = From(p, m + 1)
    BY <1>1, PathSplit
  <2>3. Found(Null, From(q, m + 1)) = Null  BY <2>1, FoundStops
  <2>4. Found(leaf, From(q, m + 1)) = IF From(p, m + 1) = From(q, m + 1) THEN <<v>> ELSE Null
    BY <2>1, FoundStops
  <2>. HIDE DEF leaf
  <2>5. CASE ~StartsWith(q, Upto(p, m))  BY <1>6, <1>9, <2>2, <2>5
  <2>6. CASE StartsWith(q, Upto(p, m)) /\ q[m + 1] = p[m + 1]
    BY <1>4, <1>6, <1>9, <2>1, <2>2, <2>4, <2>6
  <2>7. CASE StartsWith(q, Upto(p, m)) /\ q[m + 1] # p[m + 1]
    BY <1>4, <1>6, <1>9, <2>1, <2>2, <2>3, <2>7
  <2>. QED  BY <2>5, <2>6, <2>7
<1>. QED  BY <1>6, <1>9, <1>10

----------------------------------------------------------------------------
(* Insertion *)

(* Only what is found at p differs. *)
Sets(T, k, node, p, new, what) ==
  new \in T[k] /\ \A q \in Paths(k) : Found(new, q) = IF q = p THEN what ELSE Found(node, q)

PutsAt(T, k, node, p, v) ==
  /\ Sets(T, k, node, p, Inserted(node, p, v), <<v>>) /\ Inserted(node, p, v) # Null
  /\ IsBranch(node) => IsBranch(Inserted(node, p, v))

Puts(T, k) == \A node \in T[k], p \in Paths(k), v \in Account : PutsAt(T, k, node, p, v)

(* Insertion where nothing is: the leaf (state_trie.py: _insert). *)
LEMMA PutsIntoNull ==
  ASSUME NEW n \in Nat, NEW T, NEW reduced, IsTries(T, n, reduced), NEW k \in 0 .. n,
         NEW p \in Paths(k), NEW v \in Account
  PROVE  PutsAt(T, k, Null, p, v)
<1>1. k \in Nat /\ p \in Seq(Nibble)  BY PathIs
<1>2. Inserted(Null, p, v) = LeafNode(p, v)
  <2>1. Inserted(Null, p, v) = InsertedHere(CallOf(Null, p), v)  BY <1>1, StopsAt, InsertedAtOnce
  <2>2. ~IsBranch(Null) /\ ~IsExtension(Null)  BY Kinds
  <2>. QED  BY <2>1, <2>2 DEF InsertedHere, CallOf
<1>3. LeafNode(p, v) \in T[k]
  <2>1. LeafOf(k, LeafNode(p, v))  BY DEF LeafOf
  <2>. QED  BY <2>1, NodeIs
<1>4. LeafNode(p, v) # Null /\ ~IsBranch(Null)  BY Kinds
<1>5. ASSUME NEW q \in Paths(k)
      PROVE  Found(LeafNode(p, v), q) = IF q = p THEN <<v>> ELSE Found(Null, q)
  <2>1. q \in Seq(Nibble)  BY <1>1, PathIs
  <2>2. Found(LeafNode(p, v), q) = (IF p = q THEN <<v>> ELSE Null) /\ Found(Null, q) = Null
    BY <2>1, FoundStops
  <2>. QED  BY <2>2
<1>. QED  BY <1>2, <1>3, <1>4, <1>5 DEF PutsAt, Sets

(* Insertion into a leaf: replaced if the paths agree, parted where they differ. *)
LEMMA PutsIntoLeaf ==
  ASSUME NEW n \in Nat, NEW T, NEW reduced, IsTries(T, n, reduced), NEW k \in 0 .. n,
         NEW old \in Paths(k), NEW w \in Account, NEW p \in Paths(k), NEW v \in Account
  PROVE  PutsAt(T, k, LeafNode(old, w), p, v)
<1> DEFINE leaf == LeafNode(old, w)
           m == CommonPrefixLength(old, p)
<1>1. k \in Nat /\ p \in Seq(Nibble) /\ Len(p) = k /\ old \in Seq(Nibble) /\ Len(old) = k  BY PathIs
<1>2. leaf # Null /\ ~IsBranch(leaf) /\ ~IsExtension(leaf) /\ leaf[2] = old /\ leaf[3] = w
  BY Kinds
<1>3. Inserted(leaf, p, v) = InsertIntoLeaf(leaf, p, v)
  <2>1. Inserted(leaf, p, v) = InsertedHere(CallOf(leaf, p), v)  BY <1>1, StopsAt, InsertedAtOnce
  <2>. HIDE DEF leaf
  <2>. QED  BY <1>2, <2>1 DEF InsertedHere, CallOf
<1>4. \A q \in Paths(k) : Found(leaf, q) = IF q = old THEN <<w>> ELSE Null
  <2>1. \A q \in Paths(k) : q \in Seq(Nibble)  BY <1>1, PathIs
  <2>. QED  BY <2>1, FoundStops
<1>5. CASE old = p
  <2>1. Inserted(leaf, p, v) = LeafNode(p, v)
    <3>. HIDE DEF leaf
    <3>. QED  BY <1>2, <1>3, <1>5 DEF InsertIntoLeaf
  <2>2. PutsAt(T, k, Null, p, v)  BY PutsIntoNull
  <2>3. Inserted(Null, p, v) = LeafNode(p, v)
    <3>1. Inserted(Null, p, v) = InsertedHere(CallOf(Null, p), v)  BY <1>1, StopsAt, InsertedAtOnce
    <3>2. ~IsBranch(Null) /\ ~IsExtension(Null)  BY Kinds
    <3>. QED  BY <3>1, <3>2 DEF InsertedHere, CallOf
  <2>4. \A q \in Paths(k) : Found(Null, q) = Null
    <3>1. \A q \in Paths(k) : q \in Seq(Nibble)  BY <1>1, PathIs
    <3>. QED  BY <3>1, FoundStops
  <2>5. leaf \notin {Null} /\ ~IsBranch(leaf)  BY <1>2
  <2>6. \A q \in Paths(k) : Found(LeafNode(p, v), q) = IF q = p THEN <<v>> ELSE Found(leaf, q)
    BY <1>4, <1>5, <2>2, <2>3, <2>4 DEF PutsAt, Sets
  <2>. QED  BY <1>2, <2>1, <2>2, <2>3, <2>6 DEF PutsAt, Sets
<1>6. CASE old # p
  <2>1. /\ m \in 0 .. k /\ \A i \in 1 .. m : old[i] = p[i]
        /\ m < k => old[m + 1] # p[m + 1]
    BY <1>1, CommonPrefix
  <2>. HIDE DEF m
  <2>2. m < k
    <3>1. CASE m = k
      <4>1. old = p  BY <1>1, <2>1, <3>1, PathEqual
      <4>. QED  BY <1>6, <4>1
    <3>. QED  BY <1>1, <2>1, <3>1
  <2>3. /\ k \in 1 .. n /\ m \in 0 .. k - 1 /\ m + 1 \in 1 .. k /\ m + 1 \in 0 .. k
        /\ m \in 0 .. k /\ k - (m + 1) = k - m - 1 /\ k - m - 1 \in 0 .. n /\ m # k
    BY <1>1, <2>1, <2>2
  <2> DEFINE other == LeafNode(From(old, m + 1), w)
             i == old[m + 1]
  <2>4. InsertIntoLeaf(leaf, p, v) = Parted(p, m, i, other, v)
    <3>. HIDE DEF leaf
    <3>. QED  BY <1>1, <1>2, <1>6, <2>2, <2>3 DEF InsertIntoLeaf, Parted, m
  <2>5. From(old, m + 1) \in Paths(k - m - 1) /\ i \in Nibble
    <3>1. From(old, m + 1) \in Paths(k - (m + 1))  BY <1>1, <2>3, PathParts
    <3>. QED  BY <2>3, <3>1 DEF Paths
  <2>6. other \in T[k - m - 1] /\ other # Null
    <3>1. LeafOf(k - m - 1, other)  BY <2>5 DEF LeafOf
    <3>2. other \in T[k - m - 1]  BY <2>3, <3>1, NodeIs
    <3>. QED  BY <3>2, Kinds
  <2>7. /\ Parted(p, m, i, other, v) \in T[k] /\ Parted(p, m, i, other, v) # Null
        /\ \A q \in Paths(k) : Found(Parted(p, m, i, other, v), q) =
             IF q = p THEN <<v>>
             ELSE IF StartsWith(q, Upto(p, m)) /\ q[m + 1] = i THEN Found(other, From(q, m + 1))
             ELSE Null
    <3>1. i # p[m + 1]  BY <2>1, <2>2
    <3>. HIDE DEF i, other, leaf
    <3>. QED  BY <2>3, <2>5, <2>6, <3>1, PartedIs
  <2>8. \A q : StartsWith(q, Upto(p, m)) <=> StartsWith(q, Upto(old, m))
    <3>1. Len(Upto(p, m)) = m /\ \A x \in 1 .. m : Upto(p, m)[x] = p[x]  BY <1>1, <2>3, UptoIs
    <3>2. Len(Upto(old, m)) = m /\ \A x \in 1 .. m : Upto(old, m)[x] = old[x]
      BY <1>1, <2>3, UptoIs
    <3>. QED  BY <2>1, <3>1, <3>2 DEF StartsWith
  <2>9. ASSUME NEW q \in Paths(k), q # p
        PROVE  Found(leaf, q) =
                 IF StartsWith(q, Upto(p, m)) /\ q[m + 1] = i THEN Found(other, From(q, m + 1)) ELSE Null
    <3>1. From(q, m + 1) \in Seq(Nibble)
      <4>1. From(q, m + 1) \in Paths(k - (m + 1))  BY <1>1, <2>3, PathParts
      <4>. QED  BY <2>3, <4>1, PathIs
    <3>2. Found(other, From(q, m + 1)) = IF From(old, m + 1) = From(q, m + 1) THEN <<w>> ELSE Null
      BY <3>1, FoundStops
    <3>3. q = old <=> /\ StartsWith(q, Upto(old, m)) /\ q[m + 1] = old[m + 1]
                      /\ From(q, m + 1) = From(old, m + 1)
      BY <1>1, <2>3, PathSplit
    <3>4. Found(leaf, q) = IF q = old THEN <<w>> ELSE Null  BY <1>4
    <3>. HIDE DEF leaf, other
    <3>. QED  BY <2>8, <3>2, <3>3, <3>4
  <2>. HIDE DEF other, i
  <2>10. Inserted(leaf, p, v) = Parted(p, m, i, other, v)  BY <1>3, <2>4
  <2>11. \A q \in Paths(k) : Found(Parted(p, m, i, other, v), q) =
            IF q = p THEN <<v>> ELSE Found(leaf, q)
    BY <2>7, <2>9
  <2>. QED  BY <1>2, <2>7, <2>10, <2>11 DEF PutsAt, Sets
<1>. QED  BY <1>5, <1>6

(* A branch with one child exchanged. *)
Exchanged(T, k, ch, p, child, what) ==
  /\ WithChild(CallOf(Branch(ch, Null), p), child) = Branch([ch EXCEPT ![p[1]] = child], Null)
  /\ [ch EXCEPT ![p[1]] = child] \in [Nibble -> T[k - 1]]
  /\ \A q \in Paths(k) : Found(Branch([ch EXCEPT ![p[1]] = child], Null), q) =
       IF q = p THEN what ELSE Found(Branch(ch, Null), q)

(* A branch with one child replaced holds the change and is otherwise the same. *)
LEMMA BranchWith ==
  ASSUME NEW n \in Nat, NEW T, NEW reduced, IsTries(T, n, reduced), NEW k \in 1 .. n,
         NEW ch \in [Nibble -> T[k - 1]], NEW p \in Paths(k), NEW child, NEW what,
         Sets(T, k - 1, ch[p[1]], Tail(p), child, what)
  PROVE  Exchanged(T, k, ch, p, child, what)
<1> DEFINE new == [ch EXCEPT ![p[1]] = child]
<1>1. k \in Nat \ {0} /\ k \in Nat /\ 0 \in 0 .. k - 1 /\ k \in 0 .. n  OBVIOUS
<1>2. p[1] \in Nibble /\ Tail(p) \in Paths(k - 1)  BY <1>1, PathTail
<1>3. child \in T[k - 1]  BY DEF Sets
<1>4. WithChild(CallOf(Branch(ch, Null), p), child) = Branch(new, Null)
  <2> DEFINE b == Branch(ch, Null)
  <2>1. ~IsExtension(b) /\ b[2] = ch /\ b[3] = Null  BY Kinds
  <2>. HIDE DEF b
  <2>2. WithChild(CallOf(b, p), child) = Branch(new, Null)  BY <2>1 DEF WithChild, CallOf
  <2>. QED  BY <2>2 DEF b
<1>5. new \in [Nibble -> T[k - 1]]  BY <1>3
<1>6. \A x \in Nibble : new[x] = IF x = p[1] THEN child ELSE ch[x]  BY <1>2
<1>. HIDE DEF new
<1>7. ASSUME NEW q \in Paths(k)
      PROVE  Found(Branch(new, Null), q) = IF q = p THEN what ELSE Found(Branch(ch, Null), q)
  <2>1. q[1] \in Nibble /\ Tail(q) \in Paths(k - 1)  BY <1>1, PathTail
  <2>2. Found(Branch(new, Null), q) = Found(new[q[1]], Tail(q))  BY <1>5, FoundInBranch
  <2>3. Found(Branch(ch, Null), q) = Found(ch[q[1]], Tail(q))  BY FoundInBranch
  <2>4. q = p <=> q[1] = p[1] /\ Tail(q) = Tail(p)
    <3>1. q = p <=> StartsWith(q, Upto(p, 0)) /\ q[0 + 1] = p[0 + 1] /\ From(q, 0 + 1) = From(p, 0 + 1)
      BY <1>1, PathSplit
    <3>2. Len(Upto(p, 0)) = 0
      <4>1. 0 \in 0 .. k  BY <1>1
      <4>. QED  BY <1>1, <4>1, PathParts
    <3>3. StartsWith(q, Upto(p, 0))  BY <3>2 DEF StartsWith
    <3>4. Tail(q) = From(q, 1) /\ Tail(p) = From(p, 1)  BY <1>1, PathTail
    <3>5. 0 + 1 = 1  OBVIOUS
    <3>. QED  BY <3>1, <3>3, <3>4, <3>5
  <2>5. Found(child, Tail(q)) = IF Tail(q) = Tail(p) THEN what ELSE Found(ch[p[1]], Tail(q))
    BY <2>1 DEF Sets
  <2>. QED  BY <1>6, <2>1, <2>2, <2>3, <2>4, <2>5
<1>. QED  BY <1>4, <1>5, <1>7 DEF new, Exchanged

(* Insertion into a branch, if insertion into its children is right. *)
LEMMA PutsIntoBranch ==
  ASSUME NEW n \in Nat, NEW T, NEW reduced, IsTries(T, n, reduced), NEW k \in 1 .. n,
         NEW ch \in [Nibble -> T[k - 1]], Branch(ch, Null) \in T[k], reduced => Several(ch),
         NEW p \in Paths(k), NEW v \in Account, Puts(T, k - 1)
  PROVE  PutsAt(T, k, Branch(ch, Null), p, v)
<1> DEFINE child == Inserted(ch[p[1]], Tail(p), v)
           new == [ch EXCEPT ![p[1]] = child]
<1>1. k \in Nat \ {0} /\ k \in 0 .. n /\ k - 1 \in 0 .. k - 1 /\ k > 0  OBVIOUS
<1>2. p[1] \in Nibble /\ Tail(p) \in Paths(k - 1)  BY <1>1, PathTail
<1>3. ch[p[1]] \in T[k - 1]  BY <1>2
<1>4. PutsAt(T, k - 1, ch[p[1]], Tail(p), v)  BY <1>2, <1>3 DEF Puts
<1>5. Sets(T, k - 1, ch[p[1]], Tail(p), child, <<v>>) /\ child # Null  BY <1>4 DEF PutsAt
<1>6. Inserted(Branch(ch, Null), p, v) = WithChild(CallOf(Branch(ch, Null), p), child)
  <2>1. /\ Descends(CallOf(Branch(ch, Null), p))
        /\ Inner(CallOf(Branch(ch, Null), p)) = CallOf(ch[p[1]], Tail(p))
    BY <1>1, BranchGoesOn
  <2>. QED  BY <1>1, <1>2, <1>3, <2>1, InsertedFurther
<1>. HIDE DEF child
<1>7. /\ WithChild(CallOf(Branch(ch, Null), p), child) = Branch(new, Null)
      /\ new \in [Nibble -> T[k - 1]]
      /\ \A q \in Paths(k) : Found(Branch(new, Null), q) =
           IF q = p THEN <<v>> ELSE Found(Branch(ch, Null), q)
  <2>1. Exchanged(T, k, ch, p, child, <<v>>)  BY <1>5, BranchWith
  <2>. QED  BY <2>1 DEF Exchanged
<1>8. reduced => Several(new)
  <2>1. \A x \in Nibble : ch[x] # Null => new[x] # Null  BY <1>5
  <2>. HIDE DEF new
  <2>. QED  BY <2>1 DEF Several
<1>. HIDE DEF new
<1>9. Branch(new, Null) \in T[k]
  <2>1. BranchOf(T, k, reduced, Branch(new, Null))  BY <1>1, <1>7, <1>8 DEF BranchOf
  <2>. QED  BY <1>1, <2>1, NodeIs
<1>10. Branch(new, Null) # Null /\ IsBranch(Branch(new, Null))  BY Kinds
<1>. QED  BY <1>6, <1>7, <1>9, <1>10 DEF PutsAt, Sets

(* Paths that start in the same way are told apart by the rest. *)
LEMMA SameStart ==
  ASSUME NEW k \in Nat, NEW j \in 0 .. k, NEW e \in Paths(j), NEW p \in Paths(k), NEW q \in Paths(k),
         StartsWith(p, e)
  PROVE  q = p <=> StartsWith(q, e) /\ From(q, j) = From(p, j)
<1>1. Len(e) = j  BY PathIs
<1>2. \A i \in 1 .. k - j : From(p, j)[i] = p[j + i] /\ From(q, j)[i] = q[j + i]  BY PathParts
<1>3. ASSUME StartsWith(q, e), From(q, j) = From(p, j) PROVE q = p
  <2>1. ASSUME NEW i \in 1 .. k PROVE q[i] = p[i]
    <3>1. CASE i \in 1 .. j  BY <1>1, <1>3, <3>1 DEF StartsWith
    <3>2. CASE i > j
      <4>1. i - j \in 1 .. k - j /\ j + (i - j) = i  BY <3>2
      <4>. QED  BY <1>2, <1>3, <4>1
    <3>. QED  BY <3>1, <3>2
  <2>. QED  BY <2>1, PathEqual
<1>. QED  BY <1>3

(* How the start e of a path goes on behind its nibble m + 1. *)
LEMMA StartSplit ==
  ASSUME NEW k \in Nat, NEW j \in 0 .. k, NEW e \in Paths(j), NEW q \in Paths(k), NEW m \in 0 .. j - 1
  PROVE  StartsWith(q, e) <=> /\ StartsWith(q, Upto(e, m)) /\ q[m + 1] = e[m + 1]
                              /\ StartsWith(From(q, m + 1), From(e, m + 1))
<1>1. j \in Nat /\ m \in 0 .. j /\ m + 1 \in 0 .. j /\ m + 1 \in 0 .. k /\ m + 1 \in 1 .. j  OBVIOUS
<1>2. Len(e) = j /\ Len(Upto(e, m)) = m /\ \A i \in 1 .. m : Upto(e, m)[i] = e[i]
  BY <1>1, PathIs, UptoIs
<1>3. Len(From(e, m + 1)) = j - (m + 1)
      /\ \A i \in 1 .. j - (m + 1) : From(e, m + 1)[i] = e[(m + 1) + i]
  BY <1>1, PathParts
<1>4. \A i \in 1 .. k - (m + 1) : From(q, m + 1)[i] = q[(m + 1) + i]  BY <1>1, PathParts
<1>5. ASSUME StartsWith(q, e)
      PROVE  StartsWith(q, Upto(e, m)) /\ StartsWith(From(q, m + 1), From(e, m + 1))
  <2>1. \A i \in 1 .. j : q[i] = e[i]  BY <1>2, <1>5 DEF StartsWith
  <2>2. StartsWith(q, Upto(e, m))  BY <1>2, <2>1 DEF StartsWith
  <2>3. ASSUME NEW i \in 1 .. j - (m + 1) PROVE From(q, m + 1)[i] = From(e, m + 1)[i]
    <3>1. (m + 1) + i \in 1 .. j /\ i \in 1 .. k - (m + 1)  OBVIOUS
    <3>. QED  BY <1>3, <1>4, <2>1, <3>1
  <2>. QED  BY <1>3, <2>2, <2>3 DEF StartsWith
<1>6. ASSUME StartsWith(q, Upto(e, m)), q[m + 1] = e[m + 1],
             StartsWith(From(q, m + 1), From(e, m + 1))
      PROVE  StartsWith(q, e)
  <2>1. ASSUME NEW i \in 1 .. j PROVE q[i] = e[i]
    <3>1. CASE i \in 1 .. m  BY <1>2, <1>6, <3>1 DEF StartsWith
    <3>2. CASE i = m + 1  BY <1>6, <3>2
    <3>3. CASE i > m + 1
      <4> DEFINE x == i - (m + 1)
      <4>1. x \in 1 .. j - (m + 1) /\ x \in 1 .. k - (m + 1) /\ (m + 1) + x = i  BY <3>3
      <4>. HIDE DEF x
      <4>2. From(q, m + 1)[x] = From(e, m + 1)[x]  BY <1>3, <1>6, <4>1 DEF StartsWith
      <4>. QED  BY <1>3, <1>4, <4>1, <4>2
    <3>. QED  BY <3>1, <3>2, <3>3
  <2>. QED  BY <1>2, <2>1 DEF StartsWith
<1>. QED  BY <1>1, <1>2, <1>5, <1>6 DEF StartsWith

(* What is behind the nibble m + 1 of an extension. *)
Behind(e, c, m) == IF Len(e) - m - 1 > 0 THEN Extension(From(e, m + 1), c) ELSE c

(* What an extension leaves behind where it is parted: a shorter one, or its child. *)
LEMMA BehindIs ==
  ASSUME NEW n \in Nat, NEW T, NEW reduced, IsTries(T, n, reduced), NEW k \in 1 .. n,
         NEW j \in 1 .. k, NEW e \in Paths(j), NEW c \in T[k - j], c # Null, reduced => IsBranch(c),
         NEW m \in 0 .. j - 1
  PROVE  /\ Behind(e, c, m) \in T[k - m - 1] /\ Behind(e, c, m) # Null
         /\ \A q \in Paths(k) : Found(Extension(e, c), q) =
              IF StartsWith(q, Upto(e, m)) /\ q[m + 1] = e[m + 1]
              THEN Found(Behind(e, c, m), From(q, m + 1)) ELSE Null
<1> DEFINE x == j - (m + 1)
           y == k - (m + 1)
           rest == From(e, m + 1)
<1>1. /\ j \in Nat /\ k \in Nat /\ j \in 0 .. k /\ m + 1 \in 0 .. j /\ m + 1 \in 0 .. k
      /\ k - m - 1 = y /\ y \in 0 .. n /\ j - m - 1 = x /\ x \in 0 .. y /\ k - j = y - x
      /\ m + 1 + x = j /\ (m + 1) + x = j
  OBVIOUS
<1>2. Len(e) = j /\ rest \in Paths(x)
  <2>1. From(e, m + 1) \in Paths(j - (m + 1))  BY <1>1, PathParts
  <2>. QED  BY <1>1, <2>1, PathIs
<1>3. \A q \in Paths(k) : /\ From(q, m + 1) \in Paths(y)
                          /\ From(From(q, m + 1), x) = From(q, j)
  <2>1. \A q \in Paths(k) : From(q, m + 1) \in Paths(k - (m + 1))  BY <1>1, PathParts
  <2>2. \A q \in Paths(k) : \A a \in 0 .. k : \A b \in 0 .. k - a : From(From(q, a), b) = From(q, a + b)
    BY <1>1, PathFrom
  <2>3. x \in 0 .. k - (m + 1)  BY <1>1
  <2>. QED  BY <1>1, <2>1, <2>2, <2>3
<1>4. \A q \in Paths(k) : StartsWith(q, e) <=>
        StartsWith(q, Upto(e, m)) /\ q[m + 1] = e[m + 1] /\ StartsWith(From(q, m + 1), rest)
  BY <1>1, StartSplit
<1>5. \A q \in Paths(k) :
        Found(Extension(e, c), q) = IF StartsWith(q, e) THEN Found(c, From(q, j)) ELSE Null
  BY FoundInExtension
<1>. HIDE DEF x, y, rest
<1>6. CASE x = 0
  <2>1. Behind(e, c, m) = c  BY <1>1, <1>2, <1>6 DEF Behind
  <2>2. Len(rest) = 0 /\ m + 1 = j /\ y = k - j  BY <1>1, <1>2, <1>6, PathIs
  <2>3. \A q : StartsWith(q, rest)  BY <2>2 DEF StartsWith
  <2>. QED  BY <1>1, <1>4, <1>5, <2>1, <2>2, <2>3
<1>7. CASE x # 0
  <2>1. Len(e) - m - 1 > 0 /\ x \in 1 .. y /\ y \in 1 .. n /\ c \in T[y - x] /\ x \in Nat /\ y \in Nat
    <3>1. c \in T[y - x]  BY <1>1
    <3>2. x \in Nat /\ y \in Nat /\ x > 0 /\ x <= y /\ y <= n  BY <1>1, <1>7
    <3>3. Len(e) - m - 1 = x  BY <1>1, <1>2
    <3>. QED  BY <3>1, <3>2, <3>3
  <2>2. Behind(e, c, m) = Extension(rest, c)  BY <2>1 DEF Behind, rest
  <2>3. ExtensionOf(T, y, reduced, Extension(rest, c))  BY <1>2, <2>1 DEF ExtensionOf
  <2>4. Extension(rest, c) \in T[y]  BY <1>1, <2>3, NodeIs
  <2>5. Extension(rest, c) # Null  BY Kinds
  <2>6. \A q \in Paths(y) :
          Found(Extension(rest, c), q) = IF StartsWith(q, rest) THEN Found(c, From(q, x)) ELSE Null
    BY <1>2, <2>1, FoundInExtension
  <2>. QED  BY <1>1, <1>3, <1>4, <1>5, <2>2, <2>4, <2>5, <2>6
<1>. QED  BY <1>1, <1>6, <1>7

(* Insertion into an extension, if insertion below it is right. *)
LEMMA PutsIntoExtension ==
  ASSUME NEW n \in Nat, NEW T, NEW reduced, IsTries(T, n, reduced), NEW k \in 1 .. n,
         NEW j \in 1 .. k, NEW e \in Paths(j), NEW c \in T[k - j], c # Null, reduced => IsBranch(c),
         Extension(e, c) \in T[k], NEW p \in Paths(k), NEW v \in Account, Puts(T, k - j)
  PROVE  PutsAt(T, k, Extension(e, c), p, v)
<1> DEFINE ext == Extension(e, c)
           m == CommonPrefixLength(e, p)
<1>1. k \in Nat /\ k \in 0 .. n /\ j \in Nat /\ j \in 0 .. k /\ k - j \in 0 .. k - 1 /\ j <= k  OBVIOUS
<1>2. From(p, j) \in Paths(k - j)  BY <1>1, PathParts
<1>3. /\ ~IsBranch(ext) /\ ext # Null /\ IsExtension(ext) /\ ext[2] = e /\ ext[3] = c  BY Kinds
<1>4. Len(e) = j /\ Len(p) = k /\ p \in Seq(Nibble)  BY <1>1, PathIs
<1>5. /\ Descends(CallOf(ext, p)) <=> StartsWith(p, e)
      /\ Inner(CallOf(ext, p)) = CallOf(c, From(p, j))
  BY <1>1, ExtensionGoesOn
<1>6. CASE StartsWith(p, e)
  <2> DEFINE new == Inserted(c, From(p, j), v)
  <2>1. PutsAt(T, k - j, c, From(p, j), v)  BY <1>2 DEF Puts
  <2>2. /\ new \in T[k - j] /\ new # Null /\ (IsBranch(c) => IsBranch(new))
        /\ \A q \in Paths(k - j) : Found(new, q) = IF q = From(p, j) THEN <<v>> ELSE Found(c, q)
    BY <2>1 DEF PutsAt, Sets
  <2>3. Inserted(ext, p, v) = WithChild(CallOf(ext, p), new)
    BY <1>1, <1>2, <1>5, <1>6, InsertedFurther
  <2>. HIDE DEF new
  <2>4. Inserted(ext, p, v) = Extension(e, new)
    <3>. HIDE DEF ext
    <3>. QED  BY <1>3, <2>3 DEF WithChild, CallOf
  <2>5. Extension(e, new) \in T[k] /\ Extension(e, new) # Null
    <3>1. ExtensionOf(T, k, reduced, Extension(e, new))  BY <2>2 DEF ExtensionOf
    <3>2. Extension(e, new) \in T[k]  BY <1>1, <3>1, NodeIs
    <3>. QED  BY <3>2, Kinds
  <2>6. ASSUME NEW q \in Paths(k)
        PROVE  Found(Extension(e, new), q) = IF q = p THEN <<v>> ELSE Found(ext, q)
    <3>1. q = p <=> StartsWith(q, e) /\ From(q, j) = From(p, j)  BY <1>1, <1>6, SameStart
    <3>2. Found(Extension(e, new), q) = IF StartsWith(q, e) THEN Found(new, From(q, j)) ELSE Null
      BY <2>2, FoundInExtension
    <3>3. Found(ext, q) = IF StartsWith(q, e) THEN Found(c, From(q, j)) ELSE Null
      BY FoundInExtension
    <3>4. From(q, j) \in Paths(k - j)  BY <1>1, PathParts
    <3>. QED  BY <2>2, <3>1, <3>2, <3>3, <3>4
  <2>. QED  BY <1>3, <2>4, <2>5, <2>6 DEF PutsAt, Sets
<1>7. CASE ~StartsWith(p, e)
  <2>1. /\ m \in 0 .. j /\ m \in 0 .. k /\ \A i \in 1 .. m : e[i] = p[i]
        /\ m < j /\ m < k => e[m + 1] # p[m + 1]
        /\ m = j <=> j <= k /\ StartsWith(p, e)
    BY <1>1, CommonPrefix
  <2>2. Inserted(ext, p, v) = SplitExtension(ext, p, m, v)
    <3>1. Inserted(ext, p, v) = InsertedHere(CallOf(ext, p), v)  BY <1>4, <1>5, <1>7, InsertedAtOnce
    <3>. HIDE DEF ext
    <3>. QED  BY <1>3, <3>1 DEF InsertedHere, CallOf
  <2>. HIDE DEF m
  <2>3. m \in 0 .. j - 1 /\ m \in 0 .. k - 1 /\ e[m + 1] # p[m + 1] /\ m + 1 \in 1 .. j
    BY <1>1, <1>7, <2>1
  <2> DEFINE i == e[m + 1]
             rest == Behind(e, c, m)
  <2>4. SplitExtension(ext, p, m, v) = Parted(p, m, i, rest, v)
    <3>. HIDE DEF ext
    <3>. QED  BY <1>3 DEF SplitExtension, Parted, Behind
  <2>5. i \in Nibble  BY <2>3 DEF Paths
  <2>6. /\ rest \in T[k - m - 1] /\ rest # Null
        /\ \A q \in Paths(k) : Found(ext, q) =
             IF StartsWith(q, Upto(e, m)) /\ q[m + 1] = i THEN Found(rest, From(q, m + 1)) ELSE Null
    BY <2>3, BehindIs
  <2>7. /\ Parted(p, m, i, rest, v) \in T[k] /\ Parted(p, m, i, rest, v) # Null
        /\ \A q \in Paths(k) : Found(Parted(p, m, i, rest, v), q) =
             IF q = p THEN <<v>>
             ELSE IF StartsWith(q, Upto(p, m)) /\ q[m + 1] = i THEN Found(rest, From(q, m + 1))
             ELSE Null
    <3>1. i # p[m + 1]  BY <2>3
    <3>. HIDE DEF i, rest, ext
    <3>. QED  BY <2>3, <2>5, <2>6, <3>1, PartedIs
  <2>8. \A q : StartsWith(q, Upto(p, m)) <=> StartsWith(q, Upto(e, m))
    <3>1. Len(Upto(p, m)) = m /\ \A x \in 1 .. m : Upto(p, m)[x] = p[x]  BY <1>1, <2>1, UptoIs
    <3>2. Len(Upto(e, m)) = m /\ \A x \in 1 .. m : Upto(e, m)[x] = e[x]  BY <1>1, <2>1, UptoIs
    <3>. QED  BY <2>1, <3>1, <3>2 DEF StartsWith
  <2>. HIDE DEF i, rest
  <2>9. \A q \in Paths(k) : Found(Parted(p, m, i, rest, v), q) = IF q = p THEN <<v>> ELSE Found(ext, q)
    BY <2>6, <2>7, <2>8
  <2>10. Inserted(ext, p, v) = Parted(p, m, i, rest, v)  BY <2>2, <2>4
  <2>. QED  BY <1>3, <2>7, <2>9, <2>10 DEF PutsAt, Sets
<1>. QED  BY <1>6, <1>7

(* put adds an what or replaces it, and keeps a reduced trie reduced. *)
LEMMA AlwaysPuts ==
  ASSUME NEW n \in Nat, NEW T, NEW reduced, IsTries(T, n, reduced)
  PROVE  \A k \in 0 .. n : Puts(T, k)
<1> DEFINE P == {k \in Nat : \A i \in 0 .. k : Puts(T, i)}
<1>1. ASSUME NEW k \in 0 .. n, \A i \in 0 .. k - 1 : Puts(T, i)
      PROVE  Puts(T, k)
  <2>. SUFFICES ASSUME NEW node \in T[k], NEW p \in Paths(k), NEW v \in Account
                PROVE  PutsAt(T, k, node, p, v)
    BY DEF Puts
  <2>1. \/ node = Null \/ LeafOf(k, node)
        \/ BranchOf(T, k, reduced, node) \/ ExtensionOf(T, k, reduced, node)
    BY NodeIs
  <2>2. CASE node = Null  BY <2>2, PutsIntoNull
  <2>3. CASE LeafOf(k, node)
    <3>1. PICK old \in Paths(k), w \in Account : node = LeafNode(old, w)  BY <2>3 DEF LeafOf
    <3>. QED  BY <3>1, PutsIntoLeaf
  <2>4. CASE BranchOf(T, k, reduced, node)
    <3>1. k \in 1 .. n /\ k - 1 \in 0 .. k - 1  BY <2>4 DEF BranchOf
    <3>2. PICK ch \in [Nibble -> T[k - 1]] : (reduced => Several(ch)) /\ node = Branch(ch, Null)
      BY <2>4 DEF BranchOf
    <3>3. Puts(T, k - 1)  BY <1>1, <3>1
    <3>4. Branch(ch, Null) \in T[k]  BY <3>2
    <3>5. PutsAt(T, k, Branch(ch, Null), p, v)  BY <3>1, <3>2, <3>3, <3>4, PutsIntoBranch
    <3>. QED  BY <3>2, <3>5
  <2>5. CASE ExtensionOf(T, k, reduced, node)
    <3>1. PICK j \in 1 .. k : \E e \in Paths(j), c \in T[k - j] :
            c # Null /\ (reduced => IsBranch(c)) /\ node = Extension(e, c)
      BY <2>5 DEF ExtensionOf
    <3>2. PICK e \in Paths(j), c \in T[k - j] :
            c # Null /\ (reduced => IsBranch(c)) /\ node = Extension(e, c)
      BY <3>1
    <3>3. k \in 1 .. n /\ k - j \in 0 .. k - 1  OBVIOUS
    <3>4. Puts(T, k - j)  BY <1>1, <3>3
    <3>5. Extension(e, c) \in T[k]  BY <3>2
    <3>6. PutsAt(T, k, Extension(e, c), p, v)  BY <3>2, <3>3, <3>4, <3>5, PutsIntoExtension
    <3>. QED  BY <3>2, <3>6
  <2>. QED  BY <2>1, <2>2, <2>3, <2>4, <2>5
<1>2. 0 \in P
  <2>1. 0 \in 0 .. n /\ \A i \in 0 .. 0 - 1 : Puts(T, i)  OBVIOUS
  <2>2. Puts(T, 0)  BY <1>1, <2>1
  <2>3. \A i \in 0 .. 0 : i = 0  OBVIOUS
  <2>. QED  BY <2>2, <2>3
<1>3. ASSUME NEW k \in 1 .. n, k - 1 \in P PROVE k \in P
  <2>1. k \in 0 .. n /\ \A i \in 0 .. k - 1 : Puts(T, i)  BY <1>3
  <2>2. Puts(T, k)  BY <1>1, <2>1
  <2>3. \A i \in 0 .. k : i = k \/ i \in 0 .. k - 1  OBVIOUS
  <2>. QED  BY <2>1, <2>2, <2>3
<1>. HIDE DEF P
<1>4. \A k \in 1 .. n : k - 1 \in P => k \in P  BY <1>3
<1>5. \A k \in 0 .. n : k \in P  BY <1>2, <1>4, InductTo
<1>6. \A k \in 0 .. n : k \in 0 .. k  OBVIOUS
<1>. QED  BY <1>5, <1>6 DEF P

----------------------------------------------------------------------------
(* Deletion.  It does not keep tries reduced. *)

RemovesAt(T, k, node, p) == Sets(T, k, node, p, Without(node, p), Null)

Removes(T, k) == \A node \in T[k], p \in Paths(k) : RemovesAt(T, k, node, p)

(* A nibble before a path. *)
Before(i, p) == <<i>> \o p

IsBefore(k, i, p) ==
  /\ Before(i, p) \in Paths(k) /\ Before(i, p)[1] = i /\ Tail(Before(i, p)) = p
  /\ \A q \in Paths(k) : q = Before(i, p) <=> q[1] = i /\ Tail(q) = p

(* A nibble before a path is a path one longer. *)
LEMMA Longer ==
  ASSUME NEW k \in Nat \ {0}, NEW i \in Nibble, NEW p \in Paths(k - 1)
  PROVE  IsBefore(k, i, p)
<1> DEFINE ip == Before(i, p)
<1>1. k - 1 \in Nat /\ k \in Nat /\ p \in Seq(Nibble) /\ Len(p) = k - 1  BY PathIs
<1>2. ip \in Seq(Nibble) /\ Len(ip) = k /\ ip[1] = i /\ \A x \in 1 .. k - 1 : ip[x + 1] = p[x]
  BY <1>1 DEF Before
<1>. HIDE DEF ip
<1>3. ip \in Paths(k)  BY <1>1, <1>2, PathIs
<1>4. \A q \in Paths(k) : Tail(q) \in Paths(k - 1) /\ \A x \in 1 .. k - 1 : Tail(q)[x] = q[x + 1]
  BY PathTail
<1>5. Tail(ip) = p
  <2>1. Tail(ip) \in Paths(k - 1) /\ \A x \in 1 .. k - 1 : Tail(ip)[x] = p[x]  BY <1>2, <1>3, <1>4
  <2>. QED  BY <1>1, <2>1, PathEqual
<1>6. ASSUME NEW q \in Paths(k), q[1] = i, Tail(q) = p PROVE q = ip
  <2>1. ASSUME NEW x \in 1 .. k PROVE q[x] = ip[x]
    <3>1. CASE x = 1  BY <1>2, <1>6, <3>1
    <3>2. CASE x # 1
      <4> DEFINE y == x - 1
      <4>1. y \in 1 .. k - 1 /\ y + 1 = x  BY <3>2
      <4>. HIDE DEF y
      <4>2. p[y] = q[y + 1]  BY <1>4, <1>6, <4>1
      <4>. QED  BY <1>2, <4>1, <4>2
    <3>. QED  BY <3>1, <3>2
  <2>. QED  BY <1>1, <1>3, <2>1, PathEqual
<1>. QED  BY <1>2, <1>3, <1>5, <1>6 DEF ip, IsBefore

(* A path that starts with one nibble. *)
LEMMA StartsWithOne ==
  ASSUME NEW k \in Nat \ {0}, NEW i \in Nibble, NEW q \in Paths(k)
  PROVE  <<i>> \in Paths(1) /\ (StartsWith(q, <<i>>) <=> q[1] = i) /\ From(q, 1) = Tail(q)
<1>1. <<i>> \in Seq(Nibble) /\ Len(<<i>>) = 1 /\ <<i>>[1] = i  OBVIOUS
<1>2. <<i>> \in Paths(1)  BY <1>1, PathIs
<1>3. \A x \in 1 .. 1 : x = 1  OBVIOUS
<1>4. StartsWith(q, <<i>>) <=> q[1] = i  BY <1>1, <1>3 DEF StartsWith
<1>. QED  BY <1>2, <1>4, PathTail

(* Compaction gives up no entry and invents none (state_trie.py: _compact_branch). *)
LEMMA CompactIs ==
  ASSUME NEW n \in Nat, NEW T, IsTries(T, n, FALSE), NEW k \in 1 .. n,
         NEW ch \in [Nibble -> T[k - 1]]
  PROVE  /\ CompactBranch(Branch(ch, Null)) \in T[k]
         /\ \A q \in Paths(k) : Found(CompactBranch(Branch(ch, Null)), q) = Found(Branch(ch, Null), q)
<1> DEFINE b == Branch(ch, Null)
<1>1. k \in Nat \ {0} /\ k \in 0 .. n /\ k - 1 \in 0 .. n /\ k - 1 \in Nat /\ k > 0  OBVIOUS
<1>2. b[2] = ch /\ b[3] = Null /\ b # Null  BY Kinds
<1>3. \A q \in Paths(k) : /\ Found(b, q) = Found(ch[q[1]], Tail(q))
                          /\ q[1] \in Nibble /\ Tail(q) \in Paths(k - 1) /\ Tail(q) \in Seq(Nibble)
  <2>1. ASSUME NEW q \in Paths(k) PROVE Found(b, q) = Found(ch[q[1]], Tail(q))  BY FoundInBranch
  <2>2. \A q \in Paths(k) : q[1] \in Nibble /\ Tail(q) \in Paths(k - 1)  BY <1>1, PathTail
  <2>. HIDE DEF b
  <2>. QED  BY <1>1, <2>1, <2>2, PathIs
<1>4. b \in T[k]
  <2>1. BranchOf(T, k, FALSE, b)  BY <1>1 DEF BranchOf
  <2>. QED  BY <1>1, <2>1, NodeIs
<1>. HIDE DEF b
<1>5. CASE Children(b) = {}
  <2>1. CompactBranch(b) = Null  BY <1>2, <1>5 DEF CompactBranch
  <2>2. Null \in T[k]  BY <1>1, NodeIs
  <2>3. \A i \in Nibble : ch[i] = Null  BY <1>2, <1>5 DEF Children
  <2>4. ASSUME NEW q \in Paths(k) PROVE Found(Null, q) = Found(b, q)
    <3>1. q \in Seq(Nibble)  BY <1>1, PathIs
    <3>2. Found(Null, q) = Null  BY <3>1, FoundStops
    <3>3. Found(Null, Tail(q)) = Null  BY <1>3, FoundStops
    <3>. QED  BY <1>3, <2>3, <3>2, <3>3
  <2>. QED  BY <2>1, <2>2, <2>4 DEF b
<1>6. CASE \E i \in Nibble : Children(b) = {i}
  <2>1. PICK i \in Nibble : Children(b) = {i}  BY <1>6
  <2>2. (CHOOSE j \in Children(b) : TRUE) = i  BY <2>1
  <2> DEFINE child == ch[i]
  <2>3. /\ child # Null /\ child \in T[k - 1]
        /\ \A j \in Nibble : j # i => ch[j] = Null
    BY <1>2, <2>1 DEF Children
  <2>4. CompactBranch(b) = IF child[1] = "leaf" THEN LeafNode(<<i>> \o child[2], child[3])
                           ELSE Extension(<<i>>, child)
    BY <1>2, <1>6, <2>1, <2>2 DEF CompactBranch
  <2>5. \A q \in Paths(k) : Found(b, q) = IF q[1] = i THEN Found(child, Tail(q)) ELSE Null
    <3>1. \A q \in Paths(k) : Found(Null, Tail(q)) = Null  BY <1>3, FoundStops
    <3>. QED  BY <1>3, <2>3, <3>1
  <2>. HIDE DEF child
  <2>6. \/ LeafOf(k - 1, child) \/ BranchOf(T, k - 1, FALSE, child)
        \/ ExtensionOf(T, k - 1, FALSE, child)
    BY <1>1, <2>3, NodeIs
  <2>7. CASE LeafOf(k - 1, child)
    <3>1. PICK p \in Paths(k - 1), v \in Account : child = LeafNode(p, v)  BY <2>7 DEF LeafOf
    <3>2. child[1] = "leaf" /\ child[2] = p /\ child[3] = v  BY <3>1, Kinds
    <3> DEFINE ip == Before(i, p)
    <3>3. CompactBranch(b) = LeafNode(ip, v)  BY <2>4, <3>2 DEF Before
    <3>4. ip \in Paths(k) /\ \A q \in Paths(k) : q = ip <=> q[1] = i /\ Tail(q) = p
      <4>1. IsBefore(k, i, p)  BY <1>1, Longer
      <4>. QED  BY <4>1 DEF IsBefore
    <3>. HIDE DEF ip
    <3>5. LeafNode(ip, v) \in T[k]
      <4>1. LeafOf(k, LeafNode(ip, v))  BY <3>4 DEF LeafOf
      <4>. QED  BY <1>1, <4>1, NodeIs
    <3>6. ASSUME NEW q \in Paths(k) PROVE Found(LeafNode(ip, v), q) = Found(b, q)
      <4>1. q \in Seq(Nibble)  BY <1>1, PathIs
      <4>2. Found(LeafNode(ip, v), q) = IF ip = q THEN <<v>> ELSE Null  BY <4>1, FoundStops
      <4>3. Found(child, Tail(q)) = IF p = Tail(q) THEN <<v>> ELSE Null
        <5>1. \A t \in Seq(Nibble) : Found(LeafNode(p, v), t) = IF p = t THEN <<v>> ELSE Null
          BY FoundStops
        <5>. QED  BY <1>3, <3>1, <5>1
      <4>4. CASE q = ip
        <5>1. q[1] = i /\ Tail(q) = p  BY <3>4, <4>4
        <5>. QED  BY <2>5, <4>2, <4>3, <4>4, <5>1, Zenon
      <4>5. CASE q # ip
        <5>1. q[1] # i \/ Tail(q) # p  BY <3>4, <4>5
        <5>. QED  BY <2>5, <4>2, <4>3, <4>5, <5>1, Zenon
      <4>. QED  BY <4>4, <4>5
    <3>. QED  BY <3>3, <3>5, <3>6 DEF b
  <2>8. CASE child[1] # "leaf"
    <3>1. CompactBranch(b) = Extension(<<i>>, child)  BY <2>4, <2>8
    <3>2. <<i>> \in Paths(1)
      <4>1. <<i>> \in Seq(Nibble) /\ Len(<<i>>) = 1  OBVIOUS
      <4>. QED  BY <4>1, PathIs
    <3>3. 1 \in 1 .. k  BY <1>1
    <3>4. Extension(<<i>>, child) \in T[k]
      <4>1. ExtensionOf(T, k, FALSE, Extension(<<i>>, child))
        BY <2>3, <3>2, <3>3 DEF ExtensionOf
      <4>. QED  BY <1>1, <4>1, NodeIs
    <3>5. ASSUME NEW q \in Paths(k) PROVE Found(Extension(<<i>>, child), q) = Found(b, q)
      <4>1. Found(Extension(<<i>>, child), q) =
              IF StartsWith(q, <<i>>) THEN Found(child, From(q, 1)) ELSE Null
        BY <2>3, <3>2, <3>3, FoundInExtension
      <4>2. (StartsWith(q, <<i>>) <=> q[1] = i) /\ From(q, 1) = Tail(q)  BY <1>1, StartsWithOne
      <4>3. CASE q[1] = i  BY <2>5, <4>1, <4>2, <4>3, Zenon
      <4>4. CASE q[1] # i  BY <2>5, <4>1, <4>2, <4>4, Zenon
      <4>. QED  BY <4>3, <4>4
    <3>. QED  BY <3>1, <3>4, <3>5 DEF b
  <2>9. BranchOf(T, k - 1, FALSE, child) => child[1] # "leaf"  BY Kinds DEF BranchOf
  <2>10. ExtensionOf(T, k - 1, FALSE, child) => child[1] # "leaf"  BY Kinds DEF ExtensionOf
  <2>. QED  BY <2>6, <2>7, <2>8, <2>9, <2>10
<1>7. CASE Children(b) # {} /\ ~ \E i \in Nibble : Children(b) = {i}
  <2>1. CompactBranch(b) = b  BY <1>7 DEF CompactBranch
  <2>. QED  BY <1>4, <2>1 DEF b
<1>. QED  BY <1>5, <1>6, <1>7

(* Deletion where nothing is. *)
LEMMA RemovesFromNull ==
  ASSUME NEW n \in Nat, NEW T, IsTries(T, n, FALSE), NEW k \in 0 .. n, NEW p \in Paths(k)
  PROVE  RemovesAt(T, k, Null, p)
<1>1. k \in Nat /\ p \in Seq(Nibble)  BY PathIs
<1>2. Without(Null, p) = Null
  <2>1. Without(Null, p) = WithoutHere(CallOf(Null, p))  BY <1>1, StopsAt, WithoutAtOnce
  <2>2. ~IsBranch(Null) /\ ~IsExtension(Null)  BY Kinds
  <2>. QED  BY <2>1, <2>2 DEF WithoutHere, CallOf
<1>3. Null \in T[k]  BY NodeIs
<1>4. \A q \in Paths(k) : Found(Null, q) = Null
  <2>1. \A q \in Paths(k) : q \in Seq(Nibble)  BY <1>1, PathIs
  <2>. QED  BY <2>1, FoundStops
<1>. QED  BY <1>2, <1>3, <1>4 DEF RemovesAt, Sets

(* Deletion from a leaf: only that of its own path. *)
LEMMA RemovesFromLeaf ==
  ASSUME NEW n \in Nat, NEW T, IsTries(T, n, FALSE), NEW k \in 0 .. n,
         NEW old \in Paths(k), NEW w \in Account, LeafNode(old, w) \in T[k], NEW p \in Paths(k)
  PROVE  RemovesAt(T, k, LeafNode(old, w), p)
<1> DEFINE leaf == LeafNode(old, w)
<1>1. k \in Nat /\ p \in Seq(Nibble)  BY PathIs
<1>2. leaf # Null /\ ~IsBranch(leaf) /\ ~IsExtension(leaf) /\ leaf[2] = old  BY Kinds
<1>3. Without(leaf, p) = IF old = p THEN Null ELSE leaf
  <2>1. Without(leaf, p) = WithoutHere(CallOf(leaf, p))  BY <1>1, StopsAt, WithoutAtOnce
  <2>. HIDE DEF leaf
  <2>. QED  BY <1>2, <2>1 DEF WithoutHere, CallOf
<1>4. Null \in T[k]  BY NodeIs
<1>5. \A q \in Paths(k) : /\ Found(Null, q) = Null
                          /\ Found(leaf, q) = IF old = q THEN <<w>> ELSE Null
  <2>1. \A q \in Paths(k) : q \in Seq(Nibble)  BY <1>1, PathIs
  <2>. QED  BY <2>1, FoundStops
<1>. QED  BY <1>3, <1>4, <1>5 DEF RemovesAt, Sets

(* A deletion at a branch is one in the child at the first nibble. *)
LEMMA WithoutInBranch ==
  ASSUME NEW n \in Nat, NEW T, NEW reduced, IsTries(T, n, reduced), NEW k \in 1 .. n,
         NEW ch \in [Nibble -> T[k - 1]], Branch(ch, Null) \in T[k], NEW p \in Paths(k)
  PROVE  Without(Branch(ch, Null), p) =
           WithoutChild(CallOf(Branch(ch, Null), p), Without(ch[p[1]], Tail(p)))
<1> DEFINE b == Branch(ch, Null)
<1>1. k \in Nat \ {0} /\ k \in 0 .. n /\ k - 1 \in 0 .. k - 1  OBVIOUS
<1>2. p[1] \in Nibble /\ Tail(p) \in Paths(k - 1)  BY <1>1, PathTail
<1>3. ch[p[1]] \in T[k - 1]  BY <1>2
<1>4. Descends(CallOf(b, p)) /\ Inner(CallOf(b, p)) = CallOf(ch[p[1]], Tail(p))
  BY <1>1, BranchGoesOn
<1>. QED  BY <1>1, <1>2, <1>3, <1>4, WithoutFurther

(* A deletion at an extension is one below it. *)
LEMMA WithoutInExtension ==
  ASSUME NEW n \in Nat, NEW T, NEW reduced, IsTries(T, n, reduced), NEW k \in 1 .. n,
         NEW j \in 1 .. k, NEW e \in Paths(j), NEW c \in T[k - j],
         Extension(e, c) \in T[k], NEW p \in Paths(k), StartsWith(p, e)
  PROVE  Without(Extension(e, c), p) =
           WithoutChild(CallOf(Extension(e, c), p), Without(c, From(p, j)))
<1> DEFINE ext == Extension(e, c)
<1>1. k \in Nat /\ k \in 0 .. n /\ j \in Nat /\ j \in 0 .. k /\ k - j \in 0 .. k - 1 /\ j <= k  OBVIOUS
<1>2. From(p, j) \in Paths(k - j)  BY <1>1, PathParts
<1>3. Descends(CallOf(ext, p)) /\ Inner(CallOf(ext, p)) = CallOf(c, From(p, j))
  BY <1>1, ExtensionGoesOn
<1>. QED  BY <1>1, <1>2, <1>3, WithoutFurther

(* Deletion from a branch, if deletion from its children is right. *)
LEMMA RemovesFromBranch ==
  ASSUME NEW n \in Nat, NEW T, IsTries(T, n, FALSE), NEW k \in 1 .. n,
         NEW ch \in [Nibble -> T[k - 1]], Branch(ch, Null) \in T[k],
         NEW p \in Paths(k), Removes(T, k - 1)
  PROVE  RemovesAt(T, k, Branch(ch, Null), p)
<1> DEFINE child == Without(ch[p[1]], Tail(p))
           new == [ch EXCEPT ![p[1]] = child]
           b == Branch(ch, Null)
<1>1. k \in Nat \ {0} /\ k \in 0 .. n /\ k - 1 \in 0 .. k - 1 /\ k > 0  OBVIOUS
<1>2. p[1] \in Nibble /\ Tail(p) \in Paths(k - 1)  BY <1>1, PathTail
<1>3. ch[p[1]] \in T[k - 1]  BY <1>2
<1>4. Sets(T, k - 1, ch[p[1]], Tail(p), child, Null)  BY <1>2, <1>3 DEF Removes, RemovesAt
<1>5. Without(b, p) = WithoutChild(CallOf(b, p), child)  BY WithoutInBranch
<1>. HIDE DEF child
<1>6. /\ WithChild(CallOf(b, p), child) = Branch(new, Null)
      /\ new \in [Nibble -> T[k - 1]]
      /\ \A q \in Paths(k) : Found(Branch(new, Null), q) = IF q = p THEN Null ELSE Found(b, q)
  <2>1. Exchanged(T, k, ch, p, child, Null)  BY <1>4, BranchWith
  <2>. QED  BY <2>1 DEF Exchanged
<1>. HIDE DEF new
<1>7. Without(b, p) = CompactBranch(Branch(new, Null))
  <2>1. IsBranch(b)  BY Kinds
  <2>2. (CallOf(b, p)).node = b  BY DEF CallOf
  <2>. HIDE DEF b
  <2>. QED  BY <1>5, <1>6, <2>1, <2>2 DEF WithoutChild
<1>8. /\ CompactBranch(Branch(new, Null)) \in T[k]
      /\ \A q \in Paths(k) : Found(CompactBranch(Branch(new, Null)), q) = Found(Branch(new, Null), q)
  BY <1>6, CompactIs
<1>. QED  BY <1>6, <1>7, <1>8 DEF RemovesAt, Sets

(* Deletion from an extension, if deletion below it is right. *)
LEMMA RemovesFromExtension ==
  ASSUME NEW n \in Nat, NEW T, IsTries(T, n, FALSE), NEW k \in 1 .. n,
         NEW j \in 1 .. k, NEW e \in Paths(j), NEW c \in T[k - j], c # Null,
         Extension(e, c) \in T[k], NEW p \in Paths(k), Removes(T, k - j)
  PROVE  RemovesAt(T, k, Extension(e, c), p)
<1> DEFINE ext == Extension(e, c)
<1>1. k \in Nat /\ k \in 0 .. n /\ j \in Nat /\ j \in 0 .. k /\ k - j \in 0 .. k - 1 /\ j <= k  OBVIOUS
<1>2. From(p, j) \in Paths(k - j) /\ p \in Seq(Nibble)  BY <1>1, PathIs, PathParts
<1>3. ~IsBranch(ext) /\ ext # Null /\ IsExtension(ext) /\ ext[2] = e /\ ext[3] = c  BY Kinds
<1>4. /\ Descends(CallOf(ext, p)) <=> StartsWith(p, e)
      /\ Inner(CallOf(ext, p)) = CallOf(c, From(p, j))
  BY <1>1, ExtensionGoesOn
<1>5. \A q \in Paths(k) : Found(ext, q) = IF StartsWith(q, e) THEN Found(c, From(q, j)) ELSE Null
  BY FoundInExtension
<1>6. CASE StartsWith(p, e)
  <2> DEFINE new == Without(c, From(p, j))
  <2>1. RemovesAt(T, k - j, c, From(p, j))  BY <1>2 DEF Removes
  <2>2. /\ new \in T[k - j]
        /\ \A q \in Paths(k - j) : Found(new, q) = IF q = From(p, j) THEN Null ELSE Found(c, q)
    BY <2>1 DEF RemovesAt, Sets
  <2>3. Without(ext, p) = WithoutChild(CallOf(ext, p), new)  BY <1>6, WithoutInExtension
  <2>. HIDE DEF new
  <2>4. Without(ext, p) = IF new = Null THEN Null ELSE Extension(e, new)
    <3>. HIDE DEF ext
    <3>. QED  BY <1>3, <2>3 DEF WithoutChild, WithChild, CallOf
  <2>5. \A q \in Paths(k) : /\ From(q, j) \in Paths(k - j)
                            /\ q = p <=> StartsWith(q, e) /\ From(q, j) = From(p, j)
    <3>1. \A q \in Paths(k) : From(q, j) \in Paths(k - j)  BY <1>1, PathParts
    <3>2. \A q \in Paths(k) : q = p <=> StartsWith(q, e) /\ From(q, j) = From(p, j)
      BY <1>1, <1>6, SameStart
    <3>. QED  BY <3>1, <3>2
  <2>6. CASE new = Null
    <3>1. \A q \in Paths(k) : q \in Seq(Nibble) /\ From(q, j) \in Seq(Nibble)
      BY <1>1, <2>5, PathIs
    <3>2. \A q \in Paths(k) : Found(Null, q) = Null /\ Found(Null, From(q, j)) = Null
      BY <3>1, FoundStops
    <3>3. \A q \in Paths(k) : Found(Null, q) = IF q = p THEN Null ELSE Found(ext, q)
      <4>. HIDE DEF ext
      <4>. QED  BY <1>5, <2>2, <2>5, <2>6, <3>2
    <3>4. Null \in T[k]  BY <1>1, NodeIs
    <3>. QED  BY <2>4, <2>6, <3>3, <3>4 DEF RemovesAt, Sets
  <2>7. CASE new # Null
    <3>1. Extension(e, new) \in T[k]
      <4>1. ExtensionOf(T, k, FALSE, Extension(e, new))  BY <2>2, <2>7 DEF ExtensionOf
      <4>. QED  BY <1>1, <4>1, NodeIs
    <3>2. \A q \in Paths(k) :
            Found(Extension(e, new), q) = IF StartsWith(q, e) THEN Found(new, From(q, j)) ELSE Null
      BY <2>2, FoundInExtension
    <3>3. \A q \in Paths(k) : Found(Extension(e, new), q) = IF q = p THEN Null ELSE Found(ext, q)
      <4>. HIDE DEF ext
      <4>. QED  BY <1>5, <2>2, <2>5, <3>2
    <3>. QED  BY <2>4, <2>7, <3>1, <3>3 DEF RemovesAt, Sets
  <2>. QED  BY <2>6, <2>7
<1>7. CASE ~StartsWith(p, e)
  <2>1. Without(ext, p) = ext
    <3>1. Without(ext, p) = WithoutHere(CallOf(ext, p))  BY <1>2, <1>4, <1>7, WithoutAtOnce
    <3>. HIDE DEF ext
    <3>. QED  BY <1>3, <3>1 DEF WithoutHere, CallOf
  <2>2. Found(ext, p) = Null  BY <1>5, <1>7
  <2>. QED  BY <2>1, <2>2 DEF RemovesAt, Sets
<1>. QED  BY <1>6, <1>7

(* delete removes one what and leaves the others. *)
LEMMA AlwaysRemoves ==
  ASSUME NEW n \in Nat, NEW T, IsTries(T, n, FALSE)
  PROVE  \A k \in 0 .. n : Removes(T, k)
<1> DEFINE P == {k \in Nat : \A i \in 0 .. k : Removes(T, i)}
<1>1. ASSUME NEW k \in 0 .. n, \A i \in 0 .. k - 1 : Removes(T, i)
      PROVE  Removes(T, k)
  <2>. SUFFICES ASSUME NEW node \in T[k], NEW p \in Paths(k)
                PROVE  RemovesAt(T, k, node, p)
    BY DEF Removes
  <2>1. \/ node = Null \/ LeafOf(k, node)
        \/ BranchOf(T, k, FALSE, node) \/ ExtensionOf(T, k, FALSE, node)
    BY NodeIs
  <2>2. CASE node = Null  BY <2>2, RemovesFromNull
  <2>3. CASE LeafOf(k, node)
    <3>1. PICK old \in Paths(k), w \in Account : node = LeafNode(old, w)  BY <2>3 DEF LeafOf
    <3>2. LeafNode(old, w) \in T[k]  BY <3>1
    <3>. QED  BY <3>1, <3>2, RemovesFromLeaf
  <2>4. CASE BranchOf(T, k, FALSE, node)
    <3>1. k \in 1 .. n /\ k - 1 \in 0 .. k - 1  BY <2>4 DEF BranchOf
    <3>2. PICK ch \in [Nibble -> T[k - 1]] : node = Branch(ch, Null)  BY <2>4 DEF BranchOf
    <3>3. Removes(T, k - 1)  BY <1>1, <3>1
    <3>4. Branch(ch, Null) \in T[k]  BY <3>2
    <3>5. RemovesAt(T, k, Branch(ch, Null), p)  BY <3>1, <3>3, <3>4, RemovesFromBranch
    <3>. QED  BY <3>2, <3>5
  <2>5. CASE ExtensionOf(T, k, FALSE, node)
    <3>1. PICK j \in 1 .. k : \E e \in Paths(j), c \in T[k - j] : c # Null /\ node = Extension(e, c)
      BY <2>5 DEF ExtensionOf
    <3>2. PICK e \in Paths(j), c \in T[k - j] : c # Null /\ node = Extension(e, c)  BY <3>1
    <3>3. k \in 1 .. n /\ k - j \in 0 .. k - 1  OBVIOUS
    <3>4. Removes(T, k - j)  BY <1>1, <3>3
    <3>5. Extension(e, c) \in T[k]  BY <3>2
    <3>6. RemovesAt(T, k, Extension(e, c), p)  BY <3>2, <3>3, <3>4, <3>5, RemovesFromExtension
    <3>. QED  BY <3>2, <3>6
  <2>. QED  BY <2>1, <2>2, <2>3, <2>4, <2>5
<1>2. 0 \in P
  <2>1. 0 \in 0 .. n /\ \A i \in 0 .. 0 - 1 : Removes(T, i)  OBVIOUS
  <2>2. Removes(T, 0)  BY <1>1, <2>1
  <2>3. \A i \in 0 .. 0 : i = 0  OBVIOUS
  <2>. QED  BY <2>2, <2>3
<1>3. ASSUME NEW k \in 1 .. n, k - 1 \in P PROVE k \in P
  <2>1. k \in 0 .. n /\ \A i \in 0 .. k - 1 : Removes(T, i)  BY <1>3
  <2>2. Removes(T, k)  BY <1>1, <2>1
  <2>3. \A i \in 0 .. k : i = k \/ i \in 0 .. k - 1  OBVIOUS
  <2>. QED  BY <2>1, <2>2, <2>3
<1>. HIDE DEF P
<1>4. \A k \in 1 .. n : k - 1 \in P => k \in P  BY <1>3
<1>5. \A k \in 0 .. n : k \in P  BY <1>2, <1>4, InductTo
<1>6. \A k \in 0 .. n : k \in 0 .. k  OBVIOUS
<1>. QED  BY <1>5, <1>6 DEF P

----------------------------------------------------------------------------
(* Reduced tries are joined from the tries of their nibbles *)

LEMMA LongerStart ==
  ASSUME NEW k \in Nat \ {0}, NEW j \in 1 .. k, NEW i \in Nibble, NEW e \in Paths(j - 1),
         NEW q \in Paths(k)
  PROVE  /\ StartsWith(q, Before(i, e)) <=> q[1] = i /\ StartsWith(Tail(q), e)
         /\ From(Tail(q), j - 1) = From(q, j)
<1> DEFINE b == Before(i, e)
<1>1. /\ k \in Nat /\ j \in Nat \ {0} /\ j \in 0 .. k /\ 0 \in 0 .. j - 1 /\ 0 + 1 = 1 /\ 0 \in 0 .. j
      /\ 1 \in 0 .. k /\ j - 1 \in 0 .. k - 1 /\ 1 + (j - 1) = j
  OBVIOUS
<1>2. b \in Paths(j) /\ b[1] = i /\ Tail(b) = e
  <2>1. IsBefore(j, i, e)  BY <1>1, Longer
  <2>. QED  BY <2>1 DEF IsBefore
<1>. HIDE DEF b
<1>3. Tail(q) = From(q, 1) /\ From(b, 1) = e
  <2>1. Tail(q) = From(q, 1)  BY PathTail
  <2>2. Tail(b) = From(b, 1)  BY <1>1, <1>2, PathTail
  <2>. QED  BY <1>2, <2>1, <2>2
<1>4. StartsWith(q, b) <=> q[1] = i /\ StartsWith(Tail(q), e)
  <2>1. \A m \in 0 .. j - 1 :
          StartsWith(q, b) <=> /\ StartsWith(q, Upto(b, m)) /\ q[m + 1] = b[m + 1]
                               /\ StartsWith(From(q, m + 1), From(b, m + 1))
    BY <1>1, <1>2, StartSplit
  <2>2. PICK m : m = 0  OBVIOUS
  <2>3. m \in 0 .. j - 1 /\ m \in 0 .. j /\ m + 1 = 1  BY <1>1, <2>2
  <2>4. Len(Upto(b, m)) = 0  BY <1>1, <1>2, <2>2, <2>3, UptoIs
  <2>5. StartsWith(q, Upto(b, m))  BY <2>4 DEF StartsWith
  <2>6. StartsWith(q, b) <=> q[1] = b[1] /\ StartsWith(From(q, 1), From(b, 1))
    BY <2>1, <2>3, <2>5
  <2>. QED  BY <1>2, <1>3, <2>6
<1>5. From(From(q, 1), j - 1) = From(q, 1 + (j - 1))
  <2>1. \A m \in 0 .. k : \A l \in 0 .. k - m : From(From(q, m), l) = From(q, m + l)
    BY <1>1, PathFrom
  <2>. QED  BY <1>1, <2>1
<1>. QED  BY <1>1, <1>3, <1>4, <1>5 DEF b

(* Joining children: nothing, a branch, or the one child with its nibble before it. *)
LEMMA JoinedIs ==
  ASSUME NEW ch
  PROVE  /\ (\A i \in Nibble : ch[i] = Null) => Joined(ch) = Null
         /\ Several(ch) => Joined(ch) = Branch(ch, Null)
         /\ \A i \in Nibble :
              ch[i] # Null /\ (\A j \in Nibble : j # i => ch[j] = Null) =>
                Joined(ch) = IF IsBranch(ch[i]) THEN Extension(<<i>>, ch[i])
                             ELSE [ch[i] EXCEPT ![2] = <<i>> \o @]
<1> DEFINE some == {i \in Nibble : ch[i] # Null}
           one == CHOOSE j \in some : TRUE
           lifted == [ch[one] EXCEPT ![2] = <<one>> \o @]
<1>1. Joined(ch) = CASE some = {} -> Null
                     [] some # {} /\ some # {one} -> Branch(ch, Null)
                     [] some = {one} /\ IsBranch(ch[one]) -> Extension(<<one>>, ch[one])
                     [] OTHER -> lifted
  BY DEF Joined
<1>2. ASSUME \A i \in Nibble : ch[i] = Null PROVE Joined(ch) = Null
  <2>1. some = {}  BY <1>2
  <2>2. ~(some # {} /\ some # {one}) /\ ~(some = {one} /\ IsBranch(ch[one]))  BY <2>1
  <2>. HIDE DEF some, one, lifted
  <2>. QED  BY <1>1, <2>1, <2>2
<1>3. ASSUME Several(ch) PROVE Joined(ch) = Branch(ch, Null)
  <2>1. PICK i, j \in Nibble : i # j /\ ch[i] # Null /\ ch[j] # Null  BY <1>3 DEF Several
  <2>2. i \in some /\ j \in some  BY <2>1
  <2>. HIDE DEF some, one, lifted
  <2>3. some # {} /\ some # {one}  BY <2>1, <2>2
  <2>. QED  BY <1>1, <2>3
<1>4. ASSUME NEW i \in Nibble, ch[i] # Null, \A j \in Nibble : j # i => ch[j] = Null
      PROVE  Joined(ch) = IF IsBranch(ch[i]) THEN Extension(<<i>>, ch[i])
                          ELSE [ch[i] EXCEPT ![2] = <<i>> \o @]
  <2>1. some = {i}  BY <1>4
  <2>2. one = i  BY <2>1
  <2>3. some = {one} /\ some # {}  BY <2>1, <2>2
  <2>4. lifted = [ch[i] EXCEPT ![2] = <<i>> \o @]  BY <2>2
  <2>. HIDE DEF some, one, lifted
  <2>5. CASE IsBranch(ch[i])  BY <1>1, <2>2, <2>3, <2>5
  <2>6. CASE ~IsBranch(ch[i])  BY <1>1, <2>2, <2>3, <2>4, <2>6
  <2>. QED  BY <2>5, <2>6
<1>. QED  BY <1>2, <1>3, <1>4

Behaves(k, j, e, c) ==
  \A q \in Paths(k) :
    Found(Extension(e, c), q) = IF StartsWith(q, e) THEN Found(c, From(q, j)) ELSE Null

(* On a path with its first nibble an extension is what is left of it; on others nothing. *)
LEMMA ExtensionBehaves ==
  ASSUME NEW n \in Nat, NEW T, NEW reduced, IsTries(T, n, reduced), NEW k \in 1 .. n,
         NEW j \in 1 .. k, NEW e \in Paths(j), NEW c \in T[k - j]
  PROVE  Behaves(k, j, e, c)
<1>1. \A q \in Paths(k) :
        Found(Extension(e, c), q) = IF StartsWith(q, e) THEN Found(c, From(q, j)) ELSE Null
  BY FoundInExtension
<1>. QED  BY <1>1 DEF Behaves

(* Joining children keeps what is found below each. *)
LEMMA Joins ==
  ASSUME NEW n \in Nat, NEW T, IsTries(T, n, TRUE), NEW k \in 1 .. n,
         NEW ch \in [Nibble -> T[k - 1]]
  PROVE  /\ Joined(ch) \in T[k]
         /\ \A q \in Paths(k) : Found(Joined(ch), q) = Found(ch[q[1]], Tail(q))
<1>1. k \in Nat \ {0} /\ k \in 0 .. n /\ k - 1 \in 0 .. n /\ k - 1 \in Nat /\ k > 0  OBVIOUS
<1>2. \A q \in Paths(k) : /\ q[1] \in Nibble /\ Tail(q) \in Paths(k - 1)
                          /\ q \in Seq(Nibble) /\ Tail(q) \in Seq(Nibble)
  <2>1. \A q \in Paths(k) : q[1] \in Nibble /\ Tail(q) \in Paths(k - 1)  BY <1>1, PathTail
  <2>. QED  BY <1>1, <2>1, PathIs
<1>3. \A q \in Paths(k) : Found(Null, q) = Null /\ Found(Null, Tail(q)) = Null  BY <1>2, FoundStops
<1>4. CASE \A i \in Nibble : ch[i] = Null
  <2>1. Joined(ch) = Null  BY <1>4, JoinedIs
  <2>2. Null \in T[k]  BY <1>1, NodeIs
  <2>3. \A q \in Paths(k) : Found(ch[q[1]], Tail(q)) = Null  BY <1>2, <1>3, <1>4
  <2>. QED  BY <1>3, <2>1, <2>2, <2>3
<1>5. CASE Several(ch)
  <2>1. Joined(ch) = Branch(ch, Null)  BY <1>5, JoinedIs
  <2>2. BranchOf(T, k, TRUE, Branch(ch, Null))  BY <1>1, <1>5 DEF BranchOf
  <2>3. Branch(ch, Null) \in T[k]  BY <1>1, <2>2, NodeIs
  <2>4. \A q \in Paths(k) : Found(Branch(ch, Null), q) = Found(ch[q[1]], Tail(q))
    BY FoundInBranch
  <2>. QED  BY <2>1, <2>3, <2>4
<1>6. ASSUME NEW i \in Nibble, ch[i] # Null, \A j \in Nibble : j # i => ch[j] = Null
      PROVE  /\ Joined(ch) \in T[k]
             /\ \A q \in Paths(k) : Found(Joined(ch), q) = Found(ch[q[1]], Tail(q))
  <2> DEFINE child == ch[i]
  <2>1. Joined(ch) = IF IsBranch(child) THEN Extension(<<i>>, child)
                     ELSE [child EXCEPT ![2] = <<i>> \o @]
    BY <1>6, JoinedIs
  <2>2. \A q \in Paths(k) : Found(ch[q[1]], Tail(q)) = IF q[1] = i THEN Found(child, Tail(q)) ELSE Null
    BY <1>2, <1>3, <1>6
  <2>3. child # Null /\ child \in T[k - 1]  BY <1>6
  <2>. HIDE DEF child
  <2>4. \/ LeafOf(k - 1, child) \/ BranchOf(T, k - 1, TRUE, child)
        \/ ExtensionOf(T, k - 1, TRUE, child)
    BY <1>1, <2>3, NodeIs
  <2>5. CASE LeafOf(k - 1, child)
    <3>1. PICK p \in Paths(k - 1), v \in Account : child = LeafNode(p, v)  BY <2>5 DEF LeafOf
    <3> DEFINE ip == Before(i, p)
               leaf == LeafNode(ip, v)
    <3>2. ip \in Paths(k) /\ \A q \in Paths(k) : q = ip <=> q[1] = i /\ Tail(q) = p
      <4>1. IsBefore(k, i, p)  BY <1>1, Longer
      <4>. QED  BY <4>1 DEF IsBefore
    <3>3. Joined(ch) = leaf
      <4>1. ~IsBranch(child)  BY <3>1, Kinds
      <4>2. Joined(ch) = [child EXCEPT ![2] = <<i>> \o @]  BY <2>1, <4>1
      <4>3. [LeafNode(p, v) EXCEPT ![2] = <<i>> \o @] = leaf  BY DEF LeafNode, Before
      <4>. HIDE DEF leaf
      <4>. QED  BY <3>1, <4>2, <4>3
    <3>4. leaf \in T[k]
      <4>1. LeafOf(k, leaf)  BY <3>2 DEF LeafOf
      <4>. QED  BY <1>1, <4>1, NodeIs
    <3>5. ASSUME NEW q \in Paths(k) PROVE Found(leaf, q) = Found(ch[q[1]], Tail(q))
      <4>1. Found(leaf, q) = IF ip = q THEN <<v>> ELSE Null  BY <1>2, FoundStops
      <4>2. Found(child, Tail(q)) = IF p = Tail(q) THEN <<v>> ELSE Null
        <5>1. \A t \in Seq(Nibble) : Found(LeafNode(p, v), t) = IF p = t THEN <<v>> ELSE Null
          BY FoundStops
        <5>. QED  BY <1>2, <3>1, <5>1
      <4>. HIDE DEF ip, leaf
      <4>3. CASE q = ip
        <5>1. q[1] = i /\ Tail(q) = p  BY <3>2, <4>3
        <5>. QED  BY <2>2, <4>1, <4>2, <4>3, <5>1, Zenon
      <4>4. CASE q # ip
        <5>1. q[1] # i \/ Tail(q) # p  BY <3>2, <4>4
        <5>. QED  BY <2>2, <4>1, <4>2, <4>4, <5>1, Zenon
      <4>. QED  BY <4>3, <4>4
    <3>. HIDE DEF leaf
    <3>. QED  BY <3>3, <3>4, <3>5
  <2>6. CASE BranchOf(T, k - 1, TRUE, child)
    <3> DEFINE ext == Extension(<<i>>, child)
    <3>1. IsBranch(child)  BY <2>6, Kinds DEF BranchOf
    <3>2. Joined(ch) = ext  BY <2>1, <3>1
    <3>3. <<i>> \in Paths(1)
      <4>1. <<i>> \in Seq(Nibble) /\ Len(<<i>>) = 1  OBVIOUS
      <4>. QED  BY <4>1, PathIs
    <3>4. 1 \in 1 .. k  BY <1>1
    <3>5. ext \in T[k]
      <4>1. ExtensionOf(T, k, TRUE, ext)  BY <2>3, <3>1, <3>3, <3>4 DEF ExtensionOf
      <4>. QED  BY <1>1, <4>1, NodeIs
    <3>6. ASSUME NEW q \in Paths(k) PROVE Found(ext, q) = Found(ch[q[1]], Tail(q))
      <4>1. Found(ext, q) = IF StartsWith(q, <<i>>) THEN Found(child, From(q, 1)) ELSE Null
        BY <2>3, <3>3, <3>4, FoundInExtension
      <4>2. (StartsWith(q, <<i>>) <=> q[1] = i) /\ From(q, 1) = Tail(q)  BY <1>1, StartsWithOne
      <4>. HIDE DEF ext
      <4>3. CASE q[1] = i  BY <2>2, <4>1, <4>2, <4>3, Zenon
      <4>4. CASE q[1] # i  BY <2>2, <4>1, <4>2, <4>4, Zenon
      <4>. QED  BY <4>3, <4>4
    <3>. HIDE DEF ext
    <3>. QED  BY <3>2, <3>5, <3>6
  <2>7. CASE ExtensionOf(T, k - 1, TRUE, child)
    <3>1. PICK j \in 1 .. k - 1 : \E e \in Paths(j), c \in T[k - 1 - j] :
            c # Null /\ IsBranch(c) /\ child = Extension(e, c)
      BY <2>7 DEF ExtensionOf
    <3>2. PICK e \in Paths(j), c \in T[k - 1 - j] : c # Null /\ IsBranch(c) /\ child = Extension(e, c)
      BY <3>1
    <3> DEFINE m == j + 1
               ie == Before(i, e)
               ext == Extension(ie, c)
    <3>3. /\ m \in 1 .. k /\ m - 1 = j /\ k - 1 - j = k - m /\ m \in Nat \ {0} /\ (k - 1) - j = k - m
          /\ k - 1 \in 1 .. n /\ j \in 1 .. k - 1
      OBVIOUS
    <3>. HIDE DEF m
    <3>4. e \in Paths(m - 1) /\ c \in T[k - m]  BY <3>3
    <3>5. ie \in Paths(m)
      <4>1. IsBefore(m, i, e)  BY <3>3, <3>4, Longer
      <4>. QED  BY <4>1 DEF IsBefore
    <3>6. Joined(ch) = ext
      <4>1. ~IsBranch(child)  BY <3>2, Kinds
      <4>2. Joined(ch) = [child EXCEPT ![2] = <<i>> \o @]  BY <2>1, <4>1
      <4>3. [Extension(e, c) EXCEPT ![2] = <<i>> \o @] = ext  BY DEF Extension, Before
      <4>. HIDE DEF ext
      <4>. QED  BY <3>2, <4>2, <4>3
    <3>7. ext \in T[k]
      <4>. HIDE DEF ie
      <4>1. ExtensionOf(T, k, TRUE, ext)  BY <3>2, <3>3, <3>4, <3>5 DEF ExtensionOf
      <4>. QED  BY <1>1, <4>1, NodeIs
    <3>8. \A q \in Paths(k) : /\ StartsWith(q, ie) <=> q[1] = i /\ StartsWith(Tail(q), e)
                              /\ From(Tail(q), m - 1) = From(q, m)
      BY <1>1, <3>3, <3>4, LongerStart
    <3>. HIDE DEF ie
    <3>9. \A q \in Paths(k) : Found(ext, q) = IF StartsWith(q, ie) THEN Found(c, From(q, m)) ELSE Null
      <4>1. Behaves(k, m, ie, c)  BY <3>3, <3>4, <3>5, ExtensionBehaves
      <4>. QED  BY <4>1 DEF Behaves
    <3>10. \A q \in Paths(k - 1) :
             Found(child, q) = IF StartsWith(q, e) THEN Found(c, From(q, j)) ELSE Null
      <4>1. Behaves(k - 1, j, e, c)
        <5> DEFINE l == k - 1
        <5>1. l \in 1 .. n /\ j \in 1 .. l /\ c \in T[l - j]  BY <3>3
        <5>. HIDE DEF l
        <5>2. Behaves(l, j, e, c)  BY <5>1, ExtensionBehaves
        <5>. QED  BY <5>2 DEF l
      <4>. QED  BY <3>2, <4>1 DEF Behaves
    <3>. HIDE DEF ext
    <3>11. ASSUME NEW q \in Paths(k) PROVE Found(ext, q) = Found(ch[q[1]], Tail(q))
      <4>1. Found(child, Tail(q)) = IF StartsWith(Tail(q), e) THEN Found(c, From(Tail(q), j)) ELSE Null
        BY <1>2, <3>10
      <4>2. From(Tail(q), j) = From(q, m)  BY <3>3, <3>8
      <4>. QED  BY <2>2, <3>8, <3>9, <4>1, <4>2
    <3>. QED  BY <3>6, <3>7, <3>11
  <2>. QED  BY <2>4, <2>5, <2>6, <2>7
<1>7. \/ \A i \in Nibble : ch[i] = Null
      \/ Several(ch)
      \/ \E i \in Nibble : ch[i] # Null /\ \A j \in Nibble : j # i => ch[j] = Null
  BY DEF Several
<1>. QED  BY <1>4, <1>5, <1>6, <1>7

JoinedOf(T, k, node) == \E ch \in [Nibble -> T[k - 1]] : node = Joined(ch)

(* Every reduced trie is joined from the tries of its nibbles. *)
LEMMA Splits ==
  ASSUME NEW n \in Nat, NEW T, IsTries(T, n, TRUE), NEW k \in 1 .. n, NEW node \in T[k]
  PROVE  JoinedOf(T, k, node)
<1>. SUFFICES \E ch \in [Nibble -> T[k - 1]] : node = Joined(ch)  BY DEF JoinedOf
<1>1. /\ k \in Nat \ {0} /\ k \in Nat /\ k \in 0 .. n /\ k - 1 \in 0 .. n /\ k - 1 \in Nat /\ k > 0
      /\ 0 \in 0 .. k - 1
  OBVIOUS
<1>2. Null \in T[k - 1]  BY <1>1, NodeIs
<1>3. NoChildren \in [Nibble -> T[k - 1]] /\ \A i \in Nibble : NoChildren[i] = Null
  BY <1>2 DEF NoChildren
<1>4. ASSUME NEW i \in Nibble, NEW child \in T[k - 1], child # Null,
             node = IF IsBranch(child) THEN Extension(<<i>>, child)
                    ELSE [child EXCEPT ![2] = <<i>> \o @]
      PROVE  \E ch \in [Nibble -> T[k - 1]] : node = Joined(ch)
  <2> DEFINE ch == [NoChildren EXCEPT ![i] = child]
  <2>1. ch \in [Nibble -> T[k - 1]]  BY <1>3
  <2>2. ch[i] = child /\ \A j \in Nibble : j # i => ch[j] = Null  BY <1>3
  <2>. HIDE DEF ch
  <2>3. Joined(ch) = IF IsBranch(ch[i]) THEN Extension(<<i>>, ch[i])
                     ELSE [ch[i] EXCEPT ![2] = <<i>> \o @]
    BY <1>4, <2>2, JoinedIs
  <2>. QED  BY <1>4, <2>1, <2>2, <2>3
<1>5. \/ node = Null \/ LeafOf(k, node)
      \/ BranchOf(T, k, TRUE, node) \/ ExtensionOf(T, k, TRUE, node)
  BY <1>1, NodeIs
<1>6. CASE node = Null
  <2>1. Joined(NoChildren) = Null  BY <1>3, JoinedIs
  <2>. QED  BY <1>3, <1>6, <2>1
<1>7. CASE LeafOf(k, node)
  <2>1. PICK p \in Paths(k), v \in Account : node = LeafNode(p, v)  BY <1>7 DEF LeafOf
  <2> DEFINE i == p[1]
             rest == Tail(p)
             leaf == LeafNode(rest, v)
  <2>2. i \in Nibble /\ rest \in Paths(k - 1)  BY <1>1, PathTail
  <2>3. Before(i, rest) = p
    <3>1. IsBefore(k, i, rest)  BY <1>1, <2>2, Longer
    <3>. QED  BY <3>1 DEF IsBefore
  <2>. HIDE DEF i, rest
  <2>4. leaf \in T[k - 1]
    <3>1. LeafOf(k - 1, leaf)  BY <2>2 DEF LeafOf
    <3>. QED  BY <1>1, <3>1, NodeIs
  <2>5. leaf # Null /\ ~IsBranch(leaf)  BY Kinds
  <2>6. node = [leaf EXCEPT ![2] = <<i>> \o @]
    <3>1. [leaf EXCEPT ![2] = <<i>> \o @] = LeafNode(Before(i, rest), v)
      BY DEF LeafNode, Before
    <3>. HIDE DEF leaf
    <3>. QED  BY <2>1, <2>3, <3>1
  <2>. HIDE DEF leaf
  <2>. QED  BY <1>4, <2>2, <2>4, <2>5, <2>6
<1>8. CASE BranchOf(T, k, TRUE, node)
  <2>1. PICK ch \in [Nibble -> T[k - 1]] : Several(ch) /\ node = Branch(ch, Null)
    BY <1>8 DEF BranchOf
  <2>2. Joined(ch) = node  BY <2>1, JoinedIs
  <2>. QED  BY <2>1, <2>2
<1>9. CASE ExtensionOf(T, k, TRUE, node)
  <2>1. PICK j \in 1 .. k : \E e \in Paths(j), c \in T[k - j] :
          c # Null /\ IsBranch(c) /\ node = Extension(e, c)
    BY <1>9 DEF ExtensionOf
  <2>2. PICK e \in Paths(j), c \in T[k - j] : c # Null /\ IsBranch(c) /\ node = Extension(e, c)
    BY <2>1
  <2> DEFINE i == e[1]
             rest == Tail(e)
             child == Extension(rest, c)
  <2>3. j \in Nat \ {0} /\ j \in Nat  OBVIOUS
  <2>4. i \in Nibble /\ rest \in Paths(j - 1)  BY <2>3, PathTail
  <2>5. CASE j = 1
    <3>1. e = <<i>>
      <4>1. e \in Seq(Nibble) /\ Len(e) = 1  BY <2>3, <2>5, PathIs
      <4>. QED  BY <4>1
    <3>2. c \in T[k - 1]  BY <2>5
    <3>. HIDE DEF i
    <3>3. node = Extension(<<i>>, c)  BY <2>2, <3>1
    <3>. QED  BY <1>4, <2>2, <2>4, <3>2, <3>3
  <2>6. CASE j # 1
    <3>1. Before(i, rest) = e
      <4>1. IsBefore(j, i, rest)  BY <2>3, <2>4, Longer
      <4>. QED  BY <4>1 DEF IsBefore
    <3>. HIDE DEF i, rest
    <3>2. j - 1 \in 1 .. k - 1 /\ (k - 1) - (j - 1) = k - j  BY <2>6
    <3>3. child \in T[k - 1]
      <4> DEFINE m == j - 1
      <4>1. m \in 1 .. k - 1 /\ rest \in Paths(m) /\ c \in T[(k - 1) - m]  BY <2>4, <3>2
      <4>. HIDE DEF m
      <4>2. ExtensionOf(T, k - 1, TRUE, child)  BY <2>2, <4>1 DEF ExtensionOf
      <4>. QED  BY <1>1, <4>2, NodeIs
    <3>4. child # Null /\ ~IsBranch(child)  BY Kinds
    <3>5. node = [child EXCEPT ![2] = <<i>> \o @]
      <4>1. [child EXCEPT ![2] = <<i>> \o @] = Extension(Before(i, rest), c)
        BY DEF Extension, Before
      <4>. HIDE DEF child
      <4>. QED  BY <2>2, <3>1, <4>1
    <3>. HIDE DEF child
    <3>. QED  BY <1>4, <2>4, <3>3, <3>4, <3>5
  <2>. QED  BY <2>5, <2>6
<1>. QED  BY <1>5, <1>6, <1>7, <1>8, <1>9

(* Two reduced tries in which the same is found are the same. *)
Distinct(T, k) ==
  \A x, y \in T[k] : (\A q \in Paths(k) : Found(x, q) = Found(y, q)) => x = y

(* Reduced tries that hold the same on every path are the same. *)
LEMMA AlwaysDistinct ==
  ASSUME NEW n \in Nat, NEW T, IsTries(T, n, TRUE)
  PROVE  \A k \in 0 .. n : Distinct(T, k)
<1> DEFINE P == {k \in Nat : Distinct(T, k)}
<1>1. Distinct(T, 0)
  <2>1. 0 \in 0 .. n /\ 0 \in Nat /\ \A j \in 1 .. 0 : FALSE  OBVIOUS
  <2>2. << >> \in Paths(0) /\ \A q \in Paths(0) : q = << >>
    <3>1. << >> \in Seq(Nibble) /\ Len(<< >>) = 0  OBVIOUS
    <3>2. \A q \in Seq(Nibble) : Len(q) = 0 => q = << >>  OBVIOUS
    <3>. QED  BY <2>1, <3>1, <3>2, PathIs
  <2>3. << >> \in Seq(Nibble)  OBVIOUS
  <2> DEFINE empty == << >>
  <2>4. empty \in Paths(0) /\ \A q \in Paths(0) : q = empty  BY <2>2
  <2>5. /\ Found(Null, empty) = Null
        /\ \A p, v : Found(LeafNode(p, v), empty) = IF p = empty THEN <<v>> ELSE Null
    BY <2>3, FoundStops
  <2>6. \A node \in T[0] : node = Null \/ \E v \in Account : node = LeafNode(empty, v)
    <3>. SUFFICES ASSUME NEW node \in T[0]
                  PROVE  node = Null \/ \E v \in Account : node = LeafNode(empty, v)
      OBVIOUS
    <3>1. \/ node = Null \/ LeafOf(0, node)
          \/ BranchOf(T, 0, TRUE, node) \/ ExtensionOf(T, 0, TRUE, node)
      BY <2>1, NodeIs
    <3>2. ~BranchOf(T, 0, TRUE, node)  BY DEF BranchOf
    <3>3. ~ExtensionOf(T, 0, TRUE, node)  BY <2>1 DEF ExtensionOf
    <3>. HIDE DEF empty
    <3>4. LeafOf(0, node) => \E v \in Account : node = LeafNode(empty, v)  BY <2>4 DEF LeafOf
    <3>. QED  BY <3>1, <3>2, <3>3, <3>4
  <2>7. \A v : <<v>> # Null  BY DEF Null
  <2>8. \A v, w : <<v>> = <<w>> => v = w  OBVIOUS
  <2>. HIDE DEF empty
  <2>9. ASSUME NEW x \in T[0], NEW y \in T[0], Found(x, empty) = Found(y, empty) PROVE x = y
    <3>1. CASE x = Null
      <4>1. \A v : y # LeafNode(empty, v)  BY <2>5, <2>7, <2>9, <3>1
      <4>. QED  BY <2>6, <3>1, <4>1
    <3>2. CASE \E v \in Account : x = LeafNode(empty, v)
      <4>1. PICK v \in Account : x = LeafNode(empty, v)  BY <3>2
      <4>2. Found(x, empty) = <<v>>  BY <2>5, <4>1
      <4>3. y # Null  BY <2>5, <2>7, <2>9, <4>2
      <4>4. PICK w \in Account : y = LeafNode(empty, w)  BY <2>6, <4>3
      <4>5. Found(y, empty) = <<w>>  BY <2>5, <4>4
      <4>6. v = w  BY <2>8, <2>9, <4>2, <4>5
      <4>. QED  BY <4>1, <4>4, <4>6
    <3>. QED  BY <2>6, <3>1, <3>2
  <2>. QED  BY <2>4, <2>9 DEF Distinct
<1>2. ASSUME NEW k \in 1 .. n, Distinct(T, k - 1) PROVE Distinct(T, k)
  <2>. SUFFICES ASSUME NEW x \in T[k], NEW y \in T[k], \A q \in Paths(k) : Found(x, q) = Found(y, q)
                PROVE  x = y
    BY DEF Distinct
  <2>0. JoinedOf(T, k, x) /\ JoinedOf(T, k, y)  BY Splits
  <2>1. PICK a \in [Nibble -> T[k - 1]] : x = Joined(a)  BY <2>0 DEF JoinedOf
  <2>2. PICK b \in [Nibble -> T[k - 1]] : y = Joined(b)  BY <2>0 DEF JoinedOf
  <2>3. \A q \in Paths(k) : Found(a[q[1]], Tail(q)) = Found(b[q[1]], Tail(q))
    <3>1. \A q \in Paths(k) : Found(Joined(a), q) = Found(a[q[1]], Tail(q))  BY Joins
    <3>2. \A q \in Paths(k) : Found(Joined(b), q) = Found(b[q[1]], Tail(q))  BY Joins
    <3>. QED  BY <2>1, <2>2, <3>1, <3>2
  <2>4. ASSUME NEW i \in Nibble PROVE a[i] = b[i]
    <3>1. ASSUME NEW q \in Paths(k - 1) PROVE Found(a[i], q) = Found(b[i], q)
      <4> DEFINE iq == Before(i, q)
      <4>1. k \in Nat \ {0}  OBVIOUS
      <4>2. iq \in Paths(k) /\ iq[1] = i /\ Tail(iq) = q
        <5>1. IsBefore(k, i, q)  BY <4>1, Longer
        <5>. QED  BY <5>1 DEF IsBefore
      <4>. HIDE DEF iq
      <4>. QED  BY <2>3, <4>2
    <3>2. a[i] \in T[k - 1] /\ b[i] \in T[k - 1]  OBVIOUS
    <3>. QED  BY <1>2, <3>1, <3>2 DEF Distinct
  <2>5. a = b  BY <2>4
  <2>. QED  BY <2>1, <2>2, <2>5
<1>3. 0 \in P  BY <1>1
<1>4. \A k \in 1 .. n : k - 1 \in P => k \in P  BY <1>2
<1>. HIDE DEF P
<1>5. \A k \in 0 .. n : k \in P  BY <1>3, <1>4, InductTo
<1>. QED  BY <1>5 DEF P

----------------------------------------------------------------------------
(* The canonical trie of a map *)

EntryOf(contents, p) == IF p \in DOMAIN contents THEN <<contents[p]>> ELSE Null

(* A path with a nibble after it is a path one longer. *)
LEMMA PathAppend ==
  ASSUME NEW l \in Nat, NEW a \in Paths(l), NEW i \in Nibble
  PROVE  /\ Append(a, i) \in Paths(l + 1) /\ Append(a, i)[l + 1] = i
         /\ \A x \in 1 .. l : Append(a, i)[x] = a[x]
<1>1. a \in Seq(Nibble) /\ Len(a) = l /\ l + 1 \in Nat  BY PathIs
<1> DEFINE b == Append(a, i)
<1>2. b \in Seq(Nibble) /\ Len(b) = l + 1 /\ b[l + 1] = i /\ \A x \in 1 .. l : b[x] = a[x]
  BY <1>1
<1>. HIDE DEF b
<1>3. b \in Paths(l + 1)  BY <1>1, <1>2, PathIs
<1>. QED  BY <1>2, <1>3 DEF b

(* A prefix and a path behind it. *)
LEMMA PathJoin ==
  ASSUME NEW k \in Nat \ {0}, NEW l \in Nat, NEW a \in Paths(l), NEW q \in Paths(k)
  PROVE  Append(a, q[1]) \o Tail(q) = a \o q
<1> DEFINE b == Append(a, q[1])
           t == Tail(q)
           x == b \o t
           y == a \o q
<1>1. /\ a \in Seq(Nibble) /\ Len(a) = l /\ q \in Seq(Nibble) /\ Len(q) = k
      /\ k \in Nat /\ k - 1 \in Nat /\ l + 1 \in Nat
  BY PathIs
<1>2. t \in Paths(k - 1) /\ q[1] \in Nibble /\ \A i \in 1 .. k - 1 : t[i] = q[i + 1]  BY PathTail
<1>3. b \in Paths(l + 1) /\ b[l + 1] = q[1] /\ \A i \in 1 .. l : b[i] = a[i]  BY <1>2, PathAppend
<1>. HIDE DEF b, t
<1>4. t \in Seq(Nibble) /\ Len(t) = k - 1 /\ b \in Seq(Nibble) /\ Len(b) = l + 1
  BY <1>1, <1>2, <1>3, PathIs
<1>5. x \in Paths(l + k) /\ \A i \in 1 .. l + k : x[i] = IF i <= l + 1 THEN b[i] ELSE t[i - (l + 1)]
  <2>1. x \in Seq(Nibble) /\ Len(x) = Len(b) + Len(t)  BY <1>4
  <2>2. \A i \in 1 .. Len(b) + Len(t) : x[i] = IF i <= Len(b) THEN b[i] ELSE t[i - Len(b)]  BY <1>4
  <2>3. Len(b) + Len(t) = l + k /\ Len(b) = l + 1 /\ l + k \in Nat  BY <1>1, <1>4
  <2>. HIDE DEF x
  <2>. QED  BY <2>1, <2>2, <2>3, PathIs
<1>6. y \in Paths(l + k) /\ \A i \in 1 .. l + k : y[i] = IF i <= l THEN a[i] ELSE q[i - l]
  <2>1. y \in Seq(Nibble) /\ Len(y) = Len(a) + Len(q)  BY <1>1
  <2>2. \A i \in 1 .. Len(a) + Len(q) : y[i] = IF i <= Len(a) THEN a[i] ELSE q[i - Len(a)]  BY <1>1
  <2>3. Len(a) + Len(q) = l + k /\ Len(a) = l /\ l + k \in Nat  BY <1>1
  <2>. HIDE DEF y
  <2>. QED  BY <2>1, <2>2, <2>3, PathIs
<1>. HIDE DEF x, y
<1>7. ASSUME NEW i \in 1 .. l + k PROVE x[i] = y[i]
  <2>1. CASE i <= l
    <3>1. i \in 1 .. l /\ i <= l + 1  BY <2>1
    <3>. QED  BY <1>3, <1>5, <1>6, <2>1, <3>1
  <2>2. CASE i = l + 1
    <3>1. i - l = 1 /\ ~(i <= l)  BY <2>2
    <3>. QED  BY <1>3, <1>5, <1>6, <2>2, <3>1
  <2>3. CASE i > l + 1
    <3> DEFINE d == i - (l + 1)
    <3>1. d \in 1 .. k - 1 /\ d + 1 = i - l /\ ~(i <= l) /\ ~(i <= l + 1)  BY <2>3
    <3>2. x[i] = t[d]  BY <1>5, <3>1
    <3>. HIDE DEF d
    <3>. QED  BY <1>2, <1>6, <3>1, <3>2
  <2>. QED  BY <2>1, <2>2, <2>3
<1>8. x = y
  <2>1. l + k \in Nat  BY <1>1
  <2>. QED  BY <1>5, <1>6, <1>7, <2>1, PathEqual
<1>. QED  BY <1>8 DEF b, t, x, y

(* The recursion over the levels. *)
Bottom(n, contents) ==
  [path \in Paths(n) |->
     IF path \in DOMAIN contents THEN LeafNode(<< >>, contents[path]) ELSE Null]

Level(n, k, below) ==
  [prefix \in Paths(n - k) |-> Joined([i \in Nibble |-> below[Append(prefix, i)]])]

Levels(n, contents, f) ==
  f[0] = Bottom(n, contents) /\ \A k \in 1 .. n : f[k] = Level(n, k, f[k - 1])

(* The canonical trie is built level by level, from the longest prefixes to the empty one. *)
LEMMA LevelsExist ==
  ASSUME NEW n \in Nat, NEW contents
  PROVE  \E f : Levels(n, contents, f) /\ Canonical(n, contents) = f[n][<< >>]
<1> DEFINE Run(m, f) == f = [k \in 0 .. m |-> IF k = 0 THEN Bottom(n, contents) ELSE Level(n, k, f[k - 1])]
           P == {m \in Nat : \E f : Run(m, f)}
           of == CHOOSE f : Run(n, f)
<1>1. 0 \in P
  <2>1. Run(0, [k \in 0 .. 0 |-> Bottom(n, contents)])  OBVIOUS
  <2>. QED  BY <2>1
<1>2. ASSUME NEW i \in 1 .. n, i - 1 \in P PROVE i \in P
  <2>1. PICK f : Run(i - 1, f)  BY <1>2
  <2> DEFINE g == [k \in 0 .. i |-> IF k = i THEN Level(n, i, f[i - 1]) ELSE f[k]]
  <2>2. \A k \in 0 .. i - 1 : f[k] = IF k = 0 THEN Bottom(n, contents) ELSE Level(n, k, f[k - 1])
    BY <2>1
  <2>3. ASSUME NEW k \in 0 .. i
        PROVE  g[k] = IF k = 0 THEN Bottom(n, contents) ELSE Level(n, k, g[k - 1])
    <3>1. CASE k = i
      <4>1. k # 0 /\ k - 1 \in 0 .. i /\ k - 1 # i  BY <3>1
      <4>. QED  BY <3>1, <4>1
    <3>2. CASE k # i
      <4>1. k \in 0 .. i - 1  BY <3>2
      <4>2. CASE k = 0  BY <2>2, <3>2, <4>1, <4>2
      <4>3. CASE k # 0
        <5>1. k - 1 \in 0 .. i /\ k - 1 # i  BY <4>1, <4>3
        <5>. QED  BY <2>2, <3>2, <4>1, <4>3, <5>1
      <4>. QED  BY <4>2, <4>3
    <3>. QED  BY <3>1, <3>2
  <2>4. g = [k \in 0 .. i |-> g[k]]  OBVIOUS
  <2>. HIDE DEF g
  <2>5. Run(i, g)  BY <2>3, <2>4
  <2>. QED  BY <2>5
<1>3. n \in P
  <2>. HIDE DEF P
  <2>1. \A i \in 1 .. n : i - 1 \in P => i \in P  BY <1>2
  <2>2. \A i \in 0 .. n : i \in P  BY <1>1, <2>1, InductTo
  <2>. QED  BY <2>2
<1>4. Run(n, of)
  <2>. HIDE DEF Run
  <2>1. \E f : Run(n, f)  BY <1>3
  <2>. QED  BY <2>1
<1>5. Canonical(n, contents) = of[n][<< >>]  BY DEF Canonical, Bottom, Level, Paths
<1>. HIDE DEF of
<1>6. \A k \in 0 .. n : of[k] = IF k = 0 THEN Bottom(n, contents) ELSE Level(n, k, of[k - 1])
  BY <1>4
<1>7. of[0] = Bottom(n, contents)  BY <1>6
<1>8. \A k \in 1 .. n : of[k] = Level(n, k, of[k - 1])  BY <1>6
<1>. QED  BY <1>5, <1>7, <1>8 DEF Levels

(* The tries below the prefixes that lack k nibbles. *)
Tops(T, n, contents, k, g) ==
  \A prefix \in Paths(n - k) :
    /\ g[prefix] \in T[k]
    /\ \A q \in Paths(k) : Found(g[prefix], q) = EntryOf(contents, prefix \o q)

(* The lowest level: a leaf or nothing for each path. *)
LEMMA BottomTops ==
  ASSUME NEW n \in Nat, NEW T, IsTries(T, n, TRUE), NEW contents,
         \A p \in DOMAIN contents : contents[p] \in Account
  PROVE  Tops(T, n, contents, 0, Bottom(n, contents))
<1> DEFINE empty == << >>
<1>1. n - 0 = n /\ 0 \in 0 .. n /\ 0 \in Nat  OBVIOUS
<1>2. empty \in Seq(Nibble) /\ empty \in Paths(0) /\ \A q \in Paths(0) : q = empty
  <2>1. << >> \in Seq(Nibble) /\ Len(<< >>) = 0  OBVIOUS
  <2>2. \A q \in Seq(Nibble) : Len(q) = 0 => q = << >>  OBVIOUS
  <2>. QED  BY <1>1, <2>1, <2>2, PathIs
<1>3. \A p \in Paths(n) : p \o empty = p
  <2>1. \A p \in Paths(n) : p \in Seq(Nibble)  BY PathIs
  <2>. QED  BY <2>1
<1>. SUFFICES ASSUME NEW p \in Paths(n)
              PROVE  /\ Bottom(n, contents)[p] \in T[0]
                     /\ Found(Bottom(n, contents)[p], empty) = EntryOf(contents, p)
  <2>. HIDE DEF empty
  <2>. QED  BY <1>1, <1>2, <1>3 DEF Tops
<1> DEFINE node == IF p \in DOMAIN contents THEN LeafNode(empty, contents[p]) ELSE Null
<1>4. Bottom(n, contents)[p] = node  BY DEF Bottom
<1>. HIDE DEF empty
<1>5. CASE p \in DOMAIN contents
  <2>1. LeafOf(0, node)  BY <1>2, <1>5 DEF LeafOf
  <2>2. node \in T[0]  BY <1>1, <2>1, NodeIs
  <2>3. Found(node, empty) = <<contents[p]>>  BY <1>2, <1>5, FoundStops
  <2>. QED  BY <1>4, <1>5, <2>2, <2>3 DEF EntryOf
<1>6. CASE p \notin DOMAIN contents
  <2>1. node = Null /\ Null \in T[0]  BY <1>1, <1>6, NodeIs
  <2>2. Found(Null, empty) = Null  BY <1>2, FoundStops
  <2>. QED  BY <1>4, <1>6, <2>1, <2>2 DEF EntryOf
<1>. QED  BY <1>5, <1>6

(* Each level is made of the one below it by joining. *)
LEMMA LevelTops ==
  ASSUME NEW n \in Nat, NEW T, IsTries(T, n, TRUE), NEW contents, NEW k \in 1 .. n,
         NEW below, Tops(T, n, contents, k - 1, below)
  PROVE  Tops(T, n, contents, k, Level(n, k, below))
<1>. SUFFICES ASSUME NEW prefix \in Paths(n - k)
              PROVE  /\ Level(n, k, below)[prefix] \in T[k]
                     /\ \A q \in Paths(k) : Found(Level(n, k, below)[prefix], q) =
                                              EntryOf(contents, prefix \o q)
  BY DEF Tops
<1> DEFINE ch == [i \in Nibble |-> below[Append(prefix, i)]]
<1>1. n - k \in Nat /\ n - k + 1 = n - (k - 1) /\ k \in Nat \ {0}  OBVIOUS
<1>2. \A i \in Nibble : Append(prefix, i) \in Paths(n - (k - 1))  BY <1>1, PathAppend
<1>3. \A i \in Nibble : /\ ch[i] \in T[k - 1]
                        /\ \A q \in Paths(k - 1) : Found(ch[i], q) = EntryOf(contents, Append(prefix, i) \o q)
  BY <1>2 DEF Tops
<1>4. ch \in [Nibble -> T[k - 1]]  BY <1>3
<1>5. Level(n, k, below)[prefix] = Joined(ch)  BY DEF Level
<1>. HIDE DEF ch
<1>6. Joined(ch) \in T[k] /\ \A q \in Paths(k) : Found(Joined(ch), q) = Found(ch[q[1]], Tail(q))
  <2>1. Joined(ch) \in T[k]  BY <1>4, Joins
  <2>2. ASSUME NEW q \in Paths(k) PROVE Found(Joined(ch), q) = Found(ch[q[1]], Tail(q))
    BY <1>4, Joins
  <2>. QED  BY <2>1, <2>2
<1>7. ASSUME NEW q \in Paths(k) PROVE Found(Joined(ch), q) = EntryOf(contents, prefix \o q)
  <2>1. q[1] \in Nibble /\ Tail(q) \in Paths(k - 1)  BY <1>1, PathTail
  <2>2. Found(ch[q[1]], Tail(q)) = EntryOf(contents, Append(prefix, q[1]) \o Tail(q))  BY <1>3, <2>1
  <2>3. Append(prefix, q[1]) \o Tail(q) = prefix \o q  BY <1>1, PathJoin
  <2>. QED  BY <1>6, <2>2, <2>3
<1>. QED  BY <1>5, <1>6, <1>7

(* A reduced trie with these entries is the canonical one. *)
LEMMA IsCanonical ==
  ASSUME NEW n \in Nat, NEW T, IsTries(T, n, TRUE), NEW contents,
         \A p \in DOMAIN contents : contents[p] \in Account,
         NEW node \in T[n], \A q \in Paths(n) : Found(node, q) = EntryOf(contents, q)
  PROVE  node = Canonical(n, contents)
<1>1. PICK f : Levels(n, contents, f) /\ Canonical(n, contents) = f[n][<< >>]  BY LevelsExist
<1> DEFINE P == {k \in Nat : Tops(T, n, contents, k, f[k])}
<1>2. 0 \in P  BY <1>1, BottomTops DEF Levels
<1>3. ASSUME NEW k \in 1 .. n, k - 1 \in P PROVE k \in P
  <2>1. f[k] = Level(n, k, f[k - 1])  BY <1>1 DEF Levels
  <2>2. Tops(T, n, contents, k, Level(n, k, f[k - 1]))  BY <1>3, LevelTops
  <2>. QED  BY <2>1, <2>2
<1>4. n \in P
  <2>. HIDE DEF P
  <2>1. \A k \in 1 .. n : k - 1 \in P => k \in P  BY <1>3
  <2>2. \A k \in 0 .. n : k \in P  BY <1>2, <2>1, InductTo
  <2>. QED  BY <2>2
<1>5. Tops(T, n, contents, n, f[n])  BY <1>4
<1> DEFINE empty == << >>
<1>6. empty \in Paths(n - n) /\ \A q \in Paths(n) : empty \o q = q
  <2>1. << >> \in Seq(Nibble) /\ Len(<< >>) = 0 /\ n - n = 0 /\ 0 \in Nat  OBVIOUS
  <2>2. empty \in Paths(0)  BY <2>1, PathIs
  <2>3. \A q \in Paths(n) : q \in Seq(Nibble)  BY PathIs
  <2>. QED  BY <2>1, <2>2, <2>3
<1>7. Canonical(n, contents) = f[n][empty]  BY <1>1
<1>. HIDE DEF empty, P
<1>8. /\ f[n][empty] \in T[n]
      /\ \A q \in Paths(n) : Found(f[n][empty], q) = EntryOf(contents, q)
  <2>1. /\ f[n][empty] \in T[n]
        /\ \A q \in Paths(n) : Found(f[n][empty], q) = EntryOf(contents, empty \o q)
    BY <1>5, <1>6 DEF Tops
  <2>. QED  BY <1>6, <2>1
<1>9. Distinct(T, n)
  <2>1. \A k \in 0 .. n : Distinct(T, k)  BY AlwaysDistinct
  <2>. QED  BY <2>1
<1>10. \A q \in Paths(n) : Found(node, q) = Found(f[n][empty], q)  BY <1>8
<1>. QED  BY <1>7, <1>8, <1>9, <1>10 DEF Distinct

----------------------------------------------------------------------------
(* The trie and the cache *)

Tries(n, reduced) == CHOOSE T : IsTries(T, n, reduced)

(* The sets of tries of all lengths exist. *)
LEMMA TriesAre ==
  ASSUME NEW n \in Nat, NEW reduced
  PROVE  IsTries(Tries(n, reduced), n, reduced)
BY TriesExist DEF Tries

PathLength(a) == Len(PathOf[a])

(* The accounts' paths have one length, and no two share one. *)
LEMMA PathsOf ==
  ASSUME NEW a \in Accounts
  PROVE  /\ PathLength(a) \in Nat
         /\ \A b \in Accounts : /\ PathLength(b) = PathLength(a)
                                /\ PathOf[b] \in Paths(PathLength(a))
                                /\ PathOf[a] = PathOf[b] => a = b
<1>1. \A b \in Accounts : PathOf[b] \in Seq(Nibble) /\ PathLength(b) \in Nat
  BY TrieAssumption DEF PathLength
<1>2. \A b \in Accounts : PathLength(b) = PathLength(a) /\ (PathOf[a] = PathOf[b] => a = b)
  BY TrieAssumption DEF PathLength
<1>3. ASSUME NEW b \in Accounts PROVE PathOf[b] \in Paths(PathLength(b))
  BY <1>1, PathIs DEF PathLength
<1>. QED  BY <1>1, <1>2, <1>3

(* A trie holds a map: nothing else is found, on any path.                 *)
Holds(node, m) ==
  \A a \in Accounts :
    /\ Found(node, PathOf[a]) = IF a \in DOMAIN m THEN <<m[a]>> ELSE Null
    /\ \A q \in Paths(PathLength(a)) :
         (\A b \in Accounts : PathOf[b] # q) => Found(node, q) = Null

Shaped(node, reduced) ==
  \A a \in Accounts : node \in Tries(PathLength(a), reduced)[PathLength(a)]

SoundState(s, reduced) == s.map \in Maps /\ Shaped(s.node, reduced) /\ Holds(s.node, s.map)

(* Storing an account keeps trie and cache together. *)
LEMMA PutSound ==
  ASSUME NEW s, NEW reduced, SoundState(s, reduced), NEW a \in Accounts, NEW acc \in Account
  PROVE  SoundState(PutIn(s, a, acc), reduced)
<1> DEFINE n == PathLength(a)
           T == Tries(n, reduced)
           t == PutIn(s, a, acc)
<1>1. /\ n \in Nat
      /\ \A b \in Accounts : /\ PathLength(b) = n /\ PathOf[b] \in Paths(n)
                             /\ PathOf[a] = PathOf[b] => a = b
  BY PathsOf
<1>2. IsTries(T, n, reduced)  BY <1>1, TriesAre
<1>3. s.node \in T[n]  BY DEF SoundState, Shaped
<1>4. t.map \in Maps /\ t.map = [b \in DOMAIN s.map \cup {a} |-> IF b = a THEN acc ELSE s.map[b]]
  <2>1. s.map \in Maps  BY DEF SoundState
  <2>2. t.map \in Maps  BY <2>1, PutIs
  <2>. QED  BY <2>2 DEF PutIn
<1>5. t.node = Inserted(s.node, PathOf[a], acc)  BY DEF PutIn
<1>. HIDE DEF t, n
<1>6. \A b \in Accounts : Tries(PathLength(b), reduced)[PathLength(b)] = T[n]  BY <1>1
<1>. HIDE DEF T
<1>7. Puts(T, n)
  <2>1. \A k \in 0 .. n : Puts(T, k)  BY <1>1, <1>2, AlwaysPuts
  <2>. QED  BY <1>1, <2>1
<1>8. /\ t.node \in T[n]
      /\ \A q \in Paths(n) : Found(t.node, q) = IF q = PathOf[a] THEN <<acc>> ELSE Found(s.node, q)
  <2>1. PutsAt(T, n, s.node, PathOf[a], acc)  BY <1>1, <1>3, <1>7 DEF Puts
  <2>. QED  BY <1>5, <2>1 DEF PutsAt, Sets
<1>9. Shaped(t.node, reduced)  BY <1>6, <1>8 DEF Shaped
<1>10. ASSUME NEW b \in Accounts
       PROVE  /\ Found(t.node, PathOf[b]) = IF b \in DOMAIN t.map THEN <<t.map[b]>> ELSE Null
              /\ \A q \in Paths(PathLength(b)) :
                   (\A c \in Accounts : PathOf[c] # q) => Found(t.node, q) = Null
  <2>1. /\ Found(s.node, PathOf[b]) = IF b \in DOMAIN s.map THEN <<s.map[b]>> ELSE Null
        /\ \A q \in Paths(n) : (\A c \in Accounts : PathOf[c] # q) => Found(s.node, q) = Null
    BY <1>1 DEF SoundState, Holds
  <2>2. \A q \in Paths(PathLength(b)) :
          (\A c \in Accounts : PathOf[c] # q) => Found(t.node, q) = Null
    BY <1>1, <1>8, <2>1
  <2>3. CASE b = a
    <3>1. Found(t.node, PathOf[b]) = <<acc>>  BY <1>1, <1>8, <2>3
    <3>2. b \in DOMAIN t.map /\ t.map[b] = acc  BY <1>4, <2>3
    <3>. QED  BY <2>2, <3>1, <3>2
  <2>4. CASE b # a
    <3>1. Found(t.node, PathOf[b]) = Found(s.node, PathOf[b])  BY <1>1, <1>8, <2>4
    <3>2. b \in DOMAIN t.map <=> b \in DOMAIN s.map  BY <1>4, <2>4
    <3>3. b \in DOMAIN s.map => t.map[b] = s.map[b]  BY <1>4, <2>4
    <3>. QED  BY <2>1, <2>2, <3>1, <3>2, <3>3
  <2>. QED  BY <2>3, <2>4
<1>11. Holds(t.node, t.map)  BY <1>10 DEF Holds
<1>. QED  BY <1>4, <1>9, <1>11 DEF SoundState, t

(* So does changing a balance, *)
LEMMA BalancedSound ==
  ASSUME NEW s, NEW reduced, SoundState(s, reduced), NEW a \in Accounts, NEW delta \in Int
  PROVE  SoundState(Balanced(s, a, delta), reduced)
<1> DEFINE acc == AccountIn(s.map, a)
           sum == acc.balance + delta
           new == [acc EXCEPT !.balance = IF sum < 0 THEN 0 ELSE sum]
<1>1. s.map \in Maps  BY DEF SoundState
<1>2. acc \in Account  BY <1>1, AccountInMap
<1>3. Balanced(s, a, delta) = PutIn(s, a, new)  BY DEF Balanced
<1>. HIDE DEF acc
<1>4. new \in Account  BY <1>2 DEF Account
<1>. HIDE DEF new
<1>. QED  BY <1>3, <1>4, PutSound

(* and counting a nonce. *)
LEMMA CountedSound ==
  ASSUME NEW s, NEW reduced, SoundState(s, reduced), NEW a \in Accounts
  PROVE  SoundState(Counted(s, a), reduced)
<1> DEFINE acc == AccountIn(s.map, a)
           new == [acc EXCEPT !.nonce = @ + 1]
<1>1. s.map \in Maps  BY DEF SoundState
<1>2. acc \in Account  BY <1>1, AccountInMap
<1>3. Counted(s, a) = PutIn(s, a, new)  BY DEF Counted
<1>. HIDE DEF acc
<1>4. new \in Account  BY <1>2 DEF Account
<1>. HIDE DEF new
<1>. QED  BY <1>3, <1>4, PutSound

(* What a put of any kind leaves. *)
LEMMA StepsSound ==
  ASSUME NEW s, NEW reduced, SoundState(s, reduced), NEW a \in Accounts
  PROVE  /\ \A delta \in Int : SoundState(Balanced(s, a, delta), reduced)
         /\ SoundState(Counted(s, a), reduced)
         /\ SoundState(PutIn(s, a, [AccountIn(s.map, a) EXCEPT !.code = TRUE]), reduced)
         /\ \A b \in Accounts, amount \in Nat :
              SoundState(Counted(Balanced(Balanced(s, a, -amount), b, amount), a), reduced)
<1>1. \A delta \in Int : SoundState(Balanced(s, a, delta), reduced)  BY BalancedSound
<1>2. SoundState(Counted(s, a), reduced)  BY CountedSound
<1>3. SoundState(PutIn(s, a, [AccountIn(s.map, a) EXCEPT !.code = TRUE]), reduced)
  <2> DEFINE acc == AccountIn(s.map, a)
             new == [acc EXCEPT !.code = TRUE]
  <2>1. acc \in Account  BY AccountInMap DEF SoundState
  <2>. HIDE DEF acc
  <2>2. new \in Account  BY <2>1 DEF Account
  <2>. HIDE DEF new
  <2>3. SoundState(PutIn(s, a, new), reduced)  BY <2>2, PutSound
  <2>. QED  BY <2>3 DEF new, acc
<1>4. ASSUME NEW b \in Accounts, NEW amount \in Nat
      PROVE  SoundState(Counted(Balanced(Balanced(s, a, -amount), b, amount), a), reduced)
  <2> DEFINE s1 == Balanced(s, a, -amount)
             s2 == Balanced(s1, b, amount)
  <2>1. -amount \in Int /\ amount \in Int  OBVIOUS
  <2>2. SoundState(s1, reduced)  BY <2>1, BalancedSound
  <2>. HIDE DEF s1
  <2>3. SoundState(s2, reduced)  BY <2>1, <2>2, BalancedSound
  <2>. HIDE DEF s2
  <2>4. SoundState(Counted(s2, a), reduced)  BY <2>3, CountedSound
  <2>. QED  BY <2>4 DEF s1, s2
<1>. QED  BY <1>1, <1>2, <1>3, <1>4

(* What a deletion leaves is no longer reduced. *)
LEMMA DeleteSound ==
  ASSUME NEW s, SoundState(s, FALSE), NEW a \in Accounts, NEW t,
         t.node = Without(s.node, PathOf[a]), t.map = [b \in DOMAIN s.map \ {a} |-> s.map[b]]
  PROVE  SoundState(t, FALSE)
<1> DEFINE n == PathLength(a)
           T == Tries(n, FALSE)
<1>1. /\ n \in Nat
      /\ \A b \in Accounts : /\ PathLength(b) = n /\ PathOf[b] \in Paths(n)
                             /\ PathOf[a] = PathOf[b] => a = b
  BY PathsOf
<1>2. IsTries(T, n, FALSE)  BY <1>1, TriesAre
<1>3. s.node \in T[n]  BY DEF SoundState, Shaped
<1>4. t.map \in Maps
  <2>1. PICK A \in SUBSET Accounts : s.map \in [A -> Account]  BY DEF SoundState, Maps
  <2>2. A \ {a} \in SUBSET Accounts /\ t.map \in [A \ {a} -> Account]  BY <2>1
  <2>. QED  BY <2>2 DEF Maps
<1>. HIDE DEF n
<1>5. \A b \in Accounts : Tries(PathLength(b), FALSE)[PathLength(b)] = T[n]  BY <1>1
<1>. HIDE DEF T
<1>6. Removes(T, n)
  <2>1. \A k \in 0 .. n : Removes(T, k)  BY <1>1, <1>2, AlwaysRemoves
  <2>. QED  BY <1>1, <2>1
<1>7. /\ t.node \in T[n]
      /\ \A q \in Paths(n) : Found(t.node, q) = IF q = PathOf[a] THEN Null ELSE Found(s.node, q)
  <2>1. RemovesAt(T, n, s.node, PathOf[a])  BY <1>1, <1>3, <1>6 DEF Removes
  <2>. QED  BY <2>1 DEF RemovesAt, Sets
<1>8. Shaped(t.node, FALSE)  BY <1>5, <1>7 DEF Shaped
<1>9. ASSUME NEW b \in Accounts
      PROVE  /\ Found(t.node, PathOf[b]) = IF b \in DOMAIN t.map THEN <<t.map[b]>> ELSE Null
             /\ \A q \in Paths(PathLength(b)) :
                  (\A c \in Accounts : PathOf[c] # q) => Found(t.node, q) = Null
  <2>1. /\ Found(s.node, PathOf[b]) = IF b \in DOMAIN s.map THEN <<s.map[b]>> ELSE Null
        /\ \A q \in Paths(n) : (\A c \in Accounts : PathOf[c] # q) => Found(s.node, q) = Null
    BY <1>1 DEF SoundState, Holds
  <2>2. \A q \in Paths(PathLength(b)) :
          (\A c \in Accounts : PathOf[c] # q) => Found(t.node, q) = Null
    BY <1>1, <1>7, <2>1
  <2>3. CASE b = a
    <3>1. Found(t.node, PathOf[b]) = Null  BY <1>1, <1>7, <2>3
    <3>. QED  BY <2>2, <2>3, <3>1
  <2>4. CASE b # a
    <3>1. Found(t.node, PathOf[b]) = Found(s.node, PathOf[b])  BY <1>1, <1>7, <2>4
    <3>2. b \in DOMAIN t.map <=> b \in DOMAIN s.map  BY <2>4
    <3>3. b \in DOMAIN s.map => t.map[b] = s.map[b]  BY <2>4
    <3>. QED  BY <2>1, <2>2, <3>1, <3>2, <3>3
  <2>. QED  BY <2>3, <2>4
<1>10. Holds(t.node, t.map)  BY <1>9 DEF Holds
<1>. QED  BY <1>4, <1>8, <1>10 DEF SoundState

(* The trie is reduced as long as nothing was deleted. *)
TrieInv == SoundState(State, FALSE) /\ (~deleted => SoundState(State, TRUE))

(* So they stay together, and the trie reduced until something is deleted. *)
LEMMA TrieInvAlways == TrieSpec => []TrieInv
<1>1. TrieInit => TrieInv
  <2>. SUFFICES ASSUME TrieInit, NEW reduced PROVE SoundState(State, reduced)
    BY DEF TrieInv
  <2>1. State.node = Null /\ State.map = << >> /\ DOMAIN State.map = {}  BY DEF TrieInit, State
  <2>2. State.map \in Maps
    <3>1. {} \in SUBSET Accounts /\ State.map \in [{} -> Account]  BY <2>1
    <3>. QED  BY <3>1 DEF Maps
  <2>3. ASSUME NEW a \in Accounts PROVE Null \in Tries(PathLength(a), reduced)[PathLength(a)]
    <3> DEFINE n == PathLength(a)
    <3>1. n \in Nat  BY PathsOf
    <3>. HIDE DEF n
    <3>2. IsTries(Tries(n, reduced), n, reduced) /\ n \in 0 .. n  BY <3>1, TriesAre
    <3>3. Null \in Tries(n, reduced)[n]  BY <3>1, <3>2, NodeIs
    <3>. QED  BY <3>3 DEF n
  <2>4. ASSUME NEW a \in Accounts, NEW q \in Paths(PathLength(a)) PROVE Found(Null, q) = Null
    <3>1. q \in Seq(Nibble)  BY PathsOf, PathIs
    <3>. QED  BY <3>1, FoundStops
  <2>5. Holds(Null, State.map)
    <3>1. \A a \in Accounts : PathOf[a] \in Paths(PathLength(a))  BY PathsOf
    <3>. QED  BY <2>1, <2>4, <3>1 DEF Holds
  <2>. QED  BY <2>1, <2>2, <2>3, <2>5 DEF SoundState, Shaped
<1>2. TrieInv /\ [TrieNext]_trieVars => TrieInv'
  <2>. SUFFICES ASSUME TrieInv, [TrieNext]_trieVars PROVE TrieInv'
    OBVIOUS
  <2>1. State.map = cache /\ State.node = root /\ State'.map = cache' /\ State'.node = root'
    BY DEF State
  <2>2. CASE UNCHANGED trieVars  BY <2>2 DEF TrieInv, trieVars, State
  <2>3. ASSUME NEW s, Becomes(s), deleted' = deleted,
               \A reduced : SoundState(State, reduced) => SoundState(s, reduced)
        PROVE  TrieInv'
    <3>1. \A reduced : SoundState(s, reduced) => SoundState(State', reduced)
      BY <2>1, <2>3 DEF Becomes, SoundState
    <3>2. SoundState(State', FALSE) /\ (~deleted' => SoundState(State', TRUE))
      BY <2>3, <3>1 DEF TrieInv
    <3>. QED  BY <3>2 DEF TrieInv
  <2>4. ASSUME NEW a \in Accounts, NEW delta \in -MaxAmount .. MaxAmount, UpdateBalance(a, delta)
        PROVE  TrieInv'
    <3>1. delta \in Int  OBVIOUS
    <3>2. \A reduced : SoundState(State, reduced) => SoundState(Balanced(State, a, delta), reduced)
      BY <3>1, StepsSound
    <3>. QED  BY <2>3, <2>4, <3>2 DEF UpdateBalance
  <2>5. ASSUME NEW a \in Accounts, IncrementNonce(a) PROVE TrieInv'
    <3>1. \A reduced : SoundState(State, reduced) => SoundState(Counted(State, a), reduced)
      BY StepsSound
    <3>. QED  BY <2>3, <2>5, <3>1 DEF IncrementNonce
  <2>6. ASSUME NEW a \in Accounts, SetContractCode(a) PROVE TrieInv'
    <3> DEFINE s == PutIn(State, a, [AccountIn(State.map, a) EXCEPT !.code = TRUE])
    <3>1. \A reduced : SoundState(State, reduced) => SoundState(s, reduced)  BY StepsSound
    <3>2. Becomes(s) /\ deleted' = deleted  BY <2>1, <2>6 DEF SetContractCode
    <3>. HIDE DEF s
    <3>. QED  BY <2>3, <3>1, <3>2
  <2>7. ASSUME NEW a \in Accounts, NEW b \in Accounts, NEW amount \in 0 .. MaxAmount,
               ApplyTransfer(a, b, amount)
        PROVE  TrieInv'
    <3> DEFINE s == Counted(Balanced(Balanced(State, a, -amount), b, amount), a)
    <3>1. amount \in Nat  BY TrieAssumption
    <3>2. \A reduced : SoundState(State, reduced) => SoundState(s, reduced)  BY <3>1, StepsSound
    <3>3. Becomes(s) /\ deleted' = deleted  BY <2>7 DEF ApplyTransfer
    <3>. HIDE DEF s
    <3>. QED  BY <2>3, <3>2, <3>3
  <2>8. ASSUME NEW a \in Accounts, Delete(a) PROVE TrieInv'
    <3>1. /\ root' = Without(root, PathOf[a]) /\ cache' = [b \in DOMAIN cache \ {a} |-> cache[b]]
          /\ deleted' = TRUE
      BY <2>8 DEF Delete
    <3>2. SoundState(State, FALSE)  BY DEF TrieInv
    <3>3. /\ State'.node = Without(State.node, PathOf[a])
          /\ State'.map = [b \in DOMAIN State.map \ {a} |-> State.map[b]]
      BY <2>1, <3>1
    <3>4. SoundState(State', FALSE)  BY <3>2, <3>3, DeleteSound
    <3>. QED  BY <3>1, <3>4 DEF TrieInv
  <2>9. CASE TrieNext
    <3>1. PICK a \in Accounts :
            \/ \E delta \in -MaxAmount .. MaxAmount : UpdateBalance(a, delta)
            \/ IncrementNonce(a) \/ SetContractCode(a) \/ Delete(a)
            \/ \E b \in Accounts, amount \in 0 .. MaxAmount : ApplyTransfer(a, b, amount)
      BY <2>9 DEF TrieNext
    <3>. QED  BY <2>4, <2>5, <2>6, <2>7, <2>8, <3>1
  <2>. QED  BY <2>2, <2>9
<1>. QED  BY <1>1, <1>2, PTL DEF TrieSpec

(* A reduced trie that holds the cache has the root of its contents. *)
LEMMA RootFollows ==
  ASSUME SoundState(State, TRUE), NEW a \in Accounts
  PROVE  root = Canonical(Len(PathOf[a]), Contents)
<1> DEFINE n == PathLength(a)
           T == Tries(n, TRUE)
<1>1. /\ n \in Nat
      /\ \A b \in Accounts : PathLength(b) = n /\ PathOf[b] \in Paths(n)
      /\ \A b, c \in Accounts : PathOf[b] = PathOf[c] => b = c
  BY PathsOf
<1>2. IsTries(T, n, TRUE)  BY <1>1, TriesAre
<1>3. State.node = root /\ State.map = cache  BY DEF State
<1>4. root \in T[n] /\ Holds(root, cache)  BY <1>3 DEF SoundState, Shaped
<1>5. PICK A \in SUBSET Accounts : cache \in [A -> Account]  BY <1>3 DEF SoundState, Maps
<1>6. DOMAIN Contents = {PathOf[b] : b \in DOMAIN cache}  BY DEF Contents
<1>7. ASSUME NEW b \in DOMAIN cache PROVE Contents[PathOf[b]] = cache[b]
  <2>1. b \in A /\ DOMAIN cache = A  BY <1>5, <1>7
  <2>2. (CHOOSE c \in DOMAIN cache : PathOf[c] = PathOf[b]) = b  BY <1>1, <1>5, <2>1
  <2>3. PathOf[b] \in {PathOf[c] : c \in DOMAIN cache}  BY <1>7
  <2>. QED  BY <2>2, <2>3 DEF Contents
<1>. HIDE DEF n, T
<1>8. \A p \in DOMAIN Contents : Contents[p] \in Account
  <2>1. \A b \in DOMAIN cache : cache[b] \in Account  BY <1>5
  <2>. QED  BY <1>6, <1>7, <2>1
<1>9. ASSUME NEW q \in Paths(n) PROVE Found(root, q) = EntryOf(Contents, q)
  <2>1. CASE \E b \in Accounts : PathOf[b] = q
    <3>1. PICK b \in Accounts : PathOf[b] = q  BY <2>1
    <3>2. Found(root, q) = IF b \in DOMAIN cache THEN <<cache[b]>> ELSE Null
      BY <1>4, <3>1 DEF Holds
    <3>3. CASE b \in DOMAIN cache
      <4>1. q \in DOMAIN Contents /\ Contents[q] = cache[b]  BY <1>6, <1>7, <3>1, <3>3
      <4>. QED  BY <3>2, <3>3, <4>1 DEF EntryOf
    <3>4. CASE b \notin DOMAIN cache
      <4>1. q \notin DOMAIN Contents
        <5>1. ASSUME NEW c \in DOMAIN cache, PathOf[c] = q PROVE FALSE
          <6>1. c \in Accounts  BY <1>5, <5>1
          <6>2. c = b  BY <1>1, <3>1, <5>1, <6>1
          <6>. QED  BY <3>4, <6>2
        <5>. QED  BY <1>6, <5>1
      <4>. QED  BY <3>2, <3>4, <4>1 DEF EntryOf
    <3>. QED  BY <3>3, <3>4
  <2>2. CASE \A b \in Accounts : PathOf[b] # q
    <3>1. Found(root, q) = Null
      <4>1. PathLength(a) = n  BY <1>1
      <4>. QED  BY <1>4, <2>2, <4>1 DEF Holds
    <3>2. q \notin DOMAIN Contents
      <4>1. \A c \in DOMAIN cache : c \in Accounts  BY <1>5
      <4>. QED  BY <1>6, <2>2, <4>1
    <3>. QED  BY <3>1, <3>2 DEF EntryOf
  <2>. QED  BY <2>1, <2>2
<1>10. root = Canonical(n, Contents)  BY <1>1, <1>2, <1>4, <1>8, <1>9, IsCanonical
<1>. QED  BY <1>10 DEF n, PathLength

(* With any accounts, paths and bounds the trie holds what the cache holds, and *)
(* before the first deletion its root hash depends on the contents alone        *)
(* (state_trie.py:118-276).                                                     *)
THEOREM TrieAlwaysSound == TrieSpec => []TrieSound
<1>1. TrieInv => TrieSound
  <2>. SUFFICES ASSUME TrieInv PROVE TrieSound
    OBVIOUS
  <2>1. TrieHoldsCache
    <3>1. Holds(root, cache)  BY DEF TrieInv, SoundState, State
    <3>. QED  BY <3>1 DEF Holds, TrieHoldsCache
  <2>2. RootFollowsContents
    <3>. SUFFICES ASSUME ~deleted, NEW a \in Accounts
                  PROVE  root = Canonical(Len(PathOf[a]), Contents)
      BY DEF RootFollowsContents
    <3>1. SoundState(State, TRUE)  BY DEF TrieInv
    <3>. QED  BY <3>1, RootFollows
  <2>. QED  BY <2>1, <2>2 DEF TrieSound
<1>. QED  BY <1>1, TrieInvAlways, PTL
=============================================================================
