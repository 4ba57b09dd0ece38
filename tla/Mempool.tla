------------------------------ MODULE Mempool ------------------------------
(***************************************************************************)
(* The node's pool of pending transactions (core/storage/mempool.py), used *)
(* without a lock by the threads that serve REST requests.                 *)
(*                                                                         *)
(* add and remove are modelled as the steps between which CPython may      *)
(* switch threads, which is after a call and at the end of each round of a *)
(* loop: a sender's list is an object, which add changes in place while    *)
(* remove copies what it keeps, and puts the copy in its place.  Expiry    *)
(* and the selection are one step each, and so is the search for the       *)
(* transaction to evict: coarser than the interpreter is.  Never read, and *)
(* left out: _heap, _nonces, and the counters of duplicates and gaps.      *)
(***************************************************************************)
EXTENDS Integers, Sequences, FiniteSets, FiniteSetsExt

CONSTANTS
  Thread,
  Tx,               (* [id, from, nonce, gas_price, gas_limit]; ids are    *)
                    (* numbers, ordered as their strings are, and name one *)
                    (* transaction                                         *)
  AccountNonce,     (* sender -> the nonce its account has reached         *)
  ListId,           (* names of the list objects: more than can be in use  *)
  Capacity, TTL, MinGas,       (* parameters of the pool                   *)
  MaxGas, MaxTxs,              (* arguments of select_for_block            *)
  MaxAdds, MaxClock            (* bounds of the model                      *)

VARIABLES
  txs,              (* the entries [tx, timestamp] in the dict's order     *)
  lists,            (* the list objects: transactions by nonce, then id    *)
  by_sender,        (* sender -> its list, or NoList                       *)
  stats,            (* total_added, total_evicted, total_mined             *)
  clock,
  apc,              (* where the threads are in add or remove              *)
  entry,            (* Thread -> the entry being added                     *)
  leaving,          (* Thread -> the transaction being evicted or removed  *)
  held,             (* Thread -> the list it has a reference to            *)
  passed, kept,     (* Thread -> how far remove has come in that list, and *)
                    (* what of it remains                                  *)
  selected,         (* what the last select_for_block returned             *)
  expiries,         (* history: how often each transaction has expired     *)
  expired,          (* history: how often any has                          *)
  overlapped,       (* history: did two calls of add ever overlap?         *)
  clashed           (* history: senders of whose transactions one was      *)
                    (* removed while another was removed or listed         *)

locals == <<entry, leaving, held, passed, kept>>
history == <<expiries, expired, overlapped, clashed>>
poolVars == <<txs, lists, by_sender, stats, clock, apc, locals, selected, history>>

ASSUME MempoolAssumption ==
  /\ {Capacity, TTL, MinGas, MaxGas, MaxTxs, MaxAdds, MaxClock} \subseteq Nat /\ Capacity # 0
  /\ \A t \in Tx : {t.id, t.nonce, t.gas_price, t.gas_limit} \subseteq Nat /\ t.id # 0
                   /\ t.from \in DOMAIN AccountNonce
  /\ \A t, u \in Tx : t.id = u.id => t = u
  /\ ListId \subseteq Nat \ {0}
  /\ Cardinality(ListId) > Cardinality(DOMAIN AccountNonce) + Cardinality(Thread)

NoTx == [id |-> 0]
NoEntry == [tx |-> NoTx, timestamp |-> 0]
NoList == 0

PoolInit ==
  /\ txs = <<>>
  /\ lists = [l \in ListId |-> <<>>]
  /\ by_sender = [s \in DOMAIN AccountNonce |-> NoList]
  /\ stats = [added |-> 0, evicted |-> 0, mined |-> 0]
  /\ clock = 0
  /\ apc = [th \in Thread |-> "idle"]
  /\ entry = [th \in Thread |-> NoEntry]
  /\ leaving = [th \in Thread |-> NoTx]
  /\ held = [th \in Thread |-> NoList]
  /\ passed = [th \in Thread |-> 0] /\ kept = [th \in Thread |-> <<>>]
  /\ selected = <<>>
  /\ expiries = [t \in Tx |-> 0] /\ expired = 0
  /\ overlapped = FALSE /\ clashed = {}

Pool == {txs[i].tx : i \in DOMAIN txs}

(* In add, the eviction included. *)
Adding(th) == entry[th] # NoEntry

Busy == {th \in Thread : Adding(th)}

Goto(th, label) == apc' = [apc EXCEPT ![th] = label]

----------------------------------------------------------------------------
(* Entering and leaving the pool *)

(* The elements of list at the positions in S, in the order of before.     *)
Arranged(list, S, before) ==
  LET rank(i) == Cardinality({j \in S : <<j, i>> \in before})
  IN  [k \in 1 .. Cardinality(S) |-> list[CHOOSE i \in S : rank(i) = k - 1]]

(* The elements at the positions in S, in their order. *)
Kept(list, S) == Arranged(list, S, {p \in S \X S : p[1] < p[2]})

(* Storing under a key keeps the key's place if it is there already.       *)
Stored(pool, e) ==
  IF \E i \in DOMAIN pool : pool[i].tx = e.tx
  THEN [i \in DOMAIN pool |-> IF pool[i].tx = e.tx THEN e ELSE pool[i]]
  ELSE Append(pool, e)

(* Sorted by nonce, then id; equal elements stay in their order. *)
ByNonce(list) ==
  {p \in (DOMAIN list) \X (DOMAIN list) :
     LET a == list[p[1]]
         b == list[p[2]]
     IN  \/ a.nonce < b.nonce
         \/ a.nonce = b.nonce /\ (a.id < b.id \/ (a.id = b.id /\ p[1] < p[2]))}

InNonceOrder(list) == Arranged(list, DOMAIN list, ByNonce(list))

ListingFor(th, s) == apc[th] \in {"list", "append", "sort"} /\ entry[th].tx.from = s

RemovingFor(th, s) == apc[th] \in {"find", "filter"} /\ leaving[th].from = s

(* The lists that somebody refers to, and the first name of no such list.  *)
InUse == {by_sender[s] : s \in DOMAIN by_sender} \cup {held[th] : th \in Thread}

Fresh(l) == l \in ListId \ InUse /\ \A m \in ListId \ InUse : l <= m

(* Lists that nobody refers to are gone. *)
Collected(all) == [l \in ListId |-> IF l \in InUse' THEN all[l] ELSE <<>>]

----------------------------------------------------------------------------
(* remove *)

(* The transaction leaves the pool. *)
Pop(th, t) ==
  /\ txs' = Kept(txs, {i \in DOMAIN txs : txs[i].tx # t})
  /\ clashed' = clashed \cup {s \in {t.from} : \E other \in Thread \ {th} :
                                               ListingFor(other, s) \/ RemovingFor(other, s)}
  /\ leaving' = [leaving EXCEPT ![th] = t]
  /\ Goto(th, "find")

(* remove of one that is not there returns at once. *)
RemoveTx(th, t) ==
  /\ apc[th] = "idle"
  /\ t \in Pool
  /\ Pop(th, t)
  /\ UNCHANGED <<lists, by_sender, stats, clock, entry, held, passed, kept, selected,
                 expiries, expired, overlapped>>

(* The sender's list, or an empty one that is not stored. *)
RemoveFind(th) ==
  /\ apc[th] = "find"
  /\ LET s == leaving[th].from IN
       \E l \in ListId :
         /\ IF by_sender[s] # NoList THEN l = by_sender[s] /\ UNCHANGED lists
            ELSE Fresh(l) /\ lists' = [lists EXCEPT ![l] = <<>>]
         /\ held' = [held EXCEPT ![th] = l]
  /\ Goto(th, "filter")
  /\ UNCHANGED <<txs, by_sender, stats, clock, entry, leaving, passed, kept, selected, history>>

(* Faulty variant: the list is searched for the nonce. *)
KeepsOtherNonce(t, gone) == t.nonce # gone.nonce

Keeps(t, gone) == t.id # gone.id

(* One round of the comprehension, over the list as it is by now.          *)
RemoveFilter(th) ==
  /\ apc[th] = "filter"
  /\ passed[th] < Len(lists[held[th]])
  /\ LET t == lists[held[th]][passed[th] + 1] IN
       kept' = IF Keeps(t, leaving[th]) THEN [kept EXCEPT ![th] = Append(@, t)] ELSE kept
  /\ passed' = [passed EXCEPT ![th] = @ + 1]
  /\ UNCHANGED <<txs, lists, by_sender, stats, clock, apc, entry, leaving, held, selected, history>>

(* A new list takes the place of whichever is there by now.  An evicted    *)
(* transaction counts as mined too.                                        *)
RemoveAssign(th) ==
  /\ apc[th] = "filter"
  /\ passed[th] >= Len(lists[held[th]])
  /\ \E l \in ListId :
       /\ Fresh(l)
       /\ by_sender' = [by_sender EXCEPT ![leaving[th].from] = l]
       /\ held' = [held EXCEPT ![th] = NoList]
       /\ lists' = Collected([lists EXCEPT ![l] = kept[th]])
  /\ stats' = [stats EXCEPT !.mined = @ + 1, !.evicted = @ + (IF Adding(th) THEN 1 ELSE 0)]
  /\ Goto(th, IF Adding(th) THEN "store" ELSE "idle")
  /\ leaving' = [leaving EXCEPT ![th] = NoTx]
  /\ passed' = [passed EXCEPT ![th] = 0] /\ kept' = [kept EXCEPT ![th] = <<>>]
  /\ UNCHANGED <<txs, clock, entry, selected, history>>

RemoveStep(th) == RemoveFind(th) \/ RemoveFilter(th) \/ RemoveAssign(th)

----------------------------------------------------------------------------
(* Expiry *)

Old(e) == e.timestamp < clock - TTL

(* _evict_expired: neither the sender's list nor anything else is told.    *)
EvictExpired ==
  LET gone == {txs[i].tx : i \in {i \in DOMAIN txs : Old(txs[i])}} IN
  /\ txs' = Kept(txs, {i \in DOMAIN txs : ~Old(txs[i])})
  /\ stats' = [stats EXCEPT !.evicted = @ + Cardinality(gone)]
  /\ expiries' = [t \in Tx |-> expiries[t] + (IF t \in gone THEN 1 ELSE 0)]
  /\ expired' = expired + Cardinality(gone)

----------------------------------------------------------------------------
(* add *)

(* The refusals before anything is written, and the new entry.             *)
AddCheck(th, t) ==
  /\ apc[th] = "idle"
  /\ stats.added + Cardinality(Busy) < MaxAdds
  /\ t \notin Pool
  /\ t.gas_price >= MinGas
  /\ t.nonce >= AccountNonce[t.from]
  /\ entry' = [entry EXCEPT ![th] = [tx |-> t, timestamp |-> clock]]
  /\ overlapped' = (overlapped \/ Busy # {})
  /\ Goto(th, "room")
  /\ UNCHANGED <<txs, lists, by_sender, stats, clock, leaving, held, passed, kept, selected,
                 expiries, expired, clashed>>

(* Faulty variant: full only when one more than the capacity is there. *)
FullAbove(pool) == Len(pool) > Capacity

Full(pool) == Len(pool) >= Capacity

AddRoom(th) ==
  /\ apc[th] = "room"
  /\ Goto(th, IF Full(txs) THEN "evict" ELSE "store")
  /\ UNCHANGED <<txs, lists, by_sender, stats, clock, locals, selected, history>>

Fee(t) == t.gas_price * t.gas_limit

(* The first transaction of the lowest fee. *)
Cheapest(pool) ==
  pool[Min({i \in DOMAIN pool :
              \A j \in DOMAIN pool : Fee(pool[i].tx) <= Fee(pool[j].tx)})].tx

AddChoose(th) ==
  /\ apc[th] = "evict"
  /\ IF txs = <<>>
     THEN Goto(th, "store") /\ UNCHANGED leaving
     ELSE Goto(th, "remove") /\ leaving' = [leaving EXCEPT ![th] = Cheapest(txs)]
  /\ UNCHANGED <<txs, lists, by_sender, stats, clock, entry, held, passed, kept, selected, history>>

(* It may be gone by now, and is counted as evicted all the same. *)
AddEvict(th) ==
  /\ apc[th] = "remove"
  /\ IF leaving[th] \in Pool THEN Pop(th, leaving[th]) /\ UNCHANGED stats
     ELSE /\ stats' = [stats EXCEPT !.evicted = @ + 1]
          /\ leaving' = [leaving EXCEPT ![th] = NoTx]
          /\ Goto(th, "store")
          /\ UNCHANGED <<txs, clashed>>
  /\ UNCHANGED <<lists, by_sender, clock, entry, held, passed, kept, selected,
                 expiries, expired, overlapped>>

AddStore(th) ==
  /\ apc[th] = "store"
  /\ txs' = Stored(txs, entry[th])
  /\ clashed' = clashed \cup {s \in {entry[th].tx.from} : \E other \in Thread : RemovingFor(other, s)}
  /\ Goto(th, "list")
  /\ UNCHANGED <<lists, by_sender, stats, clock, locals, selected, expiries, expired, overlapped>>

(* The sender's list, which is stored now if there was none. *)
AddList(th) ==
  /\ apc[th] = "list"
  /\ LET s == entry[th].tx.from IN
       \E l \in ListId :
         /\ IF by_sender[s] # NoList THEN l = by_sender[s] /\ UNCHANGED <<lists, by_sender>>
            ELSE /\ Fresh(l) /\ lists' = [lists EXCEPT ![l] = <<>>]
                 /\ by_sender' = [by_sender EXCEPT ![s] = l]
         /\ held' = [held EXCEPT ![th] = l]
  /\ Goto(th, "append")
  /\ UNCHANGED <<txs, stats, clock, entry, leaving, passed, kept, selected, history>>

AddAppend(th) ==
  /\ apc[th] = "append"
  /\ lists' = [lists EXCEPT ![held[th]] = Append(@, entry[th].tx)]
  /\ Goto(th, "sort")
  /\ UNCHANGED <<txs, by_sender, stats, clock, locals, selected, history>>

AddSort(th) ==
  /\ apc[th] = "sort"
  /\ held' = [held EXCEPT ![th] = NoList]
  /\ UNCHANGED by_sender
  /\ lists' = Collected([lists EXCEPT ![held[th]] = InNonceOrder(@)])
  /\ Goto(th, "count")
  /\ UNCHANGED <<txs, stats, clock, entry, leaving, passed, kept, selected, history>>

AddCount(th) ==
  /\ apc[th] = "count"
  /\ stats' = [stats EXCEPT !.added = @ + 1]
  /\ entry' = [entry EXCEPT ![th] = NoEntry]
  /\ Goto(th, "idle")
  /\ UNCHANGED <<txs, lists, by_sender, clock, leaving, held, passed, kept, selected, history>>

AddStep(th) ==
  \/ AddRoom(th) \/ AddChoose(th) \/ AddEvict(th) \/ AddStore(th)
  \/ AddList(th) \/ AddAppend(th) \/ AddSort(th) \/ AddCount(th)

----------------------------------------------------------------------------
(* The other calls, of threads that are in neither, and time *)

(* sorted(..., reverse=True) of a class whose __lt__ puts the higher price *)
(* first: the lower price first, and equal prices in the pool's order.     *)
ByPrice(pool) ==
  LET before == {p \in (DOMAIN pool) \X (DOMAIN pool) :
                   LET a == pool[p[1]].tx.gas_price
                       b == pool[p[2]].tx.gas_price
                   IN  a < b \/ (a = b /\ p[1] < p[2])}
  IN  Arranged([i \in DOMAIN pool |-> pool[i].tx], DOMAIN pool, before)

NothingChosen ==
  [txs |-> <<>>, gas |-> 0, expected |-> [s \in DOMAIN AccountNonce |-> {}]]

(* Faulty variant: the sender's next nonce is not advanced. *)
ConsiderAgain(chosen, t) ==
  IF /\ Len(chosen.txs) < MaxTxs
     /\ chosen.gas + t.gas_limit <= MaxGas
     /\ chosen.expected[t.from] \in {{}, {t.nonce}}
  THEN [txs |-> Append(chosen.txs, t), gas |-> chosen.gas + t.gas_limit,
        expected |-> [chosen.expected EXCEPT ![t.from] = {t.nonce}]]
  ELSE chosen

(* One iteration of the selection: whichever transaction of a sender comes *)
(* first sets the nonce the next one must have.                            *)
Consider(chosen, t) ==
  IF /\ Len(chosen.txs) < MaxTxs
     /\ chosen.gas + t.gas_limit <= MaxGas
     /\ chosen.expected[t.from] \in {{}, {t.nonce}}
  THEN [txs |-> Append(chosen.txs, t), gas |-> chosen.gas + t.gas_limit,
        expected |-> [chosen.expected EXCEPT ![t.from] = {t.nonce + 1}]]
  ELSE chosen

(* The choice after each of the candidates. *)
ChoiceAfter(candidates) ==
  LET chosen[k \in 0 .. Len(candidates)] ==
        IF k = 0 THEN NothingChosen ELSE Consider(chosen[k - 1], candidates[k])
  IN  chosen

Selected(candidates) == ChoiceAfter(candidates)[Len(candidates)].txs

SelectForBlock(th) ==
  /\ apc[th] = "idle"
  /\ EvictExpired
  /\ selected' = Selected(ByPrice(txs'))
  /\ UNCHANGED <<lists, by_sender, clock, apc, locals, overlapped, clashed>>

GetStats(th) ==
  /\ apc[th] = "idle"
  /\ EvictExpired
  /\ UNCHANGED <<lists, by_sender, clock, apc, locals, selected, overlapped, clashed>>

Tick ==
  /\ clock < MaxClock
  /\ clock' = clock + 1
  /\ UNCHANGED <<txs, lists, by_sender, stats, apc, locals, selected, history>>

PoolNext ==
  \/ Tick
  \/ \E th \in Thread :
       \/ AddStep(th) \/ RemoveStep(th) \/ SelectForBlock(th) \/ GetStats(th)
       \/ \E t \in Tx : AddCheck(th, t) \/ RemoveTx(th, t)

PoolSpec == PoolInit /\ [][PoolNext]_poolVars
----------------------------------------------------------------------------
(* Properties *)

(* The pool stays within its capacity as long as calls of add do not       *)
(* overlap.  If they do, two of them may find room for one, or evict one   *)
(* transaction for two; later calls of add do not make the excess good.    *)
CapacityRespected == overlapped \/ Len(txs) <= Capacity

Uncounted == {th \in Thread : apc[th] \in {"list", "append", "sort", "count"}}
Unfinished == {th \in Thread : apc[th] \in {"find", "filter"}}

(* Every transaction added is pending, removed (evicted ones included,     *)
(* which are counted as evicted and as mined) or expired, but for calls    *)
(* that have not counted theirs yet, and unless two overlapping calls have *)
(* added one twice.                                                        *)
CountersBalance ==
  overlapped \/ stats.added + Cardinality(Uncounted)
                   = Len(txs) + stats.mined + Cardinality(Unfinished) + expired

(* The pool's size and its counters (mempool.py:85-138, 231-240).          *)
PoolAccounted == CapacityRespected /\ CountersBalance

ListOf(s) == IF by_sender[s] = NoList THEN <<>> ELSE lists[by_sender[s]]

(* pending_for(sender) answers with all that is pending, in nonce order,   *)
(* whatever was evicted, removed or expired before, unless one transaction *)
(* of the sender was removed while another was listed or removed: then its *)
(* list may have lost some for good.  Otherwise only those that an add is  *)
(* about to list are not there, and only while one has not sorted the list *)
(* is it out of order.  A transaction that has expired and is added again  *)
(* appears once for each time.                                             *)
PendingListed ==
  \A s \in DOMAIN by_sender \ clashed :
    LET list == ListOf(s)
        times(t) == Cardinality({i \in DOMAIN list : list[i] = t})
    IN  /\ \/ \E th \in Thread : apc[th] = "sort" /\ ListingFor(th, s)
           \/ \A i, j \in DOMAIN list : i < j => list[i].nonce <= list[j].nonce
        /\ \A t \in {t \in Pool : t.from = s} :
             /\ times(t) >= 1 \/ \E th \in Thread : apc[th] \in {"list", "append"} /\ entry[th].tx = t
             /\ overlapped \/ times(t) <= 1 + expiries[t]

GasUpTo(list) ==
  LET gas[k \in 0 .. Len(list)] == IF k = 0 THEN 0 ELSE gas[k - 1] + list[k].gas_limit
  IN  gas

GasOf(list) == GasUpTo(list)[Len(list)]

(* What select_for_block has returned fits into a block, takes a run of    *)
(* consecutive nonces of every sender, in that order -- and comes cheapest *)
(* first.                                                                  *)
SelectionSound ==
  /\ Len(selected) <= MaxTxs
  /\ GasOf(selected) <= MaxGas
  /\ \A i, j \in DOMAIN selected : i < j =>
       /\ selected[i].gas_price <= selected[j].gas_price
       /\ selected[i].from = selected[j].from
            => selected[j].nonce = selected[i].nonce
                 + Cardinality({k \in i + 1 .. j : selected[k].from = selected[i].from})
============================================================================
