------------------------------ MODULE Gossip ------------------------------
(***************************************************************************)
(* Propagation of blocks and transactions, from core/network/              *)
(* gossip_protocol.py, over the connections of P2PNode.  An item is a      *)
(* block or a transaction, named by its hash.  The embedding program       *)
(* announces and pushes items and is called back with those that arrive;   *)
(* its callback may raise, which ends the handler.  The answer to a        *)
(* request is SyncManager's handler of GET_BLOCK, registered on the same   *)
(* node.  The statistics are left out.                                     *)
(***************************************************************************)
EXTENDS P2PNode, SequencesExt, FiniteSetsExt

CONSTANTS Block, Tx,
          Fanout,         \* GOSSIP_FANOUT
          MaxInventory    \* MAX_INVENTORY

ASSUME GossipAssumption == Fanout \in Nat /\ MaxInventory \in Nat \ {0} /\ Block \cap Tx = {}

VARIABLES
  known,     \* known[n]: what _known_blocks and _known_txs of n hold
  older,     \* older[n]: <<i, j>>, the time stamp n gave i is older than j's
  given,     \* history: how often n's callback was called with an item
  made,      \* history: items n announced or pushed
  evicted    \* history: how often n forgot an item

gossipVars == <<known, older, given, made, evicted>>

Item == Block \cup Tx
Inventory(i) == IF i \in Block THEN Block ELSE Tx
Message(i) == IF i \in Block THEN "NEW_BLOCK" ELSE "NEW_TRANSACTION"
Knows(n, i) == i \in known[n]

GossipInit ==
  /\ known = [n \in Node |-> {}] /\ older = [n \in Node |-> {}] /\ given = [n \in Node |-> [i \in Item |-> 0]]
  /\ made = [n \in Node |-> {}] /\ evicted = [n \in Node |-> [i \in Item |-> 0]]

\* The item gets the newest time stamp.
Stamp(n, i) == {p \in older[n] : i \notin {p[1], p[2]}} \cup {<<j, i>> : j \in known[n] \ {i}}

\* _trim_inventory: of the items of one kind over the limit, the oldest.
Excess(items) == Cardinality(items) - MaxInventory
Oldest(items, order) ==
  {i \in items : Cardinality({j \in items : <<j, i>> \in order}) < Excess(items)}

Learn(n, i, trims) ==
  LET items == known[n] \cup {i}
      gone == IF trims THEN Oldest(items \cap Inventory(i), Stamp(n, i)) ELSE {}
  IN  /\ known' = [known EXCEPT ![n] = items \ gone]
      /\ older' = [older EXCEPT ![n] = {p \in Stamp(n, i) : {p[1], p[2]} \cap gone = {}}]
      /\ evicted' = [evicted EXCEPT ![n] = [j \in Item |-> @[j] + IF j \in gone THEN 1 ELSE 0]]

\* _select_fanout_peers: a random choice of connections, none to the excluded peer.
FanoutPeers(n, exclude) ==
  LET all == {e \in Connected(n) : conn[e].peer # exclude}
  IN  kSubset(IF Cardinality(all) < Fanout THEN Cardinality(all) ELSE Fanout, all)

\* One announcement, with one message id, to the chosen connections.
Announce(n, i, exclude, boxes) ==
  /\ \E S \in FanoutPeers(n, exclude) :
       inbox' = DeliverAll(boxes, S, Numbered(n, Message(i), [event |-> "announce", item |-> i]))
  /\ created' = [created EXCEPT ![n] = @ + 1]

-----------------------------------------------------------------------------
(* What the embedding program calls.                                       *)

\* announce_block and announce_transaction.
AnnounceItem(n, i) ==
  /\ Spend("announce") /\ ~Knows(n, i) /\ Learn(n, i, TRUE) /\ Announce(n, i, "", inbox)
  /\ made' = [made EXCEPT ![n] = @ \cup {i}]
  /\ UNCHANGED <<link, conn, table, peers, seen, running, crossed, given>>

\* broadcast_block; a transaction is pushed with the node's own broadcast.
Push(n, i) ==
  /\ Spend("push") /\ SendAll(n, Message(i), [event |-> "data", item |-> i])
  /\ IF i \in Block THEN Learn(n, i, FALSE) ELSE UNCHANGED <<known, older, evicted>>
  /\ made' = [made EXCEPT ![n] = @ \cup {i}]
  /\ UNCHANGED <<link, conn, table, peers, seen, running, crossed, given>>

SendInventory(e, items) ==
  /\ Spend("inventory")
  /\ inbox' = Deliver(inbox, e, Msg("NEW_BLOCK", [event |-> "inv", item |-> items]))
  /\ UNCHANGED <<link, conn, table, peers, seen, running, created, crossed, gossipVars>>

-----------------------------------------------------------------------------
(* Handlers.                                                               *)

Receives(e, kind, event) == Dispatch(e, kind) /\ Body(e).event = event

\* Requests, by hash, the blocks and transactions of S that are not known, one by one.
Request(e, S) ==
  \E order \in SetToSeqs({i \in S : ~Knows(Owner(e), i)}) :
    inbox' = DeliverEach(Rest(e), e,
               [k \in DOMAIN order |-> Msg("GET_BLOCK", [event |-> "request", item |-> order[k]])])

\* The mistake InventorySound rules out: an item counts as known once it is announced.
HandleAnnounceRecords(e, kind) ==
  /\ Receives(e, kind, "announce") /\ Request(e, {Body(e).item}) /\ Learn(Owner(e), Body(e).item, FALSE)
  /\ UNCHANGED <<link, conn, table, peers, running, created, crossed, allowance, given, made>>

HandleAnnounce(e, kind) ==
  /\ Receives(e, kind, "announce") /\ Request(e, {Body(e).item})
  /\ UNCHANGED <<link, conn, table, peers, running, created, crossed, allowance, gossipVars>>

\* Only the blocks of an inventory are looked at.
HandleInventory(e) ==
  /\ Receives(e, "NEW_BLOCK", "inv") /\ Request(e, Body(e).item \cap Block)
  /\ UNCHANGED <<link, conn, table, peers, running, created, crossed, allowance, gossipVars>>

\* A known item is skipped; a new one is recorded, passed on to the callback and,
\* when it is a block and the callback returned, announced.
HandleData(e, kind) ==
  LET n == Owner(e)
      i == Body(e).item
  IN  /\ Receives(e, kind, "data")
      /\ IF Knows(n, i) THEN inbox' = Rest(e) /\ UNCHANGED <<created, allowance, gossipVars>>
         ELSE /\ Learn(n, i, FALSE)
              /\ given' = [given EXCEPT ![n][i] = @ + 1] /\ UNCHANGED made
              /\ \/ i \in Block /\ Announce(n, i, conn[e].peer, Rest(e)) /\ UNCHANGED allowance
                 \/ i \in Tx /\ inbox' = Rest(e) /\ UNCHANGED <<created, allowance>>
                 \/ Spend("raise") /\ inbox' = Rest(e) /\ UNCHANGED created
      /\ UNCHANGED <<link, conn, table, peers, running, crossed>>

\* The request names a hash and SyncManager looks for an index: no block is found.
HandleGetBlock(e) ==
  /\ Dispatch(e, "GET_BLOCK")
  /\ inbox' = Deliver(Rest(e), e, Msg("BLOCK_RESPONSE", "none"))
  /\ UNCHANGED <<link, conn, table, peers, running, created, crossed, allowance, gossipVars>>

\* An answer without a block is ignored.
HandleBlockResponse(e) ==
  /\ Dispatch(e, "BLOCK_RESPONSE") /\ inbox' = Rest(e)
  /\ UNCHANGED <<link, conn, table, peers, running, created, crossed, allowance, gossipVars>>

GossipHandle(e) ==
  \/ \E kind \in {"NEW_BLOCK", "NEW_TRANSACTION"} : HandleAnnounce(e, kind) \/ HandleData(e, kind)
  \/ HandleInventory(e) \/ HandleGetBlock(e) \/ HandleBlockResponse(e)

GossipNext ==
  \/ \E n \in Node, i \in Item : AnnounceItem(n, i) \/ Push(n, i)
  \/ \E e \in End : Opened(e) /\ ( GossipHandle(e) \/ (conn[e].state = "receiving" /\ SendInventory(e, known[Owner(e)])) )

-----------------------------------------------------------------------------
\* The inventory holds only what the node has: it announced or pushed the item
\* itself or its callback got it, so the announcements it skips cost it nothing.  And
\* however many neighbours send an item, and whatever the callback does with it, the
\* callback gets it once for each time the inventory forgot it
\* (gossip_protocol.py:182-211, 242-264).
InventorySound ==
  \A n \in Node, i \in Item : /\ Knows(n, i) => i \in made[n] \/ given[n][i] > 0
                              /\ given[n][i] <= 1 + evicted[n][i]

\* What the protocol promises: an item that some node announced or pushed reaches
\* every node (gossip_protocol.py:51-54).  The pull half never works, so it does not:
\* a request names a hash, and the handler that answers looks for an index
\* (gossip_protocol.py:187-195, sync_manager.py:237).
EveryNodeReceives ==
  \A i \in Item : (\E n \in Node : i \in made[n]) ~> \A n \in Node : i \in made[n] \/ given[n][i] > 0
=============================================================================
