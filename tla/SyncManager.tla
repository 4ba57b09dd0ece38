---------------------------- MODULE SyncManager ----------------------------
(***************************************************************************)
(* Catching up with a peer in batches, from core/network/sync_manager.py,  *)
(* over the connections of P2PNode.  Node Client has two cycles: the one   *)
(* of its loop and one started by trigger_sync.  Both register the blocks  *)
(* they wait for in one table, by index, and every answer of any peer is   *)
(* looked up there.  A block is its index.  External: the embedding        *)
(* program's chain, whose apply_block takes the next index only, may       *)
(* refuse it and may raise, and the height it notes for a peer, since the  *)
(* handshake always says 0.  Sleeps are the pauses before a new attempt.   *)
(***************************************************************************)
EXTENDS P2PNode

CONSTANTS Client,
          BatchSize, MaxRetries,   \* BATCH_SIZE, MAX_RETRIES
          MaxHeight                \* bound on the height of chains

ASSUME SyncAssumption == BatchSize \in Nat \ {0} /\ MaxRetries \in Nat \ {0} /\ Client \in Node

VARIABLES
  height,      \* height[n]: of n's chain
  claimed,     \* claimed[e]: block_height in the PeerInfo of the client's end e
  awaited,     \* awaited[i]: cycle whose future _pending_responses holds for i, or "none"
  cycle,       \* cycle[c]: where cycle c stands in _sync_cycle and _download_batch
  state,       \* self.status.state
  refused      \* history: apply_block refused a block that fitted

syncVars == <<height, claimed, awaited, cycle, state, refused>>

connVars == <<link, conn, table, peers, running, created, crossed>>

Cycle == {"loop", "trigger"}
Index == 1..MaxHeight

Ended == [pc |-> "idle", peer |-> << >>, start |-> 1, end |-> 0, best |-> 0, attempt |-> 0, got |-> {}, next |-> 1]

SyncInit ==
  /\ claimed = [e \in End |-> 0] /\ awaited = [i \in Index |-> "none"]
  /\ cycle = [c \in Cycle |-> Ended] /\ state = "idle" /\ refused = FALSE

At(c, pc) == cycle[c].pc = pc
Batch(c) == cycle[c].start .. cycle[c].end

\* _best_peer: connections with the highest height, none when all say 0.
BestPeers ==
  {e \in Connected(Client) : claimed[e] > 0 /\ \A d \in Connected(Client) : claimed[d] <= claimed[e]}

\* min(current + BATCH_SIZE - 1, best_height)
BatchEndUncapped(start, best) == start + BatchSize - 1     \* the mistake CatchesUp rules out

BatchEnd(start, best) == IF start + BatchSize - 1 <= best THEN start + BatchSize - 1 ELSE best

-----------------------------------------------------------------------------
(* A cycle.                                                                *)

\* The start of _sync_cycle, by the loop or by trigger_sync.
BeginCycle(c) ==
  /\ At(c, "idle") /\ IF c = "trigger" THEN Spend("trigger") ELSE UNCHANGED allowance
  /\ \/ /\ \A e \in BestPeers : claimed[e] <= height[Client]
        /\ state' = "synced" /\ UNCHANGED cycle
     \/ \E e \in BestPeers :
          /\ claimed[e] > height[Client]
          /\ state' = "syncing"
          /\ cycle' = [cycle EXCEPT ![c].pc = "ask", ![c].peer = e, ![c].start = height[Client] + 1,
                          ![c].end = BatchEnd(height[Client] + 1, claimed[e]),
                          ![c].best = claimed[e], ![c].attempt = 1]
  /\ UNCHANGED <<height, claimed, awaited, refused>>

\* _download_batch registers a future for each block, in place of another cycle's,
\* and asks for them.
AskBatch(c) ==
  /\ At(c, "ask")
  /\ awaited' = [i \in Index |-> IF i \in Batch(c) THEN c ELSE awaited[i]]
  /\ inbox' = Deliver(inbox, cycle[c].peer, Msg("GET_CHAIN", <<cycle[c].start, cycle[c].end>>))
  /\ cycle' = [cycle EXCEPT ![c].pc = "wait", ![c].got = {}, ![c].next = cycle[c].start]
  /\ UNCHANGED <<height, claimed, state, refused, allowance>>

\* All futures have their blocks.
Gathered(c) == At(c, "wait") /\ cycle[c].got = Batch(c)

\* The next attempt, or the end of the cycle after the last.
Again(c) ==
  IF cycle[c].attempt < MaxRetries
  THEN cycle' = [cycle EXCEPT ![c].pc = "ask", ![c].attempt = @ + 1] /\ UNCHANGED state
  ELSE cycle' = [cycle EXCEPT ![c] = Ended] /\ state' = "error"

\* Bound: an answer that is on its way comes after 30 seconds only now and then.
OnItsWay(c) ==
  LET e == cycle[c].peer
  IN  \/ \E i \in DOMAIN inbox[e] : inbox[e][i].kind = "CHAIN_RESPONSE"
      \/ \E i \in DOMAIN inbox[Other(e)] : inbox[Other(e)][i].kind = "GET_CHAIN"

\* wait_for gives up; what the table holds for the batch is dropped, whosever it is.
TimeoutBatch(c) ==
  /\ At(c, "wait") /\ ~Gathered(c) /\ (OnItsWay(c) => allowance.late > 0) /\ Again(c)
  /\ allowance' = [allowance EXCEPT !.late = @ - IF OnItsWay(c) THEN 1 ELSE 0]
  /\ awaited' = [i \in Index |-> IF i \in Batch(c) THEN "none" ELSE awaited[i]]
  /\ UNCHANGED <<inbox, height, claimed, refused>>

\* The mistake SyncedMeansCaughtUp rules out: a last batch of one block is dropped.
NextBatchStopsShort(c) ==
  LET start == cycle[c].end + 1
  IN  IF start < cycle[c].best
      THEN /\ cycle' = [cycle EXCEPT ![c].pc = "ask", ![c].start = start, ![c].attempt = 1,
                          ![c].end = BatchEnd(start, cycle[c].best)]
           /\ UNCHANGED state
      ELSE cycle' = [cycle EXCEPT ![c] = Ended] /\ state' = "synced"

\* After the last block of a batch comes the next batch, or the end.
NextBatch(c) ==
  LET start == cycle[c].end + 1
  IN  IF start <= cycle[c].best
      THEN /\ cycle' = [cycle EXCEPT ![c].pc = "ask", ![c].start = start, ![c].attempt = 1,
                          ![c].end = BatchEnd(start, cycle[c].best)]
           /\ UNCHANGED state
      ELSE cycle' = [cycle EXCEPT ![c] = Ended] /\ state' = "synced"

\* Blocks are applied one by one, in order; a refusal changes nothing.
ApplyBlock(c) ==
  /\ Gathered(c) /\ UNCHANGED <<inbox, awaited, claimed>>
  /\ LET i == cycle[c].next
         advance == IF i = cycle[c].end THEN NextBatch(c) ELSE cycle' = [cycle EXCEPT ![c].next = i + 1] /\ UNCHANGED state
     IN  \/ i = height[Client] + 1 /\ height' = [height EXCEPT ![Client] = i] /\ advance
            /\ UNCHANGED <<refused, allowance>>
         \/ i # height[Client] + 1 /\ advance /\ UNCHANGED <<height, refused, allowance>>
         \/ i = height[Client] + 1 /\ Spend("refuse") /\ refused' = TRUE /\ advance /\ UNCHANGED height
         \/ Spend("raise") /\ Again(c) /\ UNCHANGED <<height, refused>>

-----------------------------------------------------------------------------
(* Handlers of both sides.                                                 *)

\* The blocks of the asked range that there are.
HandleGetChain(e) ==
  /\ Dispatch(e, "GET_CHAIN")
  /\ inbox' = Deliver(Rest(e), e, Msg("CHAIN_RESPONSE",
                {i \in Body(e)[1] .. Body(e)[2] : i <= height[Owner(e)]}))
  /\ UNCHANGED <<syncVars, allowance>>

\* Each block goes to the cycle whose future stands in the table.
HandleChainResponse(e) ==
  LET found == {i \in Body(e) : awaited[i] # "none"}
  IN  /\ Dispatch(e, "CHAIN_RESPONSE") /\ inbox' = Rest(e)
      /\ cycle' = [c \in Cycle |-> [cycle[c] EXCEPT !.got = @ \cup {i \in found : awaited[i] = c}]]
      /\ awaited' = [i \in Index |-> IF i \in found THEN "none" ELSE awaited[i]]
      /\ UNCHANGED <<height, claimed, state, refused, allowance>>

-----------------------------------------------------------------------------
\* The embedding program: a chain grows, the client notes a peer's height.
Grow(n) ==
  /\ Spend("grow") /\ height[n] + 1 \in Index
  /\ height' = [height EXCEPT ![n] = @ + 1] /\ UNCHANGED <<inbox, claimed, awaited, cycle, state, refused>>

Claim(e, h) ==
  /\ Opened(e) /\ Owner(e) = Client /\ conn[e].connected /\ Spend("claim")
  /\ h \in {height[Remote(e)], MaxHeight}
  /\ claimed' = [claimed EXCEPT ![e] = h] /\ UNCHANGED <<inbox, height, awaited, cycle, state, refused>>

CycleStep(c) == (AskBatch(c) \/ ApplyBlock(c) \/ TimeoutBatch(c)) /\ UNCHANGED <<connVars, seen>>
LoopBegins == BeginCycle("loop") /\ UNCHANGED <<connVars, seen, inbox>>
SyncHandle(e) == (HandleGetChain(e) \/ HandleChainResponse(e)) /\ UNCHANGED connVars

SyncNext ==
  \/ LoopBegins \/ (BeginCycle("trigger") /\ UNCHANGED <<connVars, seen, inbox>>)
  \/ \E c \in Cycle : CycleStep(c)
  \/ \E e \in End : Opened(e) /\ SyncHandle(e)
  \/ \E n \in Node : Grow(n) /\ UNCHANGED <<connVars, seen>>
  \/ \E e \in End, h \in Index : Claim(e, h) /\ UNCHANGED <<connVars, seen>>

-----------------------------------------------------------------------------
\* A cycle that reports the chain synced after downloading has brought it to the
\* height it set out for, whatever the other cycle, late answers, missing blocks and
\* a raising callback did, unless apply_block refused a block that fitted: the code
\* goes on after a refusal (sync_manager.py:145, 192).
SyncedMeansCaughtUp ==
  [][\A c \in Cycle : (cycle[c].pc # "idle" /\ cycle'[c].pc = "idle" /\ state' = "synced")
                        => height'[Client] >= cycle[c].best \/ refused']_<<syncVars, netVars>>

\* While no peer is credited with blocks it lacks, a client with a peer ahead of it
\* catches up, however the two cycles take each other's answers, and after errors,
\* refusals and late answers (sync_manager.py:103-204).  A peer that claims more
\* than it has spoils every attempt, since a batch with a gap is thrown away.
Honest == \A e \in Connected(Client) : claimed[e] <= height[Remote(e)]
Behind(e) == Opened(e) /\ e \in Connected(Client) /\ claimed[e] > height[Client] /\ Honest
CatchesUp == \A e \in End : Behind(e) ~> ~Behind(e)
=============================================================================
