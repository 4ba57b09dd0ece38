------------------------------ MODULE P2PNode ------------------------------
(***************************************************************************)
(* Nodes and their connections, from core/network/p2p_node.py.  A link is  *)
(* one TCP connection; each of its two ends is a PeerConnection with the   *)
(* PeerInfo it owns.  A node runs on one event loop: a handler runs        *)
(* without interruption, since a send suspends only when the transport's   *)
(* buffer is full, which these short messages do not reach.  A send over a *)
(* broken link loses the message; the exception that may come with it      *)
(* closes the end, as the end of file that follows does, so the two are    *)
(* one action.  The 10,000 ids _seen_messages holds before it is halved    *)
(* are not reached, nor the 20 peers of an answer.  Latency, versions and  *)
(* heights are left out: the handshake always says height 0.  A peer id is *)
(* never a key of the connection table (its keys are "host:port"), so      *)
(* send_to never finds a connection and has no action.                     *)
(***************************************************************************)
EXTENDS Integers, Sequences, FiniteSets

CONSTANTS Node, Link

ASSUME NodeAssumption == Node \cap Link = {}

VARIABLES
  link,       \* link[l]: <<caller, callee>>, << >> before connect
  conn,       \* conn[e]: [state, peer, connected] of an end; its state is none,
              \* opened, receiving, closing or closed
  inbox,      \* inbox[e]: messages on their way to end e, in order
  table,      \* table[n]: self.connections, from address to end
  peers,      \* peers[n]: self.peers, from peer id to an end's PeerInfo, << >> if only heard of
  seen,       \* seen[n]: ids in self._seen_messages
  running,    \* running[n]: the node listens
  created,    \* created[n]: messages n sent that several connections may see
  crossed,    \* history: ends that shared their node with another to the same peer
  allowance   \* bound: what the environment may still do, by kind

netVars == <<link, conn, inbox, table, peers, seen, running, created, crossed, allowance>>

End == Link \X {"out", "in"}
Other(e) == <<e[1], IF e[2] = "out" THEN "in" ELSE "out">>
Owner(e) == link[e[1]][IF e[2] = "out" THEN 1 ELSE 2]
Remote(e) == Owner(Other(e))
Opened(e) == link[e[1]] # << >>

\* The caller knows the callee's listening address, the callee a fresh port.
Address(e) == IF e[2] = "out" THEN Remote(e) ELSE e[1]

\* The message sent through every end of set S; what passes between ends one of
\* which has shut is lost.
Shut(e) == conn[e].state \in {"closing", "closed"}
DeliverAll(boxes, S, msg) ==
  [e \in End |-> IF Other(e) \in S /\ ~Shut(e) /\ ~Shut(Other(e)) THEN Append(boxes[e], msg) ELSE boxes[e]]
Deliver(boxes, e, msg) == DeliverAll(boxes, {e}, msg)

\* Several messages through e, one after the other.
DeliverEach(boxes, e, msgs) ==
  [d \in End |-> IF Other(d) = e /\ ~Shut(d) /\ ~Shut(e) THEN boxes[d] \o msgs ELSE boxes[d]]

\* A message; its id is kept when several connections may see it.
Msg(kind, body) == [kind |-> kind, body |-> body, id |-> << >>]
Numbered(n, kind, body) == [kind |-> kind, body |-> body, id |-> <<n, created[n]>>]

\* Connections of node n, and those whose PeerInfo says connected.
Entries(n) == {table[n][a] : a \in DOMAIN table[n]}
Connected(n) == {e \in Entries(n) : conn[e].connected}

SetEntry(map, key, e) == [k \in DOMAIN map \cup {key} |-> IF k = key THEN e ELSE map[k]]
DropKeys(map, keys) == [k \in DOMAIN map \ keys |-> map[k]]

Spend(kind) == allowance[kind] > 0 /\ allowance' = [allowance EXCEPT ![kind] = @ - 1]

NewConn == [state |-> "none", peer |-> "", connected |-> FALSE]

NetInit ==
  /\ link = [l \in Link |-> << >>] /\ conn = [e \in End |-> NewConn]
  /\ inbox = [e \in End |-> << >>] /\ table = [n \in Node |-> << >>]
  /\ peers = [n \in Node |-> << >>] /\ seen = [n \in Node |-> {}]
  /\ running = [n \in Node |-> TRUE] /\ created = [n \in Node |-> 0]
  /\ crossed = {}

-----------------------------------------------------------------------------
(* Opening and closing.                                                    *)

\* Live ends between nodes n and m at the side of n.
LiveEnds(n, m) ==
  {d \in End : Opened(d) /\ conn[d].state \notin {"none", "closed"} /\ <<Owner(d), Remote(d)>> = <<n, m>>}
Cross(e, n, m) == crossed' = crossed \cup (IF LiveEnds(n, m) = {} THEN {} ELSE LiveEnds(n, m) \cup {e})

\* connect: the entry under "host:port" replaces an older one.
Connect(l, n, m) ==
  /\ n # m /\ link[l] = << >> /\ running[m] /\ Spend("connect")
  /\ link' = [link EXCEPT ![l] = <<n, m>>]
  /\ conn' = [conn EXCEPT ![<<l, "out">>].state = "opened"]
  /\ table' = [table EXCEPT ![n] = SetEntry(@, m, <<l, "out">>)]
  /\ inbox' = [inbox EXCEPT ![<<l, "in">>] = <<Msg("HANDSHAKE", n)>>]
  /\ Cross(<<l, "out">>, n, m) /\ UNCHANGED <<peers, seen, running, created>>

\* _handle_inbound, whose task goes straight on to receive.
Accept(l) ==
  LET n == link[l][2]
      e == <<l, "in">>
  IN  /\ link[l] # << >> /\ conn[e].state = "none" /\ running[n]
      /\ conn' = [conn EXCEPT ![e].state = "receiving"]
      /\ table' = [table EXCEPT ![n] = SetEntry(@, l, e)]
      /\ Cross(e, n, link[l][1])
      /\ UNCHANGED <<link, inbox, peers, seen, running, created, allowance>>

\* The task connect created gets its turn.
StartReceiving(e) ==
  /\ conn[e].state = "opened"
  /\ conn' = [conn EXCEPT ![e].state = "receiving"]
  /\ UNCHANGED <<link, inbox, table, peers, seen, running, created, crossed, allowance>>

\* close, for ends S that receive, as far as its wait for the transport.
Close(S) ==
  /\ conn' = [e \in End |-> IF e \in S THEN [conn[e] EXCEPT !.state = "closing"] ELSE conn[e]]
  /\ inbox' = [e \in End |-> IF e \in S THEN << >> ELSE inbox[e]]
  /\ UNCHANGED <<link, table, peers, created, crossed>>

\* The mistake LiveConnectionsListed rules out: the connection is removed under its
\* peer id, which is never its key.
FinishCloseByPeer(e) ==
  /\ conn[e].state = "closing"
  /\ conn' = [conn EXCEPT ![e].state = "closed", ![e].connected = FALSE]
  /\ UNCHANGED <<link, table, inbox, peers, seen, running, created, crossed, allowance>>

\* The rest of close with _on_disconnect: what the tables hold under the end's
\* address and under its peer id by now is removed and unmarked, whosever it is.
FinishClose(e) ==
  LET n == Owner(e)
      flagged == {e} \cup ({peers[n][p] : p \in DOMAIN peers[n] \cap {conn[e].peer}})
  IN  /\ conn[e].state = "closing"
      /\ conn' = [d \in End |-> [conn[d] EXCEPT !.state = IF d = e THEN "closed" ELSE @,
                                                !.connected = @ /\ d \notin flagged]]
      /\ table' = [table EXCEPT ![n] = DropKeys(@, {Address(e)})]
      /\ UNCHANGED <<link, inbox, peers, seen, running, created, crossed, allowance>>

\* The mistake NoHalfOpenConnection rules out: an empty line is skipped.
EndOfFileSkipped(e) == conn[e].state = "closing" /\ Close({e}) /\ UNCHANGED <<seen, running, allowance>>

\* readline returns nothing: the other side is gone and all it sent is read.
EndOfFile(e) ==
  /\ conn[e].state = "receiving" /\ inbox[e] = << >>
  /\ conn[Other(e)].state \in {"closing", "closed"} \cup (IF running[Remote(e)] THEN {} ELSE {"none"})
  /\ Close({e}) /\ UNCHANGED <<seen, running, allowance>>

\* Nothing arrived for 60 seconds.
Timeout(e) ==
  /\ conn[e].state = "receiving" /\ inbox[e] = << >> /\ Spend("timeout")
  /\ Close({e}) /\ UNCHANGED <<seen, running>>

\* stop closes what the table holds; close does nothing to a connection whose
\* receiving has not begun.  A line already read when its connection is closed
\* counts as handled before.
Stop(n) ==
  /\ running[n] /\ Spend("stop")
  /\ Close({e \in Entries(n) : conn[e].state = "receiving"})
  /\ running' = [running EXCEPT ![n] = FALSE] /\ UNCHANGED seen

-----------------------------------------------------------------------------
(* Messages.                                                               *)

\* The message at the head of an end's queue; _dispatch drops one whose id it has
\* seen.  Only a message sent over several connections can come twice.
Reads(e) == conn[e].state = "receiving" /\ inbox[e] # << >>
Duplicate(e) == Head(inbox[e]).id \in seen[Owner(e)]
Body(e) == Head(inbox[e]).body
Rest(e) == [inbox EXCEPT ![e] = Tail(@)]

Dispatch(e, kind) ==
  /\ Reads(e) /\ ~Duplicate(e) /\ Head(inbox[e]).kind = kind
  /\ seen' = [seen EXCEPT ![Owner(e)] = @ \cup ({Head(inbox[e]).id} \ {<< >>})]

SkipDuplicate(e) ==
  /\ Reads(e) /\ Duplicate(e) /\ inbox' = Rest(e)
  /\ UNCHANGED <<link, conn, table, peers, seen, running, created, crossed, allowance>>

\* _handle_handshake and _handle_handshake_ack: the peer table points to the
\* connection that spoke last.
HandleHandshake(e, kind) ==
  /\ kind \in {"HANDSHAKE", "HANDSHAKE_ACK"} /\ Dispatch(e, kind)
  /\ conn' = [conn EXCEPT ![e].peer = Body(e), ![e].connected = TRUE]
  /\ peers' = [peers EXCEPT ![Owner(e)] = SetEntry(@, Body(e), e)]
  /\ inbox' = IF kind = "HANDSHAKE" THEN Deliver(Rest(e), e, Msg("HANDSHAKE_ACK", Owner(e))) ELSE Rest(e)
  /\ UNCHANGED <<link, table, running, created, crossed, allowance>>

HandlePing(e, kind) ==
  /\ kind \in {"PING", "PONG"} /\ Dispatch(e, kind)
  /\ inbox' = IF kind = "PING" THEN Deliver(Rest(e), e, Msg("PONG", "")) ELSE Rest(e)
  /\ UNCHANGED <<link, conn, table, peers, running, created, crossed, allowance>>

HandleGetPeers(e) ==
  /\ Dispatch(e, "GET_PEERS")
  /\ inbox' = Deliver(Rest(e), e, Msg("PEERS", DOMAIN peers[Owner(e)]))
  /\ UNCHANGED <<link, conn, table, peers, running, created, crossed, allowance>>

\* Peers heard of are listed; nothing connects to them.
HandlePeers(e) ==
  /\ Dispatch(e, "PEERS")
  /\ LET n == Owner(e)
         new == Body(e) \ (DOMAIN peers[n] \cup {n})
     IN  peers' = [peers EXCEPT ![n] = [p \in DOMAIN @ \cup new |-> IF p \in new THEN << >> ELSE @[p]]]
  /\ inbox' = Rest(e)
  /\ UNCHANGED <<link, conn, table, running, created, crossed, allowance>>

HandleDisconnect(e) == Dispatch(e, "DISCONNECT") /\ Close({e}) /\ UNCHANGED <<running, allowance>>

\* broadcast sends one message over every entry.
SendAll(n, kind, body) ==
  /\ inbox' = DeliverAll(inbox, Entries(n), Numbered(n, kind, body))
  /\ created' = [created EXCEPT ![n] = @ + 1]

\* Requests the embedder sends with broadcast.
Broadcast(n, kind) ==
  /\ Spend("broadcast") /\ Entries(n) # {} /\ SendAll(n, kind, "")
  /\ UNCHANGED <<link, conn, table, peers, seen, running, crossed>>

PingLoop(n) ==
  /\ running[n] /\ Connected(n) # {} /\ Spend("ping")
  /\ inbox' = DeliverAll(inbox, Connected(n), Msg("PING", ""))
  /\ UNCHANGED <<link, conn, table, peers, seen, running, created, crossed>>

\* What the event loops do by themselves.
Handle(e) ==
  \/ \E kind \in {"HANDSHAKE", "HANDSHAKE_ACK", "PING", "PONG"} : HandleHandshake(e, kind) \/ HandlePing(e, kind)
  \/ HandleGetPeers(e) \/ HandlePeers(e) \/ HandleDisconnect(e) \/ SkipDuplicate(e)

Proceed(e) == StartReceiving(e) \/ EndOfFile(e) \/ FinishClose(e) \/ Handle(e)

NetNext ==
  \/ \E l \in Link : Accept(l) \/ \E n, m \in Node : Connect(l, n, m)
  \/ \E e \in End : Opened(e) /\ (Proceed(e) \/ Timeout(e))
  \/ \E n \in Node : Stop(n) \/ PingLoop(n) \/ \E kind \in {"GET_PEERS", "DISCONNECT"} : Broadcast(n, kind)

-----------------------------------------------------------------------------
\* connected_peers lists a node's live connections: an end that has heard the
\* other's name and still reads is in the table and marked connected, and no
\* closed one is listed, whatever was opened and closed before it.  The exception
\* is a node with two connections to one peer at once, as when each called the
\* other: closing one removes or unmarks the other (p2p_node.py:350-355).
LiveConnectionsListed ==
  \A e \in End : Opened(e) =>
    /\ e \in Entries(Owner(e)) => conn[e].state # "closed"
    /\ (conn[e].state = "receiving" /\ conn[e].peer # "" /\ e \notin crossed) => e \in Connected(Owner(e))

\* When one end is gone the other learns of it: what was sent is read to the
\* end, then the connection closes there as well (p2p_node.py:112-142).
NoHalfOpenConnection ==
  \A e \in End : (conn[e].state = "receiving" /\ conn[Other(e)].state = "closed") ~> (conn[e].state = "closed")
=============================================================================
