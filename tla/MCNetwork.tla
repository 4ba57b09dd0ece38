----------------------------- MODULE MCNetwork -----------------------------
(* Three parts over the same nodes.  "links": two nodes open, use and close *)
(* connections in every order, from a few mixes of what the environment may *)
(* do.  "gossip": three nodes, connected in a line, announce and push       *)
(* items.  "sync": node a, connected to b and c, catches up with them.      *)
EXTENDS Gossip, SyncManager
CONSTANTS a, b, c, l1, l2
VARIABLE part

vars == <<netVars, gossipVars, syncVars, part>>

NoAllowance ==
  [connect |-> 0, timeout |-> 0, stop |-> 0, broadcast |-> 0, ping |-> 0,
   announce |-> 0, push |-> 0, inventory |-> 0, raise |-> 0,
   late |-> 0, grow |-> 0, claim |-> 0, refuse |-> 0, trigger |-> 0]

\* Connections first -> second and second -> third, handshakes done.
Path(x, y, z) ==
  /\ link = (l1 :> <<x, y>>) @@ (l2 :> <<y, z>>)
  /\ conn = [e \in End |-> [state |-> "receiving", peer |-> Remote(e), connected |-> TRUE]]
  /\ inbox = [e \in End |-> << >>]
  /\ table = (x :> (y :> <<l1, "out">>)) @@ (y :> ((l1 :> <<l1, "in">>) @@ (z :> <<l2, "out">>)))
             @@ (z :> (l2 :> <<l2, "in">>))
  /\ peers = (x :> (y :> <<l1, "out">>)) @@ (y :> ((x :> <<l1, "in">>) @@ (z :> <<l2, "out">>)))
             @@ (z :> (y :> <<l2, "in">>))
  /\ seen = [n \in Node |-> {}] /\ running = [n \in Node |-> TRUE]
  /\ created = [n \in Node |-> 0] /\ crossed = {}

LinksInit ==
  /\ part = "links" /\ NetInit
  /\ allowance \in { [NoAllowance EXCEPT !.connect = 2, !.timeout = 1],
                     [NoAllowance EXCEPT !.connect = 2, !.stop = 1],
                     [NoAllowance EXCEPT !.connect = 2, !.broadcast = 1],
                     [NoAllowance EXCEPT !.connect = 1, !.broadcast = 1, !.stop = 2, !.ping = 1] }

LineInit ==
  /\ part = "gossip" /\ Path(a, b, c)
  /\ allowance \in { [NoAllowance EXCEPT !.announce = 1, !.push = 2],
                     [NoAllowance EXCEPT !.announce = 1, !.push = 1, !.raise = 1],
                     [NoAllowance EXCEPT !.push = 2, !.raise = 1],
                     [NoAllowance EXCEPT !.announce = 1, !.push = 1, !.inventory = 1] }

CatchUpInit ==
  /\ part = "sync" /\ Path(b, a, c)
  /\ allowance \in { [NoAllowance EXCEPT !.claim = 1, !.trigger = 1, !.late = 1],
                     [NoAllowance EXCEPT !.claim = 2, !.trigger = 1],
                     [NoAllowance EXCEPT !.claim = 1, !.trigger = 1, !.raise = 1, !.refuse = 1],
                     [NoAllowance EXCEPT !.claim = 2, !.grow = 1, !.timeout = 1] }

MCInit ==
  /\ GossipInit /\ SyncInit /\ height = (a :> 0) @@ (b :> 3) @@ (c :> 2)
  /\ LinksInit \/ LineInit \/ CatchUpInit

\* One item announced on the line, to both neighbours of the node in the middle.
ReachInit ==
  /\ GossipInit /\ SyncInit /\ height = (a :> 0) @@ (b :> 3) @@ (c :> 2)
  /\ part = "gossip" /\ Path(a, b, c) /\ allowance = [NoAllowance EXCEPT !.announce = 1]

Closes(e) == EndOfFile(e) \/ FinishClose(e)

LinksNext ==
  /\ part = "links" /\ NetNext /\ UNCHANGED <<gossipVars, syncVars>>
  /\ \A l \in Link : link'[l] \in {link[l], <<a, b>>, <<b, a>>}
\* The node in the middle announces; all push.
LineNext ==
  /\ part = "gossip" /\ GossipNext /\ UNCHANGED syncVars
  /\ allowance'.announce = allowance.announce \/ created'[b] > created[b]
CatchUpNext ==
  /\ part = "sync" /\ UNCHANGED gossipVars
  /\ SyncNext \/ \E e \in End : (Closes(e) \/ Timeout(e)) /\ UNCHANGED syncVars

MCNext == (LinksNext \/ LineNext \/ CatchUpNext) /\ UNCHANGED part

\* Every task of an event loop gets its turn.  Gossip has a specification of its own.
Turns(e) ==
  /\ part # "gossip" /\ Opened(e) /\ UNCHANGED <<gossipVars, part>>
  /\ \/ part = "links" /\ Proceed(e) /\ UNCHANGED syncVars
     \/ part = "sync" /\ ((Closes(e) /\ UNCHANGED syncVars) \/ SyncHandle(e))
Cycles(A) == part = "sync" /\ A /\ UNCHANGED <<gossipVars, part>>

MCSpec ==
  /\ MCInit /\ [][MCNext]_vars
  /\ \A l \in Link, side \in {"out", "in"} : WF_vars(Turns(<<l, side>>))
  /\ WF_vars(Cycles(LoopBegins)) /\ \A k \in Cycle : WF_vars(Cycles(CycleStep(k)))

\* Every connection is read, and what is read is handled.
Turn(e) == Opened(e) /\ GossipHandle(e) /\ UNCHANGED <<syncVars, part>>
ReachSpec ==
  /\ ReachInit /\ [][MCNext]_vars
  /\ \A l \in Link, side \in {"out", "in"} : WF_vars(Turn(<<l, side>>))
=============================================================================
