--------------------------- MODULE NetworkProofs ---------------------------
(***************************************************************************)
(* Proofs about the network: any number of nodes and links, on which       *)
(* connections come and go, items are spread and one node catches up with  *)
(* the others, all at once and in any order.  TLC checks the three apart,  *)
(* since together they are out of its reach (MCNetwork).                   *)
(*                                                                         *)
(* The invariant has four parts: the ends of the connections               *)
(* (Connections), the messages under way (Boxes), what has been spread     *)
(* (Inventories) and how far each cycle of synchronisation is (Progress).  *)
(***************************************************************************)
EXTENDS Gossip, SyncManager, SequenceTheorems, FiniteSetTheorems, TLAPS

networkVars == <<netVars, gossipVars, syncVars>>

NetworkInit == NetInit /\ GossipInit /\ SyncInit /\ height \in [Node -> Nat]

NetworkNext ==
  \/ NetNext /\ UNCHANGED <<gossipVars, syncVars>>
  \/ GossipNext /\ UNCHANGED syncVars
  \/ SyncNext /\ UNCHANGED gossipVars

NetworkSpec == NetworkInit /\ [][NetworkNext]_networkVars
----------------------------------------------------------------------------
(* Connections.  A connection may be lost from the table only by another   *)
(* between the same nodes, so the invariant relates any two of them.       *)

Alive(e) == conn[e].state \in {"opened", "receiving", "closing"}

Records == [state : {"none", "opened", "receiving", "closing", "closed"},
            peer : {""} \cup Node, connected : BOOLEAN]

(* What the table lists is alive, and listed under its own address. *)
Listed ==
  \A n \in Node : \A k \in DOMAIN table[n] :
    \E e \in End : table[n][k] = e /\ Opened(e) /\ Owner(e) = n /\ Address(e) = k /\ Alive(e)

AliveListed ==
  \A e \in End : Alive(e) /\ e \notin crossed =>
    Address(e) \in DOMAIN table[Owner(e)] /\ table[Owner(e)][Address(e)] = e

Twins ==
  \A d, e \in End : Alive(d) /\ Alive(e) /\ d # e /\ Owner(d) = Owner(e) /\ Remote(d) = Remote(e)
                      => d \in crossed

(* A name is that of the node at the other end. *)
Named ==
  \A e \in End : /\ conn[e].peer = "" \/ (Opened(e) /\ conn[e].peer = Remote(e))
                 /\ conn[e].state = "none" => conn[e].peer = ""
                 /\ Opened(e) \/ conn[e].state = "none"

Marked ==
  \A e \in End : Alive(e) /\ conn[e].peer # "" /\ e \notin crossed => conn[e].connected = TRUE

(* The peer table names an end by the name it has heard. *)
PeerEnds ==
  \A n \in Node : \A p \in DOMAIN peers[n] :
    \/ peers[n][p] = << >>
    \/ \E e \in End : /\ peers[n][p] = e /\ Opened(e) /\ Owner(e) = n
                      /\ p = Remote(e) /\ conn[e].peer = p

Connections ==
  /\ link \in [Link -> {<< >>} \cup (Node \X Node)]
  /\ conn \in [End -> Records]
  /\ DOMAIN table = Node /\ DOMAIN peers = Node
  /\ Listed /\ AliveListed /\ Twins /\ Named /\ Marked /\ PeerEnds

LEMMA EndFacts ==
  ASSUME NEW e \in End
  PROVE  /\ e[1] \in Link /\ e[2] \in {"out", "in"} /\ e = <<e[1], e[2]>>
         /\ Other(e) \in End /\ Other(Other(e)) = e /\ e # << >>
         /\ Other(e)[1] = e[1] /\ Other(e)[2] # e[2]
BY DEF End, Other

LEMMA OwnerFacts ==
  ASSUME link \in [Link -> {<< >>} \cup (Node \X Node)], NEW e \in End, Opened(e)
  PROVE  /\ Owner(e) \in Node /\ Remote(e) \in Node
         /\ Address(e) = IF e[2] = "out" THEN Remote(e) ELSE e[1]
<1>1. e[1] \in Link /\ Other(e)[1] = e[1]  BY EndFacts
<1>2. link[e[1]] \in Node \X Node  BY <1>1 DEF Opened
<1>3. Owner(e) \in Node /\ Remote(e) \in Node  BY <1>1, <1>2 DEF Owner, Remote
<1>. QED  BY <1>3 DEF Address

(* Steps that leave everything alone but the states, within life. *)
LEMMA SameLife ==
  ASSUME Connections, UNCHANGED <<link, table, peers, crossed>>, conn' \in [End -> Records],
         \A e \in End : /\ conn'[e].peer = conn[e].peer /\ conn'[e].connected = conn[e].connected
                        /\ Alive(e)' <=> Alive(e)
                        /\ conn'[e].state = "none" <=> conn[e].state = "none"
  PROVE  Connections'
<1>1. \A e \in End : /\ Opened(e)' <=> Opened(e)
                     /\ Owner(e)' = Owner(e) /\ Remote(e)' = Remote(e) /\ Address(e)' = Address(e)
  BY DEF Opened, Owner, Remote, Address, Other
<1>2. Listed' /\ AliveListed'  BY <1>1 DEF Connections, Listed, AliveListed
<1>3. Twins'  BY <1>1 DEF Connections, Twins
<1>6. Named'
  <2>1. Named  BY DEF Connections
  <2>. QED  BY <1>1, <2>1, Zenon DEF Named
<1>4. Marked'  BY <1>1 DEF Connections, Marked
<1>5. PeerEnds'  BY <1>1 DEF Connections, PeerEnds
<1>. QED  BY <1>2, <1>3, <1>4, <1>5, <1>6 DEF Connections

LEMMA CloseKeeps ==
  ASSUME Connections, NEW S, Close(S), \A e \in S \cap End : conn[e].state = "receiving"
  PROVE  Connections'
<1>1. \A e \in End : conn[e] \in Records  BY DEF Connections
<1>2. conn' = [e \in End |-> IF e \in S THEN [conn[e] EXCEPT !.state = "closing"] ELSE conn[e]]
  BY DEF Close
<1>3. ASSUME NEW e \in End
      PROVE  /\ conn'[e] \in Records
             /\ conn'[e].peer = conn[e].peer /\ conn'[e].connected = conn[e].connected
             /\ Alive(e)' <=> Alive(e)
             /\ conn'[e].state = "none" <=> conn[e].state = "none"
  <2>1. CASE e \in S
    <3>1. conn'[e] = [conn[e] EXCEPT !.state = "closing"]  BY <1>2, <2>1
    <3>. QED  BY <1>1, <2>1, <3>1 DEF Records, Alive
  <2>2. CASE e \notin S
    <3>1. conn'[e] = conn[e]  BY <1>2, <2>2
    <3>. QED  BY <1>1, <3>1 DEF Alive
  <2>. QED  BY <2>1, <2>2
<1>4. conn' \in [End -> Records]  BY <1>2, <1>3
<1>. QED  BY <1>3, <1>4, SameLife DEF Close

LEMMA StartReceivingKeeps ==
  ASSUME Connections, NEW e \in End, StartReceiving(e)
  PROVE  Connections'
<1>1. conn[e].state = "opened" /\ conn' = [conn EXCEPT ![e].state = "receiving"]
      /\ UNCHANGED <<link, table, peers, crossed>>
  BY DEF StartReceiving
<1>2. conn \in [End -> Records]  BY DEF Connections
<1>3. conn' \in [End -> Records]  BY <1>1, <1>2 DEF Records
<1>4. ASSUME NEW d \in End
      PROVE  /\ conn'[d].peer = conn[d].peer /\ conn'[d].connected = conn[d].connected
             /\ Alive(d)' <=> Alive(d)
             /\ conn'[d].state = "none" <=> conn[d].state = "none"
  BY <1>1, <1>2 DEF Records, Alive
<1>. QED  BY <1>1, <1>3, <1>4, SameLife

(* A new end, of the caller or of the callee. *)
Joins(e, n, m, k, s) ==
  /\ link' \in [Link -> {<< >>} \cup (Node \X Node)]
  /\ \A d \in End : Opened(d) => /\ Opened(d)' /\ Owner(d)' = Owner(d)
                                  /\ Remote(d)' = Remote(d) /\ Address(d)' = Address(d)
  /\ Opened(e)' /\ Owner(e)' = n /\ Remote(e)' = m /\ Address(e)' = k
  /\ \A d \in End : Alive(d) /\ Owner(d) = n /\ Address(d) = k => Remote(d) = m
  /\ conn[e].state = "none" /\ s \in {"opened", "receiving"}
  /\ conn' = [conn EXCEPT ![e].state = s]
  /\ table' = [table EXCEPT ![n] = SetEntry(@, k, e)]
  /\ peers' = peers /\ Cross(e, n, m)

LEMMA NewEnd ==
  ASSUME Connections, NEW e \in End, NEW n \in Node, NEW m \in Node, NEW k, NEW s,
         Joins(e, n, m, k, s)
  PROVE  Connections'
<1>. USE DEF Joins
<1>1. conn \in [End -> Records] /\ DOMAIN table = Node  BY DEF Connections
<1>2. conn' \in [End -> Records] /\ conn'[e].state = s /\ conn'[e].peer = conn[e].peer
      /\ \A d \in End \ {e} : conn'[d] = conn[d]
  BY <1>1 DEF Records
<1>3. Alive(e)' /\ ~Alive(e) /\ \A d \in End \ {e} : Alive(d)' <=> Alive(d)
  BY <1>2 DEF Alive
<1>4. \A d \in End : Alive(d) => Opened(d)  BY DEF Connections, Named, Alive
<1>5. /\ DOMAIN table' = Node /\ \A v \in Node \ {n} : table'[v] = table[v]
      /\ DOMAIN table'[n] = DOMAIN table[n] \cup {k} /\ table'[n][k] = e
      /\ \A j \in DOMAIN table[n] \ {k} : table'[n][j] = table[n][j]
  BY <1>1 DEF SetEntry
<1>6. /\ crossed \subseteq crossed'
      /\ \A d \in End : Alive(d) /\ Owner(d) = n /\ Remote(d) = m => {d, e} \subseteq crossed'
  BY <1>1, <1>4 DEF Cross, LiveEnds, Alive, Records
<1>7. Listed'
  <2>. SUFFICES ASSUME NEW v \in Node, NEW j \in DOMAIN table'[v]
                PROVE  \E d \in End : /\ table'[v][j] = d /\ Opened(d)' /\ Owner(d)' = v
                                      /\ Address(d)' = j /\ Alive(d)'
    BY <1>5 DEF Listed
  <2>1. CASE v = n /\ j = k  BY <1>3, <1>5, <2>1
  <2>2. CASE ~(v = n /\ j = k)
    <3>1. j \in DOMAIN table[v] /\ table'[v][j] = table[v][j]  BY <1>5, <2>2
    <3>2. PICK d \in End : /\ table[v][j] = d /\ Opened(d) /\ Owner(d) = v
                           /\ Address(d) = j /\ Alive(d)
      BY <3>1 DEF Connections, Listed
    <3>. QED  BY <1>3, <3>1, <3>2
  <2>. QED  BY <2>1, <2>2
<1>8. AliveListed'
  <2>. SUFFICES ASSUME NEW d \in End, Alive(d)', d \notin crossed'
                PROVE  /\ Address(d)' \in DOMAIN table'[Owner(d)']
                       /\ table'[Owner(d)'][Address(d)'] = d
    BY DEF AliveListed
  <2>1. CASE d = e  BY <1>5, <2>1
  <2>2. CASE d # e
    <3>1. Alive(d) /\ Opened(d) /\ d \notin crossed  BY <1>3, <1>4, <1>6, <2>2
    <3>2. Address(d) \in DOMAIN table[Owner(d)] /\ table[Owner(d)][Address(d)] = d
      BY <3>1 DEF Connections, AliveListed
    <3>3. ~(Owner(d) = n /\ Address(d) = k)  BY <1>6, <3>1
    <3>4. Owner(d) \in Node  BY <3>1, OwnerFacts DEF Connections
    <3>. QED  BY <1>5, <3>1, <3>2, <3>3, <3>4
  <2>. QED  BY <2>1, <2>2
<1>9. Twins'
  <2>. SUFFICES ASSUME NEW c \in End, NEW d \in End, Alive(c)', Alive(d)', c # d,
                       Owner(c)' = Owner(d)', Remote(c)' = Remote(d)'
                PROVE  c \in crossed'
    BY DEF Twins
  <2>1. CASE c = e  BY <1>3, <1>4, <1>6, <2>1
  <2>2. CASE d = e  BY <1>3, <1>4, <1>6, <2>2
  <2>3. CASE c # e /\ d # e
    <3>1. Alive(c) /\ Alive(d) /\ Owner(c) = Owner(d) /\ Remote(c) = Remote(d)
      BY <1>3, <1>4, <2>3
    <3>. QED  BY <1>6, <3>1 DEF Connections, Twins
  <2>. QED  BY <2>1, <2>2, <2>3
<1>10. Named'
  <2>. SUFFICES ASSUME NEW d \in End
                PROVE  /\ conn'[d].peer = "" \/ (Opened(d)' /\ conn'[d].peer = Remote(d)')
                       /\ conn'[d].state = "none" => conn'[d].peer = ""
                       /\ Opened(d)' \/ conn'[d].state = "none"
    BY DEF Named
  <2>1. CASE d = e  BY <1>2, <2>1 DEF Connections, Named
  <2>2. CASE d # e  BY <1>2, <2>2 DEF Connections, Named
  <2>. QED  BY <2>1, <2>2
<1>11. Marked'
  <2>1. conn'[e].peer = ""  BY <1>2 DEF Connections, Named
  <2>. QED  BY <1>2, <1>3, <1>6, <2>1 DEF Connections, Marked
<1>12. PeerEnds'
  <2>1. \A d \in End : conn'[d].peer = conn[d].peer  BY <1>2
  <2>. QED  BY <2>1 DEF Connections, PeerEnds
<1>. QED
  BY <1>2, <1>5, <1>7, <1>8, <1>9, <1>10, <1>11, <1>12 DEF Connections

LEMMA ConnectKeeps ==
  ASSUME Connections, NEW l \in Link, NEW n \in Node, NEW m \in Node, Connect(l, n, m)
  PROVE  Connections'
<1>. DEFINE e == <<l, "out">>
<1>1. /\ link[l] = << >> /\ link' = [link EXCEPT ![l] = <<n, m>>]
      /\ conn' = [conn EXCEPT ![e].state = "opened"]
      /\ table' = [table EXCEPT ![n] = SetEntry(@, m, e)]
      /\ peers' = peers /\ Cross(e, n, m)
  BY DEF Connect
<1>2. link \in [Link -> {<< >>} \cup (Node \X Node)]  BY DEF Connections
<1>3. link' \in [Link -> {<< >>} \cup (Node \X Node)] /\ link'[l] = <<n, m>>
      /\ \A j \in Link \ {l} : link'[j] = link[j]
  BY <1>1, <1>2
<1>4. e \in End /\ e[1] = l /\ e[2] = "out"  BY DEF End
<1>. HIDE DEF e
<1>5. ASSUME NEW d \in End, Opened(d)
      PROVE  /\ Opened(d)' /\ Owner(d)' = Owner(d)
             /\ Remote(d)' = Remote(d) /\ Address(d)' = Address(d)
  <2>1. d[1] \in Link /\ Other(d)[1] = d[1]  BY EndFacts
  <2>2. link'[d[1]] = link[d[1]]  BY <1>1, <1>3, <1>5, <2>1 DEF Opened
  <2>3. Opened(d)' /\ Owner(d)' = Owner(d)  BY <1>5, <2>2 DEF Opened, Owner
  <2>4. Remote(d)' = Remote(d)  BY <2>1, <2>2 DEF Remote, Owner, Other
  <2>. QED  BY <2>3, <2>4 DEF Address
<1>6. Opened(e)' /\ Owner(e)' = n /\ Remote(e)' = m /\ Address(e)' = m
  BY <1>3, <1>4 DEF Opened, Owner, Remote, Other, Address
<1>7. ASSUME NEW d \in End, Alive(d), Owner(d) = n, Address(d) = m PROVE Remote(d) = m
  <2>1. Opened(d)  BY <1>7 DEF Connections, Named, Alive
  <2>2. Address(d) = IF d[2] = "out" THEN Remote(d) ELSE d[1]  BY <1>2, <2>1, OwnerFacts
  <2>3. d[1] \in Link  BY EndFacts
  <2>. QED  BY <1>7, <2>2, <2>3, NodeAssumption
<1>8. conn[e].state = "none"  BY <1>1, <1>4 DEF Connections, Named, Opened
<1>9. Joins(e, n, m, m, "opened")
  BY <1>1, <1>3, <1>5, <1>6, <1>7, <1>8 DEF Joins
<1>. QED  BY <1>4, <1>9, NewEnd

LEMMA AcceptKeeps ==
  ASSUME Connections, NEW l \in Link, Accept(l)
  PROVE  Connections'
<1>. DEFINE e == <<l, "in">>
<1>2. link \in [Link -> {<< >>} \cup (Node \X Node)]  BY DEF Connections
<1>3. link[l] # << >>  BY DEF Accept
<1>4. PICK n \in Node, m \in Node : link[l] = <<m, n>>  BY <1>2, <1>3
<1>1. /\ link[l] # << >> /\ link' = link /\ conn[e].state = "none"
      /\ conn' = [conn EXCEPT ![e].state = "receiving"]
      /\ table' = [table EXCEPT ![n] = SetEntry(@, l, e)]
      /\ peers' = peers /\ Cross(e, n, m)
  BY <1>4 DEF Accept
<1>5. e \in End /\ e[1] = l /\ e[2] = "in"  BY DEF End
<1>6. Opened(e) /\ Owner(e) = n /\ Remote(e) = m /\ Address(e) = l
  BY <1>1, <1>4, <1>5 DEF Opened, Owner, Remote, Other, Address
<1>7. ASSUME NEW d \in End, Alive(d), Owner(d) = n, Address(d) = l PROVE Remote(d) = m
  <2>1. Opened(d)  BY <1>7 DEF Connections, Named, Alive
  <2>2. Address(d) = (IF d[2] = "out" THEN Remote(d) ELSE d[1]) /\ Remote(d) \in Node
    BY <1>2, <2>1, OwnerFacts
  <2>3. d[2] # "out" /\ d[1] = l  BY <1>7, <2>2, NodeAssumption
  <2>4. d = e  BY <2>3, EndFacts
  <2>. QED  BY <1>6, <2>4
<1>8. \A d \in End : /\ Opened(d)' <=> Opened(d)
                     /\ Owner(d)' = Owner(d) /\ Remote(d)' = Remote(d) /\ Address(d)' = Address(d)
  BY <1>1 DEF Opened, Owner, Remote, Address, Other
<1>. HIDE DEF e
<1>9. Opened(e)' /\ Owner(e)' = n /\ Remote(e)' = m /\ Address(e)' = l
  BY <1>5, <1>6, <1>8
<1>10. Joins(e, n, m, l, "receiving")
  BY <1>1, <1>2, <1>7, <1>8, <1>9 DEF Joins
<1>. QED  BY <1>4, <1>5, <1>10, NewEnd

LEMMA FinishCloseKeeps ==
  ASSUME Connections, NEW e \in End, Opened(e), FinishClose(e)
  PROVE  Connections'
<1>1. link \in [Link -> {<< >>} \cup (Node \X Node)] /\ conn \in [End -> Records]
      /\ DOMAIN table = Node
  BY DEF Connections
<1>2. PICK n \in Node : Owner(e) = n  BY <1>1, OwnerFacts
<1>3. PICK k, p : Address(e) = k /\ p = conn[e].peer  OBVIOUS
<1>. DEFINE flagged == {e} \cup {peers[n][q] : q \in DOMAIN peers[n] \cap {p}}
<1>4. /\ conn[e].state = "closing"
      /\ conn' = [d \in End |-> [conn[d] EXCEPT !.state = IF d = e THEN "closed" ELSE @,
                                                !.connected = @ /\ d \notin flagged]]
      /\ table' = [table EXCEPT ![n] = DropKeys(@, {k})]
      /\ UNCHANGED <<link, peers, crossed>>
  BY <1>2, <1>3 DEF FinishClose
<1>. HIDE DEF flagged
<1>5. ASSUME NEW d \in End
      PROVE  /\ conn'[d] \in Records /\ conn'[d].peer = conn[d].peer
             /\ conn'[d].state = IF d = e THEN "closed" ELSE conn[d].state
             /\ d \notin flagged /\ conn[d].connected = TRUE => conn'[d].connected = TRUE
  <2>1. conn[d] \in Records  BY <1>1
  <2>2. conn'[d] = [conn[d] EXCEPT !.state = IF d = e THEN "closed" ELSE @,
                                   !.connected = @ /\ d \notin flagged]
    BY <1>4
  <2>3. conn[d].connected \in BOOLEAN  BY <2>1 DEF Records
  <2>4. (conn[d].connected /\ d \notin flagged) \in BOOLEAN  OBVIOUS
  <2>. QED  BY <2>1, <2>2, <2>3, <2>4 DEF Records
<1>6. conn' \in [End -> Records]  BY <1>4, <1>5
<1>7. Alive(e) /\ ~Alive(e)' /\ \A d \in End \ {e} : Alive(d)' <=> Alive(d)
  <2>1. conn[e].state = "closing" /\ conn'[e].state = "closed"  BY <1>4, <1>5
  <2>2. \A d \in End \ {e} : conn'[d].state = conn[d].state  BY <1>5
  <2>. QED  BY <2>1, <2>2 DEF Alive
<1>8. \A d \in End : Alive(d) => Opened(d)  BY DEF Connections, Named, Alive
<1>9. \A d \in End : /\ Opened(d)' <=> Opened(d)
                     /\ Owner(d)' = Owner(d) /\ Remote(d)' = Remote(d) /\ Address(d)' = Address(d)
  BY <1>4 DEF Opened, Owner, Remote, Address, Other
<1>10. ASSUME NEW d \in End, d # e, Alive(d), Owner(d) = n, Address(d) = k \/ Remote(d) = Remote(e)
       PROVE  d \in crossed
  <2>1. Remote(d) = Remote(e)
    <3>1. CASE Address(d) = k
      <4>1. Opened(d)  BY <1>8, <1>10
      <4>2. /\ Address(d) = IF d[2] = "out" THEN Remote(d) ELSE d[1]
            /\ Address(e) = IF e[2] = "out" THEN Remote(e) ELSE e[1]
            /\ Remote(d) \in Node /\ Remote(e) \in Node
        BY <1>1, <4>1, OwnerFacts
      <4>3. d[1] \in Link /\ e[1] \in Link /\ d[2] \in {"out", "in"} /\ e[2] \in {"out", "in"}
            /\ d = <<d[1], d[2]>> /\ e = <<e[1], e[2]>>
        BY EndFacts
      <4>. QED  BY <1>3, <1>10, <3>1, <4>2, <4>3, NodeAssumption
    <3>. QED  BY <1>10, <3>1
  <2>. QED  BY <1>2, <1>7, <1>10, <2>1 DEF Connections, Twins
<1>11. /\ DOMAIN table' = Node /\ \A v \in Node \ {n} : table'[v] = table[v]
       /\ DOMAIN table'[n] = DOMAIN table[n] \ {k}
       /\ \A j \in DOMAIN table[n] \ {k} : table'[n][j] = table[n][j]
  BY <1>1, <1>4 DEF DropKeys
<1>12. Listed'
  <2>. SUFFICES ASSUME NEW v \in Node, NEW j \in DOMAIN table'[v]
                PROVE  \E d \in End : /\ table'[v][j] = d /\ Opened(d)' /\ Owner(d)' = v
                                      /\ Address(d)' = j /\ Alive(d)'
    BY DEF Listed
  <2>1. j \in DOMAIN table[v] /\ table'[v][j] = table[v][j] /\ ~(v = n /\ j = k)  BY <1>11
  <2>2. PICK d \in End : /\ table[v][j] = d /\ Opened(d) /\ Owner(d) = v
                         /\ Address(d) = j /\ Alive(d)
    BY <2>1 DEF Connections, Listed
  <2>3. d # e  BY <1>2, <1>3, <2>1, <2>2
  <2>. QED  BY <1>7, <1>9, <2>1, <2>2, <2>3
<1>13. AliveListed'
  <2>. SUFFICES ASSUME NEW d \in End, Alive(d)', d \notin crossed'
                PROVE  /\ Address(d)' \in DOMAIN table'[Owner(d)']
                       /\ table'[Owner(d)'][Address(d)'] = d
    BY DEF AliveListed
  <2>1. d # e /\ Alive(d) /\ Opened(d) /\ d \notin crossed  BY <1>4, <1>7, <1>8
  <2>2. Address(d) \in DOMAIN table[Owner(d)] /\ table[Owner(d)][Address(d)] = d
    BY <2>1 DEF Connections, AliveListed
  <2>3. ~(Owner(d) = n /\ Address(d) = k)  BY <1>10, <2>1
  <2>4. Owner(d) \in Node  BY <1>1, <2>1, OwnerFacts
  <2>. QED  BY <1>9, <1>11, <2>2, <2>3, <2>4
<1>14. Twins'  BY <1>4, <1>7, <1>9 DEF Connections, Twins
<1>15. Named'
  <2>. SUFFICES ASSUME NEW d \in End
                PROVE  /\ conn'[d].peer = "" \/ (Opened(d)' /\ conn'[d].peer = Remote(d)')
                       /\ conn'[d].state = "none" => conn'[d].peer = ""
                       /\ Opened(d)' \/ conn'[d].state = "none"
    BY DEF Named
  <2>. QED  BY <1>5, <1>9 DEF Connections, Named
<1>16. Marked'
  <2>. SUFFICES ASSUME NEW d \in End, Alive(d)', conn'[d].peer # "", d \notin crossed'
                PROVE  conn'[d].connected = TRUE
    BY DEF Marked
  <2>1. d # e /\ Alive(d) /\ conn[d].peer # "" /\ d \notin crossed  BY <1>4, <1>5, <1>7
  <2>2. conn[d].connected = TRUE  BY <2>1 DEF Connections, Marked
  <2>3. d \notin flagged
    <3>. SUFFICES ASSUME d \in flagged PROVE FALSE  OBVIOUS
    <3>1. p \in DOMAIN peers[n] /\ peers[n][p] = d  BY <2>1 DEF flagged
    <3>4. d # << >>  BY EndFacts
    <3>2. Owner(d) = n /\ conn[d].peer = p
      <4>1. PeerEnds  BY DEF Connections
      <4>2. \/ peers[n][p] = << >>
            \/ \E c \in End : /\ peers[n][p] = c /\ Opened(c) /\ Owner(c) = n
                              /\ p = Remote(c) /\ conn[c].peer = p
        BY <3>1, <4>1 DEF PeerEnds
      <4>. QED  BY <3>1, <3>4, <4>2
    <3>3. Remote(d) = conn[d].peer /\ Remote(e) = p
      BY <1>2, <1>3, <2>1, <3>2 DEF Connections, Named
    <3>. QED  BY <1>10, <2>1, <3>2, <3>3
  <2>. QED  BY <1>5, <2>2, <2>3
<1>17. PeerEnds'
  <2>1. \A d \in End : conn'[d].peer = conn[d].peer  BY <1>5
  <2>2. peers' = peers  BY <1>4
  <2>. QED  BY <1>9, <2>1, <2>2 DEF Connections, PeerEnds
<1>. QED
  BY <1>1, <1>4, <1>6, <1>11, <1>12, <1>13, <1>14, <1>15, <1>16, <1>17 DEF Connections

LEMMA HandshakeKeeps ==
  ASSUME Connections, NEW e \in End, Opened(e), NEW p,
         conn[e].state = "receiving", p = Remote(e), UNCHANGED <<link, table, crossed>>,
         conn' = [conn EXCEPT ![e].peer = p, ![e].connected = TRUE],
         peers' = [peers EXCEPT ![Owner(e)] = SetEntry(@, p, e)]
  PROVE  Connections'
<1>1. link \in [Link -> {<< >>} \cup (Node \X Node)] /\ conn \in [End -> Records]
      /\ DOMAIN table = Node /\ DOMAIN peers = Node
  BY DEF Connections
<1>2. Owner(e) \in Node /\ p \in Node  BY <1>1, OwnerFacts
<1>3. /\ conn' \in [End -> Records]
      /\ conn'[e].peer = p /\ conn'[e].connected = TRUE /\ conn'[e].state = conn[e].state
      /\ \A d \in End \ {e} : conn'[d] = conn[d]
  BY <1>1, <1>2 DEF Records
<1>4. \A d \in End : /\ Alive(d)' <=> Alive(d)
                     /\ Opened(d)' <=> Opened(d)
                     /\ Owner(d)' = Owner(d) /\ Remote(d)' = Remote(d) /\ Address(d)' = Address(d)
  BY <1>3 DEF Alive, Opened, Owner, Remote, Address, Other
<1>5. Listed' /\ AliveListed'  BY <1>4 DEF Connections, Listed, AliveListed
<1>6. Twins'  BY <1>4 DEF Connections, Twins
<1>7. Named'
  <2>. SUFFICES ASSUME NEW d \in End
                PROVE  /\ conn'[d].peer = "" \/ (Opened(d)' /\ conn'[d].peer = Remote(d)')
                       /\ conn'[d].state = "none" => conn'[d].peer = ""
                       /\ Opened(d)' \/ conn'[d].state = "none"
    BY DEF Named
  <2>1. CASE d = e  BY <1>3, <1>4, <2>1
  <2>2. CASE d # e  BY <1>3, <1>4, <2>2 DEF Connections, Named
  <2>. QED  BY <2>1, <2>2
<1>8. Marked'  BY <1>3, <1>4 DEF Connections, Marked
<1>9. PeerEnds'
  <2>1. /\ DOMAIN peers' = Node /\ \A n \in Node \ {Owner(e)} : peers'[n] = peers[n]
        /\ DOMAIN peers'[Owner(e)] = DOMAIN peers[Owner(e)] \cup {p}
        /\ peers'[Owner(e)][p] = e
        /\ \A q \in DOMAIN peers[Owner(e)] \ {p} : peers'[Owner(e)][q] = peers[Owner(e)][q]
    BY <1>1, <1>2 DEF SetEntry
  <2>. SUFFICES ASSUME NEW n \in Node, NEW q \in DOMAIN peers'[n]
                PROVE  \/ peers'[n][q] = << >>
                       \/ \E d \in End : /\ peers'[n][q] = d /\ Opened(d)' /\ Owner(d)' = n
                                         /\ q = Remote(d)' /\ conn'[d].peer = q
    BY <2>1 DEF PeerEnds
  <2>2. CASE n = Owner(e) /\ q = p  BY <1>3, <1>4, <2>1, <2>2
  <2>3. CASE ~(n = Owner(e) /\ q = p)
    <3>1. q \in DOMAIN peers[n] /\ peers'[n][q] = peers[n][q]  BY <2>1, <2>3
    <3>2. CASE peers[n][q] = << >>  BY <3>1, <3>2
    <3>3. CASE peers[n][q] # << >>
      <4>1. PICK d \in End : /\ peers[n][q] = d /\ Opened(d) /\ Owner(d) = n
                             /\ q = Remote(d) /\ conn[d].peer = q
        BY <3>1, <3>3 DEF Connections, PeerEnds
      <4>2. d # e  BY <2>3, <4>1
      <4>. QED  BY <1>3, <1>4, <3>1, <4>1, <4>2
    <3>. QED  BY <3>2, <3>3
  <2>. QED  BY <2>2, <2>3
<1>10. DOMAIN table' = Node /\ DOMAIN peers' = Node /\ link' = link  BY <1>1
<1>. QED  BY <1>1, <1>3, <1>5, <1>6, <1>7, <1>8, <1>9, <1>10 DEF Connections

LEMMA SamePlaces ==
  ASSUME Connections, UNCHANGED <<link, conn, table, crossed>>, DOMAIN peers' = Node, PeerEnds'
  PROVE  Connections'
<1>1. \A d \in End : /\ Opened(d)' <=> Opened(d)
                     /\ Owner(d)' = Owner(d) /\ Remote(d)' = Remote(d)
                     /\ Address(d)' = Address(d)
                     /\ Alive(d)' <=> Alive(d)
  BY DEF Alive, Opened, Owner, Remote, Address, Other
<1>2. Listed'  BY <1>1 DEF Connections, Listed
<1>3. AliveListed'  BY <1>1 DEF Connections, AliveListed
<1>4. Twins'  BY <1>1 DEF Connections, Twins
<1>5. Marked'  BY <1>1 DEF Connections, Marked
<1>6. Named'  BY <1>1 DEF Connections, Named
<1>. QED  BY <1>2, <1>3, <1>4, <1>5, <1>6 DEF Connections

LEMMA PeersHeardKeeps ==
  ASSUME Connections, NEW e \in End, UNCHANGED <<link, conn, table, crossed>>, NEW new,
         peers' = [peers EXCEPT ![Owner(e)] =
                     [p \in DOMAIN @ \cup new |-> IF p \in new THEN << >> ELSE @[p]]]
  PROVE  Connections'
<1>1. DOMAIN peers' = Node /\ DOMAIN peers = Node  BY DEF Connections
<1>2. ASSUME NEW n \in Node, NEW p \in DOMAIN peers'[n]
      PROVE  peers'[n][p] = << >> \/ (p \in DOMAIN peers[n] /\ peers'[n][p] = peers[n][p])
  BY <1>1
<1>3. \A d \in End : /\ Opened(d)' <=> Opened(d)
                     /\ Owner(d)' = Owner(d) /\ Remote(d)' = Remote(d)
                     /\ Address(d)' = Address(d)
                     /\ Alive(d)' <=> Alive(d)
  BY DEF Alive, Opened, Owner, Remote, Address, Other
<1>4. PeerEnds'
  <2>. SUFFICES ASSUME NEW n \in Node, NEW q \in DOMAIN peers'[n]
                PROVE  \/ peers'[n][q] = << >>
                       \/ \E d \in End : /\ peers'[n][q] = d /\ Opened(d)' /\ Owner(d)' = n
                                         /\ q = Remote(d)' /\ conn'[d].peer = q
    BY <1>1 DEF PeerEnds
  <2>. QED  BY <1>2, <1>3 DEF Connections, PeerEnds
<1>. QED  BY <1>1, <1>4, SamePlaces

----------------------------------------------------------------------------
(* Messages on their way.  A message of a greeting names its sender, and   *)
(* an inventory on its way is finite.                                      *)

Fits(e, m) ==
  /\ m.kind \in {"HANDSHAKE", "HANDSHAKE_ACK"} => Opened(e) /\ m.body = Remote(e)
  /\ m.kind = "NEW_BLOCK" /\ m.body.event = "inv" => IsFiniteSet(m.body.item)

(* Messages that always fit. *)
Harmless(m) ==
  /\ m.kind \notin {"HANDSHAKE", "HANDSHAKE_ACK"}
  /\ m.kind \in {"NEW_BLOCK", "NEW_TRANSACTION"} => m.body.event = "announce"

Boxes ==
  /\ DOMAIN inbox = End
  /\ \A e \in End : \E S : inbox[e] \in Seq(S) /\ \A m \in S : Fits(e, m)

(* What is in new was in old or is in extra. *)
Takes(old, new, extra) == \A S : old \in Seq(S) => new \in Seq(S \cup extra)

(* Links stay once they are opened. *)
Steady == \A l \in Link : link[l] # << >> => link'[l] = link[l]

LEMMA FitsStill ==
  ASSUME Steady, NEW e \in End, NEW m, Fits(e, m)
  PROVE  Fits(e, m)'
<1>1. e[1] \in Link /\ Other(e)[1] = e[1]  BY EndFacts
<1>2. Opened(e) => /\ Opened(e)' /\ Owner(e)' = Owner(e) /\ Remote(e)' = Remote(e)
  BY <1>1 DEF Steady, Opened, Remote, Owner, Other
<1>. QED  BY <1>2 DEF Fits

LEMMA BoxesKept ==
  ASSUME Boxes, Steady, DOMAIN inbox' = End,
         \A e \in End : \E X : Takes(inbox[e], inbox'[e], X) /\ \A m \in X : Fits(e, m)'
  PROVE  Boxes'
<1>. SUFFICES ASSUME NEW e \in End
              PROVE  \E S : inbox'[e] \in Seq(S) /\ \A m \in S : Fits(e, m)'
  BY DEF Boxes
<1>1. PICK S : inbox[e] \in Seq(S) /\ \A m \in S : Fits(e, m)  BY DEF Boxes
<1>2. PICK X : Takes(inbox[e], inbox'[e], X) /\ \A m \in X : Fits(e, m)'  OBVIOUS
<1>3. inbox'[e] \in Seq(S \cup X)  BY <1>1, <1>2 DEF Takes
<1>4. \A m \in S \cup X : Fits(e, m)'  BY <1>1, <1>2, FitsStill
<1>. QED  BY <1>3, <1>4

LEMMA HeadFits ==
  ASSUME Boxes, NEW e \in End, Reads(e)
  PROVE  Fits(e, Head(inbox[e]))
<1>1. PICK S : inbox[e] \in Seq(S) /\ \A m \in S : Fits(e, m)  BY DEF Boxes
<1>2. inbox[e] # << >>  BY DEF Reads
<1>3. Head(inbox[e]) \in S  BY <1>1, <1>2, HeadTailProperties
<1>. QED  BY <1>1, <1>3

(* The boxes before anything is sent: all, or all but a message read. *)
Before(boxes) == DOMAIN boxes = End /\ \A e \in End : Takes(inbox[e], boxes[e], {})

LEMMA AllBefore ==
  ASSUME Boxes
  PROVE  Before(inbox) /\ \A e \in End : Reads(e) => Before(Rest(e))
<1>1. Before(inbox)  BY DEF Boxes, Before, Takes
<1>2. ASSUME NEW e \in End, Reads(e) PROVE Before(Rest(e))
  <2>1. DOMAIN Rest(e) = End /\ Rest(e)[e] = Tail(inbox[e])
        /\ \A d \in End \ {e} : Rest(e)[d] = inbox[d]
    BY DEF Boxes, Rest
  <2>2. Takes(inbox[e], Rest(e)[e], {})
    <3>. SUFFICES ASSUME NEW S, inbox[e] \in Seq(S) PROVE Rest(e)[e] \in Seq(S \cup {})
      BY DEF Takes
    <3>1. inbox[e] # << >>  BY <1>2 DEF Reads
    <3>2. Tail(inbox[e]) \in Seq(S)  BY <3>1, HeadTailProperties
    <3>. QED  BY <2>1, <3>2
  <2>. QED  BY <2>1, <2>2 DEF Before, Takes
<1>. QED  BY <1>1, <1>2

LEMMA BoxesRead ==
  ASSUME Boxes, Steady, Before(inbox')
  PROVE  Boxes'
<1>1. \A e \in End : Takes(inbox[e], inbox'[e], {}) /\ \A m \in {} : Fits(e, m)'
  BY DEF Before
<1>. QED  BY <1>1, BoxesKept DEF Before

LEMMA BoxesSent ==
  ASSUME Boxes, Steady, NEW boxes, Before(boxes), NEW S, NEW msg,
         inbox' = DeliverAll(boxes, S, msg),
         \A e \in End : Other(e) \in S => Fits(e, msg)'
  PROVE  Boxes'
<1>1. DOMAIN inbox' = End  BY DEF DeliverAll
<1>2. ASSUME NEW e \in End
      PROVE  \E X : Takes(inbox[e], inbox'[e], X) /\ \A m \in X : Fits(e, m)'
  <2>1. Takes(inbox[e], boxes[e], {})  BY DEF Before
  <2>2. CASE inbox'[e] = boxes[e]
    <3>1. Takes(inbox[e], inbox'[e], {}) /\ \A m \in {} : Fits(e, m)'  BY <2>1, <2>2
    <3>. QED  BY <3>1
  <2>3. CASE Other(e) \in S /\ inbox'[e] = Append(boxes[e], msg)
    <3>1. Takes(inbox[e], inbox'[e], {msg})
      <4>. SUFFICES ASSUME NEW T, inbox[e] \in Seq(T)
                    PROVE  inbox'[e] \in Seq(T \cup {msg})
        BY DEF Takes
      <4>1. boxes[e] \in Seq(T)
        <5>1. boxes[e] \in Seq(T \cup {})  BY <2>1 DEF Takes
        <5>2. T \cup {} = T  OBVIOUS
        <5>. QED  BY <5>1, <5>2
      <4>2. boxes[e] \in Seq(T \cup {msg})  BY <4>1, SeqMonotonic
      <4>. QED  BY <2>3, <4>2, AppendProperties
    <3>. QED  BY <2>3, <3>1
  <2>4. inbox'[e] = boxes[e] \/ (Other(e) \in S /\ inbox'[e] = Append(boxes[e], msg))
    BY DEF DeliverAll
  <2>. QED  BY <2>2, <2>3, <2>4
<1>. QED  BY <1>1, <1>2, BoxesKept

LEMMA HarmlessFits ==
  ASSUME NEW m, Harmless(m), NEW e
  PROVE  Fits(e, m)'
BY DEF Harmless, Fits

LEMMA BoxesSentHarmless ==
  ASSUME Boxes, Steady, NEW boxes, Before(boxes), NEW S, NEW msg, Harmless(msg),
         inbox' = DeliverAll(boxes, S, msg)
  PROVE  Boxes'
BY HarmlessFits, BoxesSent

LEMMA BoxesSentEach ==
  ASSUME Boxes, Steady, NEW boxes, Before(boxes), NEW d \in End, NEW n \in Nat, NEW msgs,
         DOMAIN msgs = 1 .. n, \A k \in 1 .. n : Harmless(msgs[k]),
         msgs = [k \in 1 .. n |-> msgs[k]],
         inbox' = DeliverEach(boxes, d, msgs)
  PROVE  Boxes'
<1>1. DOMAIN inbox' = End  BY DEF DeliverEach
<1>. DEFINE X == {msgs[k] : k \in 1 .. n}
<1>2. ASSUME NEW e \in End
      PROVE  Takes(inbox[e], inbox'[e], X)
  <2>. SUFFICES ASSUME NEW T, inbox[e] \in Seq(T)
                PROVE  inbox'[e] \in Seq(T \cup X)
    BY DEF Takes
  <2>1. boxes[e] \in Seq(T)
    <3>1. boxes[e] \in Seq(T \cup {})  BY DEF Takes, Before
    <3>2. T \cup {} = T  OBVIOUS
    <3>. QED  BY <3>1, <3>2
  <2>2. \A k \in 1 .. n : msgs[k] \in X  OBVIOUS
  <2>. HIDE DEF X
  <2>3. boxes[e] \in Seq(T \cup X)  BY <2>1, SeqMonotonic
  <2>4. msgs \in [1 .. n -> T \cup X]  BY <2>2
  <2>5. msgs \in Seq(T \cup X)  BY <2>4, IsASeq
  <2>6. boxes[e] \o msgs \in Seq(T \cup X)  BY <2>3, <2>5, ConcatProperties
  <2>. QED  BY <2>3, <2>6 DEF DeliverEach
<1>3. \A e \in End : \A m \in X : Fits(e, m)'  BY HarmlessFits
<1>. HIDE DEF X
<1>. QED  BY <1>1, <1>2, <1>3, BoxesKept

----------------------------------------------------------------------------
(* The node's own steps. *)

LEMMA MsgFacts ==
  ASSUME NEW n, NEW kind, NEW body
  PROVE  /\ Msg(kind, body).kind = kind /\ Msg(kind, body).body = body
         /\ Numbered(n, kind, body).kind = kind /\ Numbered(n, kind, body).body = body
BY DEF Msg, Numbered

LEMMA Untouched ==
  ASSUME Connections, UNCHANGED <<link, conn, table, peers, crossed>>
  PROVE  Connections'
<1>1. DOMAIN peers' = Node  BY DEF Connections
<1>2. \A d \in End : /\ Opened(d)' <=> Opened(d)
                     /\ Owner(d)' = Owner(d) /\ Remote(d)' = Remote(d)
  BY DEF Opened, Owner, Remote, Other
<1>3. PeerEnds'
  <2>1. PeerEnds /\ peers' = peers /\ conn' = conn  BY DEF Connections
  <2>. QED  BY <1>2, <2>1 DEF PeerEnds
<1>. QED  BY <1>1, <1>3, SamePlaces

LEMMA SteadyNext == Connections /\ [NetworkNext]_networkVars => Steady
<1>. SUFFICES ASSUME Connections, [NetworkNext]_networkVars PROVE Steady  OBVIOUS
<1>1. CASE UNCHANGED networkVars
  BY <1>1 DEF networkVars, netVars, gossipVars, Steady
<1>2. CASE NetNext /\ UNCHANGED <<gossipVars, syncVars>>
  <2>1. CASE link' = link  BY <2>1 DEF Steady
  <2>2. ASSUME NEW l \in Link, NEW n \in Node, NEW m \in Node, Connect(l, n, m) PROVE Steady
    <3>1. link[l] = << >> /\ link' = [link EXCEPT ![l] = <<n, m>>]  BY <2>2 DEF Connect
    <3>2. DOMAIN link = Link  BY DEF Connections
    <3>. QED  BY <3>1, <3>2 DEF Steady
  <2>. QED
    BY <1>2, <2>1, <2>2
    DEF NetNext, Accept, Proceed, StartReceiving, EndOfFile, FinishClose, Handle, Timeout, Stop,
        PingLoop, Broadcast, HandleHandshake, HandlePing, HandleGetPeers, HandlePeers,
        HandleDisconnect, SkipDuplicate, Close
<1>3. CASE GossipNext /\ UNCHANGED syncVars
  <2>1. link' = link
    BY <1>3
    DEF GossipNext, AnnounceItem, Push, SendInventory, GossipHandle, HandleAnnounce, HandleData,
        HandleInventory, HandleGetBlock, HandleBlockResponse, gossipVars
  <2>. QED  BY <2>1 DEF Steady
<1>4. CASE SyncNext /\ UNCHANGED gossipVars
  <2>1. link' = link
    BY <1>4
    DEF SyncNext, LoopBegins, CycleStep, SyncHandle, connVars, gossipVars
  <2>. QED  BY <2>1 DEF Steady
<1>. QED  BY <1>1, <1>2, <1>3, <1>4 DEF NetworkNext

LEMMA ClosedBoxes ==
  ASSUME Boxes, Steady, NEW S, Close(S)
  PROVE  Boxes'
<1>1. inbox' = [e \in End |-> IF e \in S THEN << >> ELSE inbox[e]]  BY DEF Close
<1>2. ASSUME NEW e \in End, NEW T, inbox[e] \in Seq(T) PROVE inbox'[e] \in Seq(T \cup {})
  BY <1>1, <1>2
<1>3. Before(inbox')  BY <1>1, <1>2 DEF Before, Takes
<1>. QED  BY <1>3, BoxesRead

LEMMA NetKeeps ==
  ASSUME Connections, Boxes, Steady, NetNext, UNCHANGED gossipVars
  PROVE  Connections' /\ Boxes'
<1>0. UNCHANGED inbox => Boxes'  BY AllBefore, BoxesRead
<1>1. ASSUME NEW l \in Link, Accept(l) PROVE Connections' /\ Boxes'
  BY <1>0, <1>1, AcceptKeeps DEF Accept
<1>2. ASSUME NEW l \in Link, NEW n \in Node, NEW m \in Node, Connect(l, n, m)
      PROVE  Connections' /\ Boxes'
  <2>. DEFINE e == <<l, "in">>
  <2>1. inbox' = [inbox EXCEPT ![e] = <<Msg("HANDSHAKE", n)>>]
        /\ link' = [link EXCEPT ![l] = <<n, m>>]
    BY <1>2 DEF Connect
  <2>2. e \in End /\ DOMAIN link = Link  BY DEF End, Connections
  <2>3. Fits(e, Msg("HANDSHAKE", n))'
    <3>1. PICK msg : msg = Msg("HANDSHAKE", n)  OBVIOUS
    <3>2. msg.kind = "HANDSHAKE" /\ msg.body = n  BY <3>1, MsgFacts
    <3>3. Opened(e)' /\ Remote(e)' = n  BY <2>1, <2>2 DEF Opened, Remote, Owner, Other
    <3>. HIDE DEF e
    <3>4. Fits(e, msg)'  BY <3>2, <3>3 DEF Fits
    <3>. QED  BY <3>1, <3>4
  <2>4. ASSUME NEW d \in End
        PROVE  \E X : Takes(inbox[d], inbox'[d], X) /\ \A msg \in X : Fits(d, msg)'
    <3>1. CASE d = e
      <4>. DEFINE X == {Msg("HANDSHAKE", n)}
      <4>1. inbox'[d] = <<Msg("HANDSHAKE", n)>>  BY <2>1, <2>2, <3>1 DEF Boxes
      <4>2. Takes(inbox[d], inbox'[d], X)  BY <4>1 DEF Takes
      <4>3. \A msg \in X : Fits(d, msg)'
        <5>. HIDE DEF e
        <5>. QED  BY <2>3, <3>1
      <4>. HIDE DEF X
      <4>. QED  BY <4>2, <4>3
    <3>2. CASE d # e
      <4>1. inbox'[d] = inbox[d]  BY <2>1, <3>2 DEF Boxes
      <4>2. Takes(inbox[d], inbox'[d], {}) /\ \A msg \in {} : Fits(d, msg)'
        BY <4>1 DEF Takes
      <4>. QED  BY <4>2
    <3>. QED  BY <3>1, <3>2
  <2>5. DOMAIN inbox' = End  BY <2>1 DEF Boxes
  <2>6. Boxes'  BY <2>4, <2>5, BoxesKept
  <2>. QED  BY <1>2, <2>6, ConnectKeeps
<1>3. ASSUME NEW e \in End, Opened(e), StartReceiving(e) PROVE Connections' /\ Boxes'
  BY <1>0, <1>3, StartReceivingKeeps DEF StartReceiving
<1>4. ASSUME NEW e \in End, Opened(e), FinishClose(e) PROVE Connections' /\ Boxes'
  BY <1>0, <1>4, FinishCloseKeeps DEF FinishClose
<1>5. ASSUME NEW S, Close(S), \A e \in S \cap End : conn[e].state = "receiving"
      PROVE  Connections' /\ Boxes'
  BY <1>5, CloseKeeps, ClosedBoxes
<1>6. ASSUME NEW e \in End, EndOfFile(e) \/ Timeout(e) \/ HandleDisconnect(e)
      PROVE  Connections' /\ Boxes'
  BY <1>5, <1>6 DEF EndOfFile, Timeout, HandleDisconnect, Dispatch, Reads
<1>7. ASSUME NEW n \in Node, Stop(n) PROVE Connections' /\ Boxes'
  <2>1. PICK S : S = {e \in Entries(n) : conn[e].state = "receiving"}  OBVIOUS
  <2>2. Close(S) /\ \A e \in S \cap End : conn[e].state = "receiving"  BY <1>7, <2>1 DEF Stop
  <2>. QED  BY <1>5, <2>2
<1>8. ASSUME UNCHANGED <<link, conn, table, peers, crossed>>, Boxes' PROVE Connections' /\ Boxes'
  BY <1>8, Untouched
<1>9. ASSUME NEW e \in End, Opened(e), NEW kind, HandleHandshake(e, kind)
      PROVE  Connections' /\ Boxes'
  <2>1. /\ kind \in {"HANDSHAKE", "HANDSHAKE_ACK"} /\ Reads(e) /\ Head(inbox[e]).kind = kind
        /\ conn' = [conn EXCEPT ![e].peer = Body(e), ![e].connected = TRUE]
        /\ peers' = [peers EXCEPT ![Owner(e)] = SetEntry(@, Body(e), e)]
        /\ inbox' = IF kind = "HANDSHAKE" THEN Deliver(Rest(e), e, Msg("HANDSHAKE_ACK", Owner(e)))
                    ELSE Rest(e)
        /\ UNCHANGED <<link, table, crossed>>
    BY <1>9 DEF HandleHandshake, Dispatch
  <2>2. Body(e) = Remote(e)  BY <2>1, HeadFits DEF Fits, Body
  <2>3. conn[e].state = "receiving"  BY <2>1 DEF Reads
  <2>4. PICK p : p = Body(e)  OBVIOUS
  <2>5. Connections'
    BY <1>9, <2>1, <2>2, <2>3, <2>4, HandshakeKeeps
  <2>6. PICK boxes : boxes = Rest(e)  OBVIOUS
  <2>7. Before(boxes)  BY <2>1, <2>6, AllBefore
  <2>8. CASE inbox' = boxes  BY <2>5, <2>7, <2>8, BoxesRead
  <2>9. CASE kind = "HANDSHAKE"
    <3>1. PICK msg : msg = Msg("HANDSHAKE_ACK", Owner(e))  OBVIOUS
    <3>2. msg.kind = "HANDSHAKE_ACK" /\ msg.body = Owner(e)  BY <3>1, MsgFacts
    <3>3. inbox' = DeliverAll(boxes, {e}, msg)  BY <2>1, <2>6, <2>9, <3>1 DEF Deliver
    <3>4. ASSUME NEW d \in End, Other(d) \in {e} PROVE Fits(d, msg)'
      <4>1. Remote(d)' = Owner(e) /\ Opened(d)'
        BY <1>9, <2>1, <3>4, EndFacts DEF Remote, Owner, Opened
      <4>. QED  BY <3>2, <4>1 DEF Fits
    <3>5. Boxes'  BY <2>7, <3>3, <3>4, BoxesSent
    <3>. QED  BY <2>5, <3>5
  <2>. QED  BY <2>1, <2>5, <2>6, <2>8, <2>9
<1>10. ASSUME NEW e \in End, Reads(e), NEW kind, NEW body,
              kind \notin {"HANDSHAKE", "HANDSHAKE_ACK", "NEW_BLOCK", "NEW_TRANSACTION"},
              inbox' = Rest(e) \/ inbox' = Deliver(Rest(e), e, Msg(kind, body))
       PROVE  Boxes'
  <2>1. PICK boxes : boxes = Rest(e)  OBVIOUS
  <2>2. Before(boxes)  BY <1>10, <2>1, AllBefore
  <2>3. Harmless(Msg(kind, body))  BY <1>10, MsgFacts DEF Harmless
  <2>. QED  BY <1>10, <2>1, <2>2, <2>3, BoxesRead, BoxesSentHarmless DEF Deliver
<1>11. ASSUME NEW e \in End, NEW kind, HandlePing(e, kind) PROVE Connections' /\ Boxes'
  <2>1. Reads(e) /\ (inbox' = Rest(e) \/ inbox' = Deliver(Rest(e), e, Msg("PONG", "")))
        /\ UNCHANGED <<link, conn, table, peers, crossed>>
    BY <1>11 DEF HandlePing, Dispatch
  <2>2. "PONG" \notin {"HANDSHAKE", "HANDSHAKE_ACK", "NEW_BLOCK", "NEW_TRANSACTION"}
    OBVIOUS
  <2>3. Boxes'  BY <1>10, <2>1, <2>2
  <2>. QED  BY <1>8, <2>1, <2>3
<1>12. ASSUME NEW e \in End, HandleGetPeers(e) PROVE Connections' /\ Boxes'
  <2>1. PICK body : body = DOMAIN peers[Owner(e)]  OBVIOUS
  <2>2. Reads(e) /\ inbox' = Deliver(Rest(e), e, Msg("PEERS", body))
        /\ UNCHANGED <<link, conn, table, peers, crossed>>
    BY <1>12, <2>1 DEF HandleGetPeers, Dispatch
  <2>. QED  BY <1>8, <1>10, <2>2
<1>13. ASSUME NEW e \in End, HandlePeers(e) PROVE Connections' /\ Boxes'
  <2>1. PICK new : new = Body(e) \ (DOMAIN peers[Owner(e)] \cup {Owner(e)})  OBVIOUS
  <2>2. /\ Reads(e) /\ inbox' = Rest(e) /\ UNCHANGED <<link, conn, table, crossed>>
        /\ peers' = [peers EXCEPT ![Owner(e)] =
                       [p \in DOMAIN @ \cup new |-> IF p \in new THEN << >> ELSE @[p]]]
    BY <1>13, <2>1 DEF HandlePeers, Dispatch
  <2>3. Boxes'  BY <2>2, AllBefore, BoxesRead
  <2>. QED  BY <2>2, <2>3, PeersHeardKeeps
<1>14. ASSUME NEW e \in End, SkipDuplicate(e) PROVE Connections' /\ Boxes'
  <2>1. Before(inbox')  BY <1>14, AllBefore DEF SkipDuplicate
  <2>. QED  BY <1>8, <1>14, <2>1, BoxesRead DEF SkipDuplicate
<1>15. ASSUME NEW n \in Node, NEW kind \in {"GET_PEERS", "DISCONNECT"}, Broadcast(n, kind)
       PROVE  Connections' /\ Boxes'
  <2>1. PICK boxes, S, msg : boxes = inbox /\ S = Entries(n) /\ msg = Numbered(n, kind, "")
    OBVIOUS
  <2>5. msg.kind = kind  BY <2>1 DEF Numbered
  <2>2. Harmless(msg)  BY <2>5 DEF Harmless
  <2>3. inbox' = DeliverAll(boxes, S, msg)  BY <1>15, <2>1 DEF Broadcast, SendAll
  <2>4. Boxes'  BY <2>1, <2>2, <2>3, AllBefore, BoxesSentHarmless
  <2>. QED  BY <1>8, <1>15, <2>4 DEF Broadcast
<1>16. ASSUME NEW n \in Node, PingLoop(n) PROVE Connections' /\ Boxes'
  <2>1. PICK boxes, S, msg : boxes = inbox /\ S = Connected(n) /\ msg = Msg("PING", "")
    OBVIOUS
  <2>5. msg.kind = "PING"  BY <2>1, MsgFacts
  <2>2. Harmless(msg)  BY <2>5 DEF Harmless
  <2>3. inbox' = DeliverAll(boxes, S, msg)  BY <1>16, <2>1 DEF PingLoop
  <2>4. Boxes'  BY <2>1, <2>2, <2>3, AllBefore, BoxesSentHarmless
  <2>. QED  BY <1>8, <1>16, <2>4 DEF PingLoop
<1>. QED
  BY <1>1, <1>2, <1>3, <1>4, <1>6, <1>7, <1>9, <1>11, <1>12, <1>13, <1>14, <1>15, <1>16
  DEF NetNext, Proceed, Handle

----------------------------------------------------------------------------
(* Gossip.  The inventory counts once what the callback got. *)

Inventories ==
  /\ DOMAIN known = Node /\ DOMAIN made = Node /\ \A n \in Node : IsFiniteSet(known[n])
  /\ given \in [Node -> [Item -> Nat]] /\ evicted \in [Node -> [Item -> Nat]]
  /\ \A n \in Node, i \in Item :
       /\ Knows(n, i) => i \in made[n] \/ given[n][i] > 0
       /\ given[n][i] <= evicted[n][i] + IF Knows(n, i) THEN 1 ELSE 0

LEMMA RequestBoxes ==
  ASSUME Boxes, Steady, NEW e \in End, Reads(e), NEW S, IsFiniteSet(S), Request(e, S)
  PROVE  Boxes'
<1>. DEFINE U == {i \in S : ~Knows(Owner(e), i)}
<1>1. IsFiniteSet(U)  BY FS_Subset
<1>2. PICK n \in Nat : n = Cardinality(U)  BY <1>1, FS_CardinalityType
<1>3. PICK order \in SetToSeqs(U) :
        inbox' = DeliverEach(Rest(e), e,
                   [k \in DOMAIN order |-> Msg("GET_BLOCK", [event |-> "request", item |-> order[k]])])
  BY DEF Request
<1>. HIDE DEF U
<1>4. DOMAIN order = 1 .. n  BY <1>2 DEF SetToSeqs
<1>. DEFINE msgs == [k \in 1 .. n |-> Msg("GET_BLOCK", [event |-> "request", item |-> order[k]])]
<1>5. \A k \in 1 .. n : msgs[k].kind = "GET_BLOCK"  BY MsgFacts
<1>6. \A k \in 1 .. n : Harmless(msgs[k])
  <2>. HIDE DEF msgs
  <2>. QED  BY <1>5 DEF Harmless
<1>7. PICK boxes : boxes = Rest(e)  OBVIOUS
<1>8. Before(boxes)  BY <1>7, AllBefore
<1>9. inbox' = DeliverEach(boxes, e, msgs)  BY <1>3, <1>4, <1>7
<1>10. DOMAIN msgs = 1 .. n /\ msgs = [k \in 1 .. n |-> msgs[k]]  OBVIOUS
<1>. HIDE DEF msgs
<1>. QED  BY <1>6, <1>8, <1>9, <1>10, BoxesSentEach

LEMMA AnnounceBoxes ==
  ASSUME Boxes, Steady, NEW boxes, Before(boxes), NEW n, NEW i, NEW exclude,
         Announce(n, i, exclude, boxes)
  PROVE  Boxes'
<1>1. PICK msg : msg = Numbered(n, Message(i), [event |-> "announce", item |-> i])  OBVIOUS
<1>2. PICK S : inbox' = DeliverAll(boxes, S, msg)  BY <1>1 DEF Announce
<1>3. msg.kind = Message(i) /\ msg.body.event = "announce"  BY <1>1 DEF Numbered
<1>4. Harmless(msg)  BY <1>3 DEF Harmless, Message
<1>. QED  BY <1>2, <1>4, BoxesSentHarmless

LEMMA PushBoxes ==
  ASSUME Boxes, Steady, NEW n \in Node, NEW i \in Item, Push(n, i)
  PROVE  Boxes'
<1>1. PICK boxes, S, msg : /\ boxes = inbox /\ S = Entries(n)
                           /\ msg = Numbered(n, Message(i), [event |-> "data", item |-> i])
  OBVIOUS
<1>2. inbox' = DeliverAll(boxes, S, msg)  BY <1>1 DEF Push, SendAll
<1>3. msg.kind = Message(i) /\ msg.body.event = "data"  BY <1>1 DEF Numbered
<1>4. \A e \in End : Fits(e, msg)'  BY <1>3 DEF Fits, Message
<1>. QED  BY <1>1, <1>2, <1>4, AllBefore, BoxesSent

LEMMA GossipKeeps ==
  ASSUME Connections, Boxes, Inventories, Steady, GossipNext
  PROVE  Connections' /\ Boxes'
<1>1. Connections'
  <2>1. UNCHANGED <<link, conn, table, peers, crossed>>
    BY DEF GossipNext, AnnounceItem, Push, SendInventory, GossipHandle, HandleAnnounce,
           HandleData, HandleInventory, HandleGetBlock, HandleBlockResponse
  <2>. QED  BY <2>1, Untouched
<1>2. ASSUME NEW n \in Node, NEW i \in Item, AnnounceItem(n, i) PROVE Boxes'
  <2>1. PICK boxes : boxes = inbox  OBVIOUS
  <2>. QED  BY <1>2, <2>1, AllBefore, AnnounceBoxes DEF AnnounceItem
<1>3. ASSUME NEW n \in Node, NEW i \in Item, Push(n, i) PROVE Boxes'
  BY <1>3, PushBoxes
<1>4. ASSUME NEW e \in End, Opened(e), SendInventory(e, known[Owner(e)]) PROVE Boxes'
  <2>1. PICK boxes, items, msg : /\ boxes = inbox /\ items = known[Owner(e)]
                                 /\ msg = Msg("NEW_BLOCK", [event |-> "inv", item |-> items])
    OBVIOUS
  <2>2. Owner(e) \in Node  BY <1>4, OwnerFacts DEF Connections
  <2>3. IsFiniteSet(items)  BY <2>1, <2>2 DEF Inventories
  <2>4. msg.kind = "NEW_BLOCK" /\ msg.body.event = "inv" /\ msg.body.item = items
    BY <2>1 DEF Msg
  <2>5. \A d \in End : Fits(d, msg)'  BY <2>3, <2>4 DEF Fits
  <2>6. inbox' = DeliverAll(boxes, {e}, msg)  BY <1>4, <2>1 DEF SendInventory, Deliver
  <2>. QED  BY <2>1, <2>5, <2>6, AllBefore, BoxesSent
<1>5. ASSUME NEW e \in End, NEW kind, HandleAnnounce(e, kind) PROVE Boxes'
  <2>1. PICK S : S = {Body(e).item}  OBVIOUS
  <2>2. Reads(e) /\ Request(e, S)  BY <1>5, <2>1 DEF HandleAnnounce, Receives, Dispatch
  <2>. QED  BY <2>1, <2>2, FS_Singleton, RequestBoxes
<1>6. ASSUME NEW e \in End, HandleInventory(e) PROVE Boxes'
  <2>1. Reads(e) /\ Head(inbox[e]).kind = "NEW_BLOCK" /\ Body(e).event = "inv"
    BY <1>6 DEF HandleInventory, Receives, Dispatch
  <2>2. PICK S : S = Body(e).item \cap Block  OBVIOUS
  <2>3. IsFiniteSet(Body(e).item)  BY <2>1, HeadFits DEF Fits, Body
  <2>4. IsFiniteSet(S)  BY <2>2, <2>3, FS_Subset
  <2>5. Request(e, S)  BY <1>6, <2>2 DEF HandleInventory
  <2>. QED  BY <2>1, <2>4, <2>5, RequestBoxes
<1>7. ASSUME NEW e \in End, NEW kind, HandleData(e, kind) PROVE Boxes'
  <2>1. PICK boxes, n, i, peer : /\ boxes = Rest(e) /\ n = Owner(e) /\ i = Body(e).item
                                 /\ peer = conn[e].peer
    OBVIOUS
  <2>2. Reads(e)  BY <1>7 DEF HandleData, Receives, Dispatch
  <2>3. inbox' = boxes \/ Announce(n, i, peer, boxes)  BY <1>7, <2>1 DEF HandleData
  <2>4. Before(boxes)  BY <2>1, <2>2, AllBefore
  <2>. QED  BY <2>3, <2>4, BoxesRead, AnnounceBoxes
<1>8. ASSUME NEW e \in End, HandleGetBlock(e) PROVE Boxes'
  <2>1. PICK boxes, msg : boxes = Rest(e) /\ msg = Msg("BLOCK_RESPONSE", "none")  OBVIOUS
  <2>2. Reads(e) /\ inbox' = DeliverAll(boxes, {e}, msg)
    BY <1>8, <2>1 DEF HandleGetBlock, Dispatch, Deliver
  <2>3. msg.kind = "BLOCK_RESPONSE"  BY <2>1, MsgFacts
  <2>4. Harmless(msg)  BY <2>3 DEF Harmless
  <2>. QED  BY <2>1, <2>2, <2>4, AllBefore, BoxesSentHarmless
<1>9. ASSUME NEW e \in End, HandleBlockResponse(e) PROVE Boxes'
  <2>1. Before(inbox')  BY <1>9, AllBefore DEF HandleBlockResponse, Dispatch
  <2>. QED  BY <2>1, BoxesRead
<1>. QED
  BY <1>1, <1>2, <1>3, <1>4, <1>5, <1>6, <1>7, <1>8, <1>9 DEF GossipNext, GossipHandle

LEMMA SyncKeeps ==
  ASSUME Connections, Boxes, Steady, SyncNext
  PROVE  Connections' /\ Boxes'
<1>1. Connections'
  <2>1. UNCHANGED <<link, conn, table, peers, crossed>>
    BY DEF SyncNext, LoopBegins, CycleStep, SyncHandle, connVars
  <2>. QED  BY <2>1, Untouched
<1>2. CASE UNCHANGED inbox  BY <1>1, <1>2, AllBefore, BoxesRead
<1>3. ASSUME NEW c \in Cycle, AskBatch(c) PROVE Boxes'
  <2>1. PICK boxes, d, msg : /\ boxes = inbox /\ d = cycle[c].peer
                             /\ msg = Msg("GET_CHAIN", <<cycle[c].start, cycle[c].end>>)
    OBVIOUS
  <2>2. msg.kind = "GET_CHAIN"  BY <2>1 DEF Msg
  <2>3. Harmless(msg)  BY <2>2 DEF Harmless
  <2>4. inbox' = DeliverAll(boxes, {d}, msg)  BY <1>3, <2>1 DEF AskBatch, Deliver
  <2>. QED  BY <2>1, <2>3, <2>4, AllBefore, BoxesSentHarmless
<1>4. ASSUME NEW e \in End, HandleGetChain(e) PROVE Boxes'
  <2>1. PICK boxes, body, msg :
          /\ boxes = Rest(e) /\ body = {i \in Body(e)[1] .. Body(e)[2] : i <= height[Owner(e)]}
          /\ msg = Msg("CHAIN_RESPONSE", body)
    OBVIOUS
  <2>2. msg.kind = "CHAIN_RESPONSE"  BY <2>1 DEF Msg
  <2>3. Harmless(msg)  BY <2>2 DEF Harmless
  <2>4. Reads(e) /\ inbox' = DeliverAll(boxes, {e}, msg)
    BY <1>4, <2>1 DEF HandleGetChain, Dispatch, Deliver
  <2>. QED  BY <2>1, <2>3, <2>4, AllBefore, BoxesSentHarmless
<1>5. ASSUME NEW e \in End, HandleChainResponse(e) PROVE Boxes'
  <2>1. Before(inbox')  BY <1>5, AllBefore DEF HandleChainResponse, Dispatch
  <2>. QED  BY <2>1, BoxesRead
<1>. QED
  BY <1>1, <1>2, <1>3, <1>4, <1>5
  DEF SyncNext, LoopBegins, CycleStep, SyncHandle, ApplyBlock, TimeoutBatch, Grow, Claim

(* What Learn does to an inventory, whichever items it trims. *)
Learnt(n, i, trims) ==
  /\ DOMAIN known' = Node /\ \A m \in Node : IsFiniteSet(known'[m])
  /\ evicted' \in [Node -> [Item -> Nat]]
  /\ \A m \in Node \ {n} : known'[m] = known[m] /\ evicted'[m] = evicted[m]
  /\ known'[n] \subseteq known[n] \cup {i}
  /\ \A j \in Item : /\ evicted'[n][j] >= evicted[n][j]
                     /\ j \in known[n] \cup {i} /\ j \notin known'[n]
                          => evicted'[n][j] = evicted[n][j] + 1
  /\ trims = FALSE => known'[n] = known[n] \cup {i} /\ evicted' = evicted

LEMMA Learned ==
  ASSUME Inventories, NEW n \in Node, NEW i, NEW trims \in BOOLEAN, Learn(n, i, trims)
  PROVE  Learnt(n, i, trims)
<1>. DEFINE items == known[n] \cup {i}
            gone == IF trims THEN Oldest(items \cap Inventory(i), Stamp(n, i)) ELSE {}
<1>1. /\ known' = [known EXCEPT ![n] = items \ gone]
      /\ evicted' = [evicted EXCEPT ![n] = [j \in Item |-> @[j] + IF j \in gone THEN 1 ELSE 0]]
  BY DEF Learn
<1>2. trims = FALSE => gone = {}  OBVIOUS
<1>3. IsFiniteSet(items)  BY FS_AddElement DEF Inventories
<1>4. IsFiniteSet(items \ gone)  BY <1>3, FS_Subset
<1>. HIDE DEF gone
<1>5. DOMAIN known = Node /\ evicted \in [Node -> [Item -> Nat]]  BY DEF Inventories
<1>6. /\ DOMAIN known' = Node /\ known'[n] = items \ gone
      /\ \A m \in Node \ {n} : known'[m] = known[m]
  BY <1>1, <1>5
<1>7. /\ evicted' \in [Node -> [Item -> Nat]]
      /\ \A m \in Node \ {n} : evicted'[m] = evicted[m]
      /\ \A j \in Item : evicted'[n][j] = evicted[n][j] + IF j \in gone THEN 1 ELSE 0
  BY <1>1, <1>5
<1>8. \A m \in Node : IsFiniteSet(known'[m])  BY <1>4, <1>6 DEF Inventories
<1>9. trims = FALSE => evicted' = evicted
  <2>. SUFFICES ASSUME trims = FALSE PROVE evicted' = evicted  OBVIOUS
  <2>1. \A m \in Node : \A j \in Item : evicted'[m][j] = evicted[m][j]  BY <1>2, <1>5, <1>7
  <2>2. \A m \in Node : evicted'[m] = evicted[m]  BY <1>5, <1>7, <2>1
  <2>. QED  BY <1>5, <1>7, <2>2
<1>. QED  BY <1>2, <1>5, <1>6, <1>7, <1>8, <1>9 DEF Learnt

LEMMA InventoriesKept ==
  ASSUME Connections, Boxes, Inventories, [NetworkNext]_networkVars
  PROVE  Inventories'
<1>1. ASSUME UNCHANGED <<known, evicted, given, made>> PROVE Inventories'
  BY <1>1 DEF Inventories, Knows
<1>2. ASSUME NEW n \in Node, NEW i \in Item, NEW trims \in BOOLEAN, Learn(n, i, trims),
             UNCHANGED given, made' = [made EXCEPT ![n] = @ \cup {i}]
      PROVE  Inventories'
  <2>0. Learnt(n, i, trims)  BY <1>2, Learned
  <2>5. /\ DOMAIN known' = Node /\ \A m \in Node : IsFiniteSet(known'[m])
        /\ evicted' \in [Node -> [Item -> Nat]]
    BY <2>0 DEF Learnt
  <2>2. DOMAIN made' = Node /\ made'[n] = made[n] \cup {i}
        /\ \A m \in Node \ {n} : made'[m] = made[m]
    BY <1>2 DEF Inventories
  <2>3. ASSUME NEW m \in Node, NEW j \in Item
        PROVE  /\ j \in known'[m] => j \in made'[m] \/ given[m][j] > 0
               /\ given[m][j] <= evicted'[m][j] + IF j \in known'[m] THEN 1 ELSE 0
    <3>1. /\ j \in known[m] => j \in made[m] \/ given[m][j] > 0
          /\ given[m][j] <= evicted[m][j] + IF j \in known[m] THEN 1 ELSE 0
          /\ given[m][j] \in Nat /\ evicted[m][j] \in Nat
      BY DEF Inventories, Knows
    <3>2. CASE m # n
      <4>1. known'[m] = known[m] /\ evicted'[m] = evicted[m]  BY <2>0, <3>2 DEF Learnt
      <4>. QED  BY <2>2, <3>1, <3>2, <4>1
    <3>3. CASE m = n
      <4>1. known'[n] \subseteq known[n] \cup {i}  BY <2>0 DEF Learnt
      <4>2. \A k \in Item : /\ evicted'[n][k] >= evicted[n][k]
                            /\ k \in known[n] \cup {i} /\ k \notin known'[n]
                                 => evicted'[n][k] = evicted[n][k] + 1
        BY <2>0 DEF Learnt
      <4>3. evicted'[n][j] \in Nat  BY <2>5
      <4>. QED  BY <2>2, <3>1, <3>3, <4>1, <4>2, <4>3
    <3>. QED  BY <3>2, <3>3
  <2>4. given' = given  BY <1>2
  <2>. QED  BY <2>2, <2>3, <2>4, <2>5 DEF Inventories, Knows
<1>3. ASSUME NEW n \in Node, NEW i \in Item, AnnounceItem(n, i) PROVE Inventories'
  BY <1>2, <1>3 DEF AnnounceItem
<1>4. ASSUME NEW n \in Node, NEW i \in Item, Push(n, i) PROVE Inventories'
  <2>1. UNCHANGED given /\ made' = [made EXCEPT ![n] = @ \cup {i}]
    BY <1>4 DEF Push
  <2>2. CASE i \in Block  BY <1>2, <1>4, <2>1, <2>2 DEF Push
  <2>3. CASE i \notin Block
    <3>1. known' = known /\ evicted' = evicted  BY <1>4, <2>3 DEF Push
    <3>2. DOMAIN made' = Node /\ \A m \in Node : made[m] \subseteq made'[m]
      BY <2>1 DEF Inventories
    <3>. QED  BY <2>1, <3>1, <3>2 DEF Inventories, Knows
  <2>. QED  BY <2>2, <2>3
<1>5. ASSUME NEW e \in End, Opened(e), NEW kind \in {"NEW_BLOCK", "NEW_TRANSACTION"},
             HandleData(e, kind), ~Knows(Owner(e), Body(e).item)
      PROVE  Inventories'
  <2>1. PICK n \in Node, i \in {Body(e).item} : n = Owner(e) /\ i = Body(e).item
    BY <1>5, OwnerFacts DEF Connections
  <2>2. /\ ~Knows(n, i) /\ Learn(n, i, FALSE) /\ given' = [given EXCEPT ![n][i] = @ + 1]
        /\ UNCHANGED made
    BY <1>5, <2>1 DEF HandleData
  <2>4. /\ DOMAIN known' = Node /\ \A m \in Node : IsFiniteSet(known'[m])
        /\ \A m \in Node \ {n} : known'[m] = known[m]
        /\ \A j \in known'[n] : j \in known[n] \/ j = i
        /\ \A j \in Item : j \in known[n] => j \in known'[n]
        /\ i \in known'[n] /\ evicted' = evicted
    <3>1. Learnt(n, i, FALSE)  BY <2>2, Learned
    <3>2. /\ DOMAIN known' = Node /\ \A m \in Node : IsFiniteSet(known'[m])
          /\ \A m \in Node \ {n} : known'[m] = known[m]
          /\ known'[n] = known[n] \cup {i} /\ evicted' = evicted
      BY <3>1 DEF Learnt
    <3>. QED  BY <3>2
  <2>5. /\ given' \in [Node -> [Item -> Nat]]
        /\ \A m \in Node, j \in Item :
             given'[m][j] = IF m = n /\ j = i THEN given[m][j] + 1 ELSE given[m][j]
    <3>1. given \in [Node -> [Item -> Nat]]  BY DEF Inventories
    <3>2. /\ given' = [given EXCEPT ![n] = [given[n] EXCEPT ![i] = given[n][i] + 1]]
          /\ given[n] \in [Item -> Nat]
      BY <2>2, <3>1
    <3>3. [given[n] EXCEPT ![i] = given[n][i] + 1] \in [Item -> Nat]
          /\ \A j \in Item : [given[n] EXCEPT ![i] = given[n][i] + 1][j]
                              = IF j = i THEN given[n][j] + 1 ELSE given[n][j]
      <4>1. CASE i \in Item  BY <3>2, <4>1
      <4>2. CASE i \notin Item
        <5>1. [given[n] EXCEPT ![i] = given[n][i] + 1] = given[n]  BY <3>2, <4>2
        <5>. QED  BY <3>2, <4>2, <5>1
      <4>. QED  BY <4>1, <4>2
    <3>4. given'[n] = [given[n] EXCEPT ![i] = given[n][i] + 1]  BY <3>1, <3>2
    <3>5. \A m \in Node \ {n} : given'[m] = given[m]  BY <3>1, <3>2
    <3>6. given' \in [Node -> [Item -> Nat]]  BY <3>1, <3>2, <3>3
    <3>. QED  BY <3>3, <3>4, <3>5, <3>6
  <2>6. ASSUME NEW m \in Node, NEW j \in Item
        PROVE  /\ j \in known'[m] => j \in made'[m] \/ given'[m][j] > 0
               /\ given'[m][j] <= evicted'[m][j] + IF j \in known'[m] THEN 1 ELSE 0
    <3>1. /\ j \in known[m] => j \in made[m] \/ given[m][j] > 0
          /\ given[m][j] <= evicted[m][j] + IF j \in known[m] THEN 1 ELSE 0
          /\ given[m][j] \in Nat /\ evicted[m][j] \in Nat
      BY DEF Inventories, Knows
    <3>2. CASE m = n /\ j = i  BY <2>2, <2>4, <2>5, <3>1, <3>2 DEF Knows
    <3>3. CASE ~(m = n /\ j = i)
      <4>1. j \in known'[m] <=> j \in known[m]  BY <2>4, <3>3
      <4>2. given'[m][j] = given[m][j]  BY <2>5, <3>3
      <4>. QED  BY <2>2, <2>4, <3>1, <4>1, <4>2
    <3>. QED  BY <3>2, <3>3
  <2>. QED  BY <2>2, <2>4, <2>5, <2>6 DEF Inventories, Knows
<1>6. ASSUME NEW e \in End, Opened(e), GossipHandle(e) PROVE Inventories'
  <2>1. CASE UNCHANGED gossipVars  BY <1>1, <2>1 DEF gossipVars
  <2>. QED
    BY <1>5, <1>6, <2>1
    DEF GossipHandle, HandleAnnounce, HandleData, HandleInventory, HandleGetBlock, HandleBlockResponse
<1>7. ASSUME NEW e \in End, SendInventory(e, known[Owner(e)]) PROVE Inventories'
  BY <1>1, <1>7 DEF SendInventory, gossipVars
<1>. QED
  BY <1>1, <1>3, <1>4, <1>6, <1>7 DEF NetworkNext, networkVars, gossipVars, GossipNext
----------------------------------------------------------------------------
(* The theorems *)

IInv == Connections /\ Boxes /\ Inventories

LEMMA InitIInv == NetworkInit => IInv
<1>. SUFFICES ASSUME NetworkInit PROVE IInv  OBVIOUS
<1>. USE DEF NetworkInit, NetInit, GossipInit
<1>1. Connections
  <2>1. \A e \in End : ~Opened(e) /\ conn[e] = NewConn  BY EndFacts DEF Opened
  <2>2. NewConn \in Records  BY DEF NewConn, Records
  <2>3. \A e \in End : ~Alive(e) /\ conn[e].peer = "" /\ conn[e].state = "none"
    BY <2>1 DEF Alive, NewConn
  <2>4. conn \in [End -> Records] /\ link \in [Link -> {<< >>} \cup (Node \X Node)]
    BY <2>2
  <2>5. AliveListed /\ Twins /\ Named /\ Marked
    BY <2>3 DEF AliveListed, Twins, Named, Marked
  <2>6. Listed /\ PeerEnds  BY DEF Listed, PeerEnds
  <2>. QED  BY <2>4, <2>5, <2>6 DEF Connections
<1>2. Boxes
  <2>1. DOMAIN inbox = End  OBVIOUS
  <2>2. ASSUME NEW e \in End
        PROVE  \E S : inbox[e] \in Seq(S) /\ \A m \in S : Fits(e, m)
    <3>. DEFINE nothing == {}
    <3>1. inbox[e] = << >>  OBVIOUS
    <3>2. inbox[e] \in Seq(nothing)  BY <3>1
    <3>3. \A m \in nothing : Fits(e, m)  OBVIOUS
    <3>. HIDE DEF nothing
    <3>. QED  BY <3>2, <3>3
  <2>. QED  BY <2>1, <2>2 DEF Boxes
<1>3. Inventories  BY FS_EmptySet DEF Inventories, Knows
<1>. QED  BY <1>1, <1>2, <1>3 DEF IInv

LEMMA NextIInv == IInv /\ [NetworkNext]_networkVars => IInv'
<1>. SUFFICES ASSUME IInv, [NetworkNext]_networkVars PROVE IInv'  OBVIOUS
<1>1. Steady /\ Inventories'  BY SteadyNext, InventoriesKept DEF IInv
<1>2. Connections' /\ Boxes'
  <2>1. CASE UNCHANGED networkVars
    <3>1. Boxes'  BY <1>1, <2>1, AllBefore, BoxesRead DEF IInv, networkVars, netVars
    <3>. QED  BY <2>1, <3>1, Untouched DEF IInv, networkVars, netVars
  <2>. QED
    BY <1>1, <2>1, NetKeeps, GossipKeeps, SyncKeeps DEF IInv, NetworkNext
<1>. QED  BY <1>1, <1>2 DEF IInv

LEMMA SpecIInv == NetworkSpec => []IInv
BY InitIInv, NextIInv, PTL DEF NetworkSpec

(* A node lists its live connections and no closed ones, whatever it and   *)
(* its peers open and close, except two at once to the same peer.          *)
THEOREM ConnectionsAlwaysListed == NetworkSpec => []LiveConnectionsListed
<1>1. IInv => LiveConnectionsListed
  <2>. SUFFICES ASSUME Connections, NEW e \in End, Opened(e)
                PROVE  /\ e \in Entries(Owner(e)) => conn[e].state # "closed"
                       /\ (conn[e].state = "receiving" /\ conn[e].peer # "" /\ e \notin crossed)
                            => e \in Connected(Owner(e))
    BY DEF IInv, LiveConnectionsListed
  <2>1. Owner(e) \in Node  BY OwnerFacts DEF Connections
  <2>2. e \in Entries(Owner(e)) => conn[e].state # "closed"
    BY <2>1 DEF Connections, Listed, Entries, Alive
  <2>3. ASSUME conn[e].state = "receiving", conn[e].peer # "", e \notin crossed
        PROVE  e \in Connected(Owner(e))
    <3>1. Alive(e)  BY <2>3 DEF Alive
    <3>2. e \in Entries(Owner(e))  BY <2>3, <3>1 DEF Connections, AliveListed, Entries
    <3>3. conn[e].connected = TRUE  BY <2>3, <3>1 DEF Connections, Marked
    <3>. QED  BY <3>2, <3>3 DEF Connected
  <2>. QED  BY <2>2, <2>3
<1>. QED  BY <1>1, SpecIInv, PTL

(* A node knows only what it has made itself or passed to its callback,    *)
(* and passes it on once for each time it has forgotten it.                *)
THEOREM InventoryAlwaysSound == NetworkSpec => []InventorySound
<1>1. IInv => InventorySound
  <2>. SUFFICES ASSUME Inventories, NEW n \in Node, NEW i \in Item
                PROVE  /\ Knows(n, i) => i \in made[n] \/ given[n][i] > 0
                       /\ given[n][i] <= 1 + evicted[n][i]
    BY DEF IInv, InventorySound
  <2>1. given[n][i] \in Nat /\ evicted[n][i] \in Nat  BY DEF Inventories
  <2>. QED  BY <2>1 DEF Inventories
<1>. QED  BY <1>1, SpecIInv, PTL

----------------------------------------------------------------------------
(* Catching up.  h is the height of the client's chain, x says that a      *)
(* block that fitted was refused.                                          *)

Fields == {"pc", "peer", "start", "end", "best", "attempt", "got", "next"}

(* A cycle stands on what the client already has, up to its next block. *)
Stands(r, h, x) ==
  /\ DOMAIN r = Fields /\ r.pc \in {"idle", "ask", "wait"}
  /\ r.pc # "idle" => /\ r.start \in Int /\ r.end \in Int /\ r.best \in Int
                      /\ r.start <= r.end /\ (x \/ h >= r.start - 1)
  /\ r.pc = "wait" => /\ r.next \in Int /\ r.next <= r.end /\ (x \/ h >= r.next - 1)

Progress ==
  /\ height \in [Node -> Int] /\ claimed \in [End -> Int] /\ refused \in BOOLEAN
  /\ DOMAIN cycle = Cycle
  /\ \A c \in Cycle : Stands(cycle[c], height[Client], refused)

(* A cycle ends synced only with its goal reached. *)
Reaches(c) ==
  (cycle[c].pc # "idle" /\ cycle'[c].pc = "idle" /\ state' = "synced")
    => height'[Client] >= cycle[c].best \/ refused'

LEMMA StandsOn ==
  ASSUME NEW r, NEW h \in Int, NEW k \in Int, h <= k, NEW x \in BOOLEAN, NEW y \in BOOLEAN,
         x => y, Stands(r, h, x)
  PROVE  Stands(r, k, y)
BY DEF Stands

LEMMA BatchNotEmpty ==
  ASSUME NEW start \in Int, NEW best \in Int, start <= best
  PROVE  BatchEnd(start, best) \in Int /\ start <= BatchEnd(start, best)
BY SyncAssumption DEF BatchEnd

(* Steps of one cycle, or of none: the others need only stand as before. *)
LEMMA OneCycle ==
  ASSUME Progress, NEW c \in Cycle, height' \in [Node -> Int], claimed' \in [End -> Int],
         height[Client] <= height'[Client], refused' \in BOOLEAN, refused => refused',
         DOMAIN cycle' = Cycle, \A d \in Cycle \ {c} : cycle'[d] = cycle[d],
         Stands(cycle'[c], height'[Client], refused'), Reaches(c)
  PROVE  Progress' /\ \A d \in Cycle : Reaches(d)
<1>1. height[Client] \in Int /\ height'[Client] \in Int /\ refused \in BOOLEAN
  BY SyncAssumption DEF Progress
<1>2. ASSUME NEW d \in Cycle \ {c}
      PROVE  Stands(cycle'[d], height'[Client], refused') /\ Reaches(d)
  <2>1. Stands(cycle[d], height[Client], refused)  BY DEF Progress
  <2>2. Stands(cycle[d], height'[Client], refused')  BY <1>1, <2>1, StandsOn
  <2>. QED  BY <2>2 DEF Reaches
<1>3. \A d \in Cycle : Stands(cycle'[d], height'[Client], refused')  BY <1>2
<1>. QED  BY <1>2, <1>3 DEF Progress

LEMMA SameCycles ==
  ASSUME Progress, height' \in [Node -> Int], claimed' \in [End -> Int],
         height[Client] <= height'[Client], UNCHANGED <<cycle, refused>>
  PROVE  Progress' /\ \A d \in Cycle : Reaches(d)
<1>1. height[Client] \in Int /\ height'[Client] \in Int /\ refused \in BOOLEAN
  BY SyncAssumption DEF Progress
<1>2. \A d \in Cycle : Stands(cycle[d], height'[Client], refused)
  BY <1>1, StandsOn DEF Progress
<1>3. \A d \in Cycle : Reaches(d)  BY DEF Reaches
<1>. QED  BY <1>2, <1>3 DEF Progress

LEMMA BeginKeeps ==
  ASSUME Connections, Progress, NEW c \in Cycle, BeginCycle(c)
  PROVE  Progress' /\ \A d \in Cycle : Reaches(d)
<1>1. /\ At(c, "idle") /\ UNCHANGED <<height, claimed, refused>>
      /\ UNCHANGED cycle \/ \E e \in BestPeers :
           /\ claimed[e] > height[Client]
           /\ cycle' = [cycle EXCEPT ![c].pc = "ask", ![c].peer = e, ![c].start = height[Client] + 1,
                          ![c].end = BatchEnd(height[Client] + 1, claimed[e]),
                          ![c].best = claimed[e], ![c].attempt = 1]
  BY DEF BeginCycle
<1>2. height[Client] \in Int  BY SyncAssumption DEF Progress
<1>3. CASE UNCHANGED cycle  BY <1>1, <1>2, <1>3, SameCycles DEF Progress
<1>4. ASSUME NEW e \in BestPeers, claimed[e] > height[Client],
             cycle' = [cycle EXCEPT ![c].pc = "ask", ![c].peer = e, ![c].start = height[Client] + 1,
                         ![c].end = BatchEnd(height[Client] + 1, claimed[e]),
                         ![c].best = claimed[e], ![c].attempt = 1]
      PROVE  Progress' /\ \A d \in Cycle : Reaches(d)
  <2>1. claimed[e] \in Int
    <3>1. e \in End  BY SyncAssumption DEF BestPeers, Connected, Entries, Connections, Listed
    <3>. QED  BY <3>1 DEF Progress
  <2>2. PICK last \in Int : last = BatchEnd(height[Client] + 1, claimed[e])
                            /\ height[Client] + 1 <= last
    <3>1. height[Client] + 1 \in Int /\ height[Client] + 1 <= claimed[e]  BY <1>2, <1>4, <2>1
    <3>. QED  BY <2>1, <3>1, BatchNotEmpty
  <2>3. DOMAIN cycle' = Cycle /\ (\A d \in Cycle \ {c} : cycle'[d] = cycle[d])
        /\ cycle'[c] = [cycle[c] EXCEPT !.pc = "ask", !.peer = e, !.start = height[Client] + 1,
                          !.end = last, !.best = claimed[e], !.attempt = 1]
    BY <1>4, <2>2 DEF Progress
  <2>4. DOMAIN cycle[c] = Fields  BY DEF Progress, Stands
  <2>5. Stands(cycle'[c], height[Client], refused)
    BY <1>2, <2>1, <2>2, <2>3, <2>4 DEF Stands, Fields
  <2>6. Reaches(c)  BY <1>1 DEF Reaches, At
  <2>7. UNCHANGED <<height, claimed, refused>>  BY <1>1
  <2>8. Stands(cycle'[c], height'[Client], refused')  BY <2>5, <2>7
  <2>9. height' \in [Node -> Int] /\ claimed' \in [End -> Int]
        /\ height[Client] <= height'[Client]
    BY <1>2, <2>7 DEF Progress
  <2>10. refused' \in BOOLEAN /\ (refused => refused')  BY <2>7 DEF Progress
  <2>. QED  BY <2>3, <2>6, <2>8, <2>9, <2>10, OneCycle
<1>. QED  BY <1>1, <1>3, <1>4

LEMMA AskKeeps ==
  ASSUME Progress, NEW c \in Cycle, AskBatch(c)
  PROVE  Progress' /\ \A d \in Cycle : Reaches(d)
<1>1. /\ cycle[c].pc = "ask" /\ UNCHANGED <<height, claimed, refused>>
      /\ cycle' = [cycle EXCEPT ![c].pc = "wait", ![c].got = {}, ![c].next = cycle[c].start]
  BY DEF AskBatch, At
<1>2. height[Client] \in Int  BY SyncAssumption DEF Progress
<1>3. Stands(cycle[c], height[Client], refused) /\ DOMAIN cycle[c] = Fields
  BY DEF Progress, Stands
<1>4. DOMAIN cycle' = Cycle /\ (\A d \in Cycle \ {c} : cycle'[d] = cycle[d])
      /\ cycle'[c] = [cycle[c] EXCEPT !.pc = "wait", !.got = {}, !.next = cycle[c].start]
  BY <1>1 DEF Progress
<1>5. Stands(cycle'[c], height[Client], refused)  BY <1>1, <1>2, <1>3, <1>4 DEF Stands, Fields
<1>6. Reaches(c)  BY <1>3, <1>4 DEF Reaches, Fields
<1>. QED  BY <1>1, <1>2, <1>4, <1>5, <1>6, OneCycle DEF Progress

(* A new attempt starts from the same block; giving up is an error. *)
LEMMA AgainStands ==
  ASSUME Progress, NEW c \in Cycle, cycle[c].pc = "wait", Again(c), UNCHANGED <<height, refused>>
  PROVE  /\ DOMAIN cycle' = Cycle /\ \A d \in Cycle \ {c} : cycle'[d] = cycle[d]
         /\ Stands(cycle'[c], height'[Client], refused') /\ Reaches(c)
<1>1. Stands(cycle[c], height[Client], refused) /\ DOMAIN cycle[c] = Fields /\ DOMAIN cycle = Cycle
  BY DEF Progress, Stands
<1>2. CASE cycle' = [cycle EXCEPT ![c].pc = "ask", ![c].attempt = @ + 1]
  <2>1. cycle'[c] = [cycle[c] EXCEPT !.pc = "ask", !.attempt = @ + 1]  BY <1>1, <1>2
  <2>. QED  BY <1>1, <1>2, <2>1 DEF Stands, Fields, Reaches
<1>3. CASE cycle' = [cycle EXCEPT ![c] = Ended] /\ state' = "error"
  BY <1>1, <1>3 DEF Stands, Fields, Reaches, Ended
<1>. QED  BY <1>2, <1>3 DEF Again

LEMMA TimeoutKeeps ==
  ASSUME Progress, NEW c \in Cycle, TimeoutBatch(c)
  PROVE  Progress' /\ \A d \in Cycle : Reaches(d)
<1>1. cycle[c].pc = "wait" /\ Again(c) /\ UNCHANGED <<height, claimed, refused>>
  BY DEF TimeoutBatch, At
<1>2. height[Client] \in Int  BY SyncAssumption DEF Progress
<1>. QED  BY <1>1, <1>2, AgainStands, OneCycle DEF Progress

(* After the last block of a batch. *)
LEMMA NextBatchStands ==
  ASSUME Progress, NEW c \in Cycle, cycle[c].pc = "wait", NextBatch(c),
         height'[Client] \in Int, refused' \in BOOLEAN, refused' \/ height'[Client] >= cycle[c].end
  PROVE  /\ DOMAIN cycle' = Cycle /\ \A d \in Cycle \ {c} : cycle'[d] = cycle[d]
         /\ Stands(cycle'[c], height'[Client], refused') /\ Reaches(c)
<1>1. Stands(cycle[c], height[Client], refused) /\ DOMAIN cycle[c] = Fields /\ DOMAIN cycle = Cycle
  BY DEF Progress, Stands
<1>2. PICK start \in Int, best \in Int : start = cycle[c].end + 1 /\ best = cycle[c].best
  BY <1>1 DEF Stands
<1>3. CASE start <= best
  <2>1. PICK last \in Int : last = BatchEnd(start, best) /\ start <= last
    BY <1>2, <1>3, BatchNotEmpty
  <2>2. cycle' = [cycle EXCEPT ![c].pc = "ask", ![c].start = start, ![c].attempt = 1, ![c].end = last]
    BY <1>2, <1>3, <2>1 DEF NextBatch
  <2>3. cycle'[c] = [cycle[c] EXCEPT !.pc = "ask", !.start = start, !.attempt = 1, !.end = last]
    BY <1>1, <2>2
  <2>4. refused' \/ height'[Client] >= start - 1  BY <1>1, <1>2 DEF Stands
  <2>. QED  BY <1>1, <1>2, <2>1, <2>2, <2>3, <2>4 DEF Stands, Fields, Reaches
<1>4. CASE ~(start <= best)
  <2>1. cycle' = [cycle EXCEPT ![c] = Ended]  BY <1>2, <1>4 DEF NextBatch
  <2>2. cycle[c].end \in Int /\ cycle[c].end >= cycle[c].best  BY <1>1, <1>2, <1>4 DEF Stands
  <2>3. refused' \/ height'[Client] >= cycle[c].best  BY <1>2, <2>2
  <2>. QED  BY <1>1, <2>1, <2>3 DEF Stands, Fields, Reaches, Ended
<1>. QED  BY <1>3, <1>4

LEMMA ApplyKeeps ==
  ASSUME Progress, NEW c \in Cycle, ApplyBlock(c)
  PROVE  Progress' /\ \A d \in Cycle : Reaches(d)
<1>1. cycle[c].pc = "wait" /\ UNCHANGED claimed  BY DEF ApplyBlock, Gathered, At
<1>2. Stands(cycle[c], height[Client], refused) /\ DOMAIN cycle[c] = Fields /\ DOMAIN cycle = Cycle
  BY DEF Progress, Stands
<1>3. PICK h \in Int, i \in Int : /\ h = height[Client] /\ i = cycle[c].next
                                  /\ i <= cycle[c].end /\ cycle[c].end \in Int
                                  /\ refused \/ h >= i - 1
  BY <1>1, <1>2, SyncAssumption DEF Progress, Stands
<1>4. ASSUME height' \in [Node -> Int], h <= height'[Client],
             refused' \in BOOLEAN, refused => refused', refused' \/ height'[Client] >= i,
             IF i = cycle[c].end THEN NextBatch(c)
             ELSE cycle' = [cycle EXCEPT ![c].next = i + 1] /\ UNCHANGED state
      PROVE  Progress' /\ \A d \in Cycle : Reaches(d)
  <2>1. height'[Client] \in Int  BY <1>4, SyncAssumption
  <2>2. CASE i = cycle[c].end
    <3>1. NextBatch(c)  BY <1>4, <2>2
    <3>2. refused' \/ height'[Client] >= cycle[c].end  BY <1>4, <2>2
    <3>. QED  BY <1>1, <1>3, <1>4, <2>1, <3>1, <3>2, NextBatchStands, OneCycle DEF Progress
  <2>3. CASE i # cycle[c].end
    <3>1. cycle' = [cycle EXCEPT ![c].next = i + 1]  BY <1>4, <2>3
    <3>2. cycle'[c] = [cycle[c] EXCEPT !.next = i + 1]  BY <1>2, <3>1
    <3>3. i + 1 <= cycle[c].end  BY <1>3, <2>3
    <3>4. Stands(cycle[c], height'[Client], refused')
      BY <1>2, <1>3, <1>4, <2>1, StandsOn DEF Progress
    <3>5. Stands(cycle'[c], height'[Client], refused')
      BY <1>1, <1>2, <1>4, <2>1, <3>2, <3>3, <3>4 DEF Stands, Fields
    <3>6. Reaches(c)  BY <1>1, <1>2, <3>2 DEF Reaches, Fields
    <3>. QED  BY <1>1, <1>2, <1>3, <1>4, <3>1, <3>5, <3>6, OneCycle DEF Progress
  <2>. QED  BY <2>2, <2>3
<1>5. height \in [Node -> Int] /\ refused \in BOOLEAN /\ Client \in Node
  BY SyncAssumption DEF Progress
<1>6. ASSUME height' = [height EXCEPT ![Client] = i], i = h + 1, UNCHANGED refused,
             IF i = cycle[c].end THEN NextBatch(c)
             ELSE cycle' = [cycle EXCEPT ![c].next = i + 1] /\ UNCHANGED state
      PROVE  Progress' /\ \A d \in Cycle : Reaches(d)
  <2>1. height' \in [Node -> Int] /\ height'[Client] = i  BY <1>5, <1>6
  <2>. QED  BY <1>3, <1>4, <1>5, <1>6, <2>1
<1>7. ASSUME UNCHANGED <<height, refused>>, i # h + 1,
             IF i = cycle[c].end THEN NextBatch(c)
             ELSE cycle' = [cycle EXCEPT ![c].next = i + 1] /\ UNCHANGED state
      PROVE  Progress' /\ \A d \in Cycle : Reaches(d)
  BY <1>3, <1>4, <1>5, <1>7
<1>8. ASSUME UNCHANGED height, refused' = TRUE,
             IF i = cycle[c].end THEN NextBatch(c)
             ELSE cycle' = [cycle EXCEPT ![c].next = i + 1] /\ UNCHANGED state
      PROVE  Progress' /\ \A d \in Cycle : Reaches(d)
  BY <1>3, <1>4, <1>5, <1>8
<1>9. ASSUME UNCHANGED <<height, refused>>, Again(c)
      PROVE  Progress' /\ \A d \in Cycle : Reaches(d)
  BY <1>1, <1>3, <1>5, <1>9, AgainStands, OneCycle DEF Progress
<1>. QED  BY <1>3, <1>6, <1>7, <1>8, <1>9 DEF ApplyBlock

LEMMA ChainResponseKeeps ==
  ASSUME Progress, NEW e \in End, HandleChainResponse(e)
  PROVE  Progress' /\ \A d \in Cycle : Reaches(d)
<1>. DEFINE found == {i \in Body(e) : awaited[i] # "none"}
            new(c) == {i \in found : awaited[i] = c}
<1>1. /\ cycle' = [c \in Cycle |-> [cycle[c] EXCEPT !.got = @ \cup new(c)]]
      /\ UNCHANGED <<height, claimed, state, refused>>
  BY DEF HandleChainResponse
<1>. HIDE DEF new
<1>2. ASSUME NEW c \in Cycle
      PROVE  Stands(cycle'[c], height[Client], refused) /\ cycle'[c].pc = cycle[c].pc
  <2>1. Stands(cycle[c], height[Client], refused) /\ DOMAIN cycle[c] = Fields
    BY DEF Progress, Stands
  <2>2. cycle'[c] = [cycle[c] EXCEPT !.got = @ \cup new(c)]  BY <1>1
  <2>. QED  BY <2>1, <2>2 DEF Stands, Fields
<1>3. DOMAIN cycle' = Cycle  BY <1>1
<1>4. \A d \in Cycle : Reaches(d)  BY <1>2 DEF Reaches
<1>. QED  BY <1>1, <1>2, <1>3, <1>4 DEF Progress

LEMMA SyncProgress ==
  ASSUME Connections, Progress, [NetworkNext]_networkVars
  PROVE  Progress' /\ \A d \in Cycle : Reaches(d)
<1>1. height \in [Node -> Int] /\ claimed \in [End -> Int] /\ Client \in Node
      /\ height[Client] \in Int
  BY SyncAssumption DEF Progress
<1>2. CASE UNCHANGED syncVars  BY <1>1, <1>2, SameCycles DEF syncVars
<1>3. CASE \E c \in Cycle : BeginCycle(c)  BY <1>3, BeginKeeps
<1>4. CASE \E c \in Cycle : AskBatch(c) \/ ApplyBlock(c) \/ TimeoutBatch(c)
  BY <1>4, AskKeeps, ApplyKeeps, TimeoutKeeps
<1>5. ASSUME NEW e \in End, SyncHandle(e) PROVE Progress' /\ \A d \in Cycle : Reaches(d)
  <2>1. CASE HandleGetChain(e)  BY <1>2, <2>1 DEF HandleGetChain
  <2>2. CASE HandleChainResponse(e)  BY <2>2, ChainResponseKeeps
  <2>. QED  BY <1>5, <2>1, <2>2 DEF SyncHandle
<1>6. ASSUME NEW n \in Node, Grow(n) PROVE Progress' /\ \A d \in Cycle : Reaches(d)
  <2>1. height' = [height EXCEPT ![n] = @ + 1] /\ UNCHANGED <<claimed, cycle, refused>>
    BY <1>6 DEF Grow
  <2>2. height' \in [Node -> Int] /\ height[Client] <= height'[Client]  BY <1>1, <2>1
  <2>. QED  BY <1>1, <2>1, <2>2, SameCycles
<1>7. ASSUME NEW e \in End, NEW h \in Index, Claim(e, h)
      PROVE  Progress' /\ \A d \in Cycle : Reaches(d)
  <2>1. claimed' = [claimed EXCEPT ![e] = h] /\ UNCHANGED <<height, cycle, refused>>
    BY <1>7 DEF Claim
  <2>2. h \in Int  BY DEF Index
  <2>3. claimed' \in [End -> Int]  BY <1>1, <2>1, <2>2
  <2>. QED  BY <1>1, <2>1, <2>3, SameCycles
<1>8. CASE SyncNext
  <2>1. "loop" \in Cycle /\ "trigger" \in Cycle  BY DEF Cycle
  <2>. QED
    BY <1>3, <1>4, <1>5, <1>6, <1>7, <1>8, <2>1 DEF SyncNext, LoopBegins, CycleStep
<1>. QED  BY <1>2, <1>8 DEF NetworkNext, networkVars

(* A cycle that says it is synced after downloading has brought the chain  *)
(* to the height it set out for, or a block that fitted was refused.       *)
THEOREM SyncedAlwaysCaughtUp == NetworkSpec => SyncedMeansCaughtUp
<1>1. NetworkInit => Progress
  <2>. SUFFICES ASSUME NetworkInit PROVE Progress  OBVIOUS
  <2>1. height \in [Node -> Int]  BY DEF NetworkInit
  <2>2. \A c \in Cycle : cycle[c] = Ended  BY DEF NetworkInit, SyncInit
  <2>3. \A h, x : Stands(Ended, h, x)  BY DEF Stands, Ended, Fields
  <2>4. /\ claimed = [e \in End |-> 0] /\ refused = FALSE /\ DOMAIN cycle = Cycle
    BY DEF NetworkInit, SyncInit
  <2>5. \A c \in Cycle : Stands(cycle[c], height[Client], refused)  BY <2>2, <2>3
  <2>6. claimed \in [End -> Int] /\ height \in [Node -> Int]  BY <2>1, <2>4
  <2>. QED  BY <2>4, <2>5, <2>6 DEF Progress
<1>2. IInv /\ Progress /\ [NetworkNext]_networkVars => Progress'  BY SyncProgress DEF IInv
<1>3. IInv /\ Progress /\ [NetworkNext]_networkVars
        => [\A c \in Cycle : (cycle[c].pc # "idle" /\ cycle'[c].pc = "idle" /\ state' = "synced")
                               => height'[Client] >= cycle[c].best \/ refused']_<<syncVars, netVars>>
  BY SyncProgress DEF IInv, Reaches
<1>. QED  BY <1>1, <1>2, <1>3, SpecIInv, PTL DEF NetworkSpec, SyncedMeansCaughtUp
=============================================================================
