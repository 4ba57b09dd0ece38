--------------------------- MODULE LockFreeProofs ---------------------------
(***************************************************************************)
(* Proofs about the lock-free stack and queue of lock_free.rs, for any     *)
(* number of threads, nodes and values: with one popping thread the stack  *)
(* is a stack, and shared in the safe ways the queue is a FIFO queue;      *)
(* neither touches freed memory or loses a node, or a value.               *)
(*                                                                         *)
(* Both inductive invariants say that some sequence w of nodes is the list *)
(* from the head on, which thread holds each node that is not in w, and    *)
(* what of a thread's last reads still holds.  The lemmas of each operation *)
(* give the list after it and compare what the two lists hold.             *)
(***************************************************************************)
EXTENDS LockFree, FiniteSetTheorems, Induction, TLAPS

----------------------------------------------------------------------------
(* Linked lists *)

(* The nodes of a list.                                                    *)
Inside(w) == {w[i] : i \in 1 .. Len(w)}

(* w is the list from h on: distinct nodes, each the successor of the one  *)
(* before it.                                                              *)
IsPath(Nodes, null, w, h, nxt) ==
  /\ w \in Seq(Nodes)
  /\ \A i, j \in 1 .. Len(w) : w[i] = w[j] => i = j
  /\ h = IF Len(w) = 0 THEN null ELSE w[1]
  /\ \A i \in 1 .. Len(w) : nxt[w[i]] = IF i = Len(w) THEN null ELSE w[i + 1]

(* A list has at most as many nodes as there are.                          *)
LEMMA PathLength ==
  ASSUME NEW Nodes, NEW null, IsFiniteSet(Nodes), NEW w, NEW h, NEW nxt,
         IsPath(Nodes, null, w, h, nxt)
  PROVE  Len(w) <= Cardinality(Nodes) /\ Cardinality(Nodes) \in Nat
<1>2. Len(w) \in Nat /\ w \in [1 .. Len(w) -> Nodes]  BY DEF IsPath
<1>3. w \in Injection(1 .. Len(w), Nodes)  BY <1>2 DEF IsPath, Injection, IsInjective
<1>4. Cardinality(1 .. Len(w)) <= Cardinality(Nodes)  BY <1>3, FS_Injection
<1>5. Cardinality(1 .. Len(w)) = Len(w)  BY <1>2, FS_Interval, SMTT(30)
<1>. QED  BY <1>4, <1>5, FS_CardinalityType

(* Following the list from its head yields the list.                       *)
LEMMA PathIs ==
  ASSUME NEW Nodes, NEW null, IsFiniteSet(Nodes), null \notin Nodes, NEW w, NEW h, NEW nxt,
         IsPath(Nodes, null, w, h, nxt)
  PROVE  ListFrom(Nodes, null, h, nxt) = w
<1> DEFINE n == Cardinality(Nodes)
           Part(k) == SubSeq(w, 1, IF k <= Len(w) THEN k ELSE Len(w))
           Grown(s, k) == LET last == IF k = 1 THEN h
                                      ELSE IF Len(s) < k - 1 THEN null ELSE nxt[s[k - 1]]
                          IN  IF last = null THEN s ELSE Append(s, last)
           IsStep(g) == g = [k \in 0 .. n |-> IF k = 0 THEN <<>> ELSE Grown(g[k - 1], k)]
           f == [k \in 0 .. n |-> Part(k)]
           step == CHOOSE g : IsStep(g)
<1>1. n \in Nat /\ Len(w) \in Nat /\ Len(w) <= n /\ w \in Seq(Nodes)
  <2>1. w \in Seq(Nodes) /\ Len(w) \in Nat  BY DEF IsPath
  <2>. QED  BY <2>1, PathLength, Zenon
<1>2. Part(0) = <<>> /\ Part(n) = w  BY <1>1
<1>3. ASSUME NEW k \in 1 .. n PROVE Part(k) = Grown(Part(k - 1), k)
  <2>1. CASE k <= Len(w)
    <3>1. Part(k) = Append(Part(k - 1), w[k])  BY <1>1, <2>1
    <3>2. Len(Part(k - 1)) = k - 1 /\ (k # 1 => Part(k - 1)[k - 1] = w[k - 1])  BY <1>1, <2>1
    <3>3. w[k] \in Nodes /\ (k = 1 => h = w[k]) /\ (k # 1 => nxt[w[k - 1]] = w[k])
      BY <1>1, <2>1 DEF IsPath
    <3>. HIDE DEF Part
    <3>. QED  BY <3>1, <3>2, <3>3
  <2>2. CASE k = Len(w) + 1
    <3>1. Part(k) = w /\ Part(k - 1) = w  BY <1>1, <2>2
    <3>2. (k = 1 => h = null) /\ (k # 1 => nxt[w[k - 1]] = null)  BY <1>1, <2>2 DEF IsPath
    <3>. HIDE DEF Part
    <3>. QED  BY <1>1, <2>2, <3>1, <3>2
  <2>3. CASE k > Len(w) + 1
    <3>1. Part(k) = w /\ Part(k - 1) = w  BY <1>1, <2>3
    <3>. HIDE DEF Part
    <3>. QED  BY <1>1, <2>3, <3>1
  <2>. QED  BY <1>1, <2>1, <2>2, <2>3
<1>4. IsStep(f)
  <2>. HIDE DEF Part, Grown
  <2>1. ASSUME NEW k \in 0 .. n PROVE f[k] = IF k = 0 THEN <<>> ELSE Grown(f[k - 1], k)
    <3>1. CASE k = 0  BY <1>2, <3>1
    <3>2. CASE k # 0
      <4>1. k \in 1 .. n /\ k - 1 \in 0 .. n  BY <1>1, <3>2
      <4>. QED  BY <1>3, <3>2, <4>1
    <3>. QED  BY <3>1, <3>2
  <2>. QED  BY <2>1
<1>5. IsStep(step)  BY <1>4
<1> DEFINE Wrong == {k \in 0 .. n : step[k] # f[k]}
<1>. HIDE DEF Part, Grown, f, step
<1>6. Wrong = {}
  <2>. SUFFICES ASSUME Wrong # {} PROVE FALSE  OBVIOUS
  <2>1. PICK k \in Wrong : \A j \in Wrong : k <= j
    <3>1. Wrong \in SUBSET Nat  BY <1>1
    <3>. QED  BY <3>1, MinInSet
  <2>2. k # 0  BY <1>4, <1>5, <1>1
  <2>3. k - 1 \in 0 .. n /\ k - 1 \notin Wrong  BY <1>1, <2>1, <2>2
  <2>4. step[k - 1] = f[k - 1]  BY <2>3
  <2>5. step[k] = Grown(step[k - 1], k) /\ f[k] = Grown(f[k - 1], k)
    BY <1>4, <1>5, <2>2, <1>1
  <2>. QED  BY <2>4, <2>5
<1>7. step[n] = f[n]  BY <1>1, <1>6
<1>8. f[n] = w  BY <1>1, <1>2 DEF f
<1>9. ListFrom(Nodes, null, h, nxt) = step[n]  BY DEF ListFrom, step, Grown
<1>. QED  BY <1>7, <1>8, <1>9
(* What is stored in nodes outside a list does not change it.              *)
LEMMA PathFrame ==
  ASSUME NEW Nodes, NEW null, NEW w, NEW h, NEW nxt, NEW to,
         IsPath(Nodes, null, w, h, nxt),
         \A n \in Inside(w) : to[n] = nxt[n]
  PROVE  IsPath(Nodes, null, w, h, to)
BY DEF IsPath, Inside

(* A new node that points at the head is the head of a longer list.        *)
LEMMA PathPush ==
  ASSUME NEW Nodes, NEW null, NEW w, NEW h, NEW nxt,
         IsPath(Nodes, null, w, h, nxt), NEW n \in Nodes \ Inside(w), nxt[n] = h
  PROVE  LET z == <<n>> \o w IN
         /\ IsPath(Nodes, null, z, n, nxt) /\ Len(z) = Len(w) + 1 /\ Inside(z) = Inside(w) \cup {n}
         /\ z[1] = n /\ \A i \in 2 .. Len(z) : z[i] = w[i - 1]
<1> DEFINE z == <<n>> \o w
<1>1. w \in Seq(Nodes) /\ Len(w) \in Nat /\ \A i \in 1 .. Len(w) : w[i] \in Nodes  BY DEF IsPath
<1>2. /\ z \in Seq(Nodes) /\ Len(z) = Len(w) + 1 /\ z[1] = n
      /\ \A i \in 2 .. Len(z) : z[i] = w[i - 1] /\ i - 1 \in 1 .. Len(w)
  BY <1>1
<1>. HIDE DEF z
<1>3. \A i \in 1 .. Len(w) : z[i + 1] = w[i] /\ i + 1 \in 2 .. Len(z)
  <2>. TAKE i \in 1 .. Len(w)
  <2>1. i + 1 \in 2 .. Len(z) /\ (i + 1) - 1 = i  BY <1>1, <1>2
  <2>. QED  BY <1>2, <2>1
<1>4. Inside(z) = Inside(w) \cup {n}
  <2>1. ASSUME NEW i \in 1 .. Len(z) PROVE z[i] \in Inside(w) \cup {n}
    <3>1. i = 1 \/ i \in 2 .. Len(z)  BY <1>1, <1>2
    <3>. QED  BY <1>2, <3>1 DEF Inside
  <2>2. ASSUME NEW i \in 1 .. Len(w) PROVE w[i] \in Inside(z)
    <3>1. i + 1 \in 1 .. Len(z) /\ z[i + 1] = w[i]  BY <1>1, <1>2, <1>3
    <3>. QED  BY <3>1 DEF Inside
  <2>3. n \in Inside(z)
    <3>1. 1 \in 1 .. Len(z)  BY <1>1, <1>2
    <3>. QED  BY <1>2, <3>1 DEF Inside
  <2>. QED  BY <2>1, <2>2, <2>3 DEF Inside
<1>5. IsPath(Nodes, null, z, n, nxt)
  <2>1. ASSUME NEW i \in 1 .. Len(z), NEW j \in 1 .. Len(z), z[i] = z[j] PROVE i = j
    <3>1. (i = 1 \/ i \in 2 .. Len(z)) /\ (j = 1 \/ j \in 2 .. Len(z))  BY <1>1, <1>2
    <3>2. \A k \in 2 .. Len(z) : z[k] # n  BY <1>2 DEF Inside
    <3>3. CASE i = 1 \/ j = 1  BY <1>2, <2>1, <3>1, <3>2, <3>3
    <3>4. CASE i \in 2 .. Len(z) /\ j \in 2 .. Len(z)
      <4>1. w[i - 1] = w[j - 1] /\ i - 1 \in 1 .. Len(w) /\ j - 1 \in 1 .. Len(w)
        BY <1>2, <2>1, <3>4
      <4>2. i - 1 = j - 1  BY <4>1 DEF IsPath
      <4>. QED  BY <4>2
    <3>. QED  BY <3>1, <3>3, <3>4
  <2>2. ASSUME NEW i \in 1 .. Len(z)
        PROVE  nxt[z[i]] = IF i = Len(z) THEN null ELSE z[i + 1]
    <3>1. CASE i = 1
      <4>1. CASE Len(w) = 0  BY <1>2, <3>1, <4>1 DEF IsPath
      <4>2. CASE Len(w) # 0
        <5>1. 1 \in 1 .. Len(w) /\ z[2] = w[1]  BY <1>1, <1>3, <4>2
        <5>. QED  BY <1>1, <1>2, <3>1, <4>2, <5>1 DEF IsPath
      <4>. QED  BY <4>1, <4>2
    <3>2. CASE i # 1
      <4>1. i \in 2 .. Len(z) /\ i - 1 \in 1 .. Len(w) /\ z[i] = w[i - 1]  BY <1>1, <1>2, <3>2
      <4>2. nxt[w[i - 1]] = IF i - 1 = Len(w) THEN null ELSE w[(i - 1) + 1]
        BY <4>1 DEF IsPath
      <4>3. i - 1 # Len(w) => i \in 1 .. Len(w) /\ z[i + 1] = w[(i - 1) + 1]
        BY <1>1, <1>2, <1>3, <4>1
      <4>. QED  BY <1>1, <1>2, <4>1, <4>2, <4>3
    <3>. QED  BY <3>1, <3>2
  <2>. QED  BY <1>1, <1>2, <2>1, <2>2 DEF IsPath
<1>. QED  BY <1>2, <1>4, <1>5 DEF z

(* From the second node on, a list is a list.                              *)
LEMMA PathPop ==
  ASSUME NEW Nodes, NEW null, NEW w, NEW h, NEW nxt,
         IsPath(Nodes, null, w, h, nxt), h # null
  PROVE  LET z == Tail(w) IN
         /\ h = w[1] /\ h \in Inside(w) /\ IsPath(Nodes, null, z, nxt[h], nxt)
         /\ Len(w) \in Nat \ {0} /\ Len(z) = Len(w) - 1 /\ Inside(z) = Inside(w) \ {h}
         /\ \A i \in 1 .. Len(z) : z[i] = w[i + 1]
<1> DEFINE z == Tail(w)
<1>1. /\ w \in Seq(Nodes) /\ Len(w) \in Nat \ {0} /\ h = w[1]
      /\ \A i \in 1 .. Len(w) : w[i] \in Nodes
  BY DEF IsPath
<1>2. /\ z \in Seq(Nodes) /\ Len(z) = Len(w) - 1 /\ Len(z) \in Nat
      /\ \A i \in 1 .. Len(z) : z[i] = w[i + 1] /\ i + 1 \in 1 .. Len(w)
  <2>1. w # <<>>  BY <1>1
  <2>2. z \in Seq(Nodes) /\ Len(z) = Len(w) - 1  BY <1>1, <2>1
  <2>. QED  BY <1>1, <2>1, <2>2
<1>. HIDE DEF z
<1>3. h \in Inside(w)  BY <1>1 DEF Inside
<1>4. \A i \in 1 .. Len(w) : i = 1 \/ (i - 1 \in 1 .. Len(z) /\ z[i - 1] = w[i])
  <2>. TAKE i \in 1 .. Len(w)
  <2>1. CASE i # 1
    <3>1. i - 1 \in 1 .. Len(z) /\ (i - 1) + 1 = i  BY <1>1, <1>2, <2>1
    <3>. QED  BY <1>2, <3>1
  <2>. QED  BY <2>1
<1>5. \A i \in 1 .. Len(z) : z[i] # h
  <2>. TAKE i \in 1 .. Len(z)
  <2>1. z[i] = w[i + 1] /\ i + 1 \in 1 .. Len(w) /\ 1 \in 1 .. Len(w) /\ i + 1 # 1
    BY <1>1, <1>2
  <2>. QED  BY <1>1, <2>1 DEF IsPath
<1>6. Inside(z) = Inside(w) \ {h}  BY <1>1, <1>2, <1>4, <1>5, SMTT(30) DEF Inside
<1>7. IsPath(Nodes, null, z, nxt[h], nxt)
  <2>1. ASSUME NEW i \in 1 .. Len(z), NEW j \in 1 .. Len(z), z[i] = z[j] PROVE i = j
    <3>1. w[i + 1] = w[j + 1] /\ i + 1 \in 1 .. Len(w) /\ j + 1 \in 1 .. Len(w)
      BY <1>2, <2>1
    <3>2. i + 1 = j + 1  BY <3>1 DEF IsPath
    <3>. QED  BY <3>2
  <2>2. nxt[h] = IF Len(z) = 0 THEN null ELSE z[1]
    <3>1. 1 \in 1 .. Len(w)  BY <1>1
    <3>2. nxt[w[1]] = IF 1 = Len(w) THEN null ELSE w[1 + 1]  BY <3>1 DEF IsPath
    <3>. QED  BY <1>1, <1>2, <3>2
  <2>3. ASSUME NEW i \in 1 .. Len(z)
        PROVE  nxt[z[i]] = IF i = Len(z) THEN null ELSE z[i + 1]
    <3>1. z[i] = w[i + 1] /\ i + 1 \in 1 .. Len(w)  BY <1>2
    <3>2. nxt[w[i + 1]] = IF i + 1 = Len(w) THEN null ELSE w[(i + 1) + 1]
      BY <3>1 DEF IsPath
    <3>3. i # Len(z) => i + 1 \in 1 .. Len(z)  BY <1>2
    <3>. QED  BY <1>1, <1>2, <3>1, <3>2, <3>3
  <2>. QED  BY <1>2, <2>1, <2>2, <2>3 DEF IsPath
<1>. QED  BY <1>1, <1>2, <1>3, <1>6, <1>7 DEF z

(* z and to are the list w and its links nxt with n put behind the last.   *)
Appended(Nodes, null, w, h, nxt, n, z, to) ==
  /\ IsPath(Nodes, null, w, h, nxt) /\ Len(w) # 0
  /\ n \in Nodes \ Inside(w) /\ z = Append(w, n)
  /\ to[n] = null /\ to[w[Len(w)]] = n
  /\ \A m \in Inside(w) \ {w[Len(w)]} : to[m] = nxt[m]

(* Linking a node behind the last one makes the list longer by it.         *)
LEMMA PathAppend ==
  ASSUME NEW Nodes, NEW null, NEW w, NEW h, NEW nxt, NEW n, NEW z, NEW to,
         Appended(Nodes, null, w, h, nxt, n, z, to)
  PROVE  /\ IsPath(Nodes, null, z, h, to) /\ Len(z) = Len(w) + 1 /\ z[Len(z)] = n
         /\ Inside(z) = Inside(w) \cup {n} /\ \A i \in 1 .. Len(w) : z[i] = w[i]
<1>. USE DEF Appended
<1>1. w \in Seq(Nodes) /\ Len(w) \in Nat \ {0} /\ \A i \in 1 .. Len(w) : w[i] \in Nodes
  BY DEF IsPath
<1>2. /\ z \in Seq(Nodes) /\ Len(z) = Len(w) + 1 /\ z[Len(z)] = n
      /\ \A i \in 1 .. Len(w) : z[i] = w[i]
  BY <1>1
<1>3. \A i \in 1 .. Len(z) : i \in 1 .. Len(w) \/ i = Len(z)  BY <1>1, <1>2
<1>4. Inside(z) = Inside(w) \cup {n}
  <2>1. \A i \in 1 .. Len(w) : i \in 1 .. Len(z)  BY <1>1, <1>2
  <2>2. Len(z) \in 1 .. Len(z)  BY <1>1, <1>2
  <2>. QED  BY <1>2, <1>3, <2>1, <2>2 DEF Inside
<1>5. IsPath(Nodes, null, z, h, to)
  <2>1. ASSUME NEW i \in 1 .. Len(z), NEW j \in 1 .. Len(z), z[i] = z[j] PROVE i = j
    <3>1. \A k \in 1 .. Len(w) : w[k] # n  BY DEF Inside
    <3>. QED  BY <1>2, <1>3, <2>1, <3>1 DEF IsPath
  <2>2. h = IF Len(z) = 0 THEN null ELSE z[1]
    <3>1. 1 \in 1 .. Len(w)  BY <1>1
    <3>. QED  BY <1>1, <1>2, <3>1 DEF IsPath
  <2>3. ASSUME NEW i \in 1 .. Len(z)
        PROVE  to[z[i]] = IF i = Len(z) THEN null ELSE z[i + 1]
    <3>1. CASE i = Len(z)  BY <1>2, <3>1
    <3>2. CASE i = Len(w)
      <4>1. i \in 1 .. Len(w) /\ i + 1 = Len(z) /\ i # Len(z)  BY <1>1, <1>2, <3>2
      <4>. QED  BY <1>2, <3>2, <4>1
    <3>3. CASE i # Len(z) /\ i # Len(w)
      <4>1. i \in 1 .. Len(w) /\ i + 1 \in 1 .. Len(w) /\ Len(w) \in 1 .. Len(w)
        BY <1>1, <1>2, <1>3, <3>3
      <4>2. w[i] # w[Len(w)]  BY <3>3, <4>1 DEF IsPath
      <4>3. to[w[i]] = nxt[w[i]]  BY <4>1, <4>2 DEF Inside
      <4>4. nxt[w[i]] = w[i + 1]  BY <3>3, <4>1 DEF IsPath
      <4>. QED  BY <1>2, <3>3, <4>1, <4>3, <4>4
    <3>. QED  BY <3>1, <3>2, <3>3
  <2>. QED  BY <1>2, <2>1, <2>2, <2>3 DEF IsPath
<1>. QED  BY <1>2, <1>4, <1>5

(* Only the last node points at null, and no node at the head.             *)
LEMMA PathLinks ==
  ASSUME NEW Nodes, NEW null, null \notin Nodes, NEW w, NEW h, NEW nxt,
         IsPath(Nodes, null, w, h, nxt), NEW n \in Inside(w)
  PROVE  /\ n \in Nodes /\ Len(w) \in Nat \ {0} /\ h = w[1] /\ h \in Inside(w)
         /\ w[Len(w)] \in Inside(w)
         /\ nxt[n] = null <=> n = w[Len(w)]
         /\ nxt[n] # null => nxt[n] \in Inside(w) \ {h, n}
         /\ n # h => nxt[h] # null /\ Len(w) >= 2 /\ nxt[h] = w[2]
         /\ nxt[h] # null => Len(w) >= 2 /\ nxt[h] = w[2]
<1>1. w \in Seq(Nodes) /\ Len(w) \in Nat  BY DEF IsPath
<1>2. PICK i \in 1 .. Len(w) : n = w[i]  BY DEF Inside
<1>3. Len(w) # 0 /\ 1 \in 1 .. Len(w) /\ Len(w) \in 1 .. Len(w)  BY <1>1, <1>2
<1>4. h = w[1]  BY <1>1, <1>3 DEF IsPath
<1>5. h \in Inside(w) /\ w[Len(w)] \in Inside(w)  BY <1>3, <1>4 DEF Inside
<1>6. nxt[n] = IF i = Len(w) THEN null ELSE w[i + 1]  BY <1>2 DEF IsPath
<1>7. \A j \in 1 .. Len(w) : w[j] \in Nodes /\ w[j] \in Inside(w)  BY <1>1 DEF Inside
<1>8. nxt[n] = null <=> n = w[Len(w)]
  <2>1. i # Len(w) => i + 1 \in 1 .. Len(w)  BY <1>1
  <2>2. n = w[Len(w)] => i = Len(w)  BY <1>2, <1>3 DEF IsPath
  <2>. QED  BY <1>2, <1>6, <1>7, <2>1, <2>2
<1>9. nxt[n] # null => nxt[n] \in Inside(w) \ {h, n}
  <2>. SUFFICES ASSUME nxt[n] # null PROVE nxt[n] \in Inside(w) \ {h, n}  OBVIOUS
  <2>1. i # Len(w) /\ nxt[n] = w[i + 1]  BY <1>6
  <2>2. i + 1 \in 1 .. Len(w) /\ i + 1 # 1 /\ i + 1 # i  BY <1>1, <2>1
  <2>3. w[i + 1] # w[1] /\ w[i + 1] # w[i]  BY <1>3, <2>2 DEF IsPath
  <2>. QED  BY <1>2, <1>4, <1>7, <2>1, <2>2, <2>3
<1>10. nxt[h] = IF 1 = Len(w) THEN null ELSE w[2]
  <2>1. nxt[w[1]] = IF 1 = Len(w) THEN null ELSE w[1 + 1]  BY <1>3 DEF IsPath
  <2>. QED  BY <1>4, <2>1
<1>11. Len(w) # 1 => Len(w) >= 2 /\ w[2] # null
  <2>. SUFFICES ASSUME Len(w) # 1 PROVE Len(w) >= 2 /\ w[2] # null  OBVIOUS
  <2>1. Len(w) >= 2 /\ 2 \in 1 .. Len(w)
    <3>1. PICK m : m = Len(w)  OBVIOUS
    <3>2. m \in Nat /\ m # 0 /\ m # 1  BY <1>1, <1>3, <3>1
    <3>3. m >= 2 /\ 2 \in 1 .. m  BY <3>2
    <3>. QED  BY <3>1, <3>3
  <2>. QED  BY <1>7, <2>1
<1>12. n # h => Len(w) # 1  BY <1>1, <1>2, <1>4
<1>. QED  BY <1>1, <1>2, <1>3, <1>4, <1>5, <1>7, <1>8, <1>9, <1>10, <1>11, <1>12

----------------------------------------------------------------------------
(* The stack *)

(* At most one thread pops, the way of sharing that frees nodes safely.    *)
OnePopper == \A t, u \in Popper : t = u

(* w is what the stack holds, and every other allocated node is in the     *)
(* hands of one thread.                                                    *)
Owned(w) ==
  /\ IsPath(Node, Null, w, head, next)
  /\ live = Inside(w) \cup {node[t] : t \in Pushing} \cup {old[t] : t \in Popped}
  /\ IsFiniteSet(Pushing) /\ IsFiniteSet(Popped)
  /\ Cardinality(live) = Len(w) + Cardinality(Pushing) + Cardinality(Popped)
  /\ \A t \in Pushing : node[t] \in Node \ Inside(w)
  /\ \A t, u \in Pushing : node[t] = node[u] => t = u
  /\ \A t \in Popped : old[t] \in Node \ Inside(w)
  /\ \A t \in Pushing, u \in Popped : node[t] # old[u]
  /\ \A n \in live : value[n] \in Value

(* What a thread has read of the stack still holds. *)
Current(w) ==
  /\ \A t \in Pusher : /\ pc[t] \in {"idle", "link", "push"}
                       /\ pc[t] = "push" => next[node[t]] = old[t]
  /\ \A t \in Popper : /\ pc[t] \in {"idle", "next", "pop", "reclaim"}
                       /\ pc[t] \in {"next", "pop"} => old[t] \in Inside(w)
                       /\ pc[t] = "pop" => succ[t] = next[old[t]]

(* Some sequence of nodes is the stack, and the threads fit it.            *)
StackInv == TypeOK /\ \E w : Owned(w) /\ Current(w)

(* The values on the stack, top first.                                     *)
Items(w) == [i \in 1 .. Len(w) |-> value[w[i]]]
(* What each popping thread has got: a pop takes effect at its exchange.   *)
Got == [t \in Popper |-> IF pc[t] = "reclaim" THEN value[old[t]] ELSE result[t]]

(* A step of the abstract stack, or none, while the list goes from w to z. *)
Moves(w, z) ==
  \/ Items(z)' = Items(w) /\ Got' = Got
  \/ Got' = Got /\ \E v \in Value : Items(z)' = <<v>> \o Items(w)
  \/ \E p \in Popper : /\ Items(w) # <<>>
                       /\ Got' = [Got EXCEPT ![p] = Head(Items(w))]
                       /\ Items(z)' = Tail(Items(w))

(* A step turns the stack w into another that fits, as a stack may change. *)
Goes(w) == \E z : Owned(z)' /\ Current(z)' /\ Moves(w, z)

(* Steps keep the types.                                                   *)
LEMMA TypeKept ==
  ASSUME TypeOK, Next, StackInv
  PROVE  TypeOK'
<1>. USE DEF TypeOK, Goto
<1>1. ASSUME NEW t \in Pusher, PushStep(t) PROVE TypeOK'
  <2>. t \in Thread /\ t \notin Popper  BY StackAssumption DEF Thread
  <2>1. ASSUME NEW v \in Value, PushAlloc(t, v) PROVE TypeOK'
    BY <2>1 DEF PushAlloc, Pointer, Thread
  <2>2. CASE PushLink(t)  BY <2>2 DEF PushLink, Pointer, Thread
  <2>3. CASE PushCAS(t)  BY <2>3 DEF PushCAS, Pointer, Thread
  <2>. QED  BY <1>1, <2>1, <2>2, <2>3 DEF PushStep
<1>2. ASSUME NEW t \in Popper, PopStep(t) PROVE TypeOK'
  <2>. t \in Thread  BY DEF Thread
  <2>1. CASE PopLoad(t)  BY <2>1 DEF PopLoad, Pointer, Thread
  <2>2. CASE PopNext(t)  BY <2>2 DEF PopNext, Pointer, Thread
  <2>3. CASE PopCAS(t)  BY <2>3 DEF PopCAS, Pointer, Thread
  <2>4. CASE PopReclaim(t)
    <3>1. old[t] \in Node /\ value[old[t]] \in Value \cup {None}  BY <2>4 DEF PopReclaim
    <3>. QED  BY <2>4, <3>1 DEF PopReclaim, Thread
  <2>. QED  BY <1>2, <2>1, <2>2, <2>3, <2>4 DEF PopStep
<1>. QED  BY <1>1, <1>2 DEF Next

(* The threads' places, one step later. *)
LEMMA Places ==
  ASSUME TypeOK, NEW t \in Thread, NEW l, Goto(t, l)
  PROVE  /\ pc'[t] = l /\ \A u \in Thread \ {t} : pc'[u] = pc[u]
         /\ Pushing' \ {t} = Pushing \ {t} /\ Popped' \ {t} = Popped \ {t}
         /\ t \in Pushing' <=> t \in Pusher /\ l \in {"link", "push"}
         /\ t \in Popped' <=> t \in Popper /\ l = "reclaim"
<1>1. pc'[t] = l /\ \A u \in Thread \ {t} : pc'[u] = pc[u]  BY DEF TypeOK, Goto
<1>. QED  BY <1>1 DEF Pushing, Popped, Thread

(* The nodes on the stack are allocated ones.                              *)
LEMMA InsideOwned ==
  ASSUME NEW w, Owned(w)
  PROVE  /\ w \in Seq(Node) /\ Len(w) \in Nat /\ Inside(w) \subseteq live
         /\ \A i \in 1 .. Len(w) : w[i] \in Inside(w)
BY DEF Owned, IsPath, Inside

(* Allocating a node: it is held by the thread that pushes, and not on the *)
(* stack.                                                                  *)
LEMMA AllocGoes ==
  ASSUME TypeOK, NEW w, Owned(w), Current(w), NEW t \in Pusher, NEW v \in Value, PushAlloc(t, v)
  PROVE  Goes(w)
<1>1. PICK n \in Node \ live : /\ live' = live \cup {n}
                               /\ node' = [node EXCEPT ![t] = n]
                               /\ value' = [value EXCEPT ![n] = v]
                               /\ next' = [next EXCEPT ![n] = Null]
  BY DEF PushAlloc
<1>2. UNCHANGED <<head, old, succ, result>> /\ Goto(t, "link") /\ pc[t] = "idle"  BY DEF PushAlloc
<1>3. t \in Thread /\ t \notin Popper  BY StackAssumption DEF Thread
<1>4. /\ pc'[t] = "link" /\ \A u \in Thread \ {t} : pc'[u] = pc[u]
      /\ Pushing' = Pushing \cup {t} /\ t \notin Pushing /\ Popped' = Popped
  BY <1>2, <1>3, Places DEF Pushing, Popped
<1>5. /\ node'[t] = n /\ \A u \in Pusher \ {t} : node'[u] = node[u]
      /\ \A m \in live : value'[m] = value[m] /\ next'[m] = next[m]
      /\ value'[n] = v
  BY <1>1 DEF TypeOK
<1>6. Inside(w) \subseteq live /\ (\A i \in 1 .. Len(w) : w[i] \in Inside(w))
      /\ {node[u] : u \in Pushing} \subseteq live /\ {old[u] : u \in Popped} \subseteq live
  BY InsideOwned DEF Owned
<1>7. Owned(w)'
  <2>1. IsPath(Node, Null, w, head', next')  BY <1>2, <1>5, <1>6, PathFrame DEF Owned
  <2>2. live' = Inside(w) \cup {node'[u] : u \in Pushing'} \cup {old'[u] : u \in Popped'}
    <3>1. {node'[u] : u \in Pushing'} = {node[u] : u \in Pushing} \cup {n}
      BY <1>4, <1>5 DEF Pushing
    <3>2. {old'[u] : u \in Popped'} = {old[u] : u \in Popped}  BY <1>2, <1>4
    <3>3. live = Inside(w) \cup {node[u] : u \in Pushing} \cup {old[u] : u \in Popped}
      BY DEF Owned
    <3>. HIDE DEF Pushing, Popped, Inside
    <3>. QED  BY <1>1, <3>1, <3>2, <3>3, Zenon
  <2>3. IsFiniteSet(live)  BY StackAssumption, FS_Subset DEF TypeOK
  <2>4. Cardinality(live') = Cardinality(live) + 1  BY <1>1, <2>3, FS_AddElement
  <2>5. IsFiniteSet(Pushing') /\ Cardinality(Pushing') = Cardinality(Pushing) + 1
    BY <1>4, FS_AddElement DEF Owned
  <2>6. Cardinality(live') = Len(w) + Cardinality(Pushing') + Cardinality(Popped')
    <3>1. Cardinality(Pushing) \in Nat /\ Cardinality(Popped) \in Nat /\ Len(w) \in Nat
      BY FS_CardinalityType, InsideOwned DEF Owned
    <3>. QED  BY <1>4, <2>4, <2>5, <3>1 DEF Owned
  <2>7. \A u \in Pushing' : node'[u] \in Node \ Inside(w)
    BY <1>4, <1>5, <1>6 DEF Owned, Pushing
  <2>8. \A u, r \in Pushing' : node'[u] = node'[r] => u = r
    BY <1>4, <1>5, <1>6 DEF Owned, Pushing
  <2>9. \A u \in Pushing', r \in Popped' : node'[u] # old'[r]
    BY <1>2, <1>4, <1>5, <1>6 DEF Owned, Pushing
  <2>10. \A m \in live' : value'[m] \in Value  BY <1>1, <1>5 DEF Owned
  <2>11. \A u \in Popped' : old'[u] \in Node \ Inside(w)  BY <1>2, <1>4 DEF Owned
  <2>12. Inside(w)' = Inside(w)  BY DEF Inside
  <2>. QED  BY <1>4, <2>1, <2>2, <2>5, <2>6, <2>7, <2>8, <2>9, <2>10, <2>11, <2>12 DEF Owned
<1>8. Current(w)'
  <2>1. \A u \in Pusher \ {t} : pc[u] = "push" => node[u] \in live
    BY <1>6 DEF Pushing
  <2>2. \A u \in Popper : pc'[u] = pc[u]  BY <1>3, <1>4 DEF Thread
  <2>3. \A u \in Pusher \ {t} : pc'[u] = pc[u]  BY <1>4 DEF Thread
  <2>. QED  BY <1>2, <1>4, <1>5, <1>6, <2>1, <2>2, <2>3 DEF Current, Inside
<1>9. Moves(w, w)
  <2>1. Items(w)' = Items(w)  BY <1>5, <1>6 DEF Items
  <2>2. Got' = Got
    <3>1. ASSUME NEW u \in Popper PROVE Got'[u] = Got[u]
      <4>1. pc'[u] = pc[u]  BY <1>3, <1>4 DEF Thread
      <4>2. pc[u] = "reclaim" => old[u] \in live  BY <1>6 DEF Popped
      <4>. QED  BY <1>2, <1>5, <4>1, <4>2 DEF Got
    <3>. QED  BY <3>1 DEF Got
  <2>. QED  BY <2>1, <2>2 DEF Moves
<1>. QED  BY <1>7, <1>8, <1>9 DEF Goes

(* Steps that leave the list and its nodes to their owners. *)
LEMMA OwnedKept ==
  ASSUME NEW w, Owned(w), UNCHANGED <<head, live, value, node>>,
         Pushing' = Pushing, Popped' = Popped,
         \A u \in Popped : old'[u] = old[u], \A n \in Inside(w) : next'[n] = next[n]
  PROVE  Owned(w)' /\ Items(w)' = Items(w)
<1>1. IsPath(Node, Null, w, head', next')  BY PathFrame DEF Owned
<1>2. {node'[u] : u \in Pushing'} = {node[u] : u \in Pushing}  OBVIOUS
<1>3. {old'[u] : u \in Popped'} = {old[u] : u \in Popped}  OBVIOUS
<1>4. live' = Inside(w) \cup {node'[u] : u \in Pushing'} \cup {old'[u] : u \in Popped'}
  BY <1>2, <1>3 DEF Owned
<1>5. Inside(w)' = Inside(w)  BY DEF Inside
<1>. HIDE DEF Pushing, Popped, Inside
<1>. QED  BY <1>1, <1>4, <1>5 DEF Owned, Items

(* Setting the next field of a node not yet pushed.                        *)
LEMMA LinkGoes ==
  ASSUME TypeOK, NEW w, Owned(w), Current(w), NEW t \in Pusher, PushLink(t)
  PROVE  Goes(w)
<1>1. /\ pc[t] = "link" /\ Goto(t, "push")
      /\ old' = [old EXCEPT ![t] = head] /\ next' = [next EXCEPT ![node[t]] = head]
      /\ UNCHANGED <<head, live, value, node, succ, result>>
  BY DEF PushLink
<1>2. t \in Thread /\ t \notin Popper  BY StackAssumption DEF Thread
<1>3. /\ pc'[t] = "push" /\ \A u \in Thread \ {t} : pc'[u] = pc[u]
      /\ t \in Pushing /\ Pushing' = Pushing /\ Popped' = Popped
  BY <1>1, <1>2, Places DEF Pushing, Popped
<1>4. /\ old'[t] = head /\ \A u \in Thread \ {t} : old'[u] = old[u]
      /\ next'[node[t]] = head /\ \A n \in Node \ {node[t]} : next'[n] = next[n]
  BY <1>1, <1>2, <1>3 DEF TypeOK, Owned
<1>5. /\ node[t] \in Node \ Inside(w) /\ Inside(w) \subseteq Node
      /\ \A u \in Pushing \ {t} : node[u] \in Node \ {node[t]}
      /\ \A u \in Popper : u \in Thread \ {t}
  BY <1>2, <1>3, InsideOwned DEF Owned, TypeOK, Thread
<1>6. Owned(w)' /\ Items(w)' = Items(w)
  <2>1. \A u \in Popped : old'[u] = old[u]  BY <1>4, <1>5 DEF Popped
  <2>2. \A n \in Inside(w) : next'[n] = next[n]  BY <1>4, <1>5
  <2>. QED  BY <1>1, <1>3, <2>1, <2>2, OwnedKept
<1>7. Current(w)'
  <2>1. ASSUME NEW u \in Pusher
        PROVE  /\ pc'[u] \in {"idle", "link", "push"}
               /\ pc'[u] = "push" => next'[node'[u]] = old'[u]
    <3>1. CASE u = t  BY <1>1, <1>3, <1>4, <3>1
    <3>2. CASE u # t
      <4>1. u \in Thread \ {t} /\ pc'[u] = pc[u]  BY <1>3, <3>2 DEF Thread
      <4>2. pc[u] = "push" => u \in Pushing \ {t}  BY <3>2 DEF Pushing
      <4>. QED  BY <1>1, <1>4, <1>5, <4>1, <4>2 DEF Current
    <3>. QED  BY <3>1, <3>2
  <2>2. ASSUME NEW u \in Popper
        PROVE  /\ pc'[u] \in {"idle", "next", "pop", "reclaim"}
               /\ pc'[u] \in {"next", "pop"} => old'[u] \in Inside(w)
               /\ pc'[u] = "pop" => succ'[u] = next'[old'[u]]
    <3>1. pc'[u] = pc[u] /\ old'[u] = old[u] /\ succ'[u] = succ[u]  BY <1>1, <1>3, <1>4, <1>5
    <3>. QED  BY <1>4, <1>5, <3>1 DEF Current
  <2>3. Inside(w)' = Inside(w)  BY DEF Inside
  <2>. QED  BY <2>1, <2>2, <2>3 DEF Current
<1>8. Got' = Got  BY <1>1, <1>3, <1>4, <1>5 DEF Got
<1>. QED  BY <1>6, <1>7, <1>8 DEF Goes, Moves

(* The exchange of a push: the node becomes the top, or head was changed.  *)
LEMMA PushGoes ==
  ASSUME TypeOK, NEW w, Owned(w), Current(w), NEW t \in Pusher, PushCAS(t)
  PROVE  Goes(w)
<1>1. pc[t] = "push" /\ UNCHANGED <<live, next, value, node, old, succ, result>>  BY DEF PushCAS
<1>2. t \in Thread /\ t \notin Popper /\ \A u \in Popper : u \in Thread \ {t}
  BY StackAssumption DEF Thread
<1>3. t \in Pushing  BY <1>1 DEF Pushing
<1>4. CASE UNCHANGED head /\ Goto(t, "link")
  <2>1. /\ pc'[t] = "link" /\ \A u \in Thread \ {t} : pc'[u] = pc[u]
        /\ Pushing' = Pushing /\ Popped' = Popped
    BY <1>2, <1>3, <1>4, Places DEF Popped
  <2>2. Owned(w)' /\ Items(w)' = Items(w)  BY <1>1, <1>4, <2>1, OwnedKept
  <2>3. Current(w)'  BY <1>1, <1>2, <2>1 DEF Current, Inside, Thread
  <2>4. Got' = Got  BY <1>1, <1>2, <2>1 DEF Got
  <2>. QED  BY <2>2, <2>3, <2>4 DEF Goes, Moves
<1>5. CASE head = old[t] /\ head' = node[t] /\ Goto(t, "idle")
  <2>1. /\ pc'[t] = "idle" /\ \A u \in Thread \ {t} : pc'[u] = pc[u]
        /\ Pushing' = Pushing \ {t} /\ Popped' = Popped
    BY <1>2, <1>3, <1>5, Places DEF Popped
  <2>a. PICK n, z : n = node[t] /\ z = <<n>> \o w  OBVIOUS
  <2>2. n \in Node \ Inside(w) /\ next[n] = head /\ n \in live
    BY <1>1, <1>3, <1>5, <2>a DEF Owned, Current
  <2>3. /\ IsPath(Node, Null, z, n, next) /\ Len(z) = Len(w) + 1 /\ Inside(z) = Inside(w) \cup {n}
        /\ z[1] = n /\ \A i \in 2 .. Len(z) : z[i] = w[i - 1]
    BY <2>2, <2>a, PathPush DEF Owned
  <2>4. Owned(z)'
    <3>1. live' = Inside(z) \cup {node'[u] : u \in Pushing'} \cup {old'[u] : u \in Popped'}
      <4>1. {node[u] : u \in Pushing} = {node'[u] : u \in Pushing'} \cup {n}
        BY <1>1, <1>3, <2>a, <2>1
      <4>2. {old'[u] : u \in Popped'} = {old[u] : u \in Popped}  BY <1>1, <2>1
      <4>3. live = Inside(w) \cup {node[u] : u \in Pushing} \cup {old[u] : u \in Popped}
        BY DEF Owned
      <4>. QED  BY <1>1, <2>3, <4>1, <4>2, <4>3, Zenon
    <3>2. /\ IsFiniteSet(Pushing') /\ Cardinality(Pushing') = Cardinality(Pushing) - 1
      BY <1>3, <2>1, FS_RemoveElement DEF Owned
    <3>3. Cardinality(live') = Len(z) + Cardinality(Pushing') + Cardinality(Popped')
      <4>1. Cardinality(Pushing) \in Nat /\ Cardinality(Popped) \in Nat /\ Len(w) \in Nat
        BY FS_CardinalityType, InsideOwned DEF Owned
      <4>. QED  BY <1>1, <2>1, <2>3, <3>2, <4>1 DEF Owned
    <3>4. \A u \in Pushing' : node'[u] \in Node \ Inside(z)
      BY <1>1, <1>3, <2>1, <2>3, <2>a DEF Owned
    <3>5. \A u, r \in Pushing' : node'[u] = node'[r] => u = r  BY <1>1, <2>1 DEF Owned
    <3>6. \A u \in Popped' : old'[u] \in Node \ Inside(z)
      BY <1>1, <1>3, <2>1, <2>3, <2>a DEF Owned
    <3>7. \A u \in Pushing', r \in Popped' : node'[u] # old'[r]  BY <1>1, <2>1 DEF Owned
    <3>8. \A m \in live' : value'[m] \in Value  BY <1>1 DEF Owned
    <3>9. IsPath(Node, Null, z, head', next') /\ Inside(z)' = Inside(z)
      BY <1>1, <1>5, <2>3, <2>a DEF Inside
    <3>. QED
      BY <2>1, <3>1, <3>2, <3>3, <3>4, <3>5, <3>6, <3>7, <3>8, <3>9 DEF Owned
  <2>5. Current(z)'
    <3>1. Inside(w) \subseteq Inside(z) /\ Inside(z)' = Inside(z)  BY <2>3 DEF Inside
    <3>. QED  BY <1>1, <1>2, <2>1, <3>1 DEF Current, Thread
  <2>6. Got' = Got  BY <1>1, <1>2, <2>1 DEF Got
  <2>7. Items(z)' = <<value[n]>> \o Items(w)
    <3>1. Len(w) \in Nat /\ \A i \in 1 .. Len(w) : w[i] \in live  BY InsideOwned
    <3>2. Items(w) \in Seq(Value) /\ Len(Items(w)) = Len(w)
      <4>1. \A i \in 1 .. Len(w) : value[w[i]] \in Value  BY <3>1 DEF Owned
      <4>. QED  BY <3>1, <4>1 DEF Items
    <3>3. value[n] \in Value  BY <2>2 DEF Owned
    <3>. DEFINE y == <<value[n]>> \o Items(w)
    <3>4. y \in Seq(Value) /\ Len(y) = Len(w) + 1  BY <3>1, <3>2, <3>3
    <3>5. \A i \in 1 .. Len(z) : y[i] = value[z[i]]
      <4>. TAKE i \in 1 .. Len(z)
      <4>1. CASE i = 1  BY <2>3, <3>2, <3>3, <4>1
      <4>2. CASE i # 1
        <5>1. i \in 2 .. Len(z) /\ i - 1 \in 1 .. Len(w)  BY <2>3, <3>1, <4>2
        <5>2. y[i] = Items(w)[i - 1]  BY <3>1, <3>2, <3>3, <5>1
        <5>3. Items(w)[i - 1] = value[w[i - 1]]  BY <5>1 DEF Items
        <5>. QED  BY <2>3, <5>1, <5>2, <5>3
      <4>. QED  BY <4>1, <4>2
    <3>6. Items(z)' = [i \in 1 .. Len(z) |-> value[z[i]]]  BY <1>1 DEF Items
    <3>. HIDE DEF y
    <3>7. y = [i \in 1 .. Len(y) |-> y[i]]  BY <3>4
    <3>8. [i \in 1 .. Len(y) |-> y[i]] = [i \in 1 .. Len(z) |-> value[z[i]]]
      BY <2>3, <3>4, <3>5
    <3>. QED  BY <3>6, <3>7, <3>8 DEF y
  <2>8. value[n] \in Value  BY <2>2 DEF Owned
  <2>. QED  BY <2>4, <2>5, <2>6, <2>7, <2>8 DEF Goes, Moves
<1>. QED  BY <1>4, <1>5 DEF PushCAS

(* A pop reads head.                                                       *)
LEMMA LoadGoes ==
  ASSUME TypeOK, NEW w, Owned(w), Current(w), NEW t \in Popper, PopLoad(t)
  PROVE  Goes(w)
<1>1. /\ pc[t] = "idle" /\ head # Null /\ old' = [old EXCEPT ![t] = head] /\ Goto(t, "next")
      /\ UNCHANGED <<head, live, next, value, node, succ, result>>
  BY DEF PopLoad
<1>2. t \in Thread /\ t \notin Pusher /\ \A u \in Pusher : u \in Thread \ {t}
  BY StackAssumption DEF Thread
<1>3. /\ pc'[t] = "next" /\ \A u \in Thread \ {t} : pc'[u] = pc[u]
      /\ Pushing' = Pushing /\ Popped' = Popped /\ t \notin Popped
  BY <1>1, <1>2, Places DEF Pushing, Popped
<1>4. old'[t] = head /\ \A u \in Thread \ {t} : old'[u] = old[u]  BY <1>1, <1>2 DEF TypeOK
<1>5. \A u \in Popped : u \in Thread \ {t}  BY <1>3 DEF Popped, Thread
<1>6. Owned(w)' /\ Items(w)' = Items(w)  BY <1>1, <1>3, <1>4, <1>5, OwnedKept
<1>7. head \in Inside(w)  BY <1>1, PathPop DEF Owned
<1>8. Current(w)'  BY <1>1, <1>2, <1>3, <1>4, <1>7 DEF Current, Inside, Thread
<1>9. Got' = Got  BY <1>1, <1>3, <1>4 DEF Got, Thread
<1>. QED  BY <1>6, <1>8, <1>9 DEF Goes, Moves

(* A pop reads the next field of what it takes for the top.                *)
LEMMA NextGoes ==
  ASSUME TypeOK, NEW w, Owned(w), Current(w), NEW t \in Popper, PopNext(t)
  PROVE  Goes(w)
<1>1. /\ pc[t] = "next" /\ Goto(t, "pop")
      /\ UNCHANGED <<head, live, next, value, node, old, result>>
  BY DEF PopNext
<1>2. t \in Thread /\ t \notin Pusher /\ \A u \in Pusher : u \in Thread \ {t}
  BY StackAssumption DEF Thread
<1>3. /\ pc'[t] = "pop" /\ \A u \in Thread \ {t} : pc'[u] = pc[u]
      /\ Pushing' = Pushing /\ Popped' = Popped
  BY <1>1, <1>2, Places DEF Pushing, Popped
<1>4. Owned(w)' /\ Items(w)' = Items(w)  BY <1>1, <1>3, OwnedKept
<1>5. old[t] \in Inside(w) /\ old[t] \in live  BY <1>1, InsideOwned DEF Current
<1>6. succ'[t] = next[old[t]] /\ \A u \in Popper \ {t} : succ'[u] = succ[u]
  BY <1>5 DEF PopNext, TypeOK
<1>7. Current(w)'  BY <1>1, <1>2, <1>3, <1>5, <1>6 DEF Current, Inside, Thread
<1>8. Got' = Got  BY <1>1, <1>3 DEF Got, Thread
<1>. QED  BY <1>4, <1>7, <1>8 DEF Goes, Moves

(* The exchange of a pop: the top leaves the stack, or head was changed.   *)
LEMMA PopGoes ==
  ASSUME OnePopper, TypeOK, NEW w, Owned(w), Current(w), NEW t \in Popper, PopCAS(t)
  PROVE  Goes(w)
<1>1. pc[t] = "pop" /\ UNCHANGED <<live, next, value, node, old, succ, result>>  BY DEF PopCAS
<1>2. t \in Thread /\ t \notin Pusher /\ (\A u \in Pusher : u \in Thread \ {t})
      /\ \A u \in Popper : u = t
  BY StackAssumption DEF Thread, OnePopper
<1>3. t \notin Popped /\ old[t] \in Inside(w) /\ succ[t] = next[old[t]]
  BY <1>1 DEF Popped, Current
<1>4. CASE UNCHANGED head /\ Goto(t, "idle")
  <2>1. /\ pc'[t] = "idle" /\ \A u \in Thread \ {t} : pc'[u] = pc[u]
        /\ Pushing' = Pushing /\ Popped' = Popped
    BY <1>2, <1>3, <1>4, Places DEF Pushing
  <2>2. Owned(w)' /\ Items(w)' = Items(w)  BY <1>1, <1>4, <2>1, OwnedKept
  <2>3. Current(w)'  BY <1>1, <1>2, <2>1 DEF Current, Inside, Thread
  <2>4. Got' = Got  BY <1>1, <1>2, <2>1 DEF Got
  <2>. QED  BY <2>2, <2>3, <2>4 DEF Goes, Moves
<1>5. CASE head = old[t] /\ head' = succ[t] /\ Goto(t, "reclaim")
  <2>1. /\ pc'[t] = "reclaim" /\ \A u \in Thread \ {t} : pc'[u] = pc[u]
        /\ Pushing' = Pushing /\ Popped' = Popped \cup {t}
    BY <1>2, <1>3, <1>5, Places DEF Pushing
  <2>a. PICK n, z : n = old[t] /\ z = Tail(w)  OBVIOUS
  <2>2. n \in Node /\ n # Null
    BY <1>3, <2>a, InsideOwned, StackAssumption DEF TypeOK
  <2>3. /\ n = w[1] /\ n \in Inside(w) /\ IsPath(Node, Null, z, next[n], next)
        /\ Len(w) \in Nat \ {0} /\ Len(z) = Len(w) - 1 /\ Inside(z) = Inside(w) \ {n}
        /\ \A i \in 1 .. Len(z) : z[i] = w[i + 1]
    BY <1>5, <2>2, <2>a, PathPop DEF Owned
  <2>4. Owned(z)'
    <3>1. live' = Inside(z) \cup {node'[u] : u \in Pushing'} \cup {old'[u] : u \in Popped'}
      <4>1. {old'[u] : u \in Popped'} = {old[u] : u \in Popped} \cup {n}
        BY <1>1, <2>a, <2>1
      <4>2. {node'[u] : u \in Pushing'} = {node[u] : u \in Pushing}  BY <1>1, <2>1
      <4>3. live = Inside(w) \cup {node[u] : u \in Pushing} \cup {old[u] : u \in Popped}
        BY DEF Owned
      <4>4. Inside(w) = Inside(z) \cup {n}  BY <2>3
      <4>. QED  BY <1>1, <4>1, <4>2, <4>3, <4>4, Zenon
    <3>2. /\ IsFiniteSet(Popped') /\ Cardinality(Popped') = Cardinality(Popped) + 1
      BY <1>3, <2>1, FS_AddElement DEF Owned
    <3>3. Cardinality(live') = Len(z) + Cardinality(Pushing') + Cardinality(Popped')
      <4>1. Cardinality(Pushing) \in Nat /\ Cardinality(Popped) \in Nat
        BY FS_CardinalityType DEF Owned
      <4>. QED  BY <1>1, <2>1, <2>3, <3>2, <4>1 DEF Owned
    <3>4. \A u \in Pushing' : node'[u] \in Node \ Inside(z)  BY <1>1, <2>1, <2>3 DEF Owned
    <3>5. \A u, r \in Pushing' : node'[u] = node'[r] => u = r  BY <1>1, <2>1 DEF Owned
    <3>6. \A u \in Popped' : old'[u] \in Node \ Inside(z)
      BY <1>1, <2>1, <2>2, <2>3, <2>a DEF Owned
    <3>7. \A u \in Pushing', r \in Popped' : node'[u] # old'[r]
      BY <1>1, <2>1, <2>3, <2>a DEF Owned
    <3>8. \A m \in live' : value'[m] \in Value  BY <1>1 DEF Owned
    <3>9. IsPath(Node, Null, z, head', next') /\ Inside(z)' = Inside(z)
      BY <1>1, <1>3, <1>5, <2>3, <2>a DEF Inside
    <3>. QED
      BY <2>1, <3>1, <3>2, <3>3, <3>4, <3>5, <3>6, <3>7, <3>8, <3>9 DEF Owned
  <2>5. Current(z)'  BY <1>1, <1>2, <2>1 DEF Current, Thread
  <2>6. Items(w) # <<>> /\ Head(Items(w)) = value[n] /\ Items(z)' = Tail(Items(w))
    <3>1. \A i \in 1 .. Len(w) : value[w[i]] \in Value  BY InsideOwned DEF Owned
    <3>2. /\ Items(w) \in Seq(Value) /\ Len(Items(w)) = Len(w)
          /\ \A i \in 1 .. Len(w) : Items(w)[i] = value[w[i]]
      BY <2>3, <3>1 DEF Items
    <3>3. Items(w) # <<>> /\ Head(Items(w)) = value[n]  BY <2>3, <3>2
    <3>. DEFINE y == Tail(Items(w))
    <3>4. y \in Seq(Value) /\ Len(y) = Len(z)  BY <2>3, <3>2, <3>3
    <3>5. \A i \in 1 .. Len(z) : y[i] = value[z[i]]
      <4>. TAKE i \in 1 .. Len(z)
      <4>1. y[i] = Items(w)[i + 1] /\ i + 1 \in 1 .. Len(w)  BY <2>3, <3>2, <3>3
      <4>. QED  BY <2>3, <3>2, <4>1
    <3>6. Items(z)' = [i \in 1 .. Len(z) |-> value[z[i]]]  BY <1>1 DEF Items
    <3>. HIDE DEF y
    <3>7. y = [i \in 1 .. Len(y) |-> y[i]]  BY <3>4
    <3>8. [i \in 1 .. Len(y) |-> y[i]] = [i \in 1 .. Len(z) |-> value[z[i]]]
      BY <3>4, <3>5
    <3>. QED  BY <3>3, <3>6, <3>7, <3>8 DEF y
  <2>7. Got' = [Got EXCEPT ![t] = value[n]]  BY <1>1, <1>2, <2>1, <2>a DEF Got
  <2>. QED  BY <2>4, <2>5, <2>6, <2>7 DEF Goes, Moves
<1>. QED  BY <1>4, <1>5 DEF PopCAS

(* A pop frees the node it has taken and returns its value.                *)
LEMMA ReclaimGoes ==
  ASSUME OnePopper, TypeOK, NEW w, Owned(w), Current(w), NEW t \in Popper, PopReclaim(t)
  PROVE  Goes(w)
<1>1. /\ pc[t] = "reclaim" /\ Goto(t, "idle") /\ live' = live \ {old[t]}
      /\ result' = [result EXCEPT ![t] = value[old[t]]]
      /\ UNCHANGED <<head, next, value, node, old, succ>>
  BY DEF PopReclaim
<1>2. t \in Thread /\ t \notin Pusher /\ (\A u \in Pusher : u \in Thread \ {t})
      /\ \A u \in Popper : u = t
  BY StackAssumption DEF Thread, OnePopper
<1>3. /\ pc'[t] = "idle" /\ \A u \in Thread \ {t} : pc'[u] = pc[u]
      /\ Pushing' = Pushing /\ Popped = {t} /\ Popped' = {}
  <2>1. t \in Popped  BY <1>1 DEF Popped
  <2>. QED  BY <1>1, <1>2, <2>1, Places DEF Pushing, Popped
<1>a. PICK n : n = old[t]  OBVIOUS
<1>4. /\ n \in live /\ n \notin Inside(w) /\ \A u \in Pushing : node[u] # n
  BY <1>3, <1>a DEF Owned
<1>5. Owned(w)'
  <2>1. live' = Inside(w) \cup {node'[u] : u \in Pushing'} \cup {old'[u] : u \in Popped'}
    <3>1. {old'[u] : u \in Popped'} = {} /\ {old[u] : u \in Popped} = {n}  BY <1>3, <1>a
    <3>2. {node'[u] : u \in Pushing'} = {node[u] : u \in Pushing}  BY <1>1, <1>3
    <3>3. live = Inside(w) \cup {node[u] : u \in Pushing} \cup {old[u] : u \in Popped}
      BY DEF Owned
    <3>4. n \notin {node[u] : u \in Pushing}  BY <1>4
    <3>. HIDE DEF Pushing, Popped, Inside
    <3>. QED  BY <1>1, <1>4, <1>a, <3>1, <3>2, <3>3, <3>4, Zenon
  <2>2. Cardinality(live') = Len(w) + Cardinality(Pushing') + Cardinality(Popped')
    <3>1. IsFiniteSet(live)  BY StackAssumption, FS_Subset DEF TypeOK
    <3>2. Cardinality(live') = Cardinality(live) - 1
      BY <1>1, <1>4, <1>a, <3>1, FS_RemoveElement
    <3>3. Cardinality(Popped) = 1 /\ Cardinality(Popped') = 0
      BY <1>3, FS_Singleton, FS_EmptySet
    <3>4. Cardinality(Pushing) \in Nat /\ Len(w) \in Nat
      BY FS_CardinalityType, InsideOwned DEF Owned
    <3>5. Cardinality(live) = Len(w) + Cardinality(Pushing) + Cardinality(Popped)
      BY DEF Owned
    <3>. QED  BY <1>3, <3>2, <3>3, <3>4, <3>5
  <2>3. IsFiniteSet(Popped') /\ IsFiniteSet(Pushing')  BY <1>3, FS_EmptySet DEF Owned
  <2>4. \A m \in live' : value'[m] \in Value  BY <1>1 DEF Owned
  <2>5. IsPath(Node, Null, w, head', next') /\ Inside(w)' = Inside(w)  BY <1>1 DEF Owned, Inside
  <2>6. \A u \in Pushing' : node'[u] \in Node \ Inside(w)  BY <1>1, <1>3 DEF Owned
  <2>7. \A u, r \in Pushing' : node'[u] = node'[r] => u = r  BY <1>1, <1>3 DEF Owned
  <2>. QED  BY <1>3, <2>1, <2>2, <2>3, <2>4, <2>5, <2>6, <2>7 DEF Owned
<1>6. Current(w)'  BY <1>1, <1>2, <1>3 DEF Current, Inside, Thread
<1>7. Items(w)' = Items(w)  BY <1>1 DEF Items
<1>8. Got' = Got  BY <1>1, <1>2, <1>3 DEF Got, TypeOK
<1>. QED  BY <1>5, <1>6, <1>7, <1>8 DEF Goes, Moves

(* Every step of the stack is one of these.                                *)
LEMMA StackGoes ==
  ASSUME OnePopper, TypeOK, NEW w, Owned(w), Current(w), [Next]_vars
  PROVE  TypeOK' /\ Goes(w)
<1>1. CASE Next
  <2>1. TypeOK'  BY <1>1, TypeKept DEF StackInv
  <2>2. ASSUME NEW t \in Pusher, PushStep(t) PROVE Goes(w)
    BY <2>2, AllocGoes, LinkGoes, PushGoes DEF PushStep
  <2>3. ASSUME NEW t \in Popper, PopStep(t) PROVE Goes(w)
    BY <2>3, LoadGoes, NextGoes, PopGoes, ReclaimGoes DEF PopStep
  <2>. QED  BY <1>1, <2>1, <2>2, <2>3 DEF Next
<1>2. CASE UNCHANGED vars
  <2>1. Pushing' = Pushing /\ Popped' = Popped  BY <1>2 DEF vars, Pushing, Popped
  <2>2. Owned(w)' /\ Items(w)' = Items(w)  BY <1>2, <2>1, OwnedKept DEF vars
  <2>3. Current(w)' /\ Got' = Got /\ TypeOK'
    BY <1>2 DEF vars, Current, Inside, Got, TypeOK, Thread
  <2>. QED  BY <2>2, <2>3 DEF Goes, Moves
<1>. QED  BY <1>1, <1>2

(* A new stack is empty.                                                   *)
LEMMA StackStarts ==
  ASSUME Init
  PROVE  TypeOK /\ Owned(<<>>) /\ Current(<<>>)
<1>. USE DEF Init
<1>1. TypeOK  BY DEF TypeOK, Pointer, Thread
<1>2. Pushing = {} /\ Popped = {} /\ Inside(<<>>) = {}
  BY DEF Pushing, Popped, Thread, Inside
<1>3. IsPath(Node, Null, <<>>, head, next)  BY DEF IsPath
<1>4. Owned(<<>>)
  <2>1. Cardinality({}) = 0 /\ IsFiniteSet({})  BY FS_EmptySet
  <2>2. Len(<<>>) = 0  OBVIOUS
  <2>. QED  BY <1>2, <1>3, <2>1, <2>2 DEF Owned
<1>5. Current(<<>>)  BY <1>2 DEF Current, Thread
<1>. QED  BY <1>1, <1>4, <1>5

(* The sequence of the invariant is what following head finds.             *)
LEMMA OwnedIsWalk ==
  ASSUME NEW w, Owned(w)
  PROVE  Walk = w /\ Contents = Items(w)
<1>1. Walk = w  BY PathIs, StackAssumption DEF Owned, Walk
<1>2. DOMAIN w = 1 .. Len(w)  BY InsideOwned
<1>. QED  BY <1>1, <1>2 DEF Contents, Items

(* The stack's invariant is inductive.                                     *)
LEMMA StackStays ==
  ASSUME OnePopper
  PROVE  Spec => []StackInv
<1>1. Init => StackInv  BY StackStarts DEF StackInv
<1>2. StackInv /\ [Next]_vars => StackInv'  BY StackGoes DEF StackInv, Goes
<1>. QED  BY <1>1, <1>2, PTL DEF Spec

(* With one popping thread nodes are freed at once and no one is left     *)
(* holding them, none leaks and none is freed twice.                       *)
LEMMA StackAlwaysSafe ==
  ASSUME OnePopper
  PROVE  Spec => [](NoUseAfterFree /\ NodesAccounted)
<1>1. StackInv => NoUseAfterFree /\ NodesAccounted
  <2>. SUFFICES ASSUME NEW w, Owned(w), Current(w) PROVE NoUseAfterFree /\ NodesAccounted
    BY DEF StackInv
  <2>1. NoUseAfterFree
    <3>. SUFFICES ASSUME NEW t \in Popper, pc[t] \in {"next", "reclaim"} PROVE old[t] \in live
      BY DEF NoUseAfterFree
    <3>1. CASE pc[t] = "next"  BY <3>1, InsideOwned DEF Current
    <3>2. CASE pc[t] = "reclaim"
      <4>1. t \in Popped  BY <3>2 DEF Popped
      <4>. QED  BY <4>1 DEF Owned
    <3>. QED  BY <3>1, <3>2
  <2>2. Range(Walk) = Inside(w) /\ Walk = w
    <3>1. Walk = w /\ DOMAIN w = 1 .. Len(w)  BY OwnedIsWalk, InsideOwned
    <3>. QED  BY <3>1 DEF Range, Inside
  <2>3. NodesAccounted  BY <2>2 DEF Owned, NodesAccounted
  <2>. QED  BY <2>1, <2>3
<1>. QED  BY <1>1, StackStays, PTL

(* With one popping thread, and any number that push, the stack is a       *)
(* stack, each operation taking effect at its successful exchange.         *)
LEMMA StackRefines ==
  ASSUME OnePopper
  PROVE  Spec => ImplementsLifo
<1>1. Init => Lifo!Init
  <2>. SUFFICES ASSUME Init PROVE Lifo!Init  OBVIOUS
  <2>1. Contents = Items(<<>>)  BY StackStarts, OwnedIsWalk
  <2>2. Contents = <<>>
    <3>1. Len(<<>>) = 0 /\ 1 .. 0 = {}  OBVIOUS
    <3>. QED  BY <2>1, <3>1 DEF Items
  <2>3. Got = [t \in Popper |-> None]  BY DEF Init, Got, Thread
  <2>. QED  BY <2>2, <2>3 DEF Lifo!Init, Got
<1>2. StackInv /\ [Next]_vars => [Lifo!Next]_<<Contents, Got>>
  <2>. SUFFICES ASSUME StackInv, [Next]_vars PROVE [Lifo!Next]_<<Contents, Got>>
    OBVIOUS
  <2>1. PICK w : Owned(w) /\ Current(w)  BY DEF StackInv
  <2>2. PICK z : Owned(z)' /\ Moves(w, z)  BY <2>1, StackGoes DEF StackInv, Goes
  <2>3. Contents = Items(w)  BY <2>1, OwnedIsWalk
  <2>4. Contents' = Items(z)'
    <3>1. Walk' = z  BY <2>2, PathIs, StackAssumption DEF Owned, Walk
    <3>2. DOMAIN z = 1 .. Len(z)
      <4>1. z \in Seq(Node)  BY <2>2 DEF Owned, IsPath
      <4>. QED  BY <4>1
    <3>. QED  BY <3>1, <3>2 DEF Contents, Items
  <2>. QED  BY <2>2, <2>3, <2>4 DEF Moves, Lifo!Next, Lifo!Push, Lifo!Pop, Got
<1>. QED  BY <1>1, <1>2, StackStays, PTL DEF ImplementsLifo, Lifo!Spec, Spec, Got

----------------------------------------------------------------------------
(* The queue *)

(* Where enqueuing threads can be.                                         *)
EnqPlaces == {"idle", "e_tail", "e_next", "e_check", "e_link", "e_help", "e_swing"}
(* Where dequeuing threads can be.                                         *)
DeqPlaces ==
  {"idle", "d_head", "d_tail", "d_next", "d_check", "d_help", "d_take", "d_swing", "d_free"}

(* The types of the queue's variables.                                     *)
QueueTypes ==
  /\ mode \in {"pair", "phases"}
  /\ qHead \in QueueNode /\ qTail \in QueueNode /\ qLive \subseteq QueueNode
  /\ qNext \in [QueueNode -> Queue!Pointer] /\ qValue \in [QueueNode -> Value \cup {None}]
  /\ qPc \in [Queue!Thread -> EnqPlaces \cup DeqPlaces]
  /\ qNode \in [Enqueuer -> Queue!Pointer] /\ taken \in [Dequeuer -> Value \cup {None}]
  /\ hd \in [Queue!Thread -> Queue!Pointer] /\ tl \in [Queue!Thread -> Queue!Pointer]
  /\ nx \in [Queue!Thread -> Queue!Pointer]

(* The threads that hold a node not yet in the list.                       *)
Linking == {t \in Enqueuer : qPc[t] \in {"e_tail", "e_next", "e_check", "e_link", "e_help"}}
(* The threads that have read a value and not yet moved head.              *)
Taking == {t \in Dequeuer : qPc[t] = "d_swing"}

(* w is the list from the head on; every other allocated node is in the    *)
(* hands of one thread, and so is the value of the first node if that is   *)
(* not there any more.                                                     *)
Queued(w) ==
  /\ IsPath(QueueNode, Null, w, qHead, qNext) /\ qTail \in Inside(w)
  /\ qLive = Inside(w) \cup {qNode[t] : t \in Linking} \cup {hd[t] : t \in Queue!Freeing}
  /\ \A t \in Linking : /\ qNode[t] \in QueueNode \ Inside(w) /\ qNext[qNode[t]] = Null
                        /\ qValue[qNode[t]] \in Value
  /\ \A t, u \in Linking : qNode[t] = qNode[u] => t = u
  /\ \A t \in Queue!Freeing : /\ hd[t] \in QueueNode \ Inside(w) /\ taken[t] \in Value
                              /\ \A u \in Linking : qNode[u] # hd[t]
  /\ qValue[qHead] = None
  /\ \A i \in 2 .. Len(w) : qValue[w[i]] \in Value \/ (i = 2 /\ Taking # {})

(* Who may be at work at the same time. *)
Turns ==
  /\ \A t, u \in Dequeuer : qPc[t] # "idle" /\ qPc[u] # "idle" => t = u
  /\ mode = "pair" => \A t, u \in Enqueuer : qPc[t] # "idle" /\ qPc[u] # "idle" => t = u
  /\ mode = "phases" => \A t \in Enqueuer, u \in Dequeuer : qPc[t] = "idle" \/ qPc[u] = "idle"

(* In a pair the tail lags only until the enqueue that has linked a node   *)
(* is over, ...                                                            *)
Lag(w) == mode = "pair" => qTail = w[Len(w)] \/ \E t \in Enqueuer : qPc[t] = "e_swing"

(* ... so that an enqueue follows the last node, which nobody frees.  In   *)
(* phases it may follow any node, since none is freed.                     *)
Enqueues(t, w) ==
  /\ qPc[t] \in EnqPlaces
  /\ qPc[t] \in {"e_next", "e_check", "e_link", "e_help"} =>
       tl[t] \in Inside(w) /\ (mode = "pair" => tl[t] = w[Len(w)])
  /\ qPc[t] \in {"e_check", "e_help"} => nx[t] \in {Null, qNext[tl[t]]}
  /\ qPc[t] = "e_help" => mode = "phases" /\ nx[t] # Null
  /\ qPc[t] = "e_swing" =>
       /\ qNode[t] \in Inside(w)
       /\ mode = "phases" => tl[t] \in Inside(w) /\ qNext[tl[t]] = qNode[t]
       /\ mode = "pair" => /\ qNode[t] = w[Len(w)] /\ tl[t] # qNode[t]
                           /\ qTail = qNode[t] \/ (qTail = tl[t] /\ qNext[tl[t]] = qNode[t])

(* A dequeue that has once seen the tail beyond the head will find it so.  *)
Dequeues(t) ==
  /\ qPc[t] \in DeqPlaces
  /\ qPc[t] \in {"d_tail", "d_next", "d_check", "d_help", "d_take", "d_swing"} => hd[t] = qHead
  /\ qPc[t] \in {"d_next", "d_check"} => tl[t] = qHead \/ qTail # qHead
  /\ qPc[t] = "d_check" => nx[t] \in {Null, qNext[qHead]} /\ (tl[t] = qHead \/ nx[t] # Null)
  /\ qPc[t] = "d_help" => tl[t] = qHead /\ nx[t] = qNext[qHead] /\ nx[t] # Null
  /\ qPc[t] \in {"d_take", "d_swing"} => qTail # qHead /\ nx[t] = qNext[qHead] /\ nx[t] # Null
  /\ qPc[t] = "d_swing" => taken[t] \in Value /\ qValue[nx[t]] = None

(* w is the queue's list, and the threads fit it.                          *)
Works(w) ==
  /\ Queued(w) /\ Turns /\ Lag(w)
  /\ \A t \in Enqueuer : Enqueues(t, w)
  /\ \A t \in Dequeuer : Dequeues(t)

(* Some sequence of nodes is the queue, and the threads fit it.            *)
QueueInv == QueueTypes /\ \E w : Works(w)

(* The values in the queue: those of all nodes but the sentinel.           *)
Waiting(w) ==
  [i \in 1 .. Len(w) - 1 |->
     IF i = 1 /\ Taking # {} THEN taken[CHOOSE t \in Taking : TRUE] ELSE qValue[w[i + 1]]]
(* What was got last: a dequeue takes effect at its exchange.              *)
Returned == IF Queue!Freeing = {} THEN got ELSE taken[CHOOSE t \in Queue!Freeing : TRUE]

(* A step of the abstract queue, or none, while the list goes from w to z. *)
Advances(w, z) ==
  \/ Waiting(z)' = Waiting(w) /\ Returned' = Returned
  \/ /\ Returned' = Returned /\ Len(Waiting(w)) < Cardinality(QueueNode)
     /\ \E v \in Value : Waiting(z)' = Append(Waiting(w), v)
  \/ /\ Waiting(w) # <<>> /\ Returned' = Head(Waiting(w))
     /\ Waiting(z)' = Tail(Waiting(w))

(* A step turns the queue w into another that fits, as a queue may change. *)
Proceeds(w) == \E z : Works(z)' /\ Advances(w, z)
----------------------------------------------------------------------------
(* Facts about the constants.                                              *)
LEMMA QueueFacts ==
  /\ IsFiniteSet(QueueNode) /\ Null \notin QueueNode /\ None \notin Value
  /\ \A t \in Enqueuer : t \in Queue!Thread /\ t \notin Dequeuer
  /\ \A t \in Dequeuer : t \in Queue!Thread /\ t \notin Enqueuer
BY Sharing DEF Queue!QueueAssumption, Queue!Thread, Queue!IsFiniteSet, IsFiniteSet

(* The helpers that the queue's module brings along are those used here. *)
LEMMA SameHelpers ==
  /\ \A h, f : Queue!ListFrom(QueueNode, Null, h, f) = ListFrom(QueueNode, Null, h, f)
  /\ Queue!Cardinality(QueueNode) = Cardinality(QueueNode)
  /\ \A f : Queue!Range(f) = Range(f)
<1>1. \A S : Queue!Cardinality(S) = Cardinality(S)
  BY DEF Queue!Cardinality, Cardinality, Queue!IsFiniteSet, IsFiniteSet
<1>. QED  BY <1>1, Zenon DEF Queue!ListFrom, ListFrom, Queue!Range, Range

(* What the invariant says of the list's ends.                             *)
LEMMA ListFacts ==
  ASSUME NEW w, Queued(w)
  PROVE  /\ w \in Seq(QueueNode) /\ Len(w) \in Nat \ {0} /\ qHead = w[1] /\ qHead \in Inside(w)
         /\ w[Len(w)] \in Inside(w) /\ Inside(w) \subseteq qLive /\ Inside(w) \subseteq QueueNode
         /\ \A i \in 1 .. Len(w) : w[i] \in Inside(w)
         /\ \A n \in Inside(w) : /\ qNext[n] = Null <=> n = w[Len(w)]
                                 /\ qNext[n] # Null => qNext[n] \in Inside(w) \ {qHead, n}
         /\ qTail # qHead => qNext[qHead] # Null
         /\ qNext[qHead] # Null => Len(w) >= 2 /\ qNext[qHead] = w[2]
<1>1. IsPath(QueueNode, Null, w, qHead, qNext) /\ qTail \in Inside(w)  BY DEF Queued
<1>2. w \in Seq(QueueNode)  BY <1>1 DEF IsPath
<1>3. \A i \in 1 .. Len(w) : w[i] \in Inside(w)  BY DEF Inside
<1>4. ASSUME NEW n \in Inside(w)
      PROVE  /\ n \in QueueNode /\ Len(w) \in Nat \ {0} /\ qHead = w[1] /\ qHead \in Inside(w)
             /\ w[Len(w)] \in Inside(w)
             /\ qNext[n] = Null <=> n = w[Len(w)]
             /\ qNext[n] # Null => qNext[n] \in Inside(w) \ {qHead, n}
             /\ n # qHead => qNext[qHead] # Null
             /\ qNext[qHead] # Null => Len(w) >= 2 /\ qNext[qHead] = w[2]
  BY <1>1, QueueFacts, PathLinks
<1>5. Inside(w) \subseteq qLive  BY DEF Queued
<1>. QED  BY <1>1, <1>2, <1>3, <1>4, <1>5

(* A thread's step leaves the others where they are.                       *)
LEMMA OthersPlaces ==
  ASSUME QueueTypes, NEW t \in Queue!Thread, NEW l, Queue!Goto(t, l)
  PROVE  qPc'[t] = l /\ \A u \in Queue!Thread \ {t} : qPc'[u] = qPc[u]
BY DEF QueueTypes, Queue!Goto

(* Who is at work stays in turn while no thread starts.                    *)
LEMMA TurnsKept ==
  ASSUME Turns, QueueTypes, NEW t \in Queue!Thread, NEW l, Queue!Goto(t, l),
         qPc[t] # "idle", mode' = mode
  PROVE  Turns'
<1>1. qPc'[t] = l /\ \A u \in Queue!Thread \ {t} : qPc'[u] = qPc[u]  BY OthersPlaces
<1>2. \A u \in Queue!Thread : qPc'[u] # "idle" => qPc[u] # "idle"  BY <1>1
<1>. QED  BY <1>2, QueueFacts DEF Turns

(* What an enqueue has read still fits when others' steps keep list and    *)
(* tail.                                                                   *)
LEMMA EnqueuesKept ==
  ASSUME NEW w, NEW u \in Enqueuer, Enqueues(u, w), mode' = mode,
         qPc'[u] = qPc[u], tl'[u] = tl[u], nx'[u] = nx[u], qNode'[u] = qNode[u],
         \A n \in Inside(w) : qNext'[n] = qNext[n],
         mode = "pair" /\ qPc[u] = "e_swing" => qTail \in Inside(w) /\ qTail' = qTail
  PROVE  Enqueues(u, w)'
<1>1. Inside(w)' = Inside(w)  BY DEF Inside
<1>. HIDE DEF Inside
<1>. QED  BY <1>1 DEF Enqueues

(* What a dequeue has read still fits when others' steps keep list and     *)
(* head.                                                                   *)
LEMMA DequeuesKept ==
  ASSUME NEW u \in Dequeuer, Dequeues(u), qHead' = qHead, qTail # qHead => qTail' # qHead,
         qPc'[u] = qPc[u], hd'[u] = hd[u], tl'[u] = tl[u], nx'[u] = nx[u], taken'[u] = taken[u],
         qNext'[qHead] = qNext[qHead] \/ qNext[qHead] = Null,
         qPc[u] = "d_swing" => qValue'[nx[u]] = qValue[nx[u]]
  PROVE  Dequeues(u)'
BY DEF Dequeues

(* Steps keep the types.                                                   *)
LEMMA QueueTypesKept ==
  ASSUME ~Weak, QueueTypes, NEW w, Works(w), Queue!Next
  PROVE  QueueTypes'
<1>. USE DEF QueueTypes, Queue!Goto
<1>a. Inside(w) \subseteq QueueNode /\ Inside(w) \subseteq qLive /\ qHead \in Inside(w)
      /\ \A n \in Inside(w) : qNext[n] # Null => qNext[n] \in Inside(w)
  BY ListFacts DEF Works
<1>1. ASSUME NEW t \in Enqueuer, Queue!EnqStep(t) PROVE QueueTypes'
  <2>0. t \in Queue!Thread /\ Enqueues(t, w)  BY QueueFacts DEF Works
  <2>1. ASSUME NEW v \in Value, Queue!EnqAlloc(t, v) PROVE QueueTypes'
    BY <2>0, <2>1 DEF Queue!EnqAlloc, Queue!Pointer, EnqPlaces
  <2>2. CASE Queue!EnqTail(t)
    BY <2>0, <2>2 DEF Queue!EnqTail, Queue!Pointer, EnqPlaces, Queue!shared
  <2>3. CASE Queue!EnqNext(t)
    <3>1. \A n \in Queue!NextOf(tl[t]) : n \in Queue!Pointer
      BY <2>0, <2>3 DEF Queue!EnqNext, Queue!NextOf, Queue!Pointer
    <3>. QED  BY <2>0, <2>3, <3>1 DEF Queue!EnqNext, EnqPlaces, Queue!shared
  <2>4. CASE Queue!EnqCheck(t)  BY <2>0, <2>4 DEF Queue!EnqCheck, EnqPlaces, Queue!shared
  <2>5. CASE Queue!EnqLink(t)
    <3>1. qNode[t] \in Queue!Pointer  BY <2>0
    <3>2. qNext' \in [QueueNode -> Queue!Pointer]  BY <2>5, <3>1 DEF Queue!EnqLink
    <3>3. qPc' \in [Queue!Thread -> EnqPlaces \cup DeqPlaces]
      BY <2>0, <2>5 DEF Queue!EnqLink, EnqPlaces
    <3>. QED  BY <2>5, <3>2, <3>3 DEF Queue!EnqLink
  <2>6. CASE Queue!EnqSwing(t)
    <3>1. qNode[t] \in QueueNode  BY <1>a, <2>0, <2>6 DEF Queue!EnqSwing, Enqueues
    <3>2. qTail' \in QueueNode  BY <2>6, <3>1 DEF Queue!EnqSwing, Queue!SwingTail
    <3>. QED  BY <2>0, <2>6, <3>2 DEF Queue!EnqSwing, EnqPlaces
  <2>7. CASE Queue!EnqHelp(t)
    <3>1. nx[t] \in QueueNode  BY <1>a, <2>0, <2>7 DEF Queue!EnqHelp, Enqueues
    <3>2. qTail' \in QueueNode  BY <2>7, <3>1 DEF Queue!EnqHelp, Queue!SwingTail
    <3>. QED  BY <2>0, <2>7, <3>2 DEF Queue!EnqHelp, EnqPlaces
  <2>. QED  BY <1>1, <2>1, <2>2, <2>3, <2>4, <2>5, <2>6, <2>7 DEF Queue!EnqStep
<1>2. ASSUME NEW t \in Dequeuer, Queue!DeqStep(t) PROVE QueueTypes'
  <2>0. t \in Queue!Thread /\ Dequeues(t)  BY QueueFacts DEF Works
  <2>1. CASE Queue!DeqHead(t)
    BY <2>0, <2>1 DEF Queue!DeqHead, Queue!Pointer, DeqPlaces, Queue!shared
  <2>2. CASE Queue!DeqTail(t)
    BY <2>0, <2>2 DEF Queue!DeqTail, Queue!Pointer, DeqPlaces, Queue!shared
  <2>3. CASE Queue!DeqNext(t)
    <3>1. \A n \in Queue!NextOf(hd[t]) : n \in Queue!Pointer
      BY <2>0, <2>3 DEF Queue!DeqNext, Queue!NextOf, Queue!Pointer
    <3>. QED  BY <2>0, <2>3, <3>1 DEF Queue!DeqNext, DeqPlaces, Queue!shared
  <2>4. CASE Queue!DeqCheck(t)  BY <2>0, <2>4 DEF Queue!DeqCheck, DeqPlaces, Queue!shared
  <2>5. CASE Queue!DeqHelp(t)
    <3>1. nx[t] \in QueueNode  BY <1>a, <2>0, <2>5 DEF Queue!DeqHelp, Dequeues
    <3>2. qTail' \in QueueNode  BY <2>5, <3>1 DEF Queue!DeqHelp, Queue!SwingTail
    <3>. QED  BY <2>0, <2>5, <3>2 DEF Queue!DeqHelp, DeqPlaces
  <2>6. CASE Queue!DeqTake(t)
    <3>1. nx[t] \in qLive  BY <1>a, <2>0, <2>6 DEF Queue!DeqTake, Dequeues
    <3>2. taken' = [taken EXCEPT ![t] = qValue[nx[t]]] /\ qValue' = [qValue EXCEPT ![nx[t]] = None]
      BY <2>6, <3>1 DEF Queue!DeqTake
    <3>3. qValue[nx[t]] \in Value \cup {None}  BY <3>1
    <3>4. taken' \in [Dequeuer -> Value \cup {None}] /\ qValue' \in [QueueNode -> Value \cup {None}]
      BY <3>2, <3>3
    <3>. QED  BY <2>0, <2>6, <3>4 DEF Queue!DeqTake, DeqPlaces
  <2>7. CASE Queue!DeqSwing(t)
    <3>1. nx[t] \in QueueNode  BY <1>a, <2>0, <2>7 DEF Queue!DeqSwing, Dequeues
    <3>2. qHead' \in QueueNode /\ qPc' \in [Queue!Thread -> EnqPlaces \cup DeqPlaces]
      BY <2>0, <2>7, <3>1 DEF Queue!DeqSwing, DeqPlaces
    <3>. QED  BY <2>7, <3>2 DEF Queue!DeqSwing
  <2>8. CASE Queue!DeqFree(t)  BY <2>0, <2>8 DEF Queue!DeqFree, DeqPlaces
  <2>. QED  BY <1>2, <2>1, <2>2, <2>3, <2>4, <2>5, <2>6, <2>7, <2>8 DEF Queue!DeqStep
<1>. QED  BY <1>1, <1>2 DEF Queue!Next

(* A thread that starts when it may is in turn.                            *)
LEMMA TurnsTaken ==
  ASSUME Turns, QueueTypes, NEW t \in Queue!Thread, NEW l, Queue!Goto(t, l),
         Queue!MayStart(t), mode' = mode
  PROVE  Turns'
<1>1. qPc'[t] = l /\ \A u \in Queue!Thread \ {t} : qPc'[u] = qPc[u]  BY OthersPlaces
<1>2. mode = "pair" =>
        \A u \in Queue!Thread : (u \in Enqueuer <=> t \in Enqueuer) => qPc[u] = "idle"
  BY QueueFacts DEF Queue!MayStart, Queue!Busy, Queue!Thread
<1>3. mode = "phases" => /\ \A u \in Dequeuer : qPc[u] = "idle"
                         /\ t \in Dequeuer => \A u \in Enqueuer : qPc[u] = "idle"
  BY DEF Queue!MayStart, Queue!Busy
<1>4. mode \in {"pair", "phases"}  BY DEF QueueTypes
<1>5. ASSUME NEW u \in Dequeuer, NEW x \in Dequeuer, qPc'[u] # "idle", qPc'[x] # "idle" PROVE u = x
  BY <1>1, <1>2, <1>3, <1>4, <1>5, QueueFacts DEF Turns
<1>6. ASSUME mode = "pair", NEW u \in Enqueuer, NEW x \in Enqueuer,
             qPc'[u] # "idle", qPc'[x] # "idle"
      PROVE u = x
  BY <1>1, <1>2, <1>6, QueueFacts DEF Turns
<1>7. ASSUME mode = "phases", NEW u \in Enqueuer, NEW x \in Dequeuer
      PROVE qPc'[u] = "idle" \/ qPc'[x] = "idle"
  BY <1>1, <1>3, <1>7, QueueFacts DEF Turns
<1>. QED  BY <1>5, <1>6, <1>7 DEF Turns

(* A step that leaves the list and the hands alone but for the tail. *)
LEMMA QueuedKept ==
  ASSUME NEW w, Queued(w), UNCHANGED <<qHead, qLive, qNext, qValue, qNode, taken, got>>,
         qTail' \in Inside(w), Linking' = Linking, Taking' = Taking, Queue!Freeing' = Queue!Freeing,
         \A u \in Queue!Freeing : hd'[u] = hd[u]
  PROVE  Queued(w)' /\ Waiting(w)' = Waiting(w) /\ Returned' = Returned
<1>1. Inside(w)' = Inside(w)  BY DEF Inside
<1>2. {hd'[u] : u \in Queue!Freeing'} = {hd[u] : u \in Queue!Freeing}  OBVIOUS
<1>3. {qNode'[u] : u \in Linking'} = {qNode[u] : u \in Linking}  OBVIOUS
<1>4. Waiting(w)' = Waiting(w) /\ Returned' = Returned  BY DEF Waiting, Returned
<1>. HIDE DEF Inside, Linking, Taking, Queue!Freeing
<1>5. Queued(w)'
  <2>1. IsPath(QueueNode, Null, w, qHead', qNext') /\ qTail' \in Inside(w)  BY DEF Queued
  <2>2. qLive' = Inside(w)' \cup {qNode'[u] : u \in Linking'} \cup {hd'[u] : u \in Queue!Freeing'}
    BY <1>1, <1>2, <1>3 DEF Queued
  <2>. QED  BY <1>1, <2>1, <2>2 DEF Queued
<1>. QED  BY <1>4, <1>5

(* A step of an enqueue that leaves the list alone but for the tail.       *)
LEMMA EnqueueGoes ==
  ASSUME QueueTypes, NEW w, Works(w), NEW t \in Enqueuer, NEW l, Queue!Goto(t, l),
         qPc[t] # "idle", t \in Linking <=> l # "idle", l \in EnqPlaces \ {"e_swing"},
         UNCHANGED <<mode, qHead, qLive, qNext, qValue, qNode, hd, taken, got>>,
         \A u \in Queue!Thread \ {t} : tl'[u] = tl[u] /\ nx'[u] = nx[u],
         qTail' \in Inside(w), qTail # qHead => qTail' # qHead,
         mode = "pair" => qTail' = w[Len(w)] \/ qTail' = qTail,
         mode = "pair" /\ qPc[t] = "e_swing" => qTail' = w[Len(w)],
         Enqueues(t, w)'
  PROVE  Proceeds(w)
<1>0. t \in Queue!Thread /\ t \notin Dequeuer /\ Dequeuer \subseteq Queue!Thread \ {t}
      /\ \A u \in Enqueuer \ {t} : u \in Queue!Thread \ {t}
  BY QueueFacts
<1>1. qPc'[t] = l /\ \A u \in Queue!Thread \ {t} : qPc'[u] = qPc[u]  BY <1>0, OthersPlaces
<1>2. /\ Linking' = Linking /\ Taking' = Taking /\ Queue!Freeing' = Queue!Freeing
  <2>1. Linking' = Linking  BY <1>0, <1>1 DEF Linking, EnqPlaces
  <2>2. Taking' = Taking /\ Queue!Freeing' = Queue!Freeing  BY <1>0, <1>1 DEF Taking, Queue!Freeing
  <2>. QED  BY <2>1, <2>2
<1>3. Queued(w)' /\ Waiting(w)' = Waiting(w) /\ Returned' = Returned
  BY <1>2, QueuedKept DEF Works
<1>4. Turns'  BY <1>0, TurnsKept DEF Works
<1>5. mode = "pair" => \A u \in Enqueuer \ {t} : qPc[u] = "idle"  BY DEF Works, Turns
<1>6. Lag(w)'
  <2>. SUFFICES ASSUME mode = "pair", qTail' # w[Len(w)], NEW u \in Enqueuer, qPc[u] = "e_swing"
       PROVE FALSE
    BY DEF Works, Lag
  <2>1. u = t  BY <1>5
  <2>. QED  BY <2>1
<1>7. \A u \in Enqueuer \ {t} : Enqueues(u, w)'
  <2>. SUFFICES ASSUME NEW u \in Enqueuer \ {t} PROVE Enqueues(u, w)'  OBVIOUS
  <2>1. Enqueues(u, w)  BY DEF Works
  <2>2. mode = "pair" => qPc[u] # "e_swing"  BY <1>5
  <2>. QED  BY <1>0, <1>1, <2>1, <2>2, EnqueuesKept
<1>8. \A u \in Dequeuer : Dequeues(u)'  BY <1>0, <1>1, DequeuesKept DEF Works
<1>. QED  BY <1>3, <1>4, <1>6, <1>7, <1>8 DEF Works, Proceeds, Advances

(* A step of a dequeue that changes nothing but what it has read.          *)
LEMMA DequeueGoes ==
  ASSUME QueueTypes, NEW w, Works(w), NEW t \in Dequeuer, NEW l, Queue!Goto(t, l), Turns',
         qPc[t] \notin {"d_swing", "d_free"}, l \in DeqPlaces \ {"d_swing", "d_free"},
         UNCHANGED <<mode, Queue!shared, qNode, taken, got>>,
         \A u \in Queue!Thread \ {t} : hd'[u] = hd[u] /\ tl'[u] = tl[u] /\ nx'[u] = nx[u],
         Dequeues(t)'
  PROVE  Proceeds(w)
<1>. USE DEF Queue!shared
<1>0. t \in Queue!Thread /\ t \notin Enqueuer /\ Enqueuer \subseteq Queue!Thread \ {t}
      /\ \A u \in Dequeuer \ {t} : u \in Queue!Thread \ {t}
  BY QueueFacts
<1>1. qPc'[t] = l /\ \A u \in Queue!Thread \ {t} : qPc'[u] = qPc[u]  BY <1>0, OthersPlaces
<1>2. /\ Linking' = Linking /\ Taking' = Taking
      /\ Queue!Freeing' = Queue!Freeing /\ t \notin Queue!Freeing
  <2>1. Linking' = Linking  BY <1>0, <1>1 DEF Linking
  <2>2. Taking' = Taking /\ Queue!Freeing' = Queue!Freeing /\ t \notin Queue!Freeing
    BY <1>0, <1>1 DEF Taking, Queue!Freeing
  <2>. QED  BY <2>1, <2>2
<1>3. qTail \in Inside(w) /\ \A u \in Queue!Freeing : hd'[u] = hd[u]
  BY <1>0, <1>2 DEF Works, Queued, Queue!Freeing
<1>4. Queued(w)' /\ Waiting(w)' = Waiting(w) /\ Returned' = Returned
  BY <1>2, <1>3, QueuedKept DEF Works
<1>5. Lag(w)'  BY <1>0, <1>1 DEF Works, Lag
<1>6. \A u \in Enqueuer : Enqueues(u, w)'  BY <1>0, <1>1, <1>3, EnqueuesKept DEF Works
<1>7. \A u \in Dequeuer \ {t} : Dequeues(u)'  BY <1>0, <1>1, DequeuesKept DEF Works
<1>. QED  BY <1>4, <1>5, <1>6, <1>7 DEF Works, Proceeds, Advances

(* An enqueue reads tail.                                                  *)
LEMMA EnqTailGoes ==
  ASSUME QueueTypes, NEW w, Works(w), NEW t \in Enqueuer, Queue!EnqTail(t)
  PROVE  Proceeds(w)
<1>. USE DEF Queue!shared
<1>1. /\ qPc[t] = "e_tail" /\ Queue!Goto(t, "e_next") /\ tl' = [tl EXCEPT ![t] = qTail]
      /\ UNCHANGED <<mode, qHead, qTail, qLive, qNext, qValue, qNode, hd, nx, taken, got>>
  BY DEF Queue!EnqTail
<1>2. t \in Queue!Thread /\ qPc'[t] = "e_next" /\ t \in Linking
  BY <1>1, QueueFacts, OthersPlaces DEF Linking
<1>3. tl'[t] = qTail /\ \A u \in Queue!Thread \ {t} : tl'[u] = tl[u]  BY <1>1, <1>2 DEF QueueTypes
<1>4. qTail \in Inside(w)  BY DEF Works, Queued
<1>5. mode = "pair" => qTail = w[Len(w)]
  <2>1. mode = "pair" => \A u \in Enqueuer : qPc[u] # "e_swing"  BY <1>1 DEF Works, Turns
  <2>. QED  BY <2>1 DEF Works, Lag
<1>6. Enqueues(t, w)'
  <2>. HIDE DEF Linking
  <2>. QED  BY <1>1, <1>2, <1>3, <1>4, <1>5 DEF Enqueues, EnqPlaces, Inside
<1>. QED  BY <1>1, <1>2, <1>3, <1>4, <1>6, EnqueueGoes DEF EnqPlaces

(* An enqueue reads the next field of what it takes for the last node.     *)
LEMMA EnqNextGoes ==
  ASSUME QueueTypes, NEW w, Works(w), NEW t \in Enqueuer, Queue!EnqNext(t)
  PROVE  Proceeds(w)
<1>. USE DEF Queue!shared
<1>1. /\ qPc[t] = "e_next" /\ Queue!Goto(t, "e_check")
      /\ UNCHANGED <<mode, qHead, qTail, qLive, qNext, qValue, qNode, hd, tl, taken, got>>
  BY DEF Queue!EnqNext
<1>2. t \in Queue!Thread /\ qPc'[t] = "e_check" /\ t \in Linking
  BY <1>1, QueueFacts, OthersPlaces DEF Linking
<1>3. tl[t] \in Inside(w) /\ tl[t] \in qLive /\ (mode = "pair" => tl[t] = w[Len(w)])
  BY <1>1, ListFacts DEF Works, Enqueues
<1>4. nx'[t] = qNext[tl[t]] /\ \A u \in Queue!Thread \ {t} : nx'[u] = nx[u]
  BY <1>2, <1>3 DEF QueueTypes, Queue!EnqNext, Queue!NextOf
<1>5. qTail \in Inside(w)  BY DEF Works, Queued
<1>6. Enqueues(t, w)'
  <2>. HIDE DEF Linking
  <2>. QED  BY <1>1, <1>2, <1>3, <1>4 DEF Enqueues, EnqPlaces, Inside
<1>. QED  BY <1>1, <1>2, <1>4, <1>5, <1>6, EnqueueGoes DEF EnqPlaces

(* An enqueue reads tail again.                                            *)
LEMMA EnqCheckGoes ==
  ASSUME QueueTypes, NEW w, Works(w), NEW t \in Enqueuer, Queue!EnqCheck(t)
  PROVE  Proceeds(w)
<1>. USE DEF Queue!shared
<1>1. PICK l \in {"e_tail", "e_link", "e_help"} :
        /\ qPc[t] = "e_check" /\ Queue!Goto(t, l)
        /\ l = "e_help" => nx[t] # Null
        /\ UNCHANGED <<mode, qHead, qTail, qLive, qNext, qValue, qNode, hd, tl, nx, taken, got>>
  BY DEF Queue!EnqCheck
<1>2. t \in Queue!Thread /\ qPc'[t] = l /\ t \in Linking
  BY <1>1, QueueFacts, OthersPlaces DEF Linking
<1>3. tl[t] \in Inside(w) /\ (mode = "pair" => tl[t] = w[Len(w)]) /\ nx[t] \in {Null, qNext[tl[t]]}
  BY <1>1 DEF Works, Enqueues
<1>4. nx[t] # Null => mode = "phases"
  <2>1. qNext[tl[t]] # Null => tl[t] # w[Len(w)]  BY <1>3, ListFacts DEF Works
  <2>. QED  BY <1>3, <2>1 DEF QueueTypes
<1>5. qTail \in Inside(w)  BY DEF Works, Queued
<1>6. Enqueues(t, w)'
  <2>. HIDE DEF Linking
  <2>. QED  BY <1>1, <1>2, <1>3, <1>4 DEF Enqueues, EnqPlaces, Inside
<1>. QED  BY <1>1, <1>2, <1>5, <1>6, EnqueueGoes DEF EnqPlaces

(* Moving tail, or finding it moved.                                       *)
LEMMA SwingIs ==
  ASSUME ~Weak, NEW x, NEW n, Queue!SwingTail(x, n)
  PROVE  qTail' = IF qTail = x THEN n ELSE qTail
BY DEF Queue!SwingTail, Queue!Outcomes

(* An enqueue moves tail to the node it has linked.                        *)
LEMMA EnqSwingGoes ==
  ASSUME ~Weak, QueueTypes, NEW w, Works(w), NEW t \in Enqueuer, Queue!EnqSwing(t)
  PROVE  Proceeds(w)
<1>1. /\ qPc[t] = "e_swing" /\ Queue!Goto(t, "idle")
      /\ UNCHANGED <<mode, qHead, qLive, qNext, qValue, qNode, hd, tl, nx, taken, got>>
      /\ qTail' = IF qTail = tl[t] THEN qNode[t] ELSE qTail
  BY SwingIs DEF Queue!EnqSwing
<1>2. t \in Queue!Thread /\ qPc'[t] = "idle" /\ t \notin Linking
  BY <1>1, QueueFacts, OthersPlaces DEF Linking
<1>3. /\ qNode[t] \in Inside(w)
      /\ mode = "phases" => tl[t] \in Inside(w) /\ qNext[tl[t]] = qNode[t]
      /\ mode = "pair" => /\ qNode[t] = w[Len(w)] /\ tl[t] # qNode[t]
                          /\ qTail = qNode[t] \/ (qTail = tl[t] /\ qNext[tl[t]] = qNode[t])
  BY <1>1 DEF Works, Enqueues
<1>4. qTail \in Inside(w) /\ mode \in {"pair", "phases"}  BY DEF Works, Queued, QueueTypes
<1>5. qNode[t] # Null  BY <1>3, ListFacts, QueueFacts DEF Works
<1>6. qTail' \in Inside(w) /\ (qTail # qHead => qTail' # qHead)
  <2>1. \A n \in Inside(w) : qNext[n] # Null => qNext[n] # qHead  BY ListFacts DEF Works
  <2>. QED  BY <1>1, <1>3, <1>4, <1>5, <2>1
<1>7. mode = "pair" => qTail' = w[Len(w)]  BY <1>1, <1>3
<1>8. Enqueues(t, w)'  BY <1>2 DEF Enqueues, EnqPlaces
<1>. QED  BY <1>1, <1>2, <1>6, <1>7, <1>8, EnqueueGoes DEF EnqPlaces

(* An enqueue moves a tail that lags behind.                               *)
LEMMA EnqHelpGoes ==
  ASSUME ~Weak, QueueTypes, NEW w, Works(w), NEW t \in Enqueuer, Queue!EnqHelp(t)
  PROVE  Proceeds(w)
<1>1. /\ qPc[t] = "e_help" /\ Queue!Goto(t, "e_tail")
      /\ UNCHANGED <<mode, qHead, qLive, qNext, qValue, qNode, hd, tl, nx, taken, got>>
      /\ qTail' = IF qTail = tl[t] THEN nx[t] ELSE qTail
  BY SwingIs DEF Queue!EnqHelp
<1>2. t \in Queue!Thread /\ qPc'[t] = "e_tail" /\ t \in Linking
  BY <1>1, QueueFacts, OthersPlaces DEF Linking
<1>3. tl[t] \in Inside(w) /\ mode = "phases" /\ nx[t] = qNext[tl[t]] /\ nx[t] # Null
  BY <1>1 DEF Works, Enqueues
<1>4. qTail \in Inside(w)  BY DEF Works, Queued
<1>5. qTail' \in Inside(w) /\ (qTail # qHead => qTail' # qHead)
  <2>1. \A n \in Inside(w) : qNext[n] # Null => qNext[n] \in Inside(w) \ {qHead}
    BY ListFacts DEF Works
  <2>. QED  BY <1>1, <1>3, <1>4, <2>1
<1>6. Enqueues(t, w)'  BY <1>2 DEF Enqueues, EnqPlaces
<1>. QED  BY <1>1, <1>2, <1>3, <1>5, <1>6, EnqueueGoes DEF EnqPlaces

(* A dequeue reads head.                                                   *)
LEMMA DeqHeadGoes ==
  ASSUME QueueTypes, NEW w, Works(w), NEW t \in Dequeuer, Queue!DeqHead(t)
  PROVE  Proceeds(w)
<1>1. /\ qPc[t] = "d_head" \/ (qPc[t] = "idle" /\ Queue!MayStart(t))
      /\ hd' = [hd EXCEPT ![t] = qHead] /\ Queue!Goto(t, "d_tail")
      /\ UNCHANGED <<mode, Queue!shared, qNode, tl, nx, taken, got>>
  BY DEF Queue!DeqHead
<1>2. t \in Queue!Thread /\ qPc'[t] = "d_tail"  BY <1>1, QueueFacts, OthersPlaces
<1>3. hd'[t] = qHead /\ \A u \in Queue!Thread \ {t} : hd'[u] = hd[u]  BY <1>1, <1>2 DEF QueueTypes
<1>4. Turns'  BY <1>1, <1>2, TurnsKept, TurnsTaken DEF Works
<1>5. Dequeues(t)'  BY <1>1, <1>2, <1>3 DEF Dequeues, DeqPlaces, Queue!shared
<1>. QED  BY <1>1, <1>2, <1>3, <1>4, <1>5, DequeueGoes DEF DeqPlaces

(* A dequeue reads tail.                                                   *)
LEMMA DeqTailGoes ==
  ASSUME QueueTypes, NEW w, Works(w), NEW t \in Dequeuer, Queue!DeqTail(t)
  PROVE  Proceeds(w)
<1>1. /\ qPc[t] = "d_tail" /\ Queue!Goto(t, "d_next") /\ tl' = [tl EXCEPT ![t] = qTail]
      /\ UNCHANGED <<mode, Queue!shared, qNode, hd, nx, taken, got>>
  BY DEF Queue!DeqTail
<1>2. t \in Queue!Thread /\ qPc'[t] = "d_next" /\ hd[t] = qHead
  BY <1>1, QueueFacts, OthersPlaces DEF Works, Dequeues
<1>3. tl'[t] = qTail /\ \A u \in Queue!Thread \ {t} : tl'[u] = tl[u]  BY <1>1, <1>2 DEF QueueTypes
<1>4. Turns'  BY <1>1, <1>2, TurnsKept DEF Works
<1>5. Dequeues(t)'  BY <1>1, <1>2, <1>3 DEF Dequeues, DeqPlaces, Queue!shared
<1>. QED  BY <1>1, <1>2, <1>3, <1>4, <1>5, DequeueGoes DEF DeqPlaces

(* A dequeue reads the sentinel's next field.                              *)
LEMMA DeqNextGoes ==
  ASSUME QueueTypes, NEW w, Works(w), NEW t \in Dequeuer, Queue!DeqNext(t)
  PROVE  Proceeds(w)
<1>1. /\ qPc[t] = "d_next" /\ Queue!Goto(t, "d_check")
      /\ UNCHANGED <<mode, Queue!shared, qNode, hd, tl, taken, got>>
  BY DEF Queue!DeqNext
<1>2. /\ t \in Queue!Thread /\ qPc'[t] = "d_check" /\ hd[t] = qHead
      /\ tl[t] = qHead \/ qTail # qHead
  BY <1>1, QueueFacts, OthersPlaces DEF Works, Dequeues
<1>3. qHead \in qLive /\ (qTail # qHead => qNext[qHead] # Null)  BY ListFacts DEF Works
<1>4. nx'[t] = qNext[qHead] /\ \A u \in Queue!Thread \ {t} : nx'[u] = nx[u]
  BY <1>2, <1>3 DEF QueueTypes, Queue!DeqNext, Queue!NextOf
<1>5. Turns'  BY <1>1, <1>2, TurnsKept DEF Works
<1>6. Dequeues(t)'  BY <1>1, <1>2, <1>3, <1>4 DEF Dequeues, DeqPlaces, Queue!shared
<1>. QED  BY <1>1, <1>2, <1>4, <1>5, <1>6, DequeueGoes DEF DeqPlaces

(* A dequeue reads head again, and may find the queue empty.               *)
LEMMA DeqCheckGoes ==
  ASSUME QueueTypes, NEW w, Works(w), NEW t \in Dequeuer, Queue!DeqCheck(t)
  PROVE  Proceeds(w)
<1>1. PICK l \in {"idle", "d_head", "d_take", "d_help"} :
        /\ qPc[t] = "d_check" /\ Queue!Goto(t, l)
        /\ l = "d_take" => hd[t] # tl[t]
        /\ l = "d_help" => hd[t] = tl[t] /\ nx[t] # Null
        /\ UNCHANGED <<mode, Queue!shared, qNode, hd, tl, nx, taken, got>>
  BY DEF Queue!DeqCheck
<1>2. t \in Queue!Thread /\ qPc'[t] = l  BY <1>1, QueueFacts, OthersPlaces
<1>3. /\ hd[t] = qHead
      /\ tl[t] = qHead \/ qTail # qHead
      /\ nx[t] \in {Null, qNext[qHead]} /\ (tl[t] = qHead \/ nx[t] # Null)
  BY <1>1 DEF Works, Dequeues
<1>4. Turns'  BY <1>1, <1>2, TurnsKept DEF Works
<1>5. Dequeues(t)'
  <2>1. UNCHANGED <<qHead, qTail, qNext, qValue, hd, tl, nx, taken>>  BY <1>1 DEF Queue!shared
  <2>2. CASE l = "idle"  BY <1>2, <2>2 DEF Dequeues, DeqPlaces
  <2>3. CASE l = "d_head"  BY <1>2, <2>3 DEF Dequeues, DeqPlaces
  <2>4. CASE l = "d_take"
    <3>1. qPc'[t] = "d_take" /\ qTail # qHead /\ nx[t] = qNext[qHead] /\ nx[t] # Null
      BY <1>1, <1>2, <1>3, <2>4
    <3>. QED  BY <1>3, <2>1, <3>1 DEF Dequeues, DeqPlaces
  <2>5. CASE l = "d_help"
    <3>1. qPc'[t] = "d_help" /\ tl[t] = qHead /\ nx[t] = qNext[qHead] /\ nx[t] # Null
      BY <1>1, <1>2, <1>3, <2>5
    <3>. QED  BY <1>3, <2>1, <3>1 DEF Dequeues, DeqPlaces
  <2>. QED  BY <1>1, <2>2, <2>3, <2>4, <2>5
<1>. QED  BY <1>1, <1>2, <1>4, <1>5, DequeueGoes DEF DeqPlaces

(* A dequeue moves a tail that lags behind.                                *)
LEMMA DeqHelpGoes ==
  ASSUME ~Weak, QueueTypes, NEW w, Works(w), NEW t \in Dequeuer, Queue!DeqHelp(t)
  PROVE  Proceeds(w)
<1>1. /\ qPc[t] = "d_help" /\ Queue!Goto(t, "d_head")
      /\ UNCHANGED <<mode, qHead, qLive, qNext, qValue, qNode, hd, tl, nx, taken, got>>
      /\ qTail' = IF qTail = tl[t] THEN nx[t] ELSE qTail
  BY SwingIs DEF Queue!DeqHelp
<1>2. t \in Queue!Thread /\ t \notin Enqueuer /\ Enqueuer \subseteq Queue!Thread \ {t}
      /\ \A u \in Dequeuer \ {t} : u \in Queue!Thread \ {t}
  BY QueueFacts
<1>3. qPc'[t] = "d_head" /\ \A u \in Queue!Thread \ {t} : qPc'[u] = qPc[u]
  BY <1>1, <1>2, OthersPlaces
<1>4. tl[t] = qHead /\ nx[t] = qNext[qHead] /\ qNext[qHead] # Null  BY <1>1 DEF Works, Dequeues
<1>5. /\ qTail \in Inside(w) /\ qHead \in Inside(w) /\ qHead # w[Len(w)]
      /\ qNext[qHead] \in Inside(w) /\ qNext[qHead] # qHead /\ mode \in {"pair", "phases"}
  BY <1>4, ListFacts DEF Works, Queued, QueueTypes
<1>6. qTail' \in Inside(w) /\ (qTail # qHead => qTail' # qHead)  BY <1>1, <1>4, <1>5
<1>7. Linking' = Linking /\ Taking' = Taking /\ Queue!Freeing' = Queue!Freeing
  <2>1. Linking' = Linking  BY <1>2, <1>3 DEF Linking
  <2>2. Taking' = Taking /\ Queue!Freeing' = Queue!Freeing
    BY <1>1, <1>2, <1>3 DEF Taking, Queue!Freeing
  <2>. QED  BY <2>1, <2>2
<1>8. Queued(w)' /\ Waiting(w)' = Waiting(w) /\ Returned' = Returned
  BY <1>1, <1>6, <1>7, QueuedKept DEF Works
<1>9. Turns'  BY <1>1, <1>2, TurnsKept DEF Works
<1>10. Lag(w)'
  <2>. SUFFICES ASSUME mode = "pair", \A u \in Enqueuer : qPc[u] # "e_swing"
       PROVE qTail' = w[Len(w)]
    BY <1>1, <1>2, <1>3 DEF Lag
  <2>1. qTail = w[Len(w)]  BY DEF Works, Lag
  <2>. QED  BY <1>1, <1>4, <1>5, <2>1
<1>11. ASSUME NEW u \in Enqueuer PROVE Enqueues(u, w)'
  <2>1. Enqueues(u, w) /\ qPc'[u] = qPc[u]  BY <1>2, <1>3 DEF Works
  <2>2. CASE mode = "pair" /\ qPc[u] = "e_swing" /\ qTail' # qTail
    <3>1. /\ qNode[u] \in Inside(w) /\ qNode[u] = w[Len(w)] /\ tl[u] # qNode[u]
          /\ qTail = qNode[u] \/ (qTail = tl[u] /\ qNext[tl[u]] = qNode[u])
      BY <2>1, <2>2 DEF Enqueues
    <3>2. qTail = qHead /\ qTail' = qNext[qHead] /\ qNext[qHead] = qNode[u]
      BY <1>1, <1>4, <1>5, <2>2, <3>1
    <3>3. Inside(w)' = Inside(w)  BY DEF Inside
    <3>. HIDE DEF Inside
    <3>. QED  BY <1>1, <2>1, <2>2, <3>1, <3>2, <3>3 DEF Enqueues, EnqPlaces
  <2>3. CASE ~(mode = "pair" /\ qPc[u] = "e_swing" /\ qTail' # qTail)
    BY <1>1, <1>5, <2>1, <2>3, EnqueuesKept
  <2>. QED  BY <2>2, <2>3
<1>12. \A u \in Dequeuer \ {t} : Dequeues(u)'
  BY <1>1, <1>2, <1>3, <1>6, DequeuesKept DEF Works
<1>13. Dequeues(t)'  BY <1>3 DEF Dequeues, DeqPlaces
<1>. QED  BY <1>8, <1>9, <1>10, <1>11, <1>12, <1>13 DEF Works, Proceeds, Advances

(* A dequeue frees the old sentinel and returns its value.                 *)
LEMMA DeqFreeGoes ==
  ASSUME QueueTypes, NEW w, Works(w), NEW t \in Dequeuer, Queue!DeqFree(t)
  PROVE  Proceeds(w)
<1>1. /\ qPc[t] = "d_free" /\ Queue!Goto(t, "idle") /\ got' = taken[t]
      /\ UNCHANGED <<mode, qHead, qTail, qNext, qValue, qNode, hd, tl, nx, taken>>
  BY DEF Queue!DeqFree
<1>a. PICK n : n = hd[t]  OBVIOUS
<1>b. qLive' = qLive \ {n}  BY <1>a DEF Queue!DeqFree
<1>2. t \in Queue!Thread /\ t \notin Enqueuer /\ Enqueuer \subseteq Queue!Thread \ {t}
      /\ \A u \in Dequeuer \ {t} : u \in Queue!Thread \ {t} /\ qPc[u] = "idle"
  BY <1>1, QueueFacts DEF Works, Turns
<1>3. qPc'[t] = "idle" /\ \A u \in Queue!Thread \ {t} : qPc'[u] = qPc[u]
  BY <1>1, <1>2, OthersPlaces
<1>4. /\ Linking' = Linking /\ Taking = {} /\ Taking' = {}
      /\ Queue!Freeing = {t} /\ Queue!Freeing' = {}
  <2>1. Linking' = Linking  BY <1>2, <1>3 DEF Linking
  <2>2. Taking = {} /\ Taking' = {}  BY <1>1, <1>2, <1>3 DEF Taking
  <2>3. Queue!Freeing = {t} /\ Queue!Freeing' = {}  BY <1>1, <1>2, <1>3 DEF Queue!Freeing
  <2>. QED  BY <2>1, <2>2, <2>3
<1>5. Waiting(w)' = Waiting(w)  BY <1>1, <1>4 DEF Waiting
<1>6. Returned' = Returned  BY <1>1, <1>4 DEF Returned
<1>7. Inside(w)' = Inside(w)  BY DEF Inside
<1>8. Queued(w)'
  <2>1. n \notin Inside(w) /\ \A u \in Linking : qNode[u] # n
    BY <1>4, <1>a DEF Works, Queued
  <2>2. qLive = Inside(w) \cup {qNode[u] : u \in Linking} \cup {hd[u] : u \in Queue!Freeing}
    BY DEF Works, Queued
  <2>3. {hd[u] : u \in Queue!Freeing} = {n}  BY <1>4, <1>a
  <2>4. {hd'[u] : u \in Queue!Freeing'} = {}  BY <1>4
  <2>5. {qNode'[u] : u \in Linking'} = {qNode[u] : u \in Linking}  BY <1>1, <1>4
  <2>6. n \notin {qNode[u] : u \in Linking}  BY <2>1
  <2>. HIDE DEF Inside, Linking, Taking, Queue!Freeing
  <2>7. qLive' = Inside(w) \cup {qNode'[u] : u \in Linking'} \cup {hd'[u] : u \in Queue!Freeing'}
    BY <1>b, <2>1, <2>2, <2>3, <2>4, <2>5, <2>6, Zenon
  <2>. QED  BY <1>1, <1>4, <1>7, <2>7 DEF Works, Queued
<1>9. Turns'  BY <1>1, <1>2, TurnsKept DEF Works
<1>10. Lag(w)'  BY <1>1, <1>2, <1>3 DEF Works, Lag
<1>11. qTail \in Inside(w)  BY DEF Works, Queued
<1>12. \A u \in Enqueuer : Enqueues(u, w)'  BY <1>1, <1>2, <1>3, <1>11, EnqueuesKept DEF Works
<1>13. \A u \in Dequeuer : Dequeues(u)'  BY <1>2, <1>3 DEF Dequeues, DeqPlaces
<1>. QED  BY <1>5, <1>6, <1>8, <1>9, <1>10, <1>12, <1>13 DEF Works, Proceeds, Advances

(* Allocating a node: it is held by the thread that enqueues, and not in   *)
(* the list.                                                               *)
LEMMA EnqAllocGoes ==
  ASSUME QueueTypes, NEW w, Works(w), NEW t \in Enqueuer, NEW v \in Value, Queue!EnqAlloc(t, v)
  PROVE  Proceeds(w)
<1>1. PICK n \in QueueNode \ qLive : /\ qLive' = qLive \cup {n}
                                     /\ qNode' = [qNode EXCEPT ![t] = n]
                                     /\ qValue' = [qValue EXCEPT ![n] = v]
                                     /\ qNext' = [qNext EXCEPT ![n] = Null]
  BY DEF Queue!EnqAlloc
<1>2. /\ qPc[t] = "idle" /\ Queue!MayStart(t) /\ Queue!Goto(t, "e_tail")
      /\ UNCHANGED <<mode, qHead, qTail, hd, tl, nx, taken, got>>
  BY DEF Queue!EnqAlloc
<1>3. t \in Queue!Thread /\ t \notin Dequeuer /\ Dequeuer \subseteq Queue!Thread \ {t}
      /\ \A u \in Enqueuer \ {t} : u \in Queue!Thread \ {t}
  BY QueueFacts
<1>4. qPc'[t] = "e_tail" /\ \A u \in Queue!Thread \ {t} : qPc'[u] = qPc[u]
  BY <1>2, <1>3, OthersPlaces
<1>5. /\ Linking' = Linking \cup {t} /\ t \notin Linking
      /\ Taking' = Taking /\ Queue!Freeing' = Queue!Freeing
  <2>1. Linking' = Linking \cup {t} /\ t \notin Linking  BY <1>2, <1>3, <1>4 DEF Linking
  <2>2. Taking' = Taking /\ Queue!Freeing' = Queue!Freeing  BY <1>3, <1>4 DEF Taking, Queue!Freeing
  <2>. QED  BY <2>1, <2>2
<1>6. /\ qNode'[t] = n /\ \A u \in Enqueuer \ {t} : qNode'[u] = qNode[u]
      /\ \A m \in qLive : qValue'[m] = qValue[m] /\ qNext'[m] = qNext[m]
      /\ qValue'[n] = v /\ qNext'[n] = Null
  BY <1>1 DEF QueueTypes
<1>7. /\ Inside(w) \subseteq qLive /\ n \notin Inside(w) /\ qHead \in Inside(w)
      /\ \A i \in 1 .. Len(w) : w[i] \in Inside(w)
      /\ Len(w) \in Nat /\ qNext[qHead] # Null => qNext[qHead] \in Inside(w)
  BY ListFacts DEF Works
<1>8. Inside(w)' = Inside(w) /\ \A u \in Linking : u \in Enqueuer /\ u # t
  BY <1>5 DEF Inside, Linking
<1>9. \A m \in qLive : qValue'[m] = qValue[m] /\ qNext'[m] = qNext[m] /\ m # n  BY <1>6
<1>10. Queued(w)'
  <2>1. IsPath(QueueNode, Null, w, qHead', qNext')  BY <1>2, <1>6, <1>7, PathFrame DEF Works, Queued
  <2>2. qLive' = Inside(w) \cup {qNode'[u] : u \in Linking'} \cup {hd'[u] : u \in Queue!Freeing'}
    <3>1. {qNode'[u] : u \in Linking'} = {qNode[u] : u \in Linking} \cup {n}
      BY <1>5, <1>6, <1>8
    <3>2. {hd'[u] : u \in Queue!Freeing'} = {hd[u] : u \in Queue!Freeing}  BY <1>2, <1>5
    <3>3. qLive = Inside(w) \cup {qNode[u] : u \in Linking} \cup {hd[u] : u \in Queue!Freeing}
      BY DEF Works, Queued
    <3>. HIDE DEF Inside, Linking, Queue!Freeing
    <3>. QED  BY <1>1, <3>1, <3>2, <3>3, Zenon
  <2>3. \A u \in Linking : qNode[u] \in qLive /\ qNode'[u] = qNode[u]
    <3>1. \A u \in Linking : qNode[u] \in qLive  BY DEF Works, Queued
    <3>. QED  BY <1>6, <1>8, <3>1
  <2>4. \A u \in Linking' : /\ qNode'[u] \in QueueNode \ Inside(w) /\ qNext'[qNode'[u]] = Null
                            /\ qValue'[qNode'[u]] \in Value
    <3>. HIDE DEF Linking, Inside
    <3>. QED  BY <1>1, <1>5, <1>6, <1>7, <1>9, <2>3 DEF Works, Queued
  <2>5. \A u, x \in Linking' : qNode'[u] = qNode'[x] => u = x
    <3>. HIDE DEF Linking, Inside
    <3>. QED  BY <1>5, <1>6, <1>9, <2>3 DEF Works, Queued
  <2>6. \A u \in Queue!Freeing' : /\ hd'[u] \in QueueNode \ Inside(w) /\ taken'[u] \in Value
                                  /\ \A x \in Linking' : qNode'[x] # hd'[u]
    <3>1. \A u \in Queue!Freeing : hd[u] \in qLive  BY DEF Works, Queued
    <3>. HIDE DEF Linking, Inside, Queue!Freeing
    <3>. QED  BY <1>2, <1>5, <1>6, <1>9, <2>3, <3>1 DEF Works, Queued
  <2>7. qValue'[qHead'] = None  BY <1>2, <1>7, <1>9 DEF Works, Queued
  <2>8. \A i \in 2 .. Len(w) : qValue'[w[i]] \in Value \/ (i = 2 /\ Taking' # {})
    <3>. TAKE i \in 2 .. Len(w)
    <3>1. i \in 1 .. Len(w)  BY <1>7
    <3>2. qValue'[w[i]] = qValue[w[i]]  BY <1>7, <1>9, <3>1
    <3>. QED  BY <1>5, <3>2 DEF Works, Queued
  <2>9. qTail' \in Inside(w)  BY <1>2 DEF Works, Queued
  <2>. QED  BY <1>8, <2>1, <2>2, <2>4, <2>5, <2>6, <2>7, <2>8, <2>9 DEF Queued
<1>11. Waiting(w)' = Waiting(w)
  <2>1. \A i \in 1 .. Len(w) - 1 : qValue'[w[i + 1]] = qValue[w[i + 1]]
    <3>. TAKE i \in 1 .. Len(w) - 1
    <3>1. i + 1 \in 1 .. Len(w)  BY <1>7
    <3>. QED  BY <1>7, <1>9, <3>1
  <2>. QED  BY <1>2, <1>5, <2>1 DEF Waiting
<1>12. Returned' = Returned  BY <1>2, <1>5 DEF Returned
<1>13. Turns'  BY <1>2, <1>3, TurnsTaken DEF Works
<1>14. Lag(w)'  BY <1>2, <1>3, <1>4 DEF Works, Lag
<1>15. Enqueues(t, w)'  BY <1>4 DEF Enqueues, EnqPlaces
<1>16. \A u \in Enqueuer \ {t} : Enqueues(u, w)'
  <2>. SUFFICES ASSUME NEW u \in Enqueuer \ {t} PROVE Enqueues(u, w)'  OBVIOUS
  <2>1. qTail \in Inside(w) /\ Enqueues(u, w)  BY DEF Works, Queued
  <2>2. \A m \in Inside(w) : qNext'[m] = qNext[m]  BY <1>7, <1>9
  <2>. QED  BY <1>2, <1>3, <1>4, <1>6, <2>1, <2>2, EnqueuesKept
<1>17. \A u \in Dequeuer : Dequeues(u)'
  <2>. SUFFICES ASSUME NEW u \in Dequeuer PROVE Dequeues(u)'  OBVIOUS
  <2>1. Dequeues(u)  BY DEF Works
  <2>2. qPc[u] = "d_swing" => nx[u] \in qLive  BY <1>7, <2>1 DEF Dequeues
  <2>. QED  BY <1>2, <1>3, <1>4, <1>7, <1>9, <2>1, <2>2, DequeuesKept
<1>. QED
  BY <1>10, <1>11, <1>12, <1>13, <1>14, <1>15, <1>16, <1>17 DEF Works, Proceeds, Advances

(* Linking the new node behind the last: this is when it is enqueued.      *)
LEMMA EnqLinkGoes ==
  ASSUME ~Weak, QueueTypes, NEW w, Works(w), NEW t \in Enqueuer, Queue!EnqLink(t)
  PROVE  Proceeds(w)
<1>1. /\ qPc[t] = "e_link"
      /\ UNCHANGED <<mode, qHead, qTail, qLive, qValue, qNode, hd, tl, nx, taken, got>>
  BY DEF Queue!EnqLink
<1>2. t \in Queue!Thread /\ t \notin Dequeuer /\ Dequeuer \subseteq Queue!Thread \ {t}
      /\ \A u \in Enqueuer \ {t} : u \in Queue!Thread \ {t}
  BY QueueFacts
<1>3. tl[t] \in Inside(w) /\ tl[t] \in qLive /\ (mode = "pair" => tl[t] = w[Len(w)])
  BY <1>1, ListFacts DEF Works, Enqueues
<1>4. t \in Linking  BY <1>1 DEF Linking
<1>5. CASE qNext[tl[t]] # Null
  <2>1. qNext' = qNext /\ Queue!Goto(t, "e_tail")
    BY <1>3, <1>5 DEF Queue!EnqLink, Queue!NextOf, Queue!Outcomes
  <2>2. qPc'[t] = "e_tail"  BY <1>2, <2>1, OthersPlaces
  <2>3. qTail \in Inside(w)  BY DEF Works, Queued
  <2>4. Enqueues(t, w)'  BY <2>2 DEF Enqueues, EnqPlaces
  <2>. QED  BY <1>1, <1>4, <2>1, <2>3, <2>4, EnqueueGoes DEF EnqPlaces
<1>6. CASE qNext[tl[t]] = Null
  <2>1. PICK n, last, z : n = qNode[t] /\ last = w[Len(w)] /\ z = Append(w, n)  OBVIOUS
  <2>2. last = tl[t]  BY <1>3, <1>6, <2>1, ListFacts DEF Works
  <2>3. qNext' = [qNext EXCEPT ![last] = n] /\ Queue!Goto(t, "e_swing")
    BY <1>3, <1>6, <2>1, <2>2 DEF Queue!EnqLink, Queue!NextOf, Queue!Outcomes
  <2>4. qPc'[t] = "e_swing" /\ \A u \in Queue!Thread \ {t} : qPc'[u] = qPc[u]
    BY <1>2, <2>3, OthersPlaces
  <2>5. /\ Linking = Linking' \cup {t} /\ t \notin Linking' /\ Linking' \subseteq Linking
        /\ Taking' = Taking /\ Queue!Freeing' = Queue!Freeing
    <3>1. Linking = Linking' \cup {t} /\ t \notin Linking' /\ Linking' \subseteq Linking
      BY <1>2, <1>4, <2>4 DEF Linking
    <3>2. Taking' = Taking /\ Queue!Freeing' = Queue!Freeing
      BY <1>2, <2>4 DEF Taking, Queue!Freeing
    <3>. QED  BY <3>1, <3>2
  <2>6. /\ n \in QueueNode \ Inside(w) /\ qNext[n] = Null /\ qValue[n] \in Value /\ n # Null
    BY <1>4, <2>1, QueueFacts DEF Works, Queued
  <2>7. /\ last \in Inside(w) /\ last \in QueueNode /\ Len(w) \in Nat \ {0} /\ qHead \in Inside(w)
        /\ \A i \in 1 .. Len(w) : w[i] \in Inside(w)
        /\ \A m \in Inside(w) : qNext[m] = Null <=> m = last
    BY <2>1, ListFacts DEF Works
  <2>8. qNext'[last] = n /\ \A m \in QueueNode \ {last} : qNext'[m] = qNext[m]
    BY <2>3, <2>7 DEF QueueTypes
  <2>9. /\ IsPath(QueueNode, Null, z, qHead', qNext') /\ Len(z) = Len(w) + 1 /\ z[Len(z)] = n
        /\ Inside(z) = Inside(w) \cup {n} /\ \A i \in 1 .. Len(w) : z[i] = w[i]
    <3>1. IsPath(QueueNode, Null, w, qHead, qNext) /\ Inside(w) \subseteq QueueNode
      BY ListFacts DEF Works, Queued
    <3>2. qNext'[n] = Null /\ \A m \in Inside(w) \ {last} : qNext'[m] = qNext[m]
      BY <2>6, <2>7, <2>8, <3>1
    <3>3. n \in QueueNode \ Inside(w) /\ Len(w) # 0 /\ qNext'[w[Len(w)]] = n /\ qHead' = qHead
      BY <1>1, <2>1, <2>6, <2>7, <2>8
    <3>4. \A m \in Inside(w) \ {w[Len(w)]} : qNext'[m] = qNext[m]  BY <2>1, <3>2
    <3>. HIDE DEF IsPath, Inside
    <3>5. PICK f : f = qNext'  OBVIOUS
    <3>6. /\ f[n] = Null /\ f[w[Len(w)]] = n
          /\ \A m \in Inside(w) \ {w[Len(w)]} : f[m] = qNext[m]
      BY <3>2, <3>3, <3>4, <3>5
    <3>7. /\ IsPath(QueueNode, Null, z, qHead, f) /\ Len(z) = Len(w) + 1 /\ z[Len(z)] = n
          /\ Inside(z) = Inside(w) \cup {n} /\ \A i \in 1 .. Len(w) : z[i] = w[i]
      <4>1. Appended(QueueNode, Null, w, qHead, qNext, n, z, f)
        BY <2>1, <3>1, <3>3, <3>6, Zenon DEF Appended
      <4>. QED  BY <4>1, PathAppend
    <3>. QED  BY <3>3, <3>5, <3>7
  <2>10. Inside(z)' = Inside(z)  BY DEF Inside
  <2>11. \A u \in Linking' : /\ qNode[u] \in QueueNode \ Inside(w)
                             /\ qNode[u] # n /\ qNode[u] # last
                             /\ qNext[qNode[u]] = Null /\ qValue[qNode[u]] \in Value
    <3>. HIDE DEF Linking, Inside
    <3>. QED  BY <1>4, <2>1, <2>5, <2>7 DEF Works, Queued
  <2>12. Queued(z)'
    <3>1. qLive' = Inside(z) \cup {qNode'[u] : u \in Linking'} \cup {hd'[u] : u \in Queue!Freeing'}
      <4>1. {qNode[u] : u \in Linking} = {qNode'[u] : u \in Linking'} \cup {n}
        <5>. HIDE DEF Linking
        <5>. QED  BY <1>1, <2>1, <2>5
      <4>2. {hd'[u] : u \in Queue!Freeing'} = {hd[u] : u \in Queue!Freeing}  BY <1>1, <2>5
      <4>3. qLive = Inside(w) \cup {qNode[u] : u \in Linking} \cup {hd[u] : u \in Queue!Freeing}
        BY DEF Works, Queued
      <4>. HIDE DEF Inside, Linking, Queue!Freeing
      <4>. QED  BY <1>1, <2>9, <4>1, <4>2, <4>3, Zenon
    <3>. HIDE DEF Linking, Inside, Queue!Freeing, Taking
    <3>2. \A u \in Linking' : /\ qNode'[u] \in QueueNode \ Inside(z) /\ qNext'[qNode'[u]] = Null
                              /\ qValue'[qNode'[u]] \in Value
      BY <1>1, <2>8, <2>9, <2>11
    <3>3. \A u, x \in Linking' : qNode'[u] = qNode'[x] => u = x
      BY <1>1, <2>5 DEF Works, Queued
    <3>4. \A u \in Queue!Freeing' : /\ hd'[u] \in QueueNode \ Inside(z) /\ taken'[u] \in Value
                                    /\ \A x \in Linking' : qNode'[x] # hd'[u]
      BY <1>1, <1>4, <2>1, <2>5, <2>9 DEF Works, Queued
    <3>5. qValue'[qHead'] = None /\ qTail' \in Inside(z)  BY <1>1, <2>9 DEF Works, Queued
    <3>6. \A i \in 2 .. Len(z) : qValue'[z[i]] \in Value \/ (i = 2 /\ Taking' # {})
      <4>. TAKE i \in 2 .. Len(z)
      <4>1. CASE i = Len(z)  BY <1>1, <2>6, <2>9, <4>1
      <4>2. CASE i # Len(z)
        <5>1. i \in 2 .. Len(w) /\ i \in 1 .. Len(w)  BY <2>7, <2>9, <4>2
        <5>. QED  BY <1>1, <2>5, <2>9, <5>1 DEF Works, Queued
      <4>. QED  BY <4>1, <4>2
    <3>. QED  BY <2>9, <2>10, <3>1, <3>2, <3>3, <3>4, <3>5, <3>6 DEF Queued
  <2>13. Turns'  BY <1>1, <1>2, <2>3, TurnsKept DEF Works
  <2>14. Lag(z)'  BY <2>4 DEF Lag
  <2>15. mode = "pair" => qTail = last /\ \A u \in Enqueuer \ {t} : qPc[u] = "idle"
    <3>1. mode = "pair" => \A u \in Enqueuer : u # t => qPc[u] = "idle"  BY <1>1 DEF Works, Turns
    <3>. QED  BY <1>1, <2>1, <3>1 DEF Works, Lag
  <2>16. Enqueues(t, z)'
    <3>1. qPc'[t] = "e_swing" /\ qNode'[t] = n /\ tl'[t] = last /\ qTail' = qTail /\ mode' = mode
      BY <1>1, <2>1, <2>2, <2>4
    <3>. HIDE DEF Inside
    <3>. QED  BY <2>6, <2>7, <2>8, <2>9, <2>10, <2>15, <3>1 DEF Enqueues, EnqPlaces
  <2>17. ASSUME NEW u \in Enqueuer \ {t} PROVE Enqueues(u, z)'
    <3>1. /\ Enqueues(u, w) /\ qPc'[u] = qPc[u] /\ mode' = mode /\ qTail' = qTail /\ tl'[u] = tl[u]
          /\ nx'[u] = nx[u] /\ qNode'[u] = qNode[u]
      BY <1>1, <1>2, <2>4 DEF Works
    <3>2. CASE mode = "pair"
      <4>1. qPc'[u] = "idle"  BY <2>15, <3>1, <3>2
      <4>. QED  BY <4>1 DEF Enqueues, EnqPlaces
    <3>3. CASE mode = "phases"
      <4>1. \A m \in Inside(w) : m \in Inside(z) /\ (qNext'[m] = qNext[m] \/ qNext[m] = Null)
        <5>1. Inside(w) \subseteq QueueNode  BY ListFacts DEF Works
        <5>. HIDE DEF Inside
        <5>. QED  BY <2>7, <2>8, <2>9, <5>1
      <4>2. Null \notin Inside(w)  BY ListFacts, QueueFacts DEF Works
      <4>3. Null \notin QueueNode  BY QueueFacts
      <4>. HIDE DEF Inside
      <4>4. qPc[u] \in {"e_next", "e_check", "e_link", "e_help", "e_swing"} => tl[u] \in Inside(w)
        BY <3>1, <3>3 DEF Enqueues
      <4>5. qPc[u] = "e_swing" => qNode[u] \in Inside(z) /\ qNext'[tl[u]] = qNode[u]
        BY <3>1, <3>3, <4>1, <4>2, <4>4 DEF Enqueues
      <4>6. qPc[u] \in {"e_check", "e_help"} => nx[u] \in {Null, qNext'[tl[u]]}
        BY <3>1, <4>1, <4>4 DEF Enqueues
      <4>. QED  BY <2>10, <3>1, <3>3, <4>1, <4>4, <4>5, <4>6 DEF Enqueues, EnqPlaces
    <3>. QED  BY <3>2, <3>3 DEF QueueTypes
  <2>18. \A u \in Dequeuer : Dequeues(u)'
    <3>. SUFFICES ASSUME NEW u \in Dequeuer PROVE Dequeues(u)'  OBVIOUS
    <3>1. qHead \in QueueNode  BY DEF QueueTypes
    <3>2. qNext'[qHead] = qNext[qHead] \/ qNext[qHead] = Null  BY <2>7, <2>8, <3>1
    <3>. QED  BY <1>1, <1>2, <2>4, <3>2, DequeuesKept DEF Works
  <2>19. Len(w) = 1 => Taking = {}
    <3>1. \A u \in Taking : qNext[qHead] # Null  BY DEF Works, Dequeues, Taking
    <3>2. qNext[qHead] # Null => Len(w) >= 2  BY ListFacts DEF Works
    <3>. QED  BY <3>1, <3>2
  <2>20. Waiting(z)' = Append(Waiting(w), qValue[n])
    <3>. DEFINE y == Waiting(w)
    <3>1. /\ Len(y) = Len(w) - 1 /\ Len(w) - 1 \in Nat
          /\ y = [i \in 1 .. Len(w) - 1 |-> y[i]]
      BY <2>7 DEF Waiting
    <3>2. \A i \in 1 .. Len(w) - 1 :
            y[i] = IF i = 1 /\ Taking # {} THEN taken[CHOOSE x \in Taking : TRUE]
                   ELSE qValue[w[i + 1]]
      BY DEF Waiting
    <3>3. Waiting(z)' = [i \in 1 .. Len(w) |->
            IF i = 1 /\ Taking # {} THEN taken[CHOOSE x \in Taking : TRUE] ELSE qValue[z[i + 1]]]
      <4>1. Len(z) - 1 = Len(w)  BY <2>7, <2>9
      <4>. QED  BY <1>1, <2>5, <4>1 DEF Waiting
    <3>. HIDE DEF y
    <3>4. Append(y, qValue[n]) = [i \in 1 .. Len(w) |-> IF i = Len(w) THEN qValue[n] ELSE y[i]]
      <4>1. y \in Seq({y[i] : i \in 1 .. Len(w) - 1})  BY <3>1
      <4>. QED  BY <2>7, <3>1, <4>1
    <3>5. ASSUME NEW i \in 1 .. Len(w)
          PROVE  (IF i = 1 /\ Taking # {} THEN taken[CHOOSE x \in Taking : TRUE]
                  ELSE qValue[z[i + 1]])
                   = IF i = Len(w) THEN qValue[n] ELSE y[i]
      <4>1. CASE i = Len(w)
        <5>1. ~(i = 1 /\ Taking # {}) /\ z[i + 1] = n  BY <2>9, <2>19, <4>1
        <5>. QED  BY <4>1, <5>1
      <4>2. CASE i # Len(w)
        <5>1. i \in 1 .. Len(w) - 1 /\ i + 1 \in 1 .. Len(w)  BY <2>7, <4>2
        <5>. QED  BY <2>9, <3>2, <4>2, <5>1
      <4>. QED  BY <4>1, <4>2
    <3>. QED  BY <3>3, <3>4, <3>5 DEF y
  <2>21. Len(Waiting(w)) < Cardinality(QueueNode)
    <3>1. Len(w) <= Cardinality(QueueNode) /\ Cardinality(QueueNode) \in Nat
      BY PathLength, QueueFacts DEF Works, Queued
    <3>2. Len(Waiting(w)) = Len(w) - 1  BY <2>7 DEF Waiting
    <3>. QED  BY <2>7, <3>1, <3>2
  <2>22. Returned' = Returned  BY <1>1, <2>5 DEF Returned
  <2>23. \A u \in Enqueuer : Enqueues(u, z)'  BY <2>16, <2>17
  <2>24. Works(z)'  BY <2>12, <2>13, <2>14, <2>18, <2>23 DEF Works
  <2>25. Advances(w, z)  BY <2>6, <2>20, <2>21, <2>22 DEF Advances
  <2>. QED  BY <2>24, <2>25 DEF Proceeds
<1>. QED  BY <1>5, <1>6

(* A dequeue takes the value out of the node behind the sentinel.          *)
LEMMA DeqTakeGoes ==
  ASSUME QueueTypes, NEW w, Works(w), NEW t \in Dequeuer, Queue!DeqTake(t)
  PROVE  Proceeds(w)
<1>1. /\ qPc[t] = "d_take" /\ Queue!Goto(t, "d_swing")
      /\ UNCHANGED <<mode, qHead, qTail, qLive, qNext, qNode, hd, tl, nx, got>>
  BY DEF Queue!DeqTake
<1>2. t \in Queue!Thread /\ t \notin Enqueuer /\ Enqueuer \subseteq Queue!Thread \ {t}
      /\ \A u \in Dequeuer \ {t} : u \in Queue!Thread \ {t} /\ qPc[u] = "idle"
  BY <1>1, QueueFacts DEF Works, Turns
<1>3. qPc'[t] = "d_swing" /\ \A u \in Queue!Thread \ {t} : qPc'[u] = qPc[u]
  BY <1>1, <1>2, OthersPlaces
<1>4. /\ Linking' = Linking /\ Taking = {} /\ Taking' = {t}
      /\ Queue!Freeing = {} /\ Queue!Freeing' = {}
  <2>1. Linking' = Linking  BY <1>2, <1>3 DEF Linking
  <2>2. Taking = {} /\ Taking' = {t}  BY <1>1, <1>2, <1>3 DEF Taking
  <2>3. Queue!Freeing = {} /\ Queue!Freeing' = {}  BY <1>1, <1>2, <1>3 DEF Queue!Freeing
  <2>. QED  BY <2>1, <2>2, <2>3
<1>5. PICK n : n = nx[t]  OBVIOUS
<1>6. hd[t] = qHead /\ qTail # qHead /\ n = qNext[qHead] /\ n # Null
  BY <1>1, <1>5 DEF Works, Dequeues
<1>7. /\ n \in Inside(w) /\ n \in qLive /\ n \in QueueNode /\ n # qHead /\ n = w[2] /\ Len(w) >= 2
      /\ Len(w) \in Nat /\ qHead \in QueueNode /\ Inside(w) \subseteq QueueNode
      /\ \A i \in 1 .. Len(w) : w[i] \in Inside(w)
  BY <1>6, ListFacts DEF Works, QueueTypes
<1>8. /\ taken' = [taken EXCEPT ![t] = qValue[n]] /\ qValue' = [qValue EXCEPT ![n] = None]
  BY <1>5, <1>7 DEF Queue!DeqTake
<1>9. /\ taken'[t] = qValue[n] /\ \A u \in Dequeuer \ {t} : taken'[u] = taken[u]
      /\ qValue'[n] = None /\ \A m \in QueueNode \ {n} : qValue'[m] = qValue[m]
  BY <1>7, <1>8 DEF QueueTypes
<1>10. qValue[n] \in Value
  <2>1. 2 \in 2 .. Len(w)  BY <1>7
  <2>. QED  BY <1>4, <1>7, <2>1 DEF Works, Queued
<1>11. \A i \in 3 .. Len(w) : w[i] # n /\ w[i] \in QueueNode
  <2>. TAKE i \in 3 .. Len(w)
  <2>1. i \in 1 .. Len(w) /\ 2 \in 1 .. Len(w) /\ i # 2  BY <1>7
  <2>. QED  BY <1>7, <2>1 DEF Works, Queued, IsPath
<1>12. Inside(w)' = Inside(w)  BY DEF Inside
<1>13. Queued(w)'
  <2>. HIDE DEF Inside, Linking, Taking, Queue!Freeing
  <2>1. qLive' = Inside(w) \cup {qNode'[u] : u \in Linking'} \cup {hd'[u] : u \in Queue!Freeing'}
    <3>1. {qNode'[u] : u \in Linking'} = {qNode[u] : u \in Linking}  BY <1>1, <1>4
    <3>2. {hd'[u] : u \in Queue!Freeing'} = {hd[u] : u \in Queue!Freeing}  BY <1>4
    <3>. QED  BY <1>1, <3>1, <3>2 DEF Works, Queued
  <2>2. \A u \in Linking' : /\ qNode'[u] \in QueueNode \ Inside(w) /\ qNext'[qNode'[u]] = Null
                            /\ qValue'[qNode'[u]] \in Value
    <3>. TAKE u \in Linking'
    <3>1. qNode[u] \in QueueNode \ Inside(w) /\ qNext[qNode[u]] = Null /\ qValue[qNode[u]] \in Value
      BY <1>4 DEF Works, Queued
    <3>. QED  BY <1>1, <1>7, <1>9, <3>1
  <2>3. \A u, x \in Linking' : qNode'[u] = qNode'[x] => u = x  BY <1>1, <1>4 DEF Works, Queued
  <2>4. qValue'[qHead'] = None  BY <1>1, <1>7, <1>9 DEF Works, Queued
  <2>5. \A i \in 2 .. Len(w) : qValue'[w[i]] \in Value \/ (i = 2 /\ Taking' # {})
    <3>. TAKE i \in 2 .. Len(w)
    <3>1. CASE i # 2
      <4>1. i \in 3 .. Len(w)  BY <1>7, <3>1
      <4>2. qValue'[w[i]] = qValue[w[i]]  BY <1>9, <1>11, <4>1
      <4>. QED  BY <1>4, <3>1, <4>2 DEF Works, Queued
    <3>. QED  BY <1>4, <3>1
  <2>6. IsPath(QueueNode, Null, w, qHead', qNext') /\ qTail' \in Inside(w)
    BY <1>1 DEF Works, Queued
  <2>. QED  BY <1>4, <1>12, <2>1, <2>2, <2>3, <2>4, <2>5, <2>6 DEF Queued
<1>14. Waiting(w)' = Waiting(w)
  <2>1. (CHOOSE x \in Taking' : TRUE) = t  BY <1>4
  <2>2. Waiting(w)' = [i \in 1 .. Len(w) - 1 |-> IF i = 1 THEN taken'[t] ELSE qValue'[w[i + 1]]]
    BY <1>4, <2>1 DEF Waiting
  <2>3. Waiting(w) = [i \in 1 .. Len(w) - 1 |-> qValue[w[i + 1]]]  BY <1>4 DEF Waiting
  <2>4. ASSUME NEW i \in 1 .. Len(w) - 1
        PROVE  (IF i = 1 THEN taken'[t] ELSE qValue'[w[i + 1]]) = qValue[w[i + 1]]
    <3>1. CASE i = 1  BY <1>7, <1>9, <3>1
    <3>2. CASE i # 1
      <4>1. i + 1 \in 3 .. Len(w)  BY <1>7, <3>2
      <4>. QED  BY <1>9, <1>11, <3>2, <4>1
    <3>. QED  BY <3>1, <3>2
  <2>. QED  BY <2>2, <2>3, <2>4
<1>15. Returned' = Returned  BY <1>1, <1>4 DEF Returned
<1>16. Turns'  BY <1>1, <1>2, TurnsKept DEF Works
<1>17. Lag(w)'  BY <1>1, <1>2, <1>3 DEF Works, Lag
<1>18. qTail \in Inside(w)  BY DEF Works, Queued
<1>19. \A u \in Enqueuer : Enqueues(u, w)'  BY <1>1, <1>2, <1>3, <1>18, EnqueuesKept DEF Works
<1>20. Dequeues(t)'
  <2>. HIDE DEF Inside
  <2>. QED  BY <1>1, <1>3, <1>5, <1>6, <1>9, <1>10 DEF Dequeues, DeqPlaces
<1>21. \A u \in Dequeuer \ {t} : Dequeues(u)'  BY <1>2, <1>3 DEF Dequeues, DeqPlaces
<1>. QED
  BY <1>13, <1>14, <1>15, <1>16, <1>17, <1>19, <1>20, <1>21 DEF Works, Proceeds, Advances

(* A dequeue moves head: this is when the value has left the queue.        *)
LEMMA DeqSwingGoes ==
  ASSUME ~Weak, QueueTypes, NEW w, Works(w), NEW t \in Dequeuer, Queue!DeqSwing(t)
  PROVE  Proceeds(w)
<1>1. /\ qPc[t] = "d_swing"
      /\ UNCHANGED <<mode, qTail, qLive, qNext, qValue, qNode, hd, tl, nx, taken, got>>
  BY DEF Queue!DeqSwing
<1>2. t \in Queue!Thread /\ t \notin Enqueuer /\ Enqueuer \subseteq Queue!Thread \ {t}
      /\ \A u \in Dequeuer \ {t} : u \in Queue!Thread \ {t} /\ qPc[u] = "idle"
  BY <1>1, QueueFacts DEF Works, Turns
<1>3. PICK h, n, z : h = qHead /\ n = nx[t] /\ z = Tail(w)  OBVIOUS
<1>4. /\ hd[t] = h /\ qTail # h /\ n = qNext[h] /\ n # Null /\ taken[t] \in Value
      /\ qValue[n] = None
  BY <1>1, <1>3 DEF Works, Dequeues
<1>5. qHead' = n /\ Queue!Goto(t, "d_free")  BY <1>3, <1>4 DEF Queue!DeqSwing, Queue!Outcomes
<1>6. qPc'[t] = "d_free" /\ \A u \in Queue!Thread \ {t} : qPc'[u] = qPc[u]
  BY <1>2, <1>5, OthersPlaces
<1>7. /\ Linking' = Linking /\ Taking = {t} /\ Taking' = {}
      /\ Queue!Freeing = {} /\ Queue!Freeing' = {t}
  <2>1. Linking' = Linking  BY <1>2, <1>6 DEF Linking
  <2>2. Taking = {t} /\ Taking' = {}  BY <1>1, <1>2, <1>6 DEF Taking
  <2>3. Queue!Freeing = {} /\ Queue!Freeing' = {t}  BY <1>1, <1>2, <1>6 DEF Queue!Freeing
  <2>. QED  BY <2>1, <2>2, <2>3
<1>8. h \in QueueNode /\ h # Null  BY <1>3, QueueFacts DEF QueueTypes
<1>9. /\ h = w[1] /\ h \in Inside(w) /\ IsPath(QueueNode, Null, z, n, qNext)
      /\ Len(w) \in Nat \ {0} /\ Len(z) = Len(w) - 1 /\ Inside(z) = Inside(w) \ {h}
      /\ \A i \in 1 .. Len(z) : z[i] = w[i + 1]
  BY <1>3, <1>4, <1>8, PathPop DEF Works, Queued
<1>10. Len(w) >= 2 /\ z[Len(z)] = w[Len(w)] /\ w[Len(w)] \in Inside(z)
  <2>1. Len(w) >= 2  BY <1>3, <1>4, ListFacts DEF Works
  <2>2. Len(z) \in 1 .. Len(z) /\ Len(z) + 1 = Len(w)  BY <1>9, <2>1
  <2>. QED  BY <1>9, <2>1, <2>2 DEF Inside
<1>11. Inside(z)' = Inside(z)  BY DEF Inside
<1>12. Queued(z)'
  <2>. HIDE DEF Inside, Linking, Taking, Queue!Freeing
  <2>1. qLive' = Inside(z) \cup {qNode'[u] : u \in Linking'} \cup {hd'[u] : u \in Queue!Freeing'}
    <3>1. {qNode'[u] : u \in Linking'} = {qNode[u] : u \in Linking}  BY <1>1, <1>7
    <3>2. {hd'[u] : u \in Queue!Freeing'} = {h} /\ {hd[u] : u \in Queue!Freeing} = {}
      BY <1>1, <1>4, <1>7
    <3>3. Inside(w) = Inside(z) \cup {h}  BY <1>9
    <3>4. qLive = Inside(w) \cup {qNode[u] : u \in Linking} \cup {hd[u] : u \in Queue!Freeing}
      BY DEF Works, Queued
    <3>. QED  BY <1>1, <3>1, <3>2, <3>3, <3>4, Zenon
  <2>2. \A u \in Linking : qNode[u] \in QueueNode \ Inside(w) /\ qNode[u] # h
    <3>1. \A u \in Linking : qNode[u] \in QueueNode \ Inside(w)  BY DEF Works, Queued
    <3>. QED  BY <1>9, <3>1
  <2>3. \A u \in Linking' : /\ qNode'[u] \in QueueNode \ Inside(z) /\ qNext'[qNode'[u]] = Null
                            /\ qValue'[qNode'[u]] \in Value
    BY <1>1, <1>7, <1>9, <2>2 DEF Works, Queued
  <2>4. \A u, x \in Linking' : qNode'[u] = qNode'[x] => u = x  BY <1>1, <1>7 DEF Works, Queued
  <2>5. \A u \in Queue!Freeing' : /\ hd'[u] \in QueueNode \ Inside(z) /\ taken'[u] \in Value
                                  /\ \A x \in Linking' : qNode'[x] # hd'[u]
    BY <1>1, <1>4, <1>7, <1>8, <1>9, <2>2
  <2>6. qValue'[qHead'] = None  BY <1>1, <1>4, <1>5
  <2>7. \A i \in 2 .. Len(z) : qValue'[z[i]] \in Value \/ (i = 2 /\ Taking' # {})
    <3>. TAKE i \in 2 .. Len(z)
    <3>1. i \in 1 .. Len(z) /\ i + 1 \in 2 .. Len(w) /\ i + 1 # 2  BY <1>9
    <3>2. qValue[w[i + 1]] \in Value  BY <3>1 DEF Works, Queued
    <3>. QED  BY <1>1, <1>9, <3>1, <3>2
  <2>8. IsPath(QueueNode, Null, z, qHead', qNext')  BY <1>1, <1>5, <1>9
  <2>9. qTail' \in Inside(z)  BY <1>1, <1>4, <1>9 DEF Works, Queued
  <2>. QED  BY <1>11, <2>1, <2>3, <2>4, <2>5, <2>6, <2>7, <2>8, <2>9 DEF Queued
<1>13. Waiting(w) # <<>> /\ Head(Waiting(w)) = taken[t] /\ Waiting(z)' = Tail(Waiting(w))
  <2>. DEFINE y == Waiting(w)
  <2>1. (CHOOSE x \in Taking : TRUE) = t  BY <1>7
  <2>2. /\ y \in Seq({y[i] : i \in 1 .. Len(w) - 1}) /\ Len(y) = Len(w) - 1 /\ Len(y) >= 1
        /\ \A i \in 1 .. Len(w) - 1 : y[i] = IF i = 1 THEN taken[t] ELSE qValue[w[i + 1]]
    <3>1. y = [i \in 1 .. Len(w) - 1 |-> IF i = 1 THEN taken[t] ELSE qValue[w[i + 1]]]
      BY <1>7, <2>1 DEF Waiting
    <3>. HIDE DEF y
    <3>2. Len(w) - 1 \in Nat /\ Len(w) - 1 >= 1  BY <1>9, <1>10
    <3>3. \A i \in 1 .. Len(w) - 1 : y[i] = IF i = 1 THEN taken[t] ELSE qValue[w[i + 1]]
      BY <3>1
    <3>4. y = [i \in 1 .. Len(w) - 1 |-> y[i]]  BY <3>1, <3>3
    <3>. QED  BY <3>2, <3>3, <3>4
  <2>3. Waiting(z)' = [i \in 1 .. Len(z) - 1 |-> qValue[z[i + 1]]]  BY <1>1, <1>7 DEF Waiting
  <2>. HIDE DEF y
  <2>4. y # <<>> /\ Head(y) = taken[t]  BY <1>9, <1>10, <2>2
  <2>5. PICK r : r = Tail(y)  OBVIOUS
  <2>6. /\ r \in Seq({y[i] : i \in 1 .. Len(w) - 1}) /\ Len(r) = Len(z) - 1
        /\ \A i \in 1 .. Len(z) - 1 : r[i] = y[i + 1]
    BY <1>9, <2>2, <2>4, <2>5
  <2>7. r = [i \in 1 .. Len(z) - 1 |-> r[i]]  BY <2>6
  <2>8. \A i \in 1 .. Len(z) - 1 : r[i] = qValue[z[i + 1]]
    <3>. TAKE i \in 1 .. Len(z) - 1
    <3>1. i + 1 \in 1 .. Len(w) - 1 /\ i + 1 # 1 /\ i + 1 \in 1 .. Len(z)  BY <1>9
    <3>2. y[i + 1] = qValue[w[(i + 1) + 1]] /\ z[i + 1] = w[(i + 1) + 1]  BY <1>9, <2>2, <3>1
    <3>. QED  BY <2>6, <3>2
  <2>9. r = [i \in 1 .. Len(z) - 1 |-> qValue[z[i + 1]]]  BY <2>7, <2>8
  <2>. QED  BY <2>3, <2>4, <2>5, <2>9 DEF y
<1>14. Returned' = taken[t]
  <2>1. (CHOOSE x \in Queue!Freeing' : TRUE) = t /\ Queue!Freeing' # {}  BY <1>7
  <2>. QED  BY <1>1, <2>1 DEF Returned
<1>15. Turns'  BY <1>1, <1>2, <1>5, TurnsKept DEF Works
<1>16. Lag(z)'  BY <1>1, <1>2, <1>6, <1>10 DEF Works, Lag
<1>17. ASSUME NEW u \in Enqueuer PROVE Enqueues(u, z)'
  <2>1. Enqueues(u, w) /\ qPc'[u] = qPc[u]  BY <1>2, <1>6 DEF Works
  <2>2. CASE mode = "pair"
    <3>. HIDE DEF Inside
    <3>. QED  BY <1>1, <1>10, <1>11, <2>1, <2>2 DEF Enqueues, EnqPlaces
  <2>3. CASE mode = "phases"
    <3>1. qPc[u] = "idle"  BY <1>1, <2>3 DEF Works, Turns
    <3>. QED  BY <2>1, <3>1 DEF Enqueues, EnqPlaces
  <2>. QED  BY <2>2, <2>3 DEF QueueTypes
<1>18. \A u \in Dequeuer : Dequeues(u)'  BY <1>2, <1>6 DEF Dequeues, DeqPlaces
<1>19. Works(z)'  BY <1>12, <1>15, <1>16, <1>17, <1>18 DEF Works
<1>20. Advances(w, z)  BY <1>13, <1>14 DEF Advances
<1>. QED  BY <1>19, <1>20 DEF Proceeds

(* Every step of the queue is one of these.                                *)
LEMMA QueueGoes ==
  ASSUME ~Weak, QueueTypes, NEW w, Works(w), [Queue!Next]_Queue!vars
  PROVE  QueueTypes' /\ Proceeds(w)
<1>1. CASE Queue!Next
  <2>1. QueueTypes'  BY <1>1, QueueTypesKept
  <2>2. ASSUME NEW t \in Enqueuer, Queue!EnqStep(t) PROVE Proceeds(w)
    BY <2>2, EnqAllocGoes, EnqTailGoes, EnqNextGoes, EnqCheckGoes, EnqLinkGoes, EnqSwingGoes,
       EnqHelpGoes DEF Queue!EnqStep
  <2>3. ASSUME NEW t \in Dequeuer, Queue!DeqStep(t) PROVE Proceeds(w)
    BY <2>3, DeqHeadGoes, DeqTailGoes, DeqNextGoes, DeqCheckGoes, DeqHelpGoes, DeqTakeGoes,
       DeqSwingGoes, DeqFreeGoes DEF Queue!DeqStep
  <2>. QED  BY <1>1, <2>1, <2>2, <2>3 DEF Queue!Next
<1>2. CASE UNCHANGED Queue!vars
  <2>. USE <1>2 DEF Queue!vars, Queue!shared
  <2>1. QueueTypes'  BY DEF QueueTypes
  <2>2. Linking' = Linking /\ Taking' = Taking /\ Queue!Freeing' = Queue!Freeing
    BY DEF Linking, Taking, Queue!Freeing
  <2>3. qTail \in Inside(w)  BY DEF Works, Queued
  <2>4. Queued(w)' /\ Waiting(w)' = Waiting(w) /\ Returned' = Returned
    BY <2>2, <2>3, QueuedKept DEF Works
  <2>5. Turns' /\ Lag(w)'  BY DEF Works, Turns, Lag
  <2>6. \A u \in Enqueuer : Enqueues(u, w)'  BY <2>3, EnqueuesKept DEF Works
  <2>7. \A u \in Dequeuer : Dequeues(u)'  BY DequeuesKept DEF Works
  <2>. QED  BY <2>1, <2>4, <2>5, <2>6, <2>7 DEF Works, Proceeds, Advances
<1>. QED  BY <1>1, <1>2

(* A new queue is a sentinel, and empty.                                   *)
LEMMA QueueStarts ==
  ASSUME Modes \subseteq {"pair", "phases"}, Queue!Init
  PROVE  QueueTypes /\ Works(<<qHead>>)
<1>. USE DEF Queue!Init
<1>1. PICK w : w = <<qHead>>  OBVIOUS
<1>2. /\ qHead \in QueueNode /\ qTail = qHead /\ qLive = {qHead}
      /\ \A n \in QueueNode : qNext[n] = Null
      /\ \A n \in QueueNode : qValue[n] = None
  OBVIOUS
<1>3. QueueTypes  BY DEF QueueTypes, Queue!Pointer, EnqPlaces
<1>4. Linking = {} /\ Taking = {} /\ Queue!Freeing = {}
  BY QueueFacts DEF Linking, Taking, Queue!Freeing
<1>5. w \in Seq(QueueNode) /\ Len(w) = 1 /\ w[1] = qHead  BY <1>1, <1>2
<1>6. Inside(w) = {qHead}
  <2>1. 1 .. Len(w) = {1}  BY <1>5
  <2>. QED  BY <1>5, <2>1 DEF Inside
<1>7. IsPath(QueueNode, Null, w, qHead, qNext)  BY <1>2, <1>5 DEF IsPath
<1>8. Queued(w)
  <2>1. qLive = Inside(w) \cup {qNode[u] : u \in Linking} \cup {hd[u] : u \in Queue!Freeing}
    BY <1>2, <1>4, <1>6
  <2>. QED  BY <1>2, <1>4, <1>5, <1>6, <1>7, <2>1 DEF Queued
<1>9. \A t \in Queue!Thread : qPc[t] = "idle"  OBVIOUS
<1>10. Turns  BY <1>9, QueueFacts DEF Turns
<1>11. Lag(w)  BY <1>2, <1>5 DEF Lag
<1>12. (\A t \in Enqueuer : Enqueues(t, w)) /\ \A t \in Dequeuer : Dequeues(t)
  BY <1>9, QueueFacts DEF Enqueues, Dequeues, EnqPlaces, DeqPlaces
<1>. QED  BY <1>1, <1>3, <1>8, <1>10, <1>11, <1>12 DEF Works

(* The sequence of the invariant is what following head finds.             *)
LEMMA WorksIsWalk ==
  ASSUME NEW w, Works(w)
  PROVE  Queue!Walk = w /\ Queue!Takers = Taking /\ Queue!Contents = Waiting(w)
<1>1. Queue!Walk = w  BY PathIs, QueueFacts, SameHelpers DEF Works, Queued, Queue!Walk
<1>2. Queue!Takers = Taking  BY DEF Works, Dequeues, Queue!Takers, Taking
<1>. QED  BY <1>1, <1>2 DEF Queue!Contents, Waiting

(* The queue's invariant is inductive.                                     *)
LEMMA QueueStays ==
  ASSUME ~Weak, Modes \subseteq {"pair", "phases"}
  PROVE  Queue!Spec => []QueueInv
<1>1. Queue!Init => QueueInv  BY QueueStarts DEF QueueInv
<1>2. QueueInv /\ [Queue!Next]_Queue!vars => QueueInv'  BY QueueGoes DEF QueueInv, Proceeds
<1>. QED  BY <1>1, <1>2, PTL DEF Queue!Spec

(* The queue's threads touch allocated nodes only and lose no node and no  *)
(* value.                                                                  *)
LEMMA QueueAlwaysSafe ==
  ASSUME ~Weak, Modes \subseteq {"pair", "phases"}
  PROVE  Queue!Spec => [](Queue!NoUseAfterFree /\ Queue!NodesAccounted /\ Queue!NoValueLost)
<1>1. QueueInv => Queue!NoUseAfterFree /\ Queue!NodesAccounted /\ Queue!NoValueLost
  <2>. SUFFICES ASSUME NEW w, Works(w)
       PROVE  Queue!NoUseAfterFree /\ Queue!NodesAccounted /\ Queue!NoValueLost
    BY DEF QueueInv
  <2>1. /\ Inside(w) \subseteq qLive /\ qHead \in qLive
        /\ qNext[qHead] # Null => qNext[qHead] \in qLive
        /\ qNext[qHead] # Null => qNext[qHead] = w[2]
        /\ DOMAIN w = 1 .. Len(w)
    BY ListFacts DEF Works
  <2>2. Queue!NoUseAfterFree
    <3>1. \A t \in Queue!Freeing : hd[t] \in qLive  BY DEF Works, Queued
    <3>2. ASSUME NEW t \in Enqueuer, qPc[t] \in {"e_next", "e_link"} PROVE tl[t] \in qLive
      BY <2>1, <3>2 DEF Works, Enqueues
    <3>3. ASSUME NEW t \in Dequeuer
          PROVE /\ qPc[t] \in {"d_next", "d_free"} => hd[t] \in qLive
                /\ qPc[t] = "d_take" => nx[t] \in qLive
      BY <2>1, <3>1 DEF Works, Dequeues, Queue!Freeing
    <3>. QED  BY <3>2, <3>3 DEF Queue!NoUseAfterFree
  <2>3. Queue!Walk = w /\ Queue!Takers = Taking  BY WorksIsWalk
  <2>4. Queue!Range(Queue!Walk) = Inside(w)  BY <2>1, <2>3, SameHelpers DEF Range, Inside
  <2>5. Queue!NodesAccounted
    BY <2>4 DEF Works, Queued, Queue!NodesAccounted, Linking, Queue!Freeing
  <2>6. Queue!NoValueLost
    <3>1. qValue[qHead] = None  BY DEF Works, Queued
    <3>2. ASSUME NEW t \in Dequeuer, qPc[t] = "d_free" PROVE taken[t] # None
      <4>1. t \in Queue!Freeing  BY <3>2 DEF Queue!Freeing
      <4>. QED  BY <4>1, QueueFacts DEF Works, Queued
    <3>3. ASSUME NEW i \in 2 .. Len(w), qValue[w[i]] = None
          PROVE  \E t \in Taking : nx[t] = w[i] /\ taken[t] # None
      <4>1. i = 2 /\ Taking # {}  BY <3>3, QueueFacts DEF Works, Queued
      <4>2. PICK t \in Taking : TRUE  BY <4>1
      <4>3. nx[t] = qNext[qHead] /\ nx[t] # Null /\ taken[t] \in Value
        BY <4>2 DEF Works, Dequeues, Taking
      <4>. QED  BY <2>1, <4>1, <4>3, QueueFacts
    <3>. QED  BY <2>3, <3>1, <3>2, <3>3 DEF Queue!NoValueLost
  <2>. QED  BY <2>2, <2>5, <2>6
<1>. QED  BY <1>1, QueueStays, PTL

(* The queue implements a FIFO queue.                                      *)
LEMMA QueueRefines ==
  ASSUME ~Weak, Modes \subseteq {"pair", "phases"}
  PROVE  Queue!Spec => Queue!ImplementsFifo
<1>1. Queue!Init => Queue!Fifo!Init
  <2>. SUFFICES ASSUME Queue!Init PROVE Queue!Fifo!Init  OBVIOUS
  <2>1. Works(<<qHead>>)  BY QueueStarts
  <2>2. Queue!Contents = <<>>
    <3>1. Queue!Contents = Waiting(<<qHead>>)  BY <2>1, WorksIsWalk
    <3>2. Len(<<qHead>>) - 1 = 0 /\ 1 .. 0 = {}  OBVIOUS
    <3>. QED  BY <3>1, <3>2 DEF Waiting
  <2>3. Queue!Freeing = {} /\ got = None  BY QueueFacts DEF Queue!Init, Queue!Freeing
  <2>. QED  BY <2>2, <2>3 DEF Queue!Fifo!Init
<1>2. QueueInv /\ [Queue!Next]_Queue!vars => [Queue!Fifo!Next]_<<Queue!Contents, Returned>>
  <2>. SUFFICES ASSUME QueueInv, [Queue!Next]_Queue!vars
       PROVE  [Queue!Fifo!Next]_<<Queue!Contents, Returned>>
    OBVIOUS
  <2>1. PICK w : Works(w)  BY DEF QueueInv
  <2>2. PICK z : Works(z)' /\ Advances(w, z)  BY <2>1, QueueGoes DEF QueueInv, Proceeds
  <2>3. Queue!Contents = Waiting(w)  BY <2>1, WorksIsWalk
  <2>4. Queue!Contents' = Waiting(z)'
    <3>1. Queue!Walk' = z  BY <2>2, PathIs, QueueFacts, SameHelpers DEF Works, Queued, Queue!Walk
    <3>2. Queue!Takers' = Taking'  BY <2>2 DEF Works, Dequeues, Queue!Takers, Taking
    <3>. QED  BY <3>1, <3>2 DEF Queue!Contents, Waiting
  <2>. QED
    BY <2>2, <2>3, <2>4, SameHelpers DEF Advances, Queue!Fifo!Next, Queue!Fifo!Put, Queue!Fifo!Get,
       Returned
<1>. QED
  BY <1>1, <1>2, QueueStays, PTL DEF Queue!ImplementsFifo, Queue!Fifo!Spec, Queue!Spec, Returned

----------------------------------------------------------------------------
(* The stack and the queue *)

(* Who uses the one leaves the other alone. *)
LEMMA EitherIsBoth == EitherSpec => Spec /\ Queue!Spec
<1>1. EitherInit => Init /\ Queue!Init  BY DEF EitherInit
<1>2. [EitherNext]_<<vars, qVars, part>> => [Next]_vars /\ [Queue!Next]_Queue!vars
  BY DEF EitherNext, vars, qVars, Queue!vars
<1>. QED  BY <1>1, <1>2, PTL DEF EitherSpec, Spec, Queue!Spec

(* With one popping thread, and the queue shared in the safe ways where    *)
(* compare_exchange_weak does not fail for no reason, freed nodes are left *)
(* alone, none leaks and none is freed twice, and the queue loses no value *)
(* (lock_free.rs:31-223).                                                  *)
THEOREM AlwaysMemorySafe ==
  ASSUME OnePopper, ~Weak, Modes \subseteq {"pair", "phases"}
  PROVE  EitherSpec => []MemorySafe
<1>1. NoUseAfterFree /\ NodesAccounted
        /\ Queue!NoUseAfterFree /\ Queue!NodesAccounted /\ Queue!NoValueLost => MemorySafe
  BY DEF MemorySafe
<1>. QED  BY <1>1, EitherIsBoth, StackAlwaysSafe, QueueAlwaysSafe, PTL

(* With one popping thread, and any number that push, the stack is a       *)
(* stack, each operation taking effect at its successful exchange          *)
(* (lock_free.rs:38-81).                                                   *)
THEOREM StackIsLifo ==
  ASSUME OnePopper
  PROVE  EitherSpec => ImplementsLifo
BY EitherIsBoth, StackRefines, PTL

(* Shared in the safe ways, where compare_exchange_weak does not fail for  *)
(* no reason, the queue is a FIFO queue: an enqueue takes effect when it   *)
(* links its node, a dequeue when it moves the head (lock_free.rs:140-223).*)
THEOREM QueueIsFifo ==
  ASSUME ~Weak, Modes \subseteq {"pair", "phases"}
  PROVE  EitherSpec => ImplementsFifo
BY EitherIsBoth, QueueRefines, PTL DEF ImplementsFifo
=============================================================================
