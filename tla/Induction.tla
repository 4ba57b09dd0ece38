----------------------------- MODULE Induction -----------------------------
(***************************************************************************)
(* Facts about the natural numbers that several of the proofs need: least  *)
(* elements, induction, and the existence of a function that is defined    *)
(* step by step.  Induction is stated for sets.                            *)
(***************************************************************************)
EXTENDS Integers, FiniteSets, FiniteSetsExt, FiniteSetTheorems, Functions,
        WellFoundedInduction, TLAPS

(* Any non-empty set of naturals has a least element. *)
LEMMA MinInSet ==
  ASSUME NEW S \in SUBSET Nat, S # {}
  PROVE  Min(S) \in S /\ \A y \in S : Min(S) <= y
<1> DEFINE R == OpToRel(<, Nat)
<1>1. IsWellFoundedOn(R, Nat)  BY NatLessThanWellFounded
<1>2. \A x, y \in Nat : <<x, y>> \in R <=> x < y  BY DEF OpToRel
<1>. HIDE DEF R
<1>3. PICK x \in S : \A y \in S : ~(<<y, x>> \in R)  BY <1>1, WFMin
<1>4. ASSUME NEW y \in S PROVE x <= y
  <2>1. x \in Nat /\ y \in Nat  OBVIOUS
  <2>2. ~(<<y, x>> \in R)  BY <1>3
  <2>3. ~(y < x)  BY <1>2, <2>1, <2>2, Zenon
  <2>. QED  BY <2>1, <2>3
<1>. QED  BY <1>4 DEF Min

(* A set of naturals closed under successor holds them all. *)
LEMMA Induct ==
  ASSUME NEW S \in SUBSET Nat, 0 \in S, \A n \in S : n + 1 \in S
  PROVE  S = Nat
<1>. SUFFICES ASSUME Nat \ S # {} PROVE FALSE  OBVIOUS
<1>. DEFINE m == Min(Nat \ S)
<1>1. m \in Nat \ S /\ \A y \in Nat \ S : m <= y
  <2>1. Nat \ S \in SUBSET Nat  OBVIOUS
  <2>. QED  BY <2>1, MinInSet
<1>. HIDE DEF m
<1>2. m - 1 \in Nat /\ ~(m <= m - 1)  BY <1>1
<1>3. m - 1 \in S  BY <1>1, <1>2
<1>. QED  BY <1>1, <1>2, <1>3

(* The same, for the numbers up to n. *)
LEMMA InductTo ==
  ASSUME NEW n \in Nat, NEW P, 0 \in P, \A i \in 1 .. n : i - 1 \in P => i \in P
  PROVE  \A i \in 0 .. n : i \in P
<1> DEFINE S == {k \in Nat : k <= n => k \in P}
<1>1. 0 \in S  OBVIOUS
<1>2. ASSUME NEW k \in S PROVE k + 1 \in S
  <2>1. CASE k + 1 <= n
    <3>1. k + 1 \in 1 .. n /\ (k + 1) - 1 = k /\ k \in P  BY <2>1
    <3>2. k + 1 \in P  BY <3>1
    <3>. QED  BY <3>1, <3>2
  <2>. QED  BY <2>1
<1>3. S \in SUBSET Nat  OBVIOUS
<1>. HIDE DEF S
<1>4. S = Nat  BY <1>1, <1>2, <1>3, Induct
<1>. QED  BY <1>4 DEF S

(* A function that starts from base and takes the given steps. *)
IsRun(n, X, base, step, f) ==
  f \in [0 .. n -> X] /\ f[0] = base /\ \A i \in 1 .. n : f[i] = step[i][f[i - 1]]

HasRun(n, X, base, step) == \E f : IsRun(n, X, base, step, f)

(* There is such a function, for any steps. *)
LEMMA Recursion ==
  ASSUME NEW n \in Nat, NEW X, NEW base \in X, NEW step \in [1 .. n -> [X -> X]]
  PROVE  HasRun(n, X, base, step)
<1> DEFINE Runs(k, f) == f[0] = base /\ \A i \in 1 .. k : f[i] = step[i][f[i - 1]]
           S == {k \in Nat : k <= n => \E f \in [0 .. k -> X] : Runs(k, f)}
<1>1. 0 \in S
  <2> DEFINE f == [i \in 0 .. 0 |-> base]
  <2>1. f \in [0 .. 0 -> X] /\ Runs(0, f)  OBVIOUS
  <2>. QED  BY <2>1
<1>2. ASSUME NEW k \in S PROVE k + 1 \in S
  <2>a. k \in Nat /\ (k <= n => \E f \in [0 .. k -> X] : Runs(k, f))
    <3>. HIDE DEF Runs
    <3>. QED  OBVIOUS
  <2>. SUFFICES ASSUME k + 1 <= n PROVE \E f \in [0 .. k + 1 -> X] : Runs(k + 1, f)
    <3>. HIDE DEF Runs
    <3>. QED  BY <2>a
  <2>1. PICK f \in [0 .. k -> X] : Runs(k, f)
    <3>. HIDE DEF Runs
    <3>. QED  BY <2>a
  <2> DEFINE g == [i \in 0 .. k + 1 |-> IF i = k + 1 THEN step[k + 1][f[k]] ELSE f[i]]
  <2>2. g \in [0 .. k + 1 -> X]
    <3>1. step[k + 1] \in [X -> X] /\ f[k] \in X  OBVIOUS
    <3>2. ASSUME NEW i \in 0 .. k + 1 PROVE g[i] \in X
      <4>1. i = k + 1 \/ i \in 0 .. k  OBVIOUS
      <4>. QED  BY <3>1, <4>1
    <3>. QED  BY <3>2
  <2>3. g[0] = base  BY <2>1
  <2>4. ASSUME NEW i \in 1 .. k + 1 PROVE g[i] = step[i][g[i - 1]]
    <3>1. CASE i = k + 1  BY <3>1
    <3>2. CASE i \in 1 .. k
      <4>1. i - 1 \in 0 .. k /\ i \in 0 .. k /\ i # k + 1 /\ i - 1 # k + 1  BY <3>2
      <4>2. g[i] = f[i] /\ g[i - 1] = f[i - 1]  BY <4>1
      <4>. QED  BY <2>1, <3>2, <4>2
    <3>. QED  BY <3>1, <3>2
  <2>. HIDE DEF g
  <2>. QED  BY <2>2, <2>3, <2>4
<1>3. S \in SUBSET Nat  OBVIOUS
<1>. HIDE DEF S
<1>4. n \in S  BY <1>1, <1>2, <1>3, Induct
<1>. QED  BY <1>4 DEF S, HasRun, IsRun
(* f adds up the members 1 .. n of s.                                      *)
AddsUp(n, s, f) ==
  f \in [0 .. n -> Nat] /\ f[0] = 0 /\ \A i \in 1 .. n : f[i] = f[i - 1] + s[i]

SumOf(n, s, f) == f = [i \in 0 .. n |-> IF i = 0 THEN 0 ELSE f[i - 1] + s[i]]

(* A function defined that way exists. *)
LEMMA SumExists ==
  ASSUME NEW n \in Nat, NEW s, \A i \in 1 .. n : s[i] \in Nat
  PROVE  \E f : SumOf(n, s, f)
<1> DEFINE step == [i \in 1 .. n |-> [x \in Nat |-> x + s[i]]]
<1>1. step \in [1 .. n -> [Nat -> Nat]]  OBVIOUS
<1>2. \A i \in 1 .. n, x \in Nat : step[i][x] = x + s[i]  OBVIOUS
<1>. HIDE DEF step
<1>3. HasRun(n, Nat, 0, step)  BY <1>1, Recursion
<1>4. PICK f : IsRun(n, Nat, 0, step, f)  BY <1>3 DEF HasRun
<1>5. ASSUME NEW i \in 1 .. n PROVE f[i] = f[i - 1] + s[i]
  <2>1. i - 1 \in 0 .. n  OBVIOUS
  <2>2. f[i - 1] \in Nat  BY <1>4, <2>1 DEF IsRun
  <2>. QED  BY <1>2, <1>4, <2>2 DEF IsRun
<1>6. ASSUME NEW i \in 0 .. n PROVE f[i] = IF i = 0 THEN 0 ELSE f[i - 1] + s[i]
  BY <1>4, <1>5 DEF IsRun
<1>7. f = [i \in 0 .. n |-> f[i]]  BY <1>4 DEF IsRun
<1>. QED  BY <1>6, <1>7 DEF SumOf

(* And adds up. *)
LEMMA SumAddsUp ==
  ASSUME NEW n \in Nat, NEW s, \A i \in 1 .. n : s[i] \in Nat, NEW f, SumOf(n, s, f)
  PROVE  AddsUp(n, s, f)
<1>1. f[0] = 0 /\ \A i \in 1 .. n : f[i] = f[i - 1] + s[i]  BY DEF SumOf
<1> DEFINE P == {i \in Nat : f[i] \in Nat}
<1>2. 0 \in P  BY <1>1
<1>3. \A i \in 1 .. n : i - 1 \in P => i \in P
  <2>. TAKE i \in 1 .. n
  <2>1. f[i] = f[i - 1] + s[i] /\ s[i] \in Nat /\ i \in Nat  BY <1>1
  <2>. QED  BY <2>1
<1>. HIDE DEF P
<1>4. \A i \in 0 .. n : i \in P  BY <1>2, <1>3, InductTo
<1>5. f = [i \in 0 .. n |-> f[i]]  BY DEF SumOf
<1>6. f \in [0 .. n -> Nat]  BY <1>4, <1>5 DEF P
<1>. QED  BY <1>1, <1>6 DEF AddsUp

(* s and z are numbers that differ at j only. *)
DifferAt(n, s, z, j) ==
  \A i \in 1 .. n : s[i] \in Nat /\ z[i] \in Nat /\ (i # j => z[i] = s[i])

(* Changing one member changes the sum by as much. *)
LEMMA SumChanges ==
  ASSUME NEW n \in Nat, NEW j \in 1 .. n, NEW s, NEW z, DifferAt(n, s, z, j),
         NEW f, NEW g, AddsUp(n, s, f), AddsUp(n, z, g)
  PROVE  g[n] = f[n] + z[j] - s[j]
<1> DEFINE P == {i \in 0 .. n : g[i] = IF i < j THEN f[i] ELSE f[i] + z[j] - s[j]}
<1>1. /\ s[j] \in Nat /\ z[j] \in Nat
      /\ \A i \in 0 .. n : f[i] \in Nat /\ g[i] \in Nat
      /\ \A i \in 1 .. n : f[i] = f[i - 1] + s[i] /\ g[i] = g[i - 1] + z[i]
  BY DEF AddsUp, DifferAt
<1>2. 0 \in P  BY DEF AddsUp
<1>3. ASSUME NEW i \in 1 .. n, i - 1 \in P PROVE i \in P
  <2>1. /\ i \in 0 .. n /\ i - 1 \in 0 .. n /\ s[i] \in Nat /\ z[i] \in Nat
        /\ f[i - 1] \in Nat /\ g[i - 1] \in Nat
    BY <1>1 DEF DifferAt
  <2>2. f[i] = f[i - 1] + s[i] /\ g[i] = g[i - 1] + z[i]  BY <1>1
  <2>3. g[i - 1] = IF i - 1 < j THEN f[i - 1] ELSE f[i - 1] + z[j] - s[j]  BY <1>3
  <2>. HIDE DEF P
  <2>4. CASE i = j
    <3>1. g[i - 1] = f[i - 1]  BY <2>3, <2>4
    <3>2. g[i] = f[i] + z[j] - s[j]  BY <1>1, <2>1, <2>2, <2>4, <3>1
    <3>. QED  BY <2>1, <2>4, <3>2 DEF P
  <2>5. CASE i # j
    <3>1. z[i] = s[i]  BY <2>5 DEF DifferAt
    <3>2. g[i] = IF i < j THEN f[i] ELSE f[i] + z[j] - s[j]
      BY <1>1, <2>1, <2>2, <2>3, <2>5, <3>1
    <3>. QED  BY <2>1, <3>2 DEF P
  <2>. QED  BY <2>4, <2>5
<1>. HIDE DEF P
<1>4. n \in P  BY <1>2, <1>3, InductTo
<1>. QED  BY <1>4 DEF P

(* A finite set can be listed, and a list of its size without repetition   *)
(* is a list of all.                                                       *)
LEMMA Listing ==
  ASSUME NEW S, IsFiniteSet(S)
  PROVE  /\ Cardinality(S) \in Nat
         /\ \E f \in [1 .. Cardinality(S) -> S] :
              \A i, j \in 1 .. Cardinality(S) : f[i] = f[j] => i = j
         /\ \A f \in [1 .. Cardinality(S) -> S] :
              (\A i, j \in 1 .. Cardinality(S) : f[i] = f[j] => i = j)
                => \A a \in S : \E i \in 1 .. Cardinality(S) : f[i] = a
<1> DEFINE n == Cardinality(S)
<1>1. n \in Nat /\ ExistsBijection(1 .. n, S)  BY FS_CardinalityType
<1>2. PICK f : f \in Bijection(1 .. n, S)  BY <1>1 DEF ExistsBijection
<1>. HIDE DEF n
<1>3. f \in [1 .. n -> S] /\ \A i, j \in 1 .. n : f[i] = f[j] => i = j
  BY <1>2 DEF Bijection, Injection, IsInjective
<1>4. ASSUME NEW g \in [1 .. n -> S], \A i, j \in 1 .. n : g[i] = g[j] => i = j
      PROVE  \A a \in S : \E i \in 1 .. n : g[i] = a
  <2>1. g \in Injection(1 .. n, S)  BY <1>4 DEF Injection, IsInjective
  <2>2. Cardinality(1 .. n) = n  BY <1>1, FS_Interval
  <2>3. g \in Surjection(1 .. n, S)  BY <2>1, <2>2, FS_Injection DEF n
  <2>. QED  BY <2>3 DEF Surjection
<1>. QED  BY <1>1, <1>3, <1>4 DEF n
============================================================================
