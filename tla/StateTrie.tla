----------------------------- MODULE StateTrie -----------------------------
(***************************************************************************)
(* The Merkle-Patricia trie of core/storage/state_trie.py and the account  *)
(* state kept in it.  Nodes are values: Null, <<"leaf", path, value>>,     *)
(* <<"branch", children, value>> and <<"extension", path, child>>.  The    *)
(* root hash is a collision-free function of the node, so two tries have   *)
(* the same root hash exactly when their nodes are equal.  PathOf is the   *)
(* nibbles of a key's SHA-256: all of one length, different for different  *)
(* keys.  Amounts of transfers are not negative, as submission has it.     *)
(***************************************************************************)
EXTENDS Integers, Sequences, FiniteSets, FiniteSetsExt, SequencesExt

CONSTANTS Accounts, PathOf, Nibble,
          MaxAmount, MaxTotal, MaxNonce   \* bounds of the model

ASSUME TrieAssumption ==
  /\ IsFiniteSet(Accounts) /\ {MaxAmount, MaxTotal, MaxNonce} \subseteq Nat
  /\ \A a \in Accounts : PathOf[a] \in Seq(Nibble)
  /\ \A a, b \in Accounts : Len(PathOf[a]) = Len(PathOf[b]) /\ (PathOf[a] = PathOf[b] => a = b)

VARIABLES root, cache,
          deleted   \* (history) a stored key has been deleted
trieVars == <<root, cache, deleted>>

Null == << >>
LeafNode(path, value) == <<"leaf", path, value>>
Extension(path, child) == <<"extension", path, child>>
Branch(children, value) == <<"branch", children, value>>
NoChildren == [i \in Nibble |-> Null]

From(path, n) == SubSeq(path, n + 1, Len(path))   \* path[n:]
Upto(path, n) == SubSeq(path, 1, n)               \* path[:n]

CommonPrefixLength(a, b) ==
  LET length == IF Len(a) < Len(b) THEN Len(a) ELSE Len(b)
  IN  Min({i \in 0 .. length : i = length \/ a[i + 1] # b[i + 1]})

Wrapped(path, n, branch) == IF n > 0 THEN Extension(Upto(path, n), branch) ELSE branch

-----------------------------------------------------------------------------
(* The walk of _insert and _delete.  A call, [node, path], calls itself on *)
(* a child with what remains of the path, or answers by itself.            *)

IsExtension(node) == node # Null /\ node[1] = "extension"
IsBranch(node) == node # Null /\ node[1] = "branch"

Descends(c) ==
  \/ IsExtension(c.node) /\ CommonPrefixLength(c.node[2], c.path) = Len(c.node[2])
  \/ IsBranch(c.node) /\ c.path # << >>

Inner(c) ==
  IF IsExtension(c.node) THEN [node |-> c.node[3], path |-> From(c.path, Len(c.node[2]))]
  ELSE [node |-> c.node[2][c.path[1]], path |-> Tail(c.path)]

\* The nested calls, as many as the path is long: once one answers by itself it stays.
Calls(node, path) ==
  LET call[k \in 0 .. Len(path)] ==
        IF k = 0 THEN [node |-> node, path |-> path]
        ELSE LET c == call[k - 1] IN IF Descends(c) THEN Inner(c) ELSE c
  IN  call

\* The node of a call with its child replaced.
WithChild(c, child) ==
  IF IsExtension(c.node) THEN Extension(c.node[2], child)
  ELSE Branch([c.node[2] EXCEPT ![c.path[1]] = child], c.node[3])

-----------------------------------------------------------------------------
(* Insertion.                                                              *)

InsertIntoLeaf(leaf, path, value) ==
  LET old == leaf[2]
      n == CommonPrefixLength(old, path)
      kept == IF n < Len(old)
              THEN [NoChildren EXCEPT ![old[n + 1]] = LeafNode(From(old, n + 1), leaf[3])]
              ELSE NoChildren
      both == IF n < Len(path)
              THEN [kept EXCEPT ![path[n + 1]] = LeafNode(From(path, n + 1), value)] ELSE kept
      here == IF n = Len(path) THEN value ELSE IF n = Len(old) THEN leaf[3] ELSE Null
  IN  IF old = path THEN LeafNode(path, value) ELSE Wrapped(path, n, Branch(both, here))

\* An extension that shares only n nibbles with the path is cut in two.
SplitExtension(ext, path, n, value) ==
  LET old == ext[2]
      rest == IF Len(old) - n - 1 > 0 THEN Extension(From(old, n + 1), ext[3]) ELSE ext[3]
      children == [NoChildren EXCEPT ![old[n + 1]] = rest,
                                     ![path[n + 1]] = LeafNode(From(path, n + 1), value)]
  IN  Wrapped(path, n, Branch(children, Null))

InsertedHere(c, value) ==
  CASE c.node = Null      -> LeafNode(c.path, value)
    [] IsBranch(c.node)   -> Branch(c.node[2], value)
    [] IsExtension(c.node) ->
         SplitExtension(c.node, c.path, CommonPrefixLength(c.node[2], c.path), value)
    [] OTHER              -> InsertIntoLeaf(c.node, c.path, value)

\* What each call makes of what the next returns; the first is _insert itself.
Inserted(node, path, value) ==
  LET call == Calls(node, path)
      result[k \in 0 .. Len(path)] ==
        IF Descends(call[k]) THEN WithChild(call[k], result[k + 1]) ELSE InsertedHere(call[k], value)
  IN  result[0]

-----------------------------------------------------------------------------
(* Deletion.                                                               *)

Children(node) == {i \in Nibble : node[2][i] # Null}

\* Mutant: a lone child is lifted without the nibble that led to it.
CompactBranchLosesNibble(node) ==
  IF Cardinality(Children(node)) = 1 /\ node[3] = Null
  THEN node[2][CHOOSE i \in Children(node) : TRUE] ELSE node

\* A branch with one child becomes a leaf or an extension; what stands above it
\* is not merged with the result.
CompactBranch(node) ==
  IF Children(node) = {} /\ node[3] = Null THEN Null
  ELSE IF node[3] = Null /\ \E i \in Nibble : Children(node) = {i}
       THEN LET i == CHOOSE j \in Children(node) : TRUE
                child == node[2][i]
            IN  IF child[1] = "leaf" THEN LeafNode(<<i>> \o child[2], child[3])
                ELSE Extension(<<i>>, child)
       ELSE node

WithoutHere(c) ==
  CASE c.node = Null      -> Null
    [] IsBranch(c.node)   -> CompactBranch(Branch(c.node[2], Null))
    [] IsExtension(c.node) -> c.node
    [] OTHER              -> IF c.node[2] = c.path THEN Null ELSE c.node

\* A branch is compacted on the way back, an extension without child goes.
WithoutChild(c, child) ==
  IF IsBranch(c.node) THEN CompactBranch(WithChild(c, child))
  ELSE IF child = Null THEN Null ELSE WithChild(c, child)

Without(node, path) ==
  LET call == Calls(node, path)
      result[k \in 0 .. Len(path)] ==
        IF Descends(call[k]) THEN WithoutChild(call[k], result[k + 1]) ELSE WithoutHere(call[k])
  IN  result[0]

-----------------------------------------------------------------------------
(* The account state: put and delete, and the operations built on put.     *)

NewAccount == [balance |-> 0, nonce |-> 0, code |-> FALSE]

\* get answers from the cache and never looks at the trie.
AccountIn(c, a) == IF a \in DOMAIN c THEN c[a] ELSE NewAccount

TrieInit == root = Null /\ cache = << >> /\ deleted = FALSE

\* [node, map]: trie and cache after put(a, acc).
PutIn(s, a, acc) ==
  [node |-> Inserted(s.node, PathOf[a], acc),
   map |-> [b \in DOMAIN s.map \cup {a} |-> IF b = a THEN acc ELSE s.map[b]]]

State == [node |-> root, map |-> cache]
Becomes(s) == root' = s.node /\ cache' = s.map

Balanced(s, a, delta) ==
  LET acc == AccountIn(s.map, a)
      sum == acc.balance + delta
  IN  PutIn(s, a, [acc EXCEPT !.balance = IF sum < 0 THEN 0 ELSE sum])

Counted(s, a) == PutIn(s, a, [AccountIn(s.map, a) EXCEPT !.nonce = @ + 1])

AccountSeq == SetToSeq(Accounts)

\* The sum of all balances.
Total(c) ==
  LET upTo[i \in 0 .. Cardinality(Accounts)] ==
        IF i = 0 THEN 0 ELSE upTo[i - 1] + AccountIn(c, AccountSeq[i]).balance
  IN  upTo[Cardinality(Accounts)]

UpdateBalance(a, delta) ==
  /\ Total(cache) + delta <= MaxTotal
  /\ Becomes(Balanced(State, a, delta)) /\ UNCHANGED deleted

IncrementNonce(a) ==
  AccountIn(cache, a).nonce < MaxNonce /\ Becomes(Counted(State, a)) /\ UNCHANGED deleted

SetContractCode(a) ==
  /\ Becomes(PutIn(State, a, [AccountIn(cache, a) EXCEPT !.code = TRUE])) /\ UNCHANGED deleted

\* Mutant: the balance is not looked at.
ApplyUncovered(from, to, amount) ==
  /\ AccountIn(cache, from).nonce < MaxNonce
  /\ Becomes(Counted(Balanced(Balanced(State, from, -amount), to, amount), from))
  /\ UNCHANGED deleted

ApplyTransfer(from, to, amount) ==
  /\ AccountIn(cache, from).balance >= amount /\ AccountIn(cache, from).nonce < MaxNonce
  /\ Becomes(Counted(Balanced(Balanced(State, from, -amount), to, amount), from))
  /\ UNCHANGED deleted

Delete(a) ==
  /\ a \in DOMAIN cache
  /\ root' = Without(root, PathOf[a])
  /\ cache' = [b \in DOMAIN cache \ {a} |-> cache[b]]
  /\ deleted' = TRUE

TrieNext ==
  \E a \in Accounts :
    \/ \E delta \in -MaxAmount .. MaxAmount : UpdateBalance(a, delta)
    \/ IncrementNonce(a) \/ SetContractCode(a) \/ Delete(a)
    \/ \E b \in Accounts, amount \in 0 .. MaxAmount : ApplyTransfer(a, b, amount)

TrieSpec == TrieInit /\ [][TrieNext]_trieVars

-----------------------------------------------------------------------------
(* Properties.                                                             *)

\* What a walk down the nodes finds, << >> for nothing.
Found(node, path) ==
  LET c == Calls(node, path)[Len(path)]
  IN  CASE c.node = Null \/ IsExtension(c.node) -> Null
        [] IsBranch(c.node) -> IF c.node[3] = Null THEN Null ELSE <<c.node[3]>>
        [] OTHER -> IF c.node[2] = c.path THEN <<c.node[3]>> ELSE Null

\* The trie, whose hash is what others are shown, holds exactly the entries that
\* get answers from the cache (state_trie.py:118-134).
TrieHoldsCache ==
  \A a \in Accounts :
    Found(root, PathOf[a]) = IF a \in DOMAIN cache THEN <<cache[a]>> ELSE Null

\* A branch of these children, with what a lone child allows to leave out.
Joined(children) ==
  LET some == {i \in Nibble : children[i] # Null}
      i == CHOOSE j \in some : TRUE
      child == children[i]
  IN  CASE some = {} -> Null
        [] some # {} /\ some # {i} -> Branch(children, Null)
        [] some = {i} /\ IsBranch(child) -> Extension(<<i>>, child)
        [] OTHER -> [child EXCEPT ![2] = <<i>> \o @]

\* The trie of a map from paths to values: one level for each nibble, joined from
\* the leaves up; of[k] are the tries below all prefixes that lack k nibbles.
Canonical(length, contents) ==
  LET of[k \in 0 .. length] ==
        IF k = 0
        THEN [path \in [1 .. length -> Nibble] |->
                IF path \in DOMAIN contents THEN LeafNode(<< >>, contents[path]) ELSE Null]
        ELSE LET below == of[k - 1]
             IN  [prefix \in [1 .. length - k -> Nibble] |->
                    Joined([i \in Nibble |-> below[Append(prefix, i)]])]
  IN  of[length][<< >>]

Contents == [path \in {PathOf[a] : a \in DOMAIN cache} |->
               cache[CHOOSE a \in DOMAIN cache : PathOf[a] = path]]

\* Nodes that agree on the entries agree on the root hash, in whatever order the
\* entries came, as long as nothing was deleted: compaction leaves an extension
\* over a leaf or over another extension, so after a deletion the root hash
\* depends on the history (state_trie.py:264-276).
RootFollowsContents ==
  ~deleted => \A length \in {Len(PathOf[a]) : a \in Accounts} : root = Canonical(length, Contents)

\* Contents and root of the trie (state_trie.py:118-276).
TrieSound == TrieHoldsCache /\ RootFollowsContents

\* A transfer moves balance and makes none: nothing is lost to the floor at zero,
\* also when an account pays itself (state_trie.py:316).
TransfersConserve ==
  [][Total(cache') # Total(cache) =>
       \A a, b \in Accounts, amount \in 0 .. MaxAmount : ~ApplyTransfer(a, b, amount)]_trieVars
=============================================================================
