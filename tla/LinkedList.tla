----------------------------- MODULE LinkedList -----------------------------
(***************************************************************************)
(* Lists linked through the next fields of nodes.                          *)
(***************************************************************************)
EXTENDS Integers, Sequences, FiniteSets

(* The nodes reached from h along next, at most as many as there are in    *)
(* Nodes.                                                                  *)
ListFrom(Nodes, null, h, next) ==
  LET step[k \in 0 .. Cardinality(Nodes)] ==
        IF k = 0 THEN <<>>
        ELSE LET last == IF k = 1 THEN h
                         ELSE IF Len(step[k - 1]) < k - 1 THEN null
                         ELSE next[step[k - 1][k - 1]]
             IN  IF last = null THEN step[k - 1] ELSE Append(step[k - 1], last)
  IN  step[Cardinality(Nodes)]
============================================================================
