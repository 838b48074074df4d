-------------------------------- MODULE Ordering --------------------------------
(***************************************************************************)
(* sorted() with a tuple as the key, and ORDER BY with several columns.    *)
(***************************************************************************)
EXTENDS Integers, Sequences, FiniteSets

\* Keys are compared one component after the other.
Precedes(k, l) == \E i \in DOMAIN k : k[i] < l[i] /\ \A j \in 1..(i - 1) : k[j] = l[j]

\* What a key is given for, in the order of the keys.
Ordered(key) ==
  LET Before(x) == Cardinality({y \in DOMAIN key : Precedes(key[y], key[x])})
  IN [i \in 1..Cardinality(DOMAIN key) |-> CHOOSE x \in DOMAIN key : Before(x) = i - 1]
================================================================================
