--------------------------- MODULE SetReplacement ---------------------------
(***************************************************************************)
(* The pass over the ways of a set that CacheSet.hpp makes on every        *)
(* access, as operators on the ranks (repl_data): ranks is a function on   *)
(* the ways 0 .. Associativity - 1, w the way accessed.                    *)
(***************************************************************************)
EXTENDS Naturals, FiniteSets

\* The line accessSet returns: the first way that holds the tag, else the victim.
WayOf(holders, victim) ==
  IF holders = {} THEN victim ELSE CHOOSE w \in holders : \A v \in holders : w <= v

\* The ranks after the pass of updateReplacementData, before the rank of the
\* accessed way itself is set.
Aged(policy, ranks, w) ==
  [i \in DOMAIN ranks |->
     CASE policy = "LRU" /\ ranks[i] < ranks[w] -> ranks[i] + 1
       [] policy = "MRU" /\ ranks[i] > ranks[w] -> ranks[i] - 1
       [] OTHER -> ranks[i]]

\* The ways the pass elects: each overwrites the one before, so the last wins.
Elected(policy, ranks, w) ==
  {i \in DOMAIN ranks : Aged(policy, ranks, w)[i] = Cardinality(DOMAIN ranks) - 1}

LastOf(S) == CHOOSE i \in S : \A j \in S : j <= i

\* The way that is victim after the pass, if victim was it before.
Victim(policy, ranks, victim, w) ==
  IF Elected(policy, ranks, w) = {} THEN victim ELSE LastOf(Elected(policy, ranks, w))

\* The ranks at the end of the pass.
Accessed(policy, ranks, w) ==
  [Aged(policy, ranks, w) EXCEPT
     ![w] = IF policy = "LRU" THEN 0 ELSE Cardinality(DOMAIN ranks) - 1]
=============================================================================
