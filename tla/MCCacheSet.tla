----------------------------- MODULE MCCacheSet -----------------------------
(***************************************************************************)
(* Two questions in one run, by the value of focus: how a set of four ways *)
(* replaces its lines, and what becomes of lines in two levels of caches   *)
(* without coherence: two CPUs with caches of one and two ways above a     *)
(* shared one of two.  Tags are interchangeable.                           *)
(***************************************************************************)
EXTENDS CacheSet, NonCoherentCache, TLC

VARIABLE focus
mcVars == <<focus, vars, hierVars>>

MCCPU == {1, 2}
MCAssoc == [k \in {0, 1, 2} |-> IF k = 1 THEN 1 ELSE 2]
MCPrivate == [c \in {1, 2} |-> IF c = 1 THEN {11, 12} ELSE {21}]
MCCommon == {31}
\* A back-invalidation that met a modified copy would violate HierAssertsHold.
MCInvalidateModified(h, a, ids) == Asserted(h, FALSE)

Symmetry == Permutations(Tag)

\* The part that is not in focus stays in one of its initial states.
MCInit == /\ focus \in {"set", "hierarchy"} /\ Init /\ HierInit
          /\ focus = "set" => inclusion = "NINE" /\ hier.way[0][0].addr = 31
          /\ focus = "hierarchy" => Policy = "LRU"
MCNext == \/ focus = "set" /\ Next /\ UNCHANGED <<focus, hierVars>>
          \/ focus = "hierarchy" /\ HierNext /\ UNCHANGED <<focus, vars>>
MCSpec == MCInit /\ [][MCNext]_mcVars
=============================================================================
