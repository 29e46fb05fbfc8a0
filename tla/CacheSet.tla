------------------------------ MODULE CacheSet ------------------------------
(***************************************************************************)
(* One set of a cache (CacheSet.hpp): Associativity ways, a rank per way   *)
(* (repl_data) and the way the next miss will take (NextVictim), under the *)
(* policies LRU and MRU.  accessSet finds the way of a tag, updates the    *)
(* ranks and elects the next victim in one pass; its callers in            *)
(* CacheBase.hpp then fill the way, invalidate it, or leave it alone.      *)
(* FIFO is not modelled: accessSet returns no line under it.               *)
(***************************************************************************)
EXTENDS Naturals, Sequences, SetReplacement

CONSTANTS
  Associativity,   \* number of ways
  Tag              \* tags of the lines that map to the set

ASSUME AssocAssumption == Associativity \in Nat \ {0}

Ways == 0 .. Associativity - 1

VARIABLES
  Policy,          \* "LRU" or "MRU", set when the cache is built
  repl_data,       \* rank of each way
  NextVictim,
  CountUntilRepl,
  tag,             \* tag of each way
  valid,           \* the ways whose state is not Invalid
  recent           \* history: the ways, the last one accessed first

vars == <<Policy, repl_data, NextVictim, CountUntilRepl, tag, valid, recent>>

\* locateLineInSet: the ways that hold t; the code takes the first one.
locateLineInSet(t) == {w \in Ways : w \in valid /\ tag[w] = t}

Hit(t) == locateLineInSet(t) # {}

\* The line accessSet returns.
LineOf(t) == WayOf(locateLineInSet(t), NextVictim)

\* Mutant of updateReplacementData: the ranks equal to the accessed one are
\* aged too.
updateReplacementDataShift(w) ==
  /\ repl_data' = [i \in Ways |-> IF i = w THEN 0
                                  ELSE (repl_data[i] + 1) % Associativity]
  /\ NextVictim' = Victim(Policy, repl_data, NextVictim, w)
  /\ UNCHANGED CountUntilRepl

\* Under MRU the first accesses hand out the free ways in turn.
updateReplacementData(w) ==
  /\ repl_data' = Accessed(Policy, repl_data, w)
  /\ \/ /\ Policy = "LRU"
        /\ NextVictim' = Victim(Policy, repl_data, NextVictim, w)
        /\ UNCHANGED CountUntilRepl
     \/ /\ Policy = "MRU" /\ CountUntilRepl < Associativity - 1
        /\ NextVictim' = NextVictim + 1
        /\ CountUntilRepl' = CountUntilRepl + 1
     \/ /\ Policy = "MRU" /\ CountUntilRepl >= Associativity - 1
        /\ NextVictim' = Victim(Policy, repl_data, NextVictim, w)
        /\ UNCHANGED CountUntilRepl

\* The order of the last accesses once w is accessed.
MovedToFront(order, w) ==
  LET at == CHOOSE k \in DOMAIN order : order[k] = w
  IN  [k \in DOMAIN order |-> IF k = 1 THEN w ELSE IF k <= at THEN order[k - 1] ELSE order[k]]

accessSet(t) ==
  /\ updateReplacementData(LineOf(t))
  /\ recent' = MovedToFront(recent, LineOf(t))
  /\ UNCHANGED Policy

-----------------------------------------------------------------------------

\* initSet: every way is invalid and has the same tag (0 in the code).
Init ==
  /\ Policy \in {"LRU", "MRU"}
  /\ repl_data = [w \in Ways |-> Associativity - w - 1]
  /\ NextVictim = 0
  /\ CountUntilRepl = 0
  /\ \E zero \in Tag : tag = [w \in Ways |-> zero]
  /\ valid = {}
  /\ recent = [i \in 1 .. Associativity |->
                 IF Policy = "LRU" THEN Associativity - i ELSE i - 1]

\* An access that leaves the line in the cache: a hit, or a miss that replaces
\* the victim (setNewLine).
Access(t) ==
  /\ accessSet(t)
  /\ tag' = [tag EXCEPT ![LineOf(t)] = t]
  /\ valid' = valid \cup {LineOf(t)}

\* An access that takes the line out of the cache (Invalidate, PutI, FwdGetM, a
\* line an exclusive cache gives away).  On a miss of these, of FwdGetS and of an
\* exclusive home no line is replaced, but accessSet has ranked the victim as if
\* it had been.
Remove(t) ==
  /\ accessSet(t)
  /\ valid' = IF Hit(t) THEN valid \ {LineOf(t)} ELSE valid
  /\ UNCHANGED tag

Next == \E t \in Tag : Access(t) \/ Remove(t)

Spec == Init /\ [][Next]_vars

-----------------------------------------------------------------------------
(***************************************************************************)
(* Properties.                                                             *)
(***************************************************************************)

\* The victim is a way of the set, whichever mix of hits and misses consumed
\* the free ways, and the assert of the MRU branch holds.
TypeOK ==
  /\ Policy \in {"LRU", "MRU"}
  /\ repl_data \in [Ways -> Ways]
  /\ NextVictim \in Ways
  /\ CountUntilRepl \in Ways
  /\ tag \in [Ways -> Tag]
  /\ valid \subseteq Ways

\* The ranks are the order of the last accesses: under LRU rank 0 is the way
\* accessed last and Associativity - 1 the one accessed first, under MRU the
\* reverse.  In particular no two ways ever share a rank.
RankIsRecency ==
  \A w \in Ways :
    recent[IF Policy = "LRU" THEN repl_data[w] + 1
                             ELSE Associativity - repl_data[w]] = w

\* No line is in the set twice, so a later invalidation removes every copy.
TagsUnique ==
  \A v, w \in valid : tag[v] = tag[w] => v = w

\* Under LRU the next victim is the way accessed first or the one accessed
\* last, never one between.
VictimAtAnEnd ==
  Policy = "LRU" => NextVictim \in {recent[Associativity], recent[1]}

\* Replacement follows use: ranks, tags and the elected victim fit the order of the
\* accesses after any mix of hits, misses and invalidations (accessSet).
ReplacementFollowsUse == TypeOK /\ RankIsRecency /\ TagsUnique /\ VictimAtAnEnd

\* The replacement policy the enumeration promises: the victim is the least
\* recently used way.
VictimIsLeastRecent ==
  Policy = "LRU" => NextVictim = recent[Associativity]

=============================================================================
