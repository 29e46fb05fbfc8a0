---------------------------- MODULE ParameterSet ----------------------------
(***************************************************************************)
(* Parameters of the simulated platform over address spaces                *)
(* (src/core/vpsimModule/parameterSet.cpp, moduleParameters.cpp,           *)
(* parameterSetModifier.cpp and src/core/AddrSpace.cpp).                   *)
(*                                                                         *)
(* A container is a vector of (address space, value) pairs sorted by       *)
(* address.  own is the container the operations change, imported the one  *)
(* they take values from, rate the traversal rates of the imported set;    *)
(* denoted is what the own container should say of each address, kept by   *)
(* the pointwise reference operators below and never by the code's.        *)
(***************************************************************************)
EXTENDS ModuleParameters, SequencesExt

CONSTANTS Values,        \* values a client sets
          Rates,         \* traversal rates a client sets
          MaxSets,       \* bound: number of setParameter calls
          MaxCombines    \* bound: number of merges, additions and trims

ASSUME ParameterSetAssumption ==
    MaxAddr \in Nat /\ Values \subseteq Nat /\ Rates \subseteq Nat
    /\ MaxSets \in Nat /\ MaxCombines \in Nat

VARIABLES kind, own, imported, rate, denoted, defragged, sets, combines

setVars == <<kind, own, imported, rate, denoted, defragged, sets, combines>>

Pick(k, policy, old, new) ==
    CASE policy = "new" -> new
      [] policy = "max" -> MaxParam(k, old, new)
      [] policy = "plus" -> Plus(k, old, new)

Sorted(pc) == SortSeq(pc, LAMBDA p, q : p.as.base < q.as.base)
Conflicts(pc, as) == {i \in DOMAIN pc : intersect(pc[i].as, as)}

(* The first conflicting entry leaves; the parts only the new value covers *)
(* are set first, then the common part, then the parts only the old value  *)
(* covers.                                                                 *)
RECURSIVE setParameterHelper(_, _, _, _, _)
setParameterHelper(k, policy, pc, as, v) ==
    IF Conflicts(pc, as) = {}
    THEN Sorted(Append(pc, [as |-> as, v |-> v]))
    ELSE LET i == Min(Conflicts(pc, as))
             cur == pc[i]
             put(c, spaces, w) ==
                 FoldLeft(LAMBDA acc, s : setParameterHelper(k, policy, acc, s, w), c, spaces)
             news == put(RemoveAt(pc, i), relativeComplement(as, cur.as), v)
             both == setParameterHelper(k, policy, news, intersection(cur.as, as),
                                        Pick(k, policy, cur.v, v))
         IN put(both, relativeComplement(cur.as, as), cur.v)

(* Mutant: only the first pair of entries is joined. *)
defragOnce(pc) ==
    LET joinable == {i \in 1 .. Len(pc) - 1 :
                        /\ pc[i].as.end + 1 = pc[i + 1].as.base
                        /\ pc[i].v = pc[i + 1].v}
    IN IF joinable = {} THEN pc
       ELSE LET i == Min(joinable)
                joined == [as |-> [base |-> pc[i].as.base, end |-> pc[i + 1].as.end],
                           v |-> pc[i].v]
            IN SubSeq(pc, 1, i - 1) \o <<joined>> \o SubSeq(pc, i + 2, Len(pc))

(* Neighbouring entries with the same value are joined, from the left.     *)
RECURSIVE defrag(_)
defrag(pc) ==
    LET joinable == {i \in 1 .. Len(pc) - 1 :
                        /\ pc[i].as.end + 1 = pc[i + 1].as.base
                        /\ pc[i].v = pc[i + 1].v}
    IN IF joinable = {} THEN pc
       ELSE LET i == Min(joinable)
                joined == [as |-> [base |-> pc[i].as.base, end |-> pc[i + 1].as.end],
                           v |-> pc[i].v]
            IN defrag(SubSeq(pc, 1, i - 1) \o <<joined>> \o SubSeq(pc, i + 2, Len(pc)))

Combine(k, policy, pc, from) ==
    defrag(FoldLeft(LAMBDA acc, p : setParameterHelper(k, policy, acc, p.as, p.v), pc, from))

(* The delays of a set after its traversal rates: each part of a delay's   *)
(* space is weighted by the first rate that covers it.                     *)
RECURSIVE newDelays(_, _, _)
newDelays(rates, as, d) ==
    LET hit == Conflicts(rates, as)
    IN IF hit = {} THEN <<[as |-> as, v |-> d]>>
       ELSE LET tr == rates[Min(hit)]
            IN <<[as |-> intersection(as, tr.as), v |-> d * tr.v]>>
               \o FlattenSeq([j \in DOMAIN relativeComplement(as, tr.as) |->
                                newDelays(rates, relativeComplement(as, tr.as)[j], d)])

Weighted(pc, rates) ==
    defrag(Sorted(FlattenSeq([i \in DOMAIN pc |-> newDelays(rates, pc[i].as, pc[i].v)])))

(* Only what the restriction covers stays; its spaces come in order.       *)
Trimmed(pc, restriction) ==
    defrag(Sorted(FlattenSeq([i \in DOMAIN pc |->
        LET hits == SelectSeq(restriction, LAMBDA as : intersect(pc[i].as, as))
        IN [j \in DOMAIN hits |-> [as |-> intersection(pc[i].as, hits[j]), v |-> pc[i].v]]])))

(* An address translator moves every entry; it throws when one leaves the  *)
(* range of an address.                                                    *)
Overflows(as, offset, positive) ==
    IF positive THEN as.base < offset \/ as.end < offset
                ELSE as.base + offset > MaxAddr \/ as.end + offset > MaxAddr
Translated(pc, offset, positive) ==
    LET move(a) == IF positive THEN a - offset ELSE a + offset
    IN [i \in DOMAIN pc |-> [pc[i] EXCEPT !.as = [base |-> move(@.base), end |-> move(@.end)]]]

-----------------------------------------------------------------------------
(* What a container says of an address, and of an address space.           *)
At(pc, a) ==
    LET hit == {i \in DOMAIN pc : Within(a, pc[i].as)}
    IN IF hit = {} THEN NoValue ELSE pc[Min(hit)].v
Denotes(pc) == [a \in Addr |-> At(pc, a)]

getParameterValue(pc, a, default) == IF At(pc, a) = NoValue THEN default ELSE At(pc, a)

(* The search of a space stops at the first entry it meets.  If that entry *)
(* says "not blocking", each remaining part is searched from one entry     *)
(* further on: the iterator is advanced once per part, and may pass the    *)
(* end.  What is read there is arbitrary, and the program may end in it.   *)
(* The outcomes of a search are the answers and Crash, which no answer of  *)
(* another part makes up for.                                              *)
Crash == 2
RECURSIVE getParameterValForAddrSpace(_, _, _, _)
getParameterValForAddrSpace(pc, begin, as, default) ==
    IF begin > Len(pc) + 1 THEN {0, 1, Crash}
    ELSE LET met == {i \in begin .. Len(pc) : intersect(pc[i].as, as)}
         IN IF met = {} THEN {default}
            ELSE LET p == Min(met)
                     parts == relativeComplement(as, pc[p].as)
                     answers(j) == getParameterValForAddrSpace(pc, p + j, parts[j], default)
                 IN IF pc[p].v = 1 \/ parts = <<>> THEN {pc[p].v}
                    ELSE IF Len(parts) = 1 THEN answers(1)
                    ELSE {Max({x, y}) : x \in answers(1), y \in answers(2)}

-----------------------------------------------------------------------------
SetInit ==
    /\ kind \in {"bt", "delay"}
    /\ own = <<>> /\ imported = <<>> /\ rate = <<>>
    /\ denoted = [a \in Addr |-> NoValue]
    /\ defragged = TRUE /\ sets = 0 /\ combines = 0

Value == IF kind = "bt" THEN Values \cap {0, 1} ELSE Values

setParameter(as, v) ==
    /\ sets < MaxSets /\ v \in Value
    /\ own' = setParameterHelper(kind, "new", own, as, v)
    /\ denoted' = [a \in Addr |-> IF Within(a, as) THEN v ELSE denoted[a]]
    /\ sets' = sets + 1 /\ defragged' = FALSE
    /\ UNCHANGED <<kind, imported, rate, combines>>

setImported(as, v) ==
    /\ sets < MaxSets /\ v \in Value
    /\ imported' = setParameterHelper(kind, "new", imported, as, v)
    /\ sets' = sets + 1
    /\ UNCHANGED <<kind, own, rate, denoted, defragged, combines>>

setRate(as, r) ==
    /\ sets < MaxSets /\ kind = "delay"
    /\ rate' = setParameterHelper("rate", "new", rate, as, r)
    /\ sets' = sets + 1
    /\ UNCHANGED <<kind, own, imported, denoted, defragged, combines>>

Combined == combines < MaxCombines /\ combines' = combines + 1 /\ defragged' = TRUE
            /\ UNCHANGED <<kind, imported, rate, sets>>

mergeImportedParam ==
    /\ Combined
    /\ own' = Combine(kind, "max", own, imported)
    /\ denoted' = ByAddress(denoted, Denotes(imported), LAMBDA v, w : MaxParam(kind, v, w))

addExportedParam ==
    LET weighted == IF kind = "delay" THEN Weighted(own, rate) ELSE own
        refRate == Denotes(rate)
        refWeighted == [a \in Addr |-> IF denoted[a] = NoValue \/ refRate[a] = NoValue
                                       THEN denoted[a] ELSE denoted[a] * refRate[a]]
    IN /\ Combined
       /\ own' = Combine(kind, "plus", weighted, imported)
       /\ denoted' = ByAddress(IF kind = "delay" THEN refWeighted ELSE denoted,
                               Denotes(imported), LAMBDA v, w : Plus(kind, v, w))

(* The restriction is a set of disjoint spaces, in order.                  *)
trim(first, second) ==
    /\ Combined
    /\ first = second \/ first.end < second.base
    /\ LET restriction == IF first = second THEN <<first>> ELSE <<first, second>>
       IN own' = Trimmed(own, restriction)
    /\ denoted' = [a \in Addr |-> IF Within(a, first) \/ Within(a, second)
                                  THEN denoted[a] ELSE NoValue]

(* With an overflow the translator throws and the set stays as it was.     *)
translate(offset, positive) ==
    /\ combines < MaxCombines /\ combines' = combines + 1
    /\ UNCHANGED <<kind, imported, rate, sets, defragged>>
    /\ \A i \in DOMAIN own : ~Overflows(own[i].as, offset, positive)
    /\ own' = Translated(own, offset, positive)
    /\ denoted' = [a \in Addr |->
                     LET from == IF positive THEN a + offset ELSE a - offset
                     IN IF from \in Addr THEN denoted[from] ELSE NoValue]

SetNext ==
    \/ \E as \in AddrSpaces, v \in Values : setParameter(as, v) \/ setImported(as, v)
    \/ \E as \in AddrSpaces, r \in Rates : setRate(as, r)
    \/ mergeImportedParam
    \/ addExportedParam
    \/ \E first, second \in AddrSpaces : trim(first, second)
    \/ \E offset \in Addr, positive \in BOOLEAN : translate(offset, positive)

SetSpec == SetInit /\ [][SetNext]_setVars

-----------------------------------------------------------------------------
(* Whatever the order of the calls, the container stays sorted and no two  *)
(* of its entries share an address (parameterSet.cpp:327 relies on it).    *)
EntriesDisjoint ==
    \A i, j \in DOMAIN own :
        /\ own[i].as \in AddrSpaces
        /\ i < j => own[i].as.end < own[j].as.base

(* Splitting, merging, weighting, trimming and translating the entries     *)
(* gives every address the value the same calls give it address by         *)
(* address (parameterSet.cpp:132).                                         *)
DenotesEachAddress == Denotes(own) = denoted

(* After a merge, an addition or a trim the representation is the only one *)
(* of its meaning, so that comparing entries compares meanings: the test   *)
(* on which the propagation between modules stops (parameterSet.cpp:366,   *)
(* vpsimModule.cpp:155).                                                   *)
UniqueRepresentation ==
    defragged => \A i \in 1 .. Len(own) - 1 :
                    ~(own[i].as.end + 1 = own[i + 1].as.base /\ own[i].v = own[i + 1].v)

BlockingAnswer(default) ==
    kind = "bt" => \A as \in AddrSpaces :
        getParameterValForAddrSpace(own, 1, as, default) \ {Crash}
            = {Max({getParameterValue(own, a, default) : a \in as.base .. as.end})}

(* With the default of the program (blocking enabled) a search that ends   *)
(* answers "blocking" exactly when some address of the space is blocking,  *)
(* whatever lies beyond the end of the container (parameterSet.cpp:44).    *)
BlockingAnswerExact == BlockingAnswer(1)

(* The search leaves the container only if the last entry is not blocking  *)
(* and the space oversteps it on both sides (parameterSet.cpp:81).         *)
ReadsPastEndOnlyIf ==
    kind = "bt" => \A as \in AddrSpaces :
        Crash \in getParameterValForAddrSpace(own, 1, as, 1) =>
            Last(own).v = 0 /\ as.base < Last(own).as.base /\ Last(own).as.end < as.end

(* The container is exact after any sequence of calls: disjoint entries,   *)
(* the value of each address, one representation of each meaning, the      *)
(* answer for a space and when the search for it leaves the container      *)
(* (parameterSet.cpp).                                                     *)
ContainerExact == EntriesDisjoint /\ DenotesEachAddress /\ UniqueRepresentation
                  /\ BlockingAnswerExact /\ ReadsPastEndOnlyIf

(* The same with the default a configuration file may set instead          *)
(* (xmlConfigParser.cpp:172).                                              *)
BlockingAnswerExactByDefault == \A default \in {0, 1} : BlockingAnswer(default)

(* Every search ends within the container: p != pc.cend() is the bound of  *)
(* the loop (parameterSet.cpp:76).                                         *)
SearchStaysInside ==
    kind = "bt" => \A as \in AddrSpaces :
        Crash \notin getParameterValForAddrSpace(own, 1, as, 1)

=============================================================================
