--------------------------- MODULE CacheSetProofs ---------------------------
(***************************************************************************)
(* Proofs about CacheSet for any associativity and any tags, and about     *)
(* NonCoherentCache for any number of CPUs, any lines and any              *)
(* associativities.                                                        *)
(***************************************************************************)
EXTENDS CacheSet, NonCoherentCache, Integers, FiniteSetTheorems, TLAPS

-----------------------------------------------------------------------------
(***************************************************************************)
(* The inductive invariant.                                                *)
(***************************************************************************)

\* The place of a way in the order of the last accesses, by its rank.
Place(policy, ranks, w) ==
  IF policy = "LRU" THEN ranks[w] + 1 ELSE Associativity - ranks[w]

\* order holds every way at the place its rank says.
InPlace(policy, ranks, order) == \A w \in Ways : order[Place(policy, ranks, w)] = w

\* Under MRU the free ways are handed out in the order of their numbers.
FreeInTurn ==
  Policy = "MRU" /\ CountUntilRepl < Associativity - 1 => NextVictim = CountUntilRepl

\* The inductive invariant.
SetInv ==
  /\ TypeOK /\ recent \in [1 .. Associativity -> Ways]
  /\ InPlace(Policy, repl_data, recent)
  /\ TagsUnique /\ VictimAtAnEnd /\ FreeInTurn

-----------------------------------------------------------------------------
(***************************************************************************)
(* Ranks.                                                                  *)
(***************************************************************************)

\* The number of ways, as the operators on ranks compute it.
LEMMA NumberOfWays ==
  ASSUME NEW ranks \in [Ways -> Ways]
  PROVE  DOMAIN ranks = Ways /\ IsFiniteSet(Ways) /\ Cardinality(DOMAIN ranks) = Associativity
<1>1. 0 \in Int /\ Associativity - 1 \in Int /\ ~(0 > Associativity - 1)
      /\ Associativity - 1 - 0 + 1 = Associativity
  BY AssocAssumption
<1>2. IsFiniteSet(Ways) /\ Cardinality(Ways) = Associativity
  BY <1>1, FS_Interval DEF Ways
<1>. QED  BY <1>2

\* The ranks are a permutation: a way is at the place that shows it.
Permuted(policy, ranks, order) ==
  /\ \A w \in Ways : Place(policy, ranks, w) \in 1 .. Associativity
  /\ \A k \in 1 .. Associativity : Place(policy, ranks, order[k]) = k
  /\ \A v, w \in Ways : ranks[v] = ranks[w] => v = w

\* Ranks that show every way its place are a permutation.
LEMMA RanksPermuted ==
  ASSUME NEW policy \in {"LRU", "MRU"}, NEW ranks \in [Ways -> Ways],
         NEW order \in [1 .. Associativity -> Ways], InPlace(policy, ranks, order)
  PROVE  Permuted(policy, ranks, order)
<1>. DEFINE f == [w \in Ways |-> Place(policy, ranks, w)]
<1>1. \A w \in Ways : ranks[w] \in 0 .. Associativity - 1
  BY DEF Ways
<1>2. \A w \in Ways : Place(policy, ranks, w) \in 1 .. Associativity
  <2>. SUFFICES ASSUME NEW w \in Ways
                PROVE  Place(policy, ranks, w) \in 1 .. Associativity
    OBVIOUS
  <2>1. ranks[w] \in 0 .. Associativity - 1 /\ Associativity \in Nat
    BY <1>1, AssocAssumption
  <2>2. ranks[w] + 1 \in 1 .. Associativity /\ Associativity - ranks[w] \in 1 .. Associativity
    BY ONLY <2>1
  <2>. QED  BY ONLY <2>2 DEF Place
<1>3. \A v, w \in Ways : Place(policy, ranks, v) = Place(policy, ranks, w) => v = w
  BY <1>2 DEF InPlace
<1>4. f \in [Ways -> 1 .. Associativity] /\ IsInjective(f)
  BY <1>2, <1>3 DEF IsInjective
<1>5. IsFiniteSet(1 .. Associativity) /\ Cardinality(1 .. Associativity) = Associativity
  <2>1. 1 \in Int /\ Associativity \in Int /\ ~(1 > Associativity)
        /\ Associativity - 1 + 1 = Associativity
    BY AssocAssumption
  <2>. QED  BY <2>1, FS_Interval
<1>6. Cardinality(Ways) = Associativity
  BY NumberOfWays
<1>7. f \in Surjection(Ways, 1 .. Associativity)
  <2>1. f \in Injection(Ways, 1 .. Associativity)
    BY <1>4 DEF Injection
  <2>. HIDE DEF f
  <2>. QED  BY <1>5, <1>6, <2>1, FS_Injection
<1>8. \A k \in 1 .. Associativity : \E w \in Ways : Place(policy, ranks, w) = k
  BY <1>7 DEF Surjection
<1>9. \A k \in 1 .. Associativity : Place(policy, ranks, order[k]) = k
  BY <1>2, <1>8 DEF InPlace
<1>10. \A v, w \in Ways : ranks[v] = ranks[w] => v = w
  BY <1>3 DEF Place
<1>. QED  BY <1>2, <1>9, <1>10 DEF Permuted

\* The ranks after an access of w.
LEMMA AccessedRanks ==
  ASSUME NEW policy \in {"LRU", "MRU"}, NEW ranks \in [Ways -> Ways],
         NEW order \in [1 .. Associativity -> Ways], InPlace(policy, ranks, order), NEW w \in Ways
  PROVE  /\ Accessed(policy, ranks, w) \in [Ways -> Ways]
         /\ MovedToFront(order, w) \in [1 .. Associativity -> Ways]
         /\ MovedToFront(order, w)[1] = w
         /\ InPlace(policy, Accessed(policy, ranks, w), MovedToFront(order, w))
         /\ \A i \in Ways \ {w} : Accessed(policy, ranks, w)[i] = Aged(policy, ranks, w)[i]
<1>. DEFINE A == Associativity
            aged == Aged(policy, ranks, w)
            new == Accessed(policy, ranks, w)
            at == Place(policy, ranks, w)
            moved == MovedToFront(order, w)
<1>1. /\ DOMAIN ranks = Ways /\ Cardinality(DOMAIN ranks) = A
      /\ \A i \in Ways : ranks[i] \in 0 .. A - 1 /\ i \in 0 .. A - 1
  BY NumberOfWays DEF Ways
<1>2. /\ \A i \in Ways : Place(policy, ranks, i) \in 1 .. A
      /\ \A k \in 1 .. A : Place(policy, ranks, order[k]) = k
      /\ \A v \in Ways \ {w} : ranks[v] # ranks[w]
  <2>1. Permuted(policy, ranks, order)
    BY RanksPermuted
  <2>. QED  BY ONLY <2>1, w \in Ways DEF Permuted
<1>3. /\ aged \in [Ways -> Int]
      /\ \A i \in Ways : aged[i] = IF policy = "LRU" /\ ranks[i] < ranks[w] THEN ranks[i] + 1
                                   ELSE IF policy = "MRU" /\ ranks[i] > ranks[w] THEN ranks[i] - 1
                                   ELSE ranks[i]
  BY <1>1 DEF Aged
<1>4. new = [aged EXCEPT ![w] = IF policy = "LRU" THEN 0 ELSE A - 1]
  BY <1>1 DEF Accessed
<1>. HIDE DEF aged, new
<1>5. /\ new \in [Ways -> Int] /\ new[w] = IF policy = "LRU" THEN 0 ELSE A - 1
      /\ \A i \in Ways \ {w} : new[i] = aged[i]
  BY <1>3, <1>4, AssocAssumption
<1>6. \A i \in Ways : new[i] \in 0 .. A - 1
  <2>. SUFFICES ASSUME NEW i \in Ways  PROVE new[i] \in 0 .. A - 1
    OBVIOUS
  <2>1. A \in Nat /\ A > 0 /\ ranks[i] \in 0 .. A - 1 /\ ranks[w] \in 0 .. A - 1
    BY <1>1, AssocAssumption
  <2>2. CASE i = w
    BY <1>5, <2>1, <2>2
  <2>3. CASE i # w
    <3>1. new[i] = aged[i]
      BY <1>5, <2>3
    <3>2. aged[i] = IF policy = "LRU" /\ ranks[i] < ranks[w] THEN ranks[i] + 1
                    ELSE IF policy = "MRU" /\ ranks[i] > ranks[w] THEN ranks[i] - 1
                    ELSE ranks[i]
      BY <1>3
    <3>3. aged[i] \in 0 .. A - 1
      BY ONLY <2>1, <3>2
    <3>. QED  BY <3>1, <3>3
  <2>. QED  BY <2>2, <2>3
<1>7. new \in [Ways -> Ways]
  BY <1>5, <1>6 DEF Ways
<1>8. at \in 1 .. A /\ order[at] = w /\ \A k \in 1 .. A : order[k] = w => k = at
  BY <1>2 DEF InPlace
<1>9. moved = [k \in 1 .. A |-> IF k = 1 THEN w ELSE IF k <= at THEN order[k - 1] ELSE order[k]]
  <2>1. at = CHOOSE k \in 1 .. A : order[k] = w
    BY <1>8
  <2>. QED  BY <2>1 DEF MovedToFront
<1>. HIDE DEF moved, at
<1>10. moved \in [1 .. A -> Ways] /\ moved[1] = w
  BY <1>8, <1>9, AssocAssumption
<1>11. A \in Nat /\ A > 0 /\ \A i \in Ways : ranks[i] \in 0 .. A - 1
  BY <1>1, AssocAssumption
<1>12. ASSUME NEW i \in Ways  PROVE moved[Place(policy, new, i)] = i
  <2>1. CASE i = w
    <3>1. Place(policy, new, i) = 1
      BY <1>5, <2>1, AssocAssumption DEF Place
    <3>. QED  BY <1>10, <2>1, <3>1
  <2>2. CASE i # w /\ Place(policy, ranks, i) < at
    <3>1. Place(policy, new, i) = Place(policy, ranks, i) + 1
      <4>1. CASE policy = "LRU"
        <5>1. Place(policy, ranks, i) = ranks[i] + 1 /\ at = ranks[w] + 1
              /\ Place(policy, new, i) = aged[i] + 1
          BY <1>5, <2>2, <4>1 DEF Place, at
        <5>2. ranks[i] < ranks[w]
          BY <1>11, <2>2, <5>1
        <5>. QED  BY <1>3, <1>11, <4>1, <5>1, <5>2
      <4>2. CASE policy = "MRU"
        <5>1. Place(policy, ranks, i) = A - ranks[i] /\ at = A - ranks[w]
              /\ Place(policy, new, i) = A - aged[i]
          BY <1>5, <2>2, <4>2 DEF Place, at
        <5>2. ranks[i] > ranks[w]
          BY <1>11, <2>2, <5>1
        <5>. QED  BY <1>3, <1>11, <4>2, <5>1, <5>2
      <4>. QED  BY <4>1, <4>2
    <3>2. /\ Place(policy, new, i) \in 1 .. A /\ Place(policy, new, i) # 1
          /\ Place(policy, new, i) <= at /\ Place(policy, new, i) - 1 = Place(policy, ranks, i)
      <4>1. Place(policy, ranks, i) \in 1 .. A
        BY <1>2
      <4>2. at \in 1 .. A
        BY <1>8
      <4>3. \A n, p, q, r \in Int : p \in 1 .. n /\ q \in 1 .. n /\ p < q /\ r = p + 1
              => r \in 1 .. n /\ r # 1 /\ r <= q /\ r - 1 = p
        OBVIOUS
      <4>4. A \in Int /\ at \in Int /\ Place(policy, ranks, i) \in Int /\ Place(policy, new, i) \in Int
        BY <1>11, <3>1, <4>1, <4>2
      <4>. QED  BY <2>2, <3>1, <4>1, <4>2, <4>3, <4>4
    <3>. QED  BY <1>9, <3>2 DEF InPlace
  <2>3. CASE i # w /\ ~(Place(policy, ranks, i) < at)
    <3>1. Place(policy, ranks, i) > at
      <4>1. Place(policy, ranks, i) # at
        <5>1. ranks[i] # ranks[w]
          BY <1>2, <2>3
        <5>2. CASE policy = "LRU"
          BY <1>11, <5>1, <5>2 DEF Place, at
        <5>3. CASE policy = "MRU"
          BY <1>11, <5>1, <5>3 DEF Place, at
        <5>. QED  BY <5>2, <5>3
      <4>. QED  BY <1>2, <1>8, <2>3, <4>1
    <3>2. Place(policy, new, i) = Place(policy, ranks, i)
      <4>1. CASE policy = "LRU"
        <5>1. Place(policy, ranks, i) = ranks[i] + 1 /\ at = ranks[w] + 1
              /\ Place(policy, new, i) = aged[i] + 1
          BY <1>5, <2>3, <4>1 DEF Place, at
        <5>2. ~(ranks[i] < ranks[w])
          BY <1>11, <3>1, <5>1
        <5>. QED  BY <1>3, <1>11, <4>1, <5>1, <5>2
      <4>2. CASE policy = "MRU"
        <5>1. Place(policy, ranks, i) = A - ranks[i] /\ at = A - ranks[w]
              /\ Place(policy, new, i) = A - aged[i]
          BY <1>5, <2>3, <4>2 DEF Place, at
        <5>2. ~(ranks[i] > ranks[w])
          BY <1>11, <3>1, <5>1
        <5>. QED  BY <1>3, <1>11, <4>2, <5>1, <5>2
      <4>. QED  BY <4>1, <4>2
    <3>3. /\ Place(policy, new, i) \in 1 .. A /\ Place(policy, new, i) # 1
          /\ ~(Place(policy, new, i) <= at)
      BY <1>2, <1>8, <3>1, <3>2
    <3>. QED  BY <1>9, <3>2, <3>3 DEF InPlace
  <2>. QED  BY <2>1, <2>2, <2>3
<1>13. InPlace(policy, new, moved)
  BY <1>12 DEF InPlace
<1>. QED  BY <1>5, <1>7, <1>10, <1>13 DEF new, moved, aged

\* The way the pass elects under LRU is at one of the ends of the new order.
LEMMA VictimLRU ==
  ASSUME NEW ranks \in [Ways -> Ways], NEW order \in [1 .. Associativity -> Ways],
         InPlace("LRU", ranks, order), NEW victim \in Ways, NEW w \in Ways
  PROVE  Victim("LRU", ranks, victim, w)
           \in {MovedToFront(order, w)[Associativity], MovedToFront(order, w)[1]}
<1>. DEFINE A == Associativity
            aged == Aged("LRU", ranks, w)
            new == Accessed("LRU", ranks, w)
            moved == MovedToFront(order, w)
            E == Elected("LRU", ranks, w)
<1>1. /\ DOMAIN ranks = Ways /\ Cardinality(DOMAIN ranks) = A
      /\ A \in Nat /\ A > 0
      /\ \A i \in Ways : ranks[i] \in 0 .. A - 1 /\ i \in Nat
  <2>1. DOMAIN ranks = Ways /\ Cardinality(DOMAIN ranks) = A
    BY NumberOfWays, Zenon
  <2>2. A \in Nat /\ A > 0 /\ \A i \in Ways : i \in Nat
    BY AssocAssumption DEF Ways
  <2>3. \A i \in Ways : ranks[i] \in 0 .. A - 1
    BY DEF Ways
  <2>. QED  BY <2>1, <2>2, <2>3
<1>2. \A i \in Ways : aged[i] = IF ranks[i] < ranks[w] THEN ranks[i] + 1 ELSE ranks[i]
  BY <1>1 DEF Aged
<1>3. E = {i \in Ways : aged[i] = A - 1}
  BY <1>1 DEF Elected
<1>4. /\ moved \in [1 .. A -> Ways] /\ moved[1] = w
      /\ \A i \in Ways : moved[Place("LRU", new, i)] = i
      /\ \A i \in Ways \ {w} : new[i] = aged[i]
  <2>1. /\ moved \in [1 .. A -> Ways] /\ moved[1] = w
        /\ InPlace("LRU", new, moved)
        /\ \A i \in Ways \ {w} : new[i] = aged[i]
    <3>1. "LRU" \in {"LRU", "MRU"}
      OBVIOUS
    <3>2. moved \in [1 .. A -> Ways] /\ moved[1] = w
      BY <3>1, AccessedRanks
    <3>3. InPlace("LRU", new, moved)
      BY <3>1, AccessedRanks
    <3>4. \A i \in Ways \ {w} : new[i] = aged[i]
      BY <3>1, AccessedRanks
    <3>. QED  BY <3>2, <3>3, <3>4
  <2>. HIDE DEF moved, new, aged
  <2>. QED  BY <2>1 DEF InPlace
<1>5. E # {}
  <2>1. A \in 1 .. A /\ order[A] \in Ways
    BY <1>1
  <2>2. Place("LRU", ranks, order[A]) = A
    <3>1. \A k \in 1 .. A : Place("LRU", ranks, order[k]) = k
      BY RanksPermuted DEF Permuted
    <3>. QED  BY <2>1, <3>1
  <2>3. ranks[order[A]] = A - 1
    <3>1. ranks[order[A]] \in 0 .. A - 1
      BY <1>1, <2>1
    <3>2. ranks[order[A]] + 1 = A
      BY <2>2 DEF Place
    <3>3. \A n, x \in Int : x + 1 = n => x = n - 1
      OBVIOUS
    <3>4. A \in Int /\ ranks[order[A]] \in Int
      BY <1>1, <3>1
    <3>. QED  BY <3>2, <3>3, <3>4, Zenon
  <2>4. ~(ranks[order[A]] < ranks[w])
    BY <1>1, <2>1, <2>3
  <2>5. aged[order[A]] = A - 1
    BY <1>2, <2>1, <2>3, <2>4
  <2>6. order[A] \in E
    BY <1>3, <2>1, <2>5
  <2>. QED  BY <2>6
<1>. HIDE DEF aged, new, moved, E
<1>6. ASSUME NEW i \in E  PROVE i \in Ways /\ i \in {moved[A], moved[1]}
  <2>1. CASE i = w
    BY <1>4, <2>1
  <2>2. CASE i # w
    <3>1. i \in Ways /\ new[i] = A - 1
      BY <1>3, <1>4, <2>2
    <3>2. Place("LRU", new, i) = A
      BY <1>1, <3>1 DEF Place
    <3>. QED  BY <1>4, <3>1, <3>2
  <2>. QED  BY <2>1, <2>2
<1>7. LastOf(E) \in E
  <2>1. \A i \in E : i \in Nat
    BY <1>1, <1>6
  <2>2. \E i \in E : \A j \in E : j <= i
    BY <1>5, <1>6, <2>1
  <2>. QED  BY <2>2 DEF LastOf
<1>8. Victim("LRU", ranks, victim, w) = LastOf(E)
  BY <1>5 DEF Victim, E
<1>. QED  BY <1>6, <1>7, <1>8 DEF moved

\* Under MRU the pass elects the way accessed, or none.
LEMMA VictimMRU ==
  ASSUME NEW ranks \in [Ways -> Ways], NEW order \in [1 .. Associativity -> Ways],
         InPlace("MRU", ranks, order), NEW victim \in Ways, NEW w \in Ways
  PROVE  Victim("MRU", ranks, victim, w) \in {victim, w}
<1>. DEFINE A == Associativity
            aged == Aged("MRU", ranks, w)
            E == Elected("MRU", ranks, w)
<1>1. /\ DOMAIN ranks = Ways /\ Cardinality(DOMAIN ranks) = A
      /\ A \in Nat /\ A > 0
      /\ \A i \in Ways : ranks[i] \in 0 .. A - 1 /\ i \in Nat
  <2>1. DOMAIN ranks = Ways /\ Cardinality(DOMAIN ranks) = A
    BY NumberOfWays, Zenon
  <2>2. A \in Nat /\ A > 0 /\ \A i \in Ways : i \in Nat
    BY AssocAssumption DEF Ways
  <2>3. \A i \in Ways : ranks[i] \in 0 .. A - 1
    BY DEF Ways
  <2>. QED  BY <2>1, <2>2, <2>3
<1>2. \A i \in Ways : aged[i] = IF ranks[i] > ranks[w] THEN ranks[i] - 1 ELSE ranks[i]
  BY <1>1 DEF Aged
<1>3. E = {i \in Ways : aged[i] = A - 1}
  BY <1>1 DEF Elected
<1>4. \A u, v \in Ways : ranks[u] = ranks[v] => u = v
  BY RanksPermuted DEF Permuted
<1>. HIDE DEF aged, E
<1>5. ASSUME NEW i \in E  PROVE i = w
  <2>1. i \in Ways /\ aged[i] = A - 1 /\ ranks[i] \in 0 .. A - 1 /\ ranks[w] \in 0 .. A - 1
    BY <1>1, <1>3
  <2>2. ~(ranks[i] > ranks[w]) /\ ranks[i] = A - 1
    <3>1. aged[i] = IF ranks[i] > ranks[w] THEN ranks[i] - 1 ELSE ranks[i]
      BY <1>2, <2>1
    <3>2. A \in Nat
      BY <1>1
    <3>3. \A n, x, y, z \in Int : /\ x \in 0 .. n - 1 /\ y \in 0 .. n - 1 /\ z = n - 1
                                   /\ z = (IF x > y THEN x - 1 ELSE x)
                                   => ~(x > y) /\ x = n - 1
      OBVIOUS
    <3>4. A \in Int /\ ranks[i] \in Int /\ ranks[w] \in Int /\ aged[i] \in Int
      BY <2>1, <3>2
    <3>. QED  BY <2>1, <3>1, <3>3, <3>4
  <2>3. ranks[i] = ranks[w]
    BY <1>1, <2>1, <2>2
  <2>. QED  BY <1>4, <2>1, <2>3
<1>6. E = {} \/ E = {w}
  BY <1>5
<1>7. E = {w} => LastOf(E) = w
  <2>. SUFFICES ASSUME E = {w}  PROVE LastOf({w}) = w
    OBVIOUS
  <2>1. w <= w
    BY <1>1
  <2>. QED  BY <2>1 DEF LastOf
<1>. QED  BY <1>6, <1>7 DEF Victim, E

-----------------------------------------------------------------------------
(***************************************************************************)
(* The steps.                                                              *)
(***************************************************************************)

\* The line of a tag: the way that holds it, else the victim.
LEMMA LineHolds ==
  ASSUME SetInv, NEW t \in Tag
  PROVE  /\ LineOf(t) \in Ways
         /\ Hit(t) => LineOf(t) \in valid /\ tag[LineOf(t)] = t
         /\ ~Hit(t) => \A v \in valid : tag[v] # t
<1>. DEFINE holders == locateLineInSet(t)
<1>1. holders = {w \in valid : tag[w] = t} /\ holders \subseteq Ways
  BY DEF SetInv, TypeOK, locateLineInSet
<1>2. Hit(t) <=> holders # {}
  BY DEF Hit
<1>. HIDE DEF holders
<1>3. CASE holders = {}
  <2>1. LineOf(t) = NextVictim
    BY <1>3 DEF LineOf, WayOf, holders
  <2>. QED  BY <1>1, <1>2, <1>3, <2>1 DEF SetInv, TypeOK
<1>4. CASE holders # {}
  <2>1. PICK x \in holders : TRUE
    BY <1>4
  <2>2. \A v \in holders : v = x
    BY <1>1, <2>1 DEF SetInv, TagsUnique
  <2>3. x <= x
    BY <1>1, <2>1, AssocAssumption DEF Ways
  <2>4. (CHOOSE w \in holders : \A v \in holders : w <= v) \in holders
    BY <2>1, <2>2, <2>3
  <2>5. LineOf(t) \in holders
    BY <1>4, <2>4 DEF LineOf, WayOf, holders
  <2>. QED  BY <1>1, <1>2, <1>4, <2>5
<1>. QED  BY <1>3, <1>4

\* accessSet keeps what the invariant says of ranks, victim and order.
LEMMA AccessKeeps ==
  ASSUME SetInv, NEW t \in Tag, accessSet(t)
  PROVE  /\ Policy' = Policy /\ repl_data' \in [Ways -> Ways]
         /\ NextVictim' \in Ways /\ CountUntilRepl' \in Ways
         /\ recent' \in [1 .. Associativity -> Ways]
         /\ InPlace(Policy, repl_data', recent')
         /\ VictimAtAnEnd' /\ FreeInTurn'
<1>. DEFINE w == LineOf(t)
<1>1. w \in Ways
  BY LineHolds
<1>2. /\ Policy \in {"LRU", "MRU"} /\ repl_data \in [Ways -> Ways]
      /\ NextVictim \in Ways /\ CountUntilRepl \in Ways
      /\ recent \in [1 .. Associativity -> Ways] /\ InPlace(Policy, repl_data, recent)
  BY DEF SetInv, TypeOK
<1>3. /\ Policy' = Policy /\ recent' = MovedToFront(recent, w)
      /\ updateReplacementData(w)
  BY DEF accessSet
<1>. HIDE DEF w
<1>4. repl_data' = Accessed(Policy, repl_data, w)
  BY <1>3 DEF updateReplacementData
<1>5. /\ repl_data' \in [Ways -> Ways] /\ recent' \in [1 .. Associativity -> Ways]
      /\ InPlace(Policy, repl_data', recent') /\ recent'[1] = w
  BY <1>1, <1>2, <1>3, <1>4, AccessedRanks
<1>6. Associativity \in Nat /\ Associativity > 0 /\ Ways = 0 .. Associativity - 1
  BY AssocAssumption DEF Ways
<1>7. CASE Policy = "LRU"
  <2>1. NextVictim' = Victim("LRU", repl_data, NextVictim, w) /\ CountUntilRepl' = CountUntilRepl
    BY <1>3, <1>7 DEF updateReplacementData
  <2>2. NextVictim' \in {recent'[Associativity], recent'[1]}
    BY <1>1, <1>2, <1>3, <1>7, <2>1, VictimLRU
  <2>3. NextVictim' \in Ways
    <3>1. 1 \in 1 .. Associativity /\ Associativity \in 1 .. Associativity
      BY <1>6
    <3>. QED  BY <1>5, <2>2, <3>1
  <2>4. VictimAtAnEnd' /\ FreeInTurn'
    BY <1>3, <1>7, <2>2 DEF VictimAtAnEnd, FreeInTurn
  <2>. QED  BY <1>2, <1>3, <1>5, <2>1, <2>3, <2>4
<1>8. CASE Policy = "MRU" /\ CountUntilRepl < Associativity - 1
  <2>1. NextVictim' = NextVictim + 1 /\ CountUntilRepl' = CountUntilRepl + 1
    BY <1>2, <1>3, <1>6, <1>8 DEF updateReplacementData
  <2>2. NextVictim = CountUntilRepl
    BY <1>8 DEF SetInv, FreeInTurn
  <2>3. NextVictim' \in Ways /\ CountUntilRepl' \in Ways
    BY <1>2, <1>6, <1>8, <2>1, <2>2
  <2>4. VictimAtAnEnd' /\ FreeInTurn'
    BY <1>3, <1>8, <2>1, <2>2 DEF VictimAtAnEnd, FreeInTurn
  <2>. QED  BY <1>3, <1>5, <2>3, <2>4
<1>9. CASE Policy = "MRU" /\ ~(CountUntilRepl < Associativity - 1)
  <2>1. NextVictim' = Victim("MRU", repl_data, NextVictim, w) /\ CountUntilRepl' = CountUntilRepl
    BY <1>3, <1>9 DEF updateReplacementData
  <2>2. NextVictim' \in Ways
    BY <1>1, <1>2, <1>9, <2>1, VictimMRU
  <2>3. VictimAtAnEnd' /\ FreeInTurn'
    BY <1>3, <1>9, <2>1 DEF VictimAtAnEnd, FreeInTurn
  <2>. QED  BY <1>2, <1>3, <1>5, <2>1, <2>2, <2>3
<1>. QED  BY <1>2, <1>7, <1>8, <1>9

LEMMA SetInit == Init => SetInv
<1>. SUFFICES ASSUME Init  PROVE SetInv
  OBVIOUS
<1>. DEFINE A == Associativity
<1>1. A \in Nat /\ A > 0 /\ Ways = 0 .. A - 1
  BY AssocAssumption DEF Ways
<1>2. /\ Policy \in {"LRU", "MRU"}
      /\ repl_data = [w \in Ways |-> A - w - 1]
      /\ recent = [i \in 1 .. A |-> IF Policy = "LRU" THEN A - i ELSE i - 1]
      /\ NextVictim = 0 /\ CountUntilRepl = 0 /\ valid = {}
  BY DEF Init
<1>3. tag \in [Ways -> Tag]
  BY DEF Init
<1>4. repl_data \in [Ways -> Ways] /\ recent \in [1 .. A -> Ways]
  BY <1>1, <1>2
<1>5. TypeOK
  BY <1>1, <1>2, <1>3, <1>4 DEF TypeOK
<1>6. InPlace(Policy, repl_data, recent)
  <2>. SUFFICES ASSUME NEW w \in Ways  PROVE recent[Place(Policy, repl_data, w)] = w
    BY DEF InPlace
  <2>1. CASE Policy = "LRU"
    <3>1. Place(Policy, repl_data, w) = A - w
      BY <1>1, <1>2, <2>1 DEF Place
    <3>. QED  BY <1>1, <1>2, <2>1, <3>1
  <2>2. CASE Policy = "MRU"
    <3>1. Place(Policy, repl_data, w) = w + 1
      BY <1>1, <1>2, <2>2 DEF Place
    <3>. QED  BY <1>1, <1>2, <2>2, <3>1
  <2>. QED  BY <1>2, <2>1, <2>2
<1>7. VictimAtAnEnd
  <2>. SUFFICES ASSUME Policy = "LRU"  PROVE recent[A] = 0
    BY <1>2 DEF VictimAtAnEnd
  <2>. QED  BY <1>1, <1>2
<1>8. TagsUnique /\ FreeInTurn
  BY <1>2 DEF TagsUnique, FreeInTurn
<1>. QED  BY <1>4, <1>5, <1>6, <1>7, <1>8 DEF SetInv

LEMMA SetStep == SetInv /\ [Next]_vars => SetInv'
<1>. SUFFICES ASSUME SetInv, [Next]_vars  PROVE SetInv'
  OBVIOUS
<1>1. CASE UNCHANGED vars
  BY <1>1 DEF vars, SetInv, TypeOK, InPlace, Place, TagsUnique, VictimAtAnEnd, FreeInTurn
<1>2. ASSUME NEW t \in Tag, accessSet(t), tag' \in [Ways -> Tag], valid' \subseteq Ways, TagsUnique'
      PROVE  SetInv'
  <2>1. /\ Policy' = Policy /\ repl_data' \in [Ways -> Ways]
        /\ NextVictim' \in Ways /\ CountUntilRepl' \in Ways
        /\ recent' \in [1 .. Associativity -> Ways]
        /\ InPlace(Policy, repl_data', recent')
        /\ VictimAtAnEnd' /\ FreeInTurn'
    BY <1>2, AccessKeeps
  <2>2. TypeOK'
    BY <1>2, <2>1 DEF SetInv, TypeOK
  <2>3. InPlace(Policy, repl_data, recent)'
    BY <2>1
  <2>. QED  BY <1>2, <2>1, <2>2, <2>3 DEF SetInv
<1>3. ASSUME NEW t \in Tag, Access(t)  PROVE SetInv'
  <2>. DEFINE w == LineOf(t)
  <2>1. /\ w \in Ways
        /\ Hit(t) => w \in valid /\ tag[w] = t
        /\ ~Hit(t) => \A v \in valid : tag[v] # t
    BY LineHolds
  <2>2. /\ tag \in [Ways -> Tag] /\ valid \subseteq Ways
        /\ \A u, v \in valid : tag[u] = tag[v] => u = v
    BY DEF SetInv, TypeOK, TagsUnique
  <2>3. accessSet(t) /\ tag' = [tag EXCEPT ![w] = t] /\ valid' = valid \cup {w}
    BY <1>3 DEF Access
  <2>. HIDE DEF w
  <2>4. tag' \in [Ways -> Tag] /\ valid' \subseteq Ways
    BY <2>1, <2>2, <2>3
  <2>5. ASSUME NEW u \in valid', NEW v \in valid', tag'[u] = tag'[v]  PROVE u = v
    <3>1. \A x \in valid \ {w} : tag'[x] = tag[x] /\ tag[x] # t
      BY <2>1, <2>2, <2>3
    <3>2. tag'[w] = t
      BY <2>1, <2>2, <2>3
    <3>. QED  BY <2>2, <2>3, <2>5, <3>1, <3>2
  <2>6. TagsUnique'
    BY <2>5 DEF TagsUnique
  <2>. QED  BY <1>2, <2>3, <2>4, <2>6
<1>4. ASSUME NEW t \in Tag, Remove(t)  PROVE SetInv'
  <2>1. accessSet(t) /\ tag' = tag /\ valid' \subseteq valid
    BY <1>4 DEF Remove
  <2>2. tag' \in [Ways -> Tag] /\ valid' \subseteq Ways
    BY <2>1 DEF SetInv, TypeOK
  <2>3. TagsUnique'
    BY <2>1 DEF SetInv, TagsUnique
  <2>. QED  BY <1>2, <2>1, <2>2, <2>3
<1>. QED  BY <1>1, <1>3, <1>4 DEF Next

\* The inductive invariant holds for any associativity and any tags.
THEOREM SetInvariance == Spec => []SetInv
<1>. QED  BY SetInit, SetStep, PTL DEF Spec

\* accessSet (CacheSet.hpp): after any mix of hits, misses and invalidations the
\* ranks are the order of the last accesses, no line is in the set twice, and the
\* elected victim is a way of the set, under LRU at an end of that order.
THEOREM ReplacementIsByUse == Spec => []ReplacementFollowsUse
<1>1. SetInv => ReplacementFollowsUse
  BY DEF SetInv, ReplacementFollowsUse, InPlace, Place, RankIsRecency
<1>. QED  BY <1>1, SetInvariance, PTL

-----------------------------------------------------------------------------
(***************************************************************************)
(* The hierarchy of caches without coherence.  An access is a chain of     *)
(* calls, each a function of the hierarchy: a lemma per call says which    *)
(* fields it changes, a lemma per request of level 1 what holds after it,  *)
(* and the invariant is carried along the chain.                           *)
(***************************************************************************)

\* The states of a way.
LineState == {"Modified", "Shared", "Invalid"}

\* The content of a way.
HierLine == [addr : Line, state : LineState, current : BOOLEAN]

\* The fields of a hierarchy, in full.
HierRecord(h) ==
  h = [way |-> h.way, rank |-> h.rank, victim |-> h.victim, sharers |-> h.sharers,
       mem |-> h.mem, data |-> h.data, asserts |-> h.asserts]

\* The type of a hierarchy in the middle of an access too.
HierTyped(h) ==
  /\ HierRecord(h)
  /\ DOMAIN h.way = Caches /\ DOMAIN h.rank = Caches /\ DOMAIN h.victim = Caches
  /\ \A k \in Caches : /\ h.way[k] \in [WaysOf(k) -> HierLine]
                       /\ h.rank[k] \in [WaysOf(k) -> WaysOf(k)]
                       /\ h.victim[k] \in WaysOf(k)
  /\ h.sharers \in [Line -> SUBSET CPU]
  /\ h.mem \in [Line -> BOOLEAN] /\ h.data \in BOOLEAN /\ h.asserts \in BOOLEAN

\* A way that holds a line.
Valid(l) == l.state # "Invalid"

\* A cache holds a line in one way.
OneWay(h) == \A k \in Caches : \A v, w \in WaysOf(k) :
  Valid(h.way[k][v]) /\ Valid(h.way[k][w]) /\ h.way[k][v].addr = h.way[k][w].addr => v = w

\* A cache of level 1 holds what its CPU may use, modified what it may write.
OwnLines(h) == \A c \in CPU : \A w \in WaysOf(c) :
  /\ Valid(h.way[c][w]) => h.way[c][w].addr \in Private[c] \cup Common
  /\ h.way[c][w].state = "Modified" => h.way[c][w].addr \in Private[c]

\* The directory of an exclusive cache is exact and it shares no line with level 1.
ExclusiveInv(h) == \A c \in CPU, a \in Line :
  /\ InCache(h, c, a) <=> c \in h.sharers[a]
  /\ ~(InCache(h, c, a) /\ InCache(h, Shared_LLC, a))

\* An inclusive cache holds every line it names sharers of, and names the caches that
\* hold it clean: never one whose copy is modified.
InclusiveInv(h) ==
  /\ \A c \in CPU : \A w \in WaysOf(c) :
       LET l == h.way[c][w] IN
       /\ l.state = "Shared" => c \in h.sharers[l.addr]
       /\ l.state = "Modified" => c \notin h.sharers[l.addr]
  /\ \A a \in Line : h.sharers[a] # {} => InCache(h, Shared_LLC, a)

\* What is found below level 1 is what was written last: every copy of the shared
\* cache, and the memory when there is none.
Below(h, a) ==
  /\ \A w \in WaysOf(Shared_LLC) :
       Valid(h.way[Shared_LLC][w]) /\ h.way[Shared_LLC][w].addr = a => h.way[Shared_LLC][w].current
  /\ InCache(h, Shared_LLC, a) \/ h.mem[a]

\* Where the newest data of a line of one CPU is, without exclusion: a clean copy of the
\* shared cache agrees with memory, a copy of level 1 is current, and a line is current
\* below unless its CPU holds it modified.
DataInv(h) ==
  /\ \A w \in WaysOf(Shared_LLC) :
       LET l == h.way[Shared_LLC][w] IN l.state = "Shared" => l.current = h.mem[l.addr]
  /\ \A c \in CPU : \A w \in WaysOf(c) :
       LET l == h.way[c][w] IN Valid(l) /\ l.addr \in Private[c] => l.current
  /\ \A c \in CPU : \A a \in Private[c] :
       \/ \E w \in WaysOf(c) : h.way[c][w].addr = a /\ h.way[c][w].state = "Modified"
       \/ Below(h, a)

\* The inductive invariant, of a hierarchy at any point of an access where no line is
\* on its way.
HierInv(h) ==
  /\ HierTyped(h) /\ OneWay(h) /\ OwnLines(h) /\ h.asserts
  /\ inclusion = "Exclusive" => ExclusiveInv(h)
  /\ inclusion = "Inclusive" => InclusiveInv(h)
  /\ inclusion # "Exclusive" => DataInv(h)

-----------------------------------------------------------------------------

\* The ways of a cache are some natural numbers from 0.
LEMMA WaysOfCache ==
  ASSUME NEW k \in Caches
  PROVE  /\ Assoc[k] \in Nat \ {0} /\ WaysOf(k) \subseteq Nat /\ 0 \in WaysOf(k)
         /\ IsFiniteSet(WaysOf(k)) /\ Cardinality(WaysOf(k)) = Assoc[k]
<1>1. Assoc[k] \in Nat \ {0}
  BY HierarchyAssumption
<1>2. 0 \in Int /\ Assoc[k] - 1 \in Int /\ ~(0 > Assoc[k] - 1) /\ Assoc[k] - 1 - 0 + 1 = Assoc[k]
  BY <1>1
<1>3. IsFiniteSet(0 .. Assoc[k] - 1) /\ Cardinality(0 .. Assoc[k] - 1) = Assoc[k]
  BY <1>2, FS_Interval
<1>. QED  BY <1>1, <1>3 DEF WaysOf

\* The last of some ways is one of them.
LEMMA LastWay ==
  ASSUME NEW k \in Caches, NEW S \in SUBSET WaysOf(k), S # {}
  PROVE  LastOf(S) \in S
<1>. DEFINE T == {n \in Nat : \E i \in S : n = Assoc[k] - 1 - i}
<1>1. Assoc[k] \in Nat \ {0} /\ \A i \in S : i \in 0 .. Assoc[k] - 1
  BY WaysOfCache DEF WaysOf
<1>2. T \subseteq Nat /\ T # {}
  <2>1. PICK i \in S : TRUE
    OBVIOUS
  <2>2. Assoc[k] - 1 - i \in Nat
    BY <1>1
  <2>. QED  BY <2>2
<1>3. PICK x \in T : \A y \in T : ~(<<y, x>> \in OpToRel(<, Nat))
  <2>. HIDE DEF T
  <2>. QED  BY <1>2, NatLessThanWellFounded, WFMin, Zenon
<1>4. PICK i \in S : x = Assoc[k] - 1 - i
  OBVIOUS
<1>5. \A j \in S : j <= i
  <2>. SUFFICES ASSUME NEW j \in S, ~(j <= i)  PROVE FALSE
    OBVIOUS
  <2>1. Assoc[k] - 1 - j \in T /\ Assoc[k] - 1 - j < x
    BY <1>1, <1>4
  <2>2. <<Assoc[k] - 1 - j, x>> \in OpToRel(<, Nat)
    BY <1>2, <2>1 DEF OpToRel
  <2>. QED  BY <1>3, <2>1, <2>2
<1>. QED  BY <1>5 DEF LastOf

\* An access keeps the ranks and the victim inside the set.
LEMMA RanksTyped ==
  ASSUME NEW k \in Caches, NEW ranks \in [WaysOf(k) -> WaysOf(k)], NEW v \in WaysOf(k),
         NEW w \in WaysOf(k)
  PROVE  /\ Accessed("LRU", ranks, w) \in [WaysOf(k) -> WaysOf(k)]
         /\ Victim("LRU", ranks, v, w) \in WaysOf(k)
<1>1. /\ DOMAIN ranks = WaysOf(k) /\ Assoc[k] \in Nat \ {0}
      /\ \A i \in WaysOf(k) : ranks[i] \in 0 .. Assoc[k] - 1
  BY WaysOfCache DEF WaysOf
<1>2. Accessed("LRU", ranks, w) \in [WaysOf(k) -> WaysOf(k)]
  <2>. DEFINE aged == Aged("LRU", ranks, w)
  <2>1. /\ DOMAIN aged = WaysOf(k)
        /\ \A i \in WaysOf(k) : aged[i] = IF ranks[i] < ranks[w] THEN ranks[i] + 1 ELSE ranks[i]
    BY <1>1 DEF Aged
  <2>2. \A i \in WaysOf(k) : aged[i] \in 0 .. Assoc[k] - 1
    BY <1>1, <2>1
  <2>3. aged \in [WaysOf(k) -> WaysOf(k)]
    BY <1>1, <2>1, <2>2 DEF Aged, WaysOf
  <2>4. Accessed("LRU", ranks, w) = [aged EXCEPT ![w] = 0]
    BY DEF Accessed
  <2>5. 0 \in WaysOf(k)
    BY WaysOfCache
  <2>. HIDE DEF aged
  <2>6. [aged EXCEPT ![w] = 0] \in [WaysOf(k) -> WaysOf(k)]
    BY ONLY <2>3, <2>5, w \in WaysOf(k)
  <2>. QED  BY ONLY <2>4, <2>6
<1>3. Victim("LRU", ranks, v, w) \in WaysOf(k)
  <2>1. Elected("LRU", ranks, w) \in SUBSET WaysOf(k)
    BY <1>1 DEF Elected
  <2>. QED  BY <2>1, LastWay DEF Victim
<1>. QED  BY <1>2, <1>3

\* The way of an access (locateLineInSet): the one way that holds the line, or the
\* victim.
LEMMA LineAtFacts ==
  ASSUME NEW h, HierTyped(h), OneWay(h), NEW k \in Caches, NEW a \in Line
  PROVE  /\ LineAt(h, k, a) \in WaysOf(k)
         /\ InCache(h, k, a) => /\ Valid(h.way[k][LineAt(h, k, a)])
                                /\ h.way[k][LineAt(h, k, a)].addr = a
         /\ \A w \in WaysOf(k) : Valid(h.way[k][w]) /\ h.way[k][w].addr = a =>
              InCache(h, k, a) /\ w = LineAt(h, k, a)
<1>1. Holders(h, k, a) = {w \in WaysOf(k) : Valid(h.way[k][w]) /\ h.way[k][w].addr = a}
  BY DEF Holders, Valid
<1>2. \A v, w \in Holders(h, k, a) : v = w /\ v <= w
  BY <1>1, WaysOfCache DEF OneWay
<1>3. Holders(h, k, a) # {} => LineAt(h, k, a) \in Holders(h, k, a)
  BY <1>2 DEF LineAt, WayOf
<1>4. Holders(h, k, a) = {} => LineAt(h, k, a) = h.victim[k]
  BY DEF LineAt, WayOf
<1>5. LineAt(h, k, a) \in WaysOf(k)
  BY <1>1, <1>3, <1>4 DEF HierTyped
<1>. QED  BY <1>1, <1>2, <1>3, <1>5 DEF InCache

\* The fields a step of the ranks leaves alone.
LEMMA RankedFields ==
  ASSUME NEW h, HierTyped(h), NEW k \in Caches, NEW w \in WaysOf(k)
  PROVE  /\ HierTyped(Ranked(h, k, w))
         /\ Ranked(h, k, w).way = h.way /\ Ranked(h, k, w).sharers = h.sharers
         /\ Ranked(h, k, w).mem = h.mem /\ Ranked(h, k, w).data = h.data
         /\ Ranked(h, k, w).asserts = h.asserts
<1>. DEFINE r == Accessed("LRU", h.rank[k], w)
            v == Victim("LRU", h.rank[k], h.victim[k], w)
            R == [h.rank EXCEPT ![k] = r]
            V == [h.victim EXCEPT ![k] = v]
            g == [h EXCEPT !.rank = R, !.victim = V]
<1>1. r \in [WaysOf(k) -> WaysOf(k)] /\ v \in WaysOf(k)
  BY RanksTyped DEF HierTyped
<1>2. Ranked(h, k, w) = g
  BY DEF Ranked
<1>. HIDE DEF r, v, R, V
<1>3. g = [way |-> h.way, rank |-> R, victim |-> V, sharers |-> h.sharers,
           mem |-> h.mem, data |-> h.data, asserts |-> h.asserts]
  <2>. DEFINE e == [h EXCEPT !.rank = R]
  <2>1. HierRecord(h)
    BY DEF HierTyped
  <2>2. e = [way |-> h.way, rank |-> R, victim |-> h.victim, sharers |-> h.sharers,
             mem |-> h.mem, data |-> h.data, asserts |-> h.asserts]
    BY <2>1 DEF HierRecord
  <2>3. g = [e EXCEPT !.victim = V]
    OBVIOUS
  <2>. HIDE DEF e
  <2>. QED  BY <2>2, <2>3
<1>4. HierTyped(g)
  <2>. HIDE DEF g
  <2>. QED  BY <1>1, <1>3 DEF HierTyped, HierRecord, R, V
<1>. QED  BY <1>2, <1>3, <1>4

\* What assigning a way leaves alone.
LEMMA SetWayFields ==
  ASSUME NEW h, HierTyped(h), NEW k \in Caches, NEW w \in WaysOf(k), NEW line \in HierLine
  PROVE  /\ HierTyped(SetWay(h, k, w, line))
         /\ SetWay(h, k, w, line).way[k][w] = line
         /\ \A j \in Caches : \A v \in WaysOf(j) :
              j # k \/ v # w => SetWay(h, k, w, line).way[j][v] = h.way[j][v]
         /\ SetWay(h, k, w, line).sharers = h.sharers
         /\ SetWay(h, k, w, line).mem = h.mem /\ SetWay(h, k, w, line).data = h.data
         /\ SetWay(h, k, w, line).asserts = h.asserts
<1>. DEFINE g == SetWay(h, k, w, line)
            f == [h.way[k] EXCEPT ![w] = line]
<1>1. f \in [WaysOf(k) -> HierLine] /\ f[w] = line /\ \A v \in WaysOf(k) \ {w} : f[v] = h.way[k][v]
  BY DEF HierTyped
<1>2. g = [h EXCEPT !.way[k] = f]
  BY DEF SetWay
<1>. HIDE DEF f
<1>3. /\ g.rank = h.rank /\ g.victim = h.victim /\ g.sharers = h.sharers /\ g.mem = h.mem
      /\ g.data = h.data /\ g.asserts = h.asserts /\ g.way = [h.way EXCEPT ![k] = f]
      /\ HierRecord(g)
  BY <1>2 DEF HierTyped, HierRecord
<1>. HIDE DEF g
<1>4. HierTyped(g)
  BY <1>1, <1>3 DEF HierTyped
<1>5. /\ g.way[k][w] = line
      /\ \A j \in Caches : \A v \in WaysOf(j) : j # k \/ v # w => g.way[j][v] = h.way[j][v]
  BY <1>1, <1>3 DEF HierTyped
<1>. QED  BY <1>3, <1>4, <1>5 DEF g

\* A way that is filled keeps its address.
LEMMA FillFields ==
  ASSUME NEW h, HierTyped(h), NEW k \in Caches, NEW w \in WaysOf(k),
         NEW s \in LineState, NEW cur \in BOOLEAN
  PROVE  /\ HierTyped(Fill(h, k, w, s, cur))
         /\ Fill(h, k, w, s, cur).way[k][w].addr = h.way[k][w].addr
         /\ Fill(h, k, w, s, cur).way[k][w].state = s
         /\ Fill(h, k, w, s, cur).way[k][w].current = cur
         /\ \A j \in Caches : \A v \in WaysOf(j) :
              j # k \/ v # w => Fill(h, k, w, s, cur).way[j][v] = h.way[j][v]
         /\ Fill(h, k, w, s, cur).sharers = h.sharers
         /\ Fill(h, k, w, s, cur).mem = h.mem /\ Fill(h, k, w, s, cur).data = h.data
         /\ Fill(h, k, w, s, cur).asserts = h.asserts
<1>. DEFINE line == [addr |-> h.way[k][w].addr, state |-> s, current |-> cur]
<1>1. line \in HierLine
  BY DEF HierTyped, HierLine, LineState
<1>2. Fill(h, k, w, s, cur) = SetWay(h, k, w, line)
  BY DEF Fill
<1>3. line.addr = h.way[k][w].addr /\ line.state = s /\ line.current = cur
  OBVIOUS
<1>. HIDE DEF line
<1>. QED  BY <1>1, <1>2, <1>3, SetWayFields

\* A way that is given to a line holds nothing yet.
LEMMA NewLineFields ==
  ASSUME NEW h, HierTyped(h), NEW k \in Caches, NEW w \in WaysOf(k), NEW a \in Line
  PROVE  /\ HierTyped(NewLine(h, k, w, a))
         /\ NewLine(h, k, w, a).way[k][w].addr = a
         /\ NewLine(h, k, w, a).way[k][w].state = "Invalid"
         /\ \A j \in Caches : \A v \in WaysOf(j) :
              j # k \/ v # w => NewLine(h, k, w, a).way[j][v] = h.way[j][v]
         /\ NewLine(h, k, w, a).sharers = h.sharers
         /\ NewLine(h, k, w, a).mem = h.mem /\ NewLine(h, k, w, a).data = h.data
         /\ NewLine(h, k, w, a).asserts = h.asserts
<1>. DEFINE line == [addr |-> a, state |-> "Invalid", current |-> FALSE]
<1>1. line \in HierLine /\ line.addr = a /\ line.state = "Invalid"
  BY DEF HierLine, LineState
<1>2. NewLine(h, k, w, a) = SetWay(h, k, w, line)
  BY DEF NewLine
<1>. HIDE DEF line
<1>. QED  BY <1>1, <1>2, SetWayFields

\* An update of one field, written out.
LEMMA RecordUpdates ==
  ASSUME NEW h, HierRecord(h), NEW x
  PROVE  /\ [h EXCEPT !.way = x] =
              [way |-> x, rank |-> h.rank, victim |-> h.victim, sharers |-> h.sharers,
               mem |-> h.mem, data |-> h.data, asserts |-> h.asserts]
         /\ [h EXCEPT !.rank = x] =
              [way |-> h.way, rank |-> x, victim |-> h.victim, sharers |-> h.sharers,
               mem |-> h.mem, data |-> h.data, asserts |-> h.asserts]
         /\ [h EXCEPT !.victim = x] =
              [way |-> h.way, rank |-> h.rank, victim |-> x, sharers |-> h.sharers,
               mem |-> h.mem, data |-> h.data, asserts |-> h.asserts]
         /\ [h EXCEPT !.sharers = x] =
              [way |-> h.way, rank |-> h.rank, victim |-> h.victim, sharers |-> x,
               mem |-> h.mem, data |-> h.data, asserts |-> h.asserts]
         /\ [h EXCEPT !.mem = x] =
              [way |-> h.way, rank |-> h.rank, victim |-> h.victim, sharers |-> h.sharers,
               mem |-> x, data |-> h.data, asserts |-> h.asserts]
         /\ [h EXCEPT !.data = x] =
              [way |-> h.way, rank |-> h.rank, victim |-> h.victim, sharers |-> h.sharers,
               mem |-> h.mem, data |-> x, asserts |-> h.asserts]
         /\ [h EXCEPT !.asserts = x] =
              [way |-> h.way, rank |-> h.rank, victim |-> h.victim, sharers |-> h.sharers,
               mem |-> h.mem, data |-> h.data, asserts |-> x]
<1>1. h = [way |-> h.way, rank |-> h.rank, victim |-> h.victim, sharers |-> h.sharers,
           mem |-> h.mem, data |-> h.data, asserts |-> h.asserts]
  BY DEF HierRecord
<1>2. [h EXCEPT !.way = x] =
        [way |-> x, rank |-> h.rank, victim |-> h.victim, sharers |-> h.sharers,
         mem |-> h.mem, data |-> h.data, asserts |-> h.asserts]
  BY <1>1
<1>3. [h EXCEPT !.rank = x] =
        [way |-> h.way, rank |-> x, victim |-> h.victim, sharers |-> h.sharers,
         mem |-> h.mem, data |-> h.data, asserts |-> h.asserts]
  BY <1>1
<1>4. [h EXCEPT !.victim = x] =
        [way |-> h.way, rank |-> h.rank, victim |-> x, sharers |-> h.sharers,
         mem |-> h.mem, data |-> h.data, asserts |-> h.asserts]
  BY <1>1
<1>5. [h EXCEPT !.sharers = x] =
        [way |-> h.way, rank |-> h.rank, victim |-> h.victim, sharers |-> x,
         mem |-> h.mem, data |-> h.data, asserts |-> h.asserts]
  BY <1>1
<1>6. [h EXCEPT !.mem = x] =
        [way |-> h.way, rank |-> h.rank, victim |-> h.victim, sharers |-> h.sharers,
         mem |-> x, data |-> h.data, asserts |-> h.asserts]
  BY <1>1
<1>7. [h EXCEPT !.data = x] =
        [way |-> h.way, rank |-> h.rank, victim |-> h.victim, sharers |-> h.sharers,
         mem |-> h.mem, data |-> x, asserts |-> h.asserts]
  BY <1>1
<1>8. [h EXCEPT !.asserts = x] =
        [way |-> h.way, rank |-> h.rank, victim |-> h.victim, sharers |-> h.sharers,
         mem |-> h.mem, data |-> h.data, asserts |-> x]
  BY <1>1
<1>. QED  BY <1>2, <1>3, <1>4, <1>5, <1>6, <1>7, <1>8

\* Caches that are told of a line: an Invalidate takes the line from those named, a
\* ReadBack only looks for it.
LEMMA ToldFields ==
  ASSUME NEW h, HierTyped(h), OneWay(h), NEW a \in Line, NEW ids \in SUBSET CPU,
         NEW mode \in {"Invalidate", "ReadBack"}
  PROVE  /\ HierTyped(Told(h, mode, a, ids))
         /\ \A w \in WaysOf(Shared_LLC) :
              Told(h, mode, a, ids).way[Shared_LLC][w] = h.way[Shared_LLC][w]
         /\ \A c \in CPU : \A w \in WaysOf(c) :
              Told(h, mode, a, ids).way[c][w] =
                IF mode = "Invalidate" /\ c \in ids /\ Valid(h.way[c][w]) /\ h.way[c][w].addr = a
                THEN [h.way[c][w] EXCEPT !.state = "Invalid"] ELSE h.way[c][w]
         /\ Told(h, mode, a, ids).sharers = h.sharers /\ Told(h, mode, a, ids).mem = h.mem
         /\ Told(h, mode, a, ids).data = h.data
         /\ mode = "Invalidate" => Told(h, mode, a, ids).asserts = h.asserts
         /\ h.asserts /\ (\A c \in ids : InCache(h, c, a)) => Told(h, mode, a, ids).asserts
<1>. DEFINE drop(c, w) == mode = "Invalidate" /\ c \in ids /\ w \in Holders(h, c, a)
            W == [c \in Caches |-> [w \in WaysOf(c) |->
                   IF drop(c, w) THEN [h.way[c][w] EXCEPT !.state = "Invalid"] ELSE h.way[c][w]]]
            R == [c \in Caches |-> IF c \in ids THEN Accessed("LRU", h.rank[c], LineAt(h, c, a))
                                   ELSE h.rank[c]]
            V == [c \in Caches |->
                      IF c \in ids THEN Victim("LRU", h.rank[c], h.victim[c], LineAt(h, c, a))
                      ELSE h.victim[c]]
            A == h.asserts /\ (mode = "ReadBack" => \A c \in ids : InCache(h, c, a))
            g == Told(h, mode, a, ids)
<1>1. \A c \in Caches : W[c] \in [WaysOf(c) -> HierLine]
  BY DEF HierTyped, HierLine, LineState
<1>2. \A c \in Caches : R[c] \in [WaysOf(c) -> WaysOf(c)] /\ V[c] \in WaysOf(c)
  <2>. SUFFICES ASSUME NEW c \in Caches
                PROVE  R[c] \in [WaysOf(c) -> WaysOf(c)] /\ V[c] \in WaysOf(c)
    OBVIOUS
  <2>1. LineAt(h, c, a) \in WaysOf(c)
    BY LineAtFacts
  <2>2. h.rank[c] \in [WaysOf(c) -> WaysOf(c)] /\ h.victim[c] \in WaysOf(c)
    BY DEF HierTyped
  <2>3. /\ Accessed("LRU", h.rank[c], LineAt(h, c, a)) \in [WaysOf(c) -> WaysOf(c)]
        /\ Victim("LRU", h.rank[c], h.victim[c], LineAt(h, c, a)) \in WaysOf(c)
    BY <2>1, <2>2, RanksTyped
  <2>. QED  BY <2>2, <2>3
<1>3. A \in BOOLEAN /\ DOMAIN W = Caches /\ DOMAIN R = Caches /\ DOMAIN V = Caches
  OBVIOUS
<1>4. /\ \A w \in WaysOf(Shared_LLC) : W[Shared_LLC][w] = h.way[Shared_LLC][w]
      /\ \A c \in CPU : \A w \in WaysOf(c) :
           W[c][w] = IF /\ mode = "Invalidate" /\ c \in ids
                        /\ Valid(h.way[c][w]) /\ h.way[c][w].addr = a
                     THEN [h.way[c][w] EXCEPT !.state = "Invalid"] ELSE h.way[c][w]
  <2>1. Shared_LLC \notin ids /\ Shared_LLC \in Caches /\ CPU \subseteq Caches
    BY HierarchyAssumption DEF Shared_LLC, Caches
  <2>. QED  BY <2>1 DEF Holders, Valid
<1>5. g = [h EXCEPT !.way = W, !.rank = R, !.victim = V, !.asserts = A]
  BY DEF Told
<1>. HIDE DEF W, R, V, A
<1>6. g = [way |-> W, rank |-> R, victim |-> V, sharers |-> h.sharers,
           mem |-> h.mem, data |-> h.data, asserts |-> A]
  <2>. DEFINE e1 == [h EXCEPT !.way = W]
              e2 == [e1 EXCEPT !.rank = R]
              e3 == [e2 EXCEPT !.victim = V]
  <2>1. g = [e3 EXCEPT !.asserts = A] /\ HierRecord(h)
    BY <1>5 DEF HierTyped
  <2>2. e1 = [way |-> W, rank |-> h.rank, victim |-> h.victim, sharers |-> h.sharers,
               mem |-> h.mem, data |-> h.data, asserts |-> h.asserts]
    BY <2>1, RecordUpdates
  <2>. HIDE DEF e1, g
  <2>3. e2 = [way |-> W, rank |-> R, victim |-> h.victim, sharers |-> h.sharers,
               mem |-> h.mem, data |-> h.data, asserts |-> h.asserts]
    BY <2>2
  <2>. HIDE DEF e2
  <2>4. e3 = [way |-> W, rank |-> R, victim |-> V, sharers |-> h.sharers,
               mem |-> h.mem, data |-> h.data, asserts |-> h.asserts]
    BY <2>3
  <2>. HIDE DEF e3
  <2>. QED  BY <2>1, <2>4
<1>. HIDE DEF g
<1>7. HierTyped(g)
  BY <1>1, <1>2, <1>3, <1>6 DEF HierTyped, HierRecord
<1>8. g.asserts = A /\ h.asserts \in BOOLEAN
  BY <1>6 DEF HierTyped
<1>9. mode = "Invalidate" => A = h.asserts
  BY <1>8 DEF A
<1>10. h.asserts /\ (\A c \in ids : InCache(h, c, a)) => A
  BY DEF A
<1>. QED  BY <1>4, <1>6, <1>7, <1>8, <1>9, <1>10 DEF g

\* The caches of level 1 named for a become S.
WithSharers(h, a, S) == [h EXCEPT !.sharers[a] = S]

\* What an update of the directory leaves alone.
LEMMA SharersFields ==
  ASSUME NEW h, HierTyped(h), NEW a \in Line, NEW S \in SUBSET CPU
  PROVE  /\ HierTyped(WithSharers(h, a, S))
         /\ WithSharers(h, a, S).way = h.way
         /\ WithSharers(h, a, S).sharers = [h.sharers EXCEPT ![a] = S]
         /\ WithSharers(h, a, S).mem = h.mem
         /\ WithSharers(h, a, S).data = h.data
         /\ WithSharers(h, a, S).asserts = h.asserts
<1>. DEFINE x == [h.sharers EXCEPT ![a] = S]
            g == WithSharers(h, a, S)
<1>1. HierRecord(h) /\ g = [h EXCEPT !.sharers = x] /\ x \in [Line -> SUBSET CPU]
  BY DEF HierTyped, WithSharers
<1>. HIDE DEF g, x
<1>2. g = [way |-> h.way, rank |-> h.rank, victim |-> h.victim, sharers |-> x,
           mem |-> h.mem, data |-> h.data, asserts |-> h.asserts]
  BY <1>1, RecordUpdates
<1>3. HierTyped(g)
  BY <1>1, <1>2 DEF HierTyped, HierRecord
<1>. QED  BY <1>2, <1>3 DEF g, x

\* What a write of memory leaves alone.
LEMMA MemFields ==
  ASSUME NEW h, HierTyped(h), NEW a \in Line, NEW b \in BOOLEAN
  PROVE  /\ HierTyped([h EXCEPT !.mem[a] = b])
         /\ [h EXCEPT !.mem[a] = b].way = h.way
         /\ [h EXCEPT !.mem[a] = b].sharers = h.sharers
         /\ [h EXCEPT !.mem[a] = b].mem = [h.mem EXCEPT ![a] = b]
         /\ [h EXCEPT !.mem[a] = b].data = h.data
         /\ [h EXCEPT !.mem[a] = b].asserts = h.asserts
<1>. DEFINE x == [h.mem EXCEPT ![a] = b]
            g == [h EXCEPT !.mem[a] = b]
<1>1. HierRecord(h) /\ g = [h EXCEPT !.mem = x] /\ x \in [Line -> BOOLEAN]
  BY DEF HierTyped
<1>. HIDE DEF g, x
<1>2. g = [way |-> h.way, rank |-> h.rank, victim |-> h.victim, sharers |-> h.sharers,
           mem |-> x, data |-> h.data, asserts |-> h.asserts]
  BY <1>1, RecordUpdates
<1>3. HierTyped(g)
  BY <1>1, <1>2 DEF HierTyped, HierRecord
<1>. QED  BY <1>2, <1>3 DEF g, x

\* What the data of an answer leaves alone.
LEMMA DataFields ==
  ASSUME NEW h, HierTyped(h), NEW b \in BOOLEAN
  PROVE  /\ HierTyped([h EXCEPT !.data = b])
         /\ [h EXCEPT !.data = b].way = h.way
         /\ [h EXCEPT !.data = b].sharers = h.sharers
         /\ [h EXCEPT !.data = b].mem = h.mem
         /\ [h EXCEPT !.data = b].data = b
         /\ [h EXCEPT !.data = b].asserts = h.asserts
<1>. DEFINE g == [h EXCEPT !.data = b]
<1>1. HierRecord(h)
  BY DEF HierTyped
<1>2. g = [way |-> h.way, rank |-> h.rank, victim |-> h.victim, sharers |-> h.sharers,
           mem |-> h.mem, data |-> b, asserts |-> h.asserts]
  BY <1>1, RecordUpdates
<1>. HIDE DEF g
<1>3. HierTyped(g)
  BY <1>2 DEF HierTyped, HierRecord
<1>. QED  BY <1>2, <1>3 DEF g

-----------------------------------------------------------------------------
\* Way v of CPU c holds line b and an inclusive cache knows of it.
Known(h, b, c, v) ==
  /\ inclusion = "Inclusive" /\ c \in h.sharers[b]
  /\ Valid(h.way[c][v]) /\ h.way[c][v].addr = b

\* The copies of b that an inclusive cache knows of are clean.
KnownClean(h, b) ==
  \A c \in CPU : \A v \in WaysOf(c) : Known(h, b, c, v) => h.way[c][v].state # "Modified"

\* What becomes of a hierarchy h when way w of the shared cache is made free for a.
RoomMade(h, g, w, a) ==
  LET l == h.way[Shared_LLC][w]
  IN /\ g.way[Shared_LLC][w].addr = a /\ g.way[Shared_LLC][w].state = "Invalid"
     /\ \A v \in WaysOf(Shared_LLC) : v # w => g.way[Shared_LLC][v] = h.way[Shared_LLC][v]
     /\ \A c \in CPU : \A v \in WaysOf(c) :
          /\ g.way[c][v].addr = h.way[c][v].addr /\ g.way[c][v].current = h.way[c][v].current
          /\ g.way[c][v].state = IF Known(h, l.addr, c, v) THEN "Invalid" ELSE h.way[c][v].state
     /\ g.sharers = IF inclusion = "Inclusive" THEN [h.sharers EXCEPT ![l.addr] = {}] ELSE h.sharers
     /\ g.mem = IF l.state = "Modified" THEN [h.mem EXCEPT ![l.addr] = l.current] ELSE h.mem
     /\ g.data = h.data /\ g.asserts = h.asserts

\* The shared cache is not one of level 1.
LEMMA InHierarchy ==
  Shared_LLC \in Caches /\ CPU \subseteq Caches /\ Shared_LLC \notin CPU
BY HierarchyAssumption DEF Shared_LLC, Caches

\* A line written to memory before its way is given away.
LEMMA ToMemoryFields ==
  ASSUME NEW h, HierTyped(h), OneWay(h), NEW w \in WaysOf(Shared_LLC)
  PROVE  LET g == ToMemory(h, w)
             l == h.way[Shared_LLC][w]
         IN /\ HierTyped(g) /\ OneWay(g) /\ g.way[Shared_LLC][w].addr = l.addr
            /\ \A k \in Caches : \A v \in WaysOf(k) :
                 k # Shared_LLC \/ v # w => g.way[k][v] = h.way[k][v]
            /\ g.sharers = h.sharers /\ g.data = h.data /\ g.asserts = h.asserts
            /\ g.mem = IF l.state = "Modified" THEN [h.mem EXCEPT ![l.addr] = l.current] ELSE h.mem
<1>. DEFINE g == ToMemory(h, w)
            l == h.way[Shared_LLC][w]
<1>1. l \in HierLine /\ l.addr \in Line /\ l.current \in BOOLEAN
  BY InHierarchy DEF HierTyped, HierLine
<1>2. CASE l.state = "Modified"
  <2>. DEFINE m == [h EXCEPT !.mem[l.addr] = l.current]
  <2>1. /\ HierTyped(m) /\ m.way = h.way /\ m.sharers = h.sharers /\ m.data = h.data
        /\ m.asserts = h.asserts /\ m.mem = [h.mem EXCEPT ![l.addr] = l.current]
    BY <1>1, MemFields
  <2>2. g = Fill(m, Shared_LLC, w, "Invalid", l.current)
    BY <1>2, <2>1 DEF ToMemory, SetState
  <2>. HIDE DEF m
  <2>. DEFINE f == Fill(m, Shared_LLC, w, "Invalid", l.current)
  <2>5. /\ HierTyped(f) /\ f.way[Shared_LLC][w].addr = m.way[Shared_LLC][w].addr
        /\ f.way[Shared_LLC][w].state = "Invalid"
        /\ \A k \in Caches : \A v \in WaysOf(k) :
             k # Shared_LLC \/ v # w => f.way[k][v] = m.way[k][v]
        /\ f.sharers = m.sharers /\ f.mem = m.mem /\ f.data = m.data /\ f.asserts = m.asserts
    <3>1. "Invalid" \in LineState
      BY DEF LineState
    <3>2. l.current \in BOOLEAN /\ Shared_LLC \in Caches /\ HierTyped(m)
      BY <1>1, <2>1, InHierarchy
    <3>. HIDE DEF l
    <3>. QED  BY <3>1, <3>2, FillFields, SMT
  <2>. HIDE DEF f, g
  <2>3. /\ HierTyped(g) /\ g.way[Shared_LLC][w].addr = l.addr
        /\ g.way[Shared_LLC][w].state = "Invalid"
        /\ \A k \in Caches : \A v \in WaysOf(k) :
             k # Shared_LLC \/ v # w => g.way[k][v] = h.way[k][v]
        /\ g.sharers = h.sharers /\ g.mem = m.mem /\ g.data = h.data /\ g.asserts = h.asserts
    <3>1. g = f /\ m.way[Shared_LLC][w].addr = l.addr
      BY <2>1, <2>2 DEF f
    <3>. HIDE DEF l
    <3>2. /\ HierTyped(g) /\ g.way[Shared_LLC][w].addr = l.addr
          /\ g.way[Shared_LLC][w].state = "Invalid"
          /\ g.sharers = h.sharers /\ g.mem = m.mem /\ g.data = h.data /\ g.asserts = h.asserts
      BY ONLY <2>1, <2>5, <3>1
    <3>3. \A k \in Caches : \A v \in WaysOf(k) :
            k # Shared_LLC \/ v # w => g.way[k][v] = h.way[k][v]
      BY ONLY <2>1, <2>5, <3>1
    <3>. QED  BY <3>2, <3>3
  <2>4. OneWay(g)
    <3>1. \A k \in Caches : \A v \in WaysOf(k) : Valid(g.way[k][v]) => g.way[k][v] = h.way[k][v]
      BY ONLY <2>3 DEF Valid
    <3>. QED  BY ONLY <3>1, OneWay(h) DEF OneWay
  <2>. QED  BY <1>2, <2>1, <2>3, <2>4 DEF g
<1>3. CASE l.state # "Modified"
  <2>1. g = h
    BY <1>3 DEF ToMemory
  <2>. QED  BY <1>3, <2>1
<1>. QED  BY <1>2, <1>3

\* A line the shared cache evicts is taken from the caches it knows of; as these hold it
\* clean, BackInvalidate writes nothing back.
LEMMA BackInvalidatedFields ==
  ASSUME NEW h, HierTyped(h), OneWay(h), NEW w \in WaysOf(Shared_LLC),
         KnownClean(h, h.way[Shared_LLC][w].addr)
  PROVE  LET g == BackInvalidated(h, w)
             b == h.way[Shared_LLC][w].addr
         IN /\ HierTyped(g)
            /\ \A v \in WaysOf(Shared_LLC) : g.way[Shared_LLC][v] = h.way[Shared_LLC][v]
            /\ \A c \in CPU : \A v \in WaysOf(c) :
                 /\ g.way[c][v].addr = h.way[c][v].addr
                 /\ g.way[c][v].current = h.way[c][v].current
                 /\ g.way[c][v].state = IF Known(h, b, c, v) THEN "Invalid" ELSE h.way[c][v].state
            /\ g.sharers = IF inclusion = "Inclusive" THEN [h.sharers EXCEPT ![b] = {}]
                           ELSE h.sharers
            /\ g.mem = h.mem /\ g.data = h.data /\ g.asserts = h.asserts
<1>. DEFINE g == BackInvalidated(h, w)
            b == h.way[Shared_LLC][w].addr
            told == Told(h, "Invalidate", b, h.sharers[b])
<1>1. b \in Line /\ h.sharers[b] \in SUBSET CPU
  BY InHierarchy DEF HierTyped, HierLine
<1>2. CASE inclusion = "Inclusive" /\ h.sharers[b] # {}
  <2>1. BackInvalidate(h, b, h.sharers[b]) = told
    <3>1. ~ \E c \in h.sharers[b] : \E v \in Holders(h, c, b) : h.way[c][v].state = "Modified"
      BY <1>1, <1>2 DEF KnownClean, Known, Holders, Valid
    <3>. QED  BY <3>1 DEF BackInvalidate
  <2>7. /\ HierTyped(told)
        /\ \A v \in WaysOf(Shared_LLC) : told.way[Shared_LLC][v] = h.way[Shared_LLC][v]
        /\ \A c \in CPU : \A v \in WaysOf(c) :
             told.way[c][v] =
               IF "Invalidate" = "Invalidate" /\ c \in h.sharers[b] /\ Valid(h.way[c][v])
                  /\ h.way[c][v].addr = b
               THEN [h.way[c][v] EXCEPT !.state = "Invalid"] ELSE h.way[c][v]
        /\ told.sharers = h.sharers /\ told.mem = h.mem /\ told.data = h.data
        /\ told.asserts = h.asserts
    <3>1. "Invalidate" \in {"Invalidate", "ReadBack"}
      OBVIOUS
    <3>2. b \in Line /\ h.sharers[b] \in SUBSET CPU
      BY <1>1
    <3>. HIDE DEF b
    <3>. QED  BY <3>1, <3>2, ToldFields, SMT
  <2>2. /\ HierTyped(told)
        /\ \A v \in WaysOf(Shared_LLC) : told.way[Shared_LLC][v] = h.way[Shared_LLC][v]
        /\ \A c \in CPU : \A v \in WaysOf(c) :
             told.way[c][v] = IF c \in h.sharers[b] /\ Valid(h.way[c][v]) /\ h.way[c][v].addr = b
                              THEN [h.way[c][v] EXCEPT !.state = "Invalid"] ELSE h.way[c][v]
        /\ told.sharers = h.sharers /\ told.mem = h.mem /\ told.data = h.data
    <3>. HIDE DEF told
    <3>. QED  BY <2>7
  <2>4. g = WithSharers(told, b, {})
    BY <1>2, <2>1, <2>2 DEF BackInvalidated, WithSharers
  <2>. HIDE DEF told
  <2>5. /\ HierTyped(g) /\ g.way = told.way /\ g.sharers = [told.sharers EXCEPT ![b] = {}]
        /\ g.mem = told.mem /\ g.data = told.data /\ g.asserts = told.asserts
    <3>1. {} \in SUBSET CPU
      OBVIOUS
    <3>2. HierTyped(told) /\ b \in Line
      BY <1>1, <2>2
    <3>. HIDE DEF g, b
    <3>. QED  BY <2>4, <3>1, <3>2, SharersFields, SMT
  <2>6. \A c \in CPU : \A v \in WaysOf(c) :
          /\ g.way[c][v].addr = h.way[c][v].addr
          /\ g.way[c][v].current = h.way[c][v].current
          /\ g.way[c][v].state = IF Known(h, b, c, v) THEN "Invalid" ELSE h.way[c][v].state
    <3>. SUFFICES ASSUME NEW c \in CPU, NEW v \in WaysOf(c)
                  PROVE  /\ g.way[c][v].addr = h.way[c][v].addr
                         /\ g.way[c][v].current = h.way[c][v].current
                         /\ g.way[c][v].state = IF Known(h, b, c, v) THEN "Invalid"
                                                ELSE h.way[c][v].state
      OBVIOUS
    <3>1. h.way[c][v] \in HierLine
      BY InHierarchy DEF HierTyped
    <3>2. g.way[c][v] = told.way[c][v]
      BY <2>5
    <3>3. CASE Known(h, b, c, v)
      <4>1. g.way[c][v] = [h.way[c][v] EXCEPT !.state = "Invalid"]
        BY <2>2, <3>2, <3>3 DEF Known
      <4>. HIDE DEF g
      <4>. QED  BY <3>1, <3>3, <4>1 DEF HierLine
    <3>4. CASE ~Known(h, b, c, v)
      <4>1. g.way[c][v] = h.way[c][v]
        BY <1>2, <2>2, <3>2, <3>4 DEF Known
      <4>. HIDE DEF g
      <4>. QED  BY ONLY <3>4, <4>1
    <3>. QED  BY <3>3, <3>4
  <2>. QED  BY <1>2, <2>2, <2>5, <2>6, <2>7
<1>3. CASE ~(inclusion = "Inclusive" /\ h.sharers[b] # {})
  <2>1. g = h
    BY <1>3 DEF BackInvalidated
  <2>2. h.sharers[b] = {} => h.sharers = [h.sharers EXCEPT ![b] = {}]
    BY <1>1 DEF HierTyped
  <2>. QED  BY <1>3, <2>1, <2>2 DEF Known
<1>. QED  BY <1>2, <1>3

\* A miss of the shared cache makes room.
LEMMA SharedRoomFields ==
  ASSUME NEW h, HierTyped(h), OneWay(h), NEW w \in WaysOf(Shared_LLC), NEW a \in Line,
         KnownClean(h, h.way[Shared_LLC][w].addr)
  PROVE  HierTyped(SharedRoom(h, w, a)) /\ RoomMade(h, SharedRoom(h, w, a), w, a)
<1>. DEFINE m == ToMemory(h, w)
            t == BackInvalidated(m, w)
            g == NewLine(t, Shared_LLC, w, a)
            l == h.way[Shared_LLC][w]
<1>1. /\ HierTyped(m) /\ OneWay(m) /\ m.way[Shared_LLC][w].addr = l.addr
      /\ \A k \in Caches : \A v \in WaysOf(k) :
           k # Shared_LLC \/ v # w => m.way[k][v] = h.way[k][v]
      /\ m.sharers = h.sharers /\ m.data = h.data /\ m.asserts = h.asserts
      /\ m.mem = IF l.state = "Modified" THEN [h.mem EXCEPT ![l.addr] = l.current] ELSE h.mem
  BY ToMemoryFields
<1>. HIDE DEF m
<1>2. /\ KnownClean(m, m.way[Shared_LLC][w].addr)
      /\ \A c \in CPU : \A v \in WaysOf(c) :
           m.way[c][v] = h.way[c][v] /\ (Known(m, l.addr, c, v) <=> Known(h, l.addr, c, v))
  BY <1>1, InHierarchy DEF KnownClean, Known
<1>3. /\ HierTyped(t)
      /\ \A v \in WaysOf(Shared_LLC) : t.way[Shared_LLC][v] = m.way[Shared_LLC][v]
      /\ \A c \in CPU : \A v \in WaysOf(c) :
           /\ t.way[c][v].addr = m.way[c][v].addr
           /\ t.way[c][v].current = m.way[c][v].current
           /\ t.way[c][v].state = IF Known(m, l.addr, c, v) THEN "Invalid" ELSE m.way[c][v].state
      /\ t.sharers = IF inclusion = "Inclusive" THEN [m.sharers EXCEPT ![l.addr] = {}]
                     ELSE m.sharers
      /\ t.mem = m.mem /\ t.data = m.data /\ t.asserts = m.asserts
  <2>. DEFINE b == m.way[Shared_LLC][w].addr
  <2>1. HierTyped(m) /\ OneWay(m) /\ KnownClean(m, b) /\ b = l.addr
    BY <1>1, <1>2
  <2>2. /\ HierTyped(t)
        /\ \A v \in WaysOf(Shared_LLC) : t.way[Shared_LLC][v] = m.way[Shared_LLC][v]
        /\ \A c \in CPU : \A v \in WaysOf(c) :
             /\ t.way[c][v].addr = m.way[c][v].addr
             /\ t.way[c][v].current = m.way[c][v].current
             /\ t.way[c][v].state = IF Known(m, b, c, v) THEN "Invalid" ELSE m.way[c][v].state
        /\ t.sharers = IF inclusion = "Inclusive" THEN [m.sharers EXCEPT ![b] = {}] ELSE m.sharers
        /\ t.mem = m.mem /\ t.data = m.data /\ t.asserts = m.asserts
    BY ONLY <2>1, w \in WaysOf(Shared_LLC), BackInvalidatedFields
  <2>. HIDE DEF b, l, t
  <2>. QED  BY ONLY <2>1, <2>2
<1>. HIDE DEF t
<1>4. /\ HierTyped(g) /\ g.way[Shared_LLC][w].addr = a /\ g.way[Shared_LLC][w].state = "Invalid"
      /\ \A j \in Caches : \A v \in WaysOf(j) :
           j # Shared_LLC \/ v # w => g.way[j][v] = t.way[j][v]
      /\ g.sharers = t.sharers /\ g.mem = t.mem /\ g.data = t.data /\ g.asserts = t.asserts
  BY <1>3, InHierarchy, NewLineFields
<1>5. g = SharedRoom(h, w, a)
  BY DEF SharedRoom, g, t, m
<1>. HIDE DEF g
<1>6. RoomMade(h, g, w, a)
  <2>1. \A c \in CPU : \A v \in WaysOf(c) :
          /\ g.way[c][v].addr = h.way[c][v].addr /\ g.way[c][v].current = h.way[c][v].current
          /\ g.way[c][v].state = IF Known(h, l.addr, c, v) THEN "Invalid" ELSE h.way[c][v].state
    <3>. SUFFICES ASSUME NEW c \in CPU, NEW v \in WaysOf(c)
                  PROVE  /\ g.way[c][v].addr = h.way[c][v].addr
                         /\ g.way[c][v].current = h.way[c][v].current
                         /\ g.way[c][v].state = IF Known(h, l.addr, c, v) THEN "Invalid"
                                                ELSE h.way[c][v].state
      OBVIOUS
    <3>1. g.way[c][v] = t.way[c][v] /\ m.way[c][v] = h.way[c][v]
      BY <1>2, <1>4, InHierarchy
    <3>2. /\ t.way[c][v].addr = m.way[c][v].addr
          /\ t.way[c][v].current = m.way[c][v].current
          /\ t.way[c][v].state = IF Known(m, l.addr, c, v) THEN "Invalid" ELSE m.way[c][v].state
          /\ Known(m, l.addr, c, v) <=> Known(h, l.addr, c, v)
      BY <1>2, <1>3
    <3>. HIDE DEF l
    <3>. QED  BY <3>1, <3>2
  <2>2. \A v \in WaysOf(Shared_LLC) : v # w => g.way[Shared_LLC][v] = h.way[Shared_LLC][v]
    BY <1>1, <1>3, <1>4, InHierarchy
  <2>3. /\ g.sharers = IF inclusion = "Inclusive" THEN [h.sharers EXCEPT ![l.addr] = {}]
                       ELSE h.sharers
        /\ g.mem = IF l.state = "Modified" THEN [h.mem EXCEPT ![l.addr] = l.current] ELSE h.mem
        /\ g.data = h.data /\ g.asserts = h.asserts
    BY <1>1, <1>3, <1>4
  <2>. QED  BY <1>4, <2>1, <2>2, <2>3 DEF RoomMade
<1>. QED  BY <1>4, <1>5, <1>6

\* Nothing but ranks, and the data of an answer, has changed.
SameLines(h, g) == g.way = h.way /\ g.sharers = h.sharers /\ g.mem = h.mem /\ g.asserts = h.asserts

\* The way of a request is there, by a hit or by making room.
LEMMA SharedLineFields ==
  ASSUME NEW h, HierTyped(h), OneWay(h), NEW a \in Line,
         \/ InCache(h, Shared_LLC, a)
         \/ KnownClean(h, h.way[Shared_LLC][LineAt(h, Shared_LLC, a)].addr)
  PROVE  /\ HierTyped(SharedLine(h, a))
         /\ InCache(h, Shared_LLC, a) => SameLines(h, SharedLine(h, a))
         /\ ~InCache(h, Shared_LLC, a) =>
              RoomMade(h, SharedLine(h, a), LineAt(h, Shared_LLC, a), a)
<1>. DEFINE w == LineAt(h, Shared_LLC, a)
            r == Ranked(h, Shared_LLC, w)
            g == SharedLine(h, a)
<1>1. w \in WaysOf(Shared_LLC)
  BY InHierarchy, LineAtFacts
<1>. HIDE DEF w
<1>2. /\ HierTyped(r) /\ r.way = h.way /\ r.sharers = h.sharers /\ r.mem = h.mem
      /\ r.data = h.data /\ r.asserts = h.asserts
  BY <1>1, InHierarchy, RankedFields
<1>3. g = IF InCache(h, Shared_LLC, a) THEN r ELSE SharedRoom(r, w, a)
  BY DEF SharedLine, w
<1>. HIDE DEF r, g
<1>4. CASE InCache(h, Shared_LLC, a)
  BY <1>2, <1>3, <1>4 DEF SameLines, g
<1>5. CASE ~InCache(h, Shared_LLC, a)
  <2>1. OneWay(r) /\ KnownClean(r, r.way[Shared_LLC][w].addr)
    <3>1. KnownClean(h, h.way[Shared_LLC][w].addr)
      BY <1>5 DEF w
    <3>. QED  BY <1>2, <3>1 DEF OneWay, KnownClean, Known
  <2>2. HierTyped(g) /\ RoomMade(r, g, w, a)
    BY <1>1, <1>2, <1>3, <1>5, <2>1, SharedRoomFields
  <2>3. RoomMade(h, g, w, a)
    <3>1. \A b, c, v : Known(r, b, c, v) <=> Known(h, b, c, v)
      BY ONLY <1>2 DEF Known
    <3>. QED  BY ONLY <1>2, <2>2, <3>1 DEF RoomMade
  <2>. QED  BY <1>5, <2>2, <2>3 DEF g, w
<1>. QED  BY <1>4, <1>5

\* What becomes of a hierarchy e when the shared cache gives way w, which has the address
\* a, the state s and the content cur, and a the sharers S.
Answered(e, g, w, a, s, cur, S) ==
  /\ g.way[Shared_LLC][w].addr = a /\ g.way[Shared_LLC][w].state = s
  /\ s # "Invalid" => g.way[Shared_LLC][w].current = cur
  /\ \A k \in Caches : \A v \in WaysOf(k) :
       k # Shared_LLC \/ v # w => g.way[k][v] = e.way[k][v]
  /\ g.sharers = [e.sharers EXCEPT ![a] = S]
  /\ g.mem = e.mem

\* Filling the way of a request answers it.
LEMMA AnsweredFields ==
  ASSUME NEW e, HierTyped(e), NEW w \in WaysOf(Shared_LLC), NEW a \in Line,
         e.way[Shared_LLC][w].addr = a, NEW s \in LineState,
         NEW cur \in BOOLEAN, NEW S \in SUBSET CPU
  PROVE  /\ HierTyped(Fill(WithSharers(e, a, S), Shared_LLC, w, s, cur))
         /\ Answered(e, Fill(WithSharers(e, a, S), Shared_LLC, w, s, cur), w, a, s, cur, S)
<1>. DEFINE d == WithSharers(e, a, S)
            g == Fill(d, Shared_LLC, w, s, cur)
<1>1. /\ HierTyped(d) /\ d.way = e.way /\ d.sharers = [e.sharers EXCEPT ![a] = S]
      /\ d.mem = e.mem /\ d.data = e.data /\ d.asserts = e.asserts
  BY SharersFields
<1>. HIDE DEF d
<1>2. /\ HierTyped(g) /\ g.way[Shared_LLC][w].addr = d.way[Shared_LLC][w].addr
      /\ g.way[Shared_LLC][w].state = s /\ g.way[Shared_LLC][w].current = cur
      /\ \A k \in Caches : \A v \in WaysOf(k) :
           k # Shared_LLC \/ v # w => g.way[k][v] = d.way[k][v]
      /\ g.sharers = d.sharers /\ g.mem = d.mem /\ g.data = d.data /\ g.asserts = d.asserts
  <2>1. HierTyped(d) /\ Shared_LLC \in Caches
    BY <1>1, InHierarchy
  <2>2. g.way[Shared_LLC][w].current = cur
    BY <2>1, FillFields
  <2>3. /\ HierTyped(g) /\ g.way[Shared_LLC][w].addr = d.way[Shared_LLC][w].addr
        /\ g.way[Shared_LLC][w].state = s
        /\ \A k \in Caches : \A v \in WaysOf(k) :
             k # Shared_LLC \/ v # w => g.way[k][v] = d.way[k][v]
        /\ g.sharers = d.sharers /\ g.mem = d.mem /\ g.data = d.data /\ g.asserts = d.asserts
    BY <2>1, FillFields
  <2>. QED  BY <2>2, <2>3, Zenon
<1>. HIDE DEF g
<1>3. Answered(e, g, w, a, s, cur, S)
  BY <1>1, <1>2 DEF Answered
<1>. QED  BY <1>1, <1>2, <1>3 DEF g, d

\* Filling the way of a request disturbs neither the data nor the asserts.
LEMMA AnsweredAsserts ==
  ASSUME NEW e, HierTyped(e), NEW w \in WaysOf(Shared_LLC), NEW a \in Line,
         NEW s \in LineState, NEW cur \in BOOLEAN, NEW S \in SUBSET CPU
  PROVE  /\ Fill(WithSharers(e, a, S), Shared_LLC, w, s, cur).data = e.data
         /\ Fill(WithSharers(e, a, S), Shared_LLC, w, s, cur).asserts = e.asserts
<1>. DEFINE d == WithSharers(e, a, S)
            g == Fill(d, Shared_LLC, w, s, cur)
<1>1. HierTyped(d) /\ d.data = e.data /\ d.asserts = e.asserts /\ Shared_LLC \in Caches
  BY SharersFields, InHierarchy
<1>. HIDE DEF d
<1>2. g.data = d.data /\ g.asserts = d.asserts
  BY <1>1, FillFields
<1>. QED  BY <1>1, <1>2 DEF d

\* A read that hits.
LEMMA ReadOfShared ==
  ASSUME NEW h, HierTyped(h), OneWay(h), NEW a \in Line, NEW i \in CPU,
         InCache(h, Shared_LLC, a)
  PROVE  LET g == SharedRead(h, a, i)
             w == LineAt(h, Shared_LLC, a)
             l == h.way[Shared_LLC][w]
         IN /\ HierTyped(g) /\ g.data = l.current /\ g.asserts = h.asserts
            /\ Answered(h, g, w, a, IF inclusion = "Exclusive" THEN "Invalid" ELSE l.state,
                        l.current, h.sharers[a] \cup {i})
<1>. DEFINE g == SharedRead(h, a, i)
            w == LineAt(h, Shared_LLC, a)
            l == h.way[Shared_LLC][w]
            e == SharedLine(h, a)
            S == h.sharers[a] \cup {i}
            d == WithSharers(e, a, S)
            s == IF inclusion = "Exclusive" THEN "Invalid" ELSE l.state
            f == Fill(d, Shared_LLC, w, s, l.current)
<1>1. /\ w \in WaysOf(Shared_LLC) /\ l \in HierLine /\ l.addr = a /\ l.current \in BOOLEAN
      /\ s \in LineState /\ S \in SUBSET CPU
  BY InHierarchy, LineAtFacts DEF HierTyped, HierLine, LineState
<1>2. /\ HierTyped(e) /\ e.way = h.way /\ e.sharers = h.sharers /\ e.mem = h.mem
      /\ e.asserts = h.asserts
  BY SharedLineFields DEF SameLines
<1>3. /\ HierTyped(d) /\ d.way = h.way /\ d.sharers = [h.sharers EXCEPT ![a] = S] /\ d.mem = h.mem
      /\ d.asserts = h.asserts
  <2>1. S \in SUBSET CPU
    BY <1>1
  <2>. HIDE DEF S
  <2>. QED  BY <1>2, <2>1, SharersFields
<1>4. Registered(e, a, i) = d
  BY <1>2 DEF Registered, WithSharers
<1>. HIDE DEF e
<1>5. HierTyped(f) /\ Answered(e, f, w, a, s, l.current, S) /\ f.asserts = e.asserts
  <2>1. e.way[Shared_LLC][w].addr = a
    BY <1>1, <1>2
  <2>2. /\ HierTyped(e) /\ w \in WaysOf(Shared_LLC) /\ l.current \in BOOLEAN
        /\ s \in LineState /\ S \in SUBSET CPU
    BY <1>1, <1>2
  <2>. HIDE DEF S, s, l, w
  <2>3. ASSUME NEW x \in BOOLEAN
        PROVE  /\ HierTyped(Fill(d, Shared_LLC, w, s, x))
               /\ Answered(e, Fill(d, Shared_LLC, w, s, x), w, a, s, x, S)
               /\ Fill(d, Shared_LLC, w, s, x).asserts = e.asserts
    <3>1. Fill(d, Shared_LLC, w, s, x).asserts = e.asserts
      BY <2>2, AnsweredAsserts
    <3>2. HierTyped(Fill(d, Shared_LLC, w, s, x))
      BY <2>1, <2>2, AnsweredFields
    <3>3. Answered(e, Fill(d, Shared_LLC, w, s, x), w, a, s, x, S)
      BY <2>1, <2>2, AnsweredFields
    <3>. QED  BY <3>1, <3>2, <3>3
  <2>. QED  BY <2>2, <2>3, Zenon
<1>6. Answered(h, f, w, a, s, l.current, S)
  <2>. HIDE DEF f, S, s
  <2>. QED  BY <1>2, <1>5 DEF Answered
<1>7. inclusion # "Exclusive" => Answered(h, d, w, a, s, l.current, S)
  <2>. HIDE DEF d, S
  <2>. QED  BY <1>1, <1>3 DEF Answered
<1>8. g = [(IF inclusion = "Exclusive" THEN f ELSE d) EXCEPT !.data = l.current]
  <2>1. inclusion = "Exclusive" => SetState(d, Shared_LLC, w, "Invalid") = f
    BY <1>3 DEF SetState
  <2>2. d.way[Shared_LLC][w].current = l.current
    BY <1>3
  <2>. HIDE DEF d, f, l, w
  <2>. QED  BY <1>4, <2>1, <2>2 DEF SharedRead, e, w
<1>9. ASSUME NEW x, HierTyped(x), Answered(h, x, w, a, s, l.current, S), x.asserts = h.asserts,
             g = [x EXCEPT !.data = l.current]
      PROVE  HierTyped(g) /\ Answered(h, g, w, a, s, l.current, S) /\ g.asserts = h.asserts
             /\ g.data = l.current
  <2>. HIDE DEF g, l, s, S, w
  <2>1. /\ HierTyped(g) /\ g.way = x.way /\ g.sharers = x.sharers /\ g.mem = x.mem
        /\ g.data = l.current /\ g.asserts = x.asserts
    BY <1>1, <1>9, DataFields
  <2>. QED  BY <1>9, <2>1 DEF Answered
<1>. HIDE DEF f, d, g
<1>10. CASE inclusion = "Exclusive"
  BY <1>2, <1>5, <1>6, <1>8, <1>9, <1>10 DEF g
<1>11. CASE inclusion # "Exclusive"
  BY <1>3, <1>7, <1>8, <1>9, <1>11 DEF g
<1>. QED  BY <1>10, <1>11

\* A read that passes through an exclusive cache changes its directory only.
LEMMA ReadThrough ==
  ASSUME NEW h, HierTyped(h), OneWay(h), NEW a \in Line, NEW i \in CPU,
         ~InCache(h, Shared_LLC, a), inclusion = "Exclusive", h.asserts,
         \A c \in h.sharers[a] : InCache(h, c, a)
  PROVE  LET g == SharedRead(h, a, i)
         IN /\ HierTyped(g) /\ g.asserts /\ g.mem = h.mem
            /\ \A k \in Caches : \A v \in WaysOf(k) : g.way[k][v] = h.way[k][v]
            /\ g.sharers = [h.sharers EXCEPT ![a] = h.sharers[a] \cup {i}]
<1>. DEFINE g == SharedRead(h, a, i)
            w == LineAt(h, Shared_LLC, a)
            r == Ranked(h, Shared_LLC, w)
            t == Told(r, "ReadBack", a, h.sharers[a])
            asked == IF h.sharers[a] # {} THEN t ELSE r
            S == h.sharers[a] \cup {i}
            d == WithSharers(asked, a, S)
            x == h.sharers[a] = {} /\ h.mem[a]
<1>1. w \in WaysOf(Shared_LLC) /\ h.sharers[a] \in SUBSET CPU /\ S \in SUBSET CPU
  <2>1. w \in WaysOf(Shared_LLC)
    BY InHierarchy, LineAtFacts
  <2>2. h.sharers[a] \in SUBSET CPU
    BY ONLY HierTyped(h), a \in Line DEF HierTyped
  <2>. QED  BY ONLY <2>1, <2>2, i \in CPU
<1>2. /\ HierTyped(r) /\ r.way = h.way /\ r.sharers = h.sharers /\ r.mem = h.mem
      /\ r.asserts = h.asserts
  <2>. HIDE DEF w
  <2>. QED  BY <1>1, InHierarchy, RankedFields
<1>. HIDE DEF r, S
<1>3. /\ HierTyped(t) /\ t.sharers = h.sharers /\ t.mem = h.mem
      /\ \A k \in Caches : \A v \in WaysOf(k) : t.way[k][v] = h.way[k][v]
  <2>1. OneWay(r) /\ "ReadBack" \in {"Invalidate", "ReadBack"} /\ "ReadBack" # "Invalidate"
    BY <1>2 DEF OneWay
  <2>2. /\ HierTyped(t)
        /\ \A v \in WaysOf(Shared_LLC) : t.way[Shared_LLC][v] = r.way[Shared_LLC][v]
        /\ \A c \in CPU : \A v \in WaysOf(c) :
             t.way[c][v] =
               IF "ReadBack" = "Invalidate" /\ c \in h.sharers[a] /\ Valid(r.way[c][v])
                  /\ r.way[c][v].addr = a
               THEN [r.way[c][v] EXCEPT !.state = "Invalid"] ELSE r.way[c][v]
        /\ t.sharers = r.sharers /\ t.mem = r.mem
    BY <1>1, <1>2, <2>1, ToldFields, SMT
  <2>. HIDE DEF t
  <2>3. \A c \in CPU : \A v \in WaysOf(c) : t.way[c][v] = r.way[c][v]
    BY <2>1, <2>2
  <2>. QED  BY <1>2, <2>2, <2>3 DEF Caches
<1>4. t.asserts
  <2>1. OneWay(r) /\ "ReadBack" \in {"Invalidate", "ReadBack"}
    BY <1>2 DEF OneWay
  <2>2. r.asserts /\ \A c \in h.sharers[a] : InCache(r, c, a)
    BY <1>2 DEF InCache, Holders
  <2>. QED  BY <1>1, <1>2, <2>1, <2>2, ToldFields
<1>. HIDE DEF t
<1>5. /\ HierTyped(asked) /\ asked.sharers = h.sharers /\ asked.mem = h.mem /\ asked.asserts
      /\ \A k \in Caches : \A v \in WaysOf(k) : asked.way[k][v] = h.way[k][v]
  BY <1>2, <1>3, <1>4
<1>. HIDE DEF asked
<1>6. /\ HierTyped(d) /\ d.sharers = [h.sharers EXCEPT ![a] = S] /\ d.mem = h.mem /\ d.asserts
      /\ d.way = asked.way
  <2>1. /\ HierTyped(d) /\ d.sharers = [asked.sharers EXCEPT ![a] = S] /\ d.mem = asked.mem
        /\ d.asserts = asked.asserts /\ d.way = asked.way
    <3>1. HierTyped(asked) /\ S \in SUBSET CPU
      BY <1>1, <1>5
    <3>. QED  BY <3>1, SharersFields
  <2>. HIDE DEF d
  <2>. QED  BY <1>5, <2>1
<1>7. Registered(asked, a, i) = d
  BY <1>5 DEF Registered, WithSharers, S
<1>. HIDE DEF d, x
<1>8. g = [d EXCEPT !.data = x]
  <2>1. g = PassedThrough(h, a, i)
    BY DEF SharedRead
  <2>. QED  BY <1>7, <2>1 DEF PassedThrough, asked, t, r, x
<1>9. x \in BOOLEAN
  BY DEF x
<1>10. /\ HierTyped(g) /\ g.way = d.way /\ g.sharers = d.sharers /\ g.mem = d.mem
       /\ g.asserts = d.asserts
  <2>. HIDE DEF g
  <2>. QED  BY <1>6, <1>8, <1>9, DataFields
<1>. HIDE DEF g
<1>11. g.asserts /\ \A k \in Caches : \A v \in WaysOf(k) : g.way[k][v] = h.way[k][v]
  BY <1>5, <1>6, <1>10
<1>. QED  BY <1>6, <1>10, <1>11 DEF g, S

\* An assert that holds changes nothing.
LEMMA AssertedFields ==
  ASSUME NEW h, HierTyped(h), NEW cond, h.asserts, cond
  PROVE  /\ HierTyped(Asserted(h, cond)) /\ Asserted(h, cond).asserts
         /\ Asserted(h, cond).way = h.way /\ Asserted(h, cond).sharers = h.sharers
         /\ Asserted(h, cond).mem = h.mem
<1>. DEFINE x == h.asserts /\ cond
            g == Asserted(h, cond)
<1>1. HierRecord(h) /\ x \in BOOLEAN /\ x
  BY DEF HierTyped
<1>2. g = [h EXCEPT !.asserts = x]
  BY DEF Asserted
<1>. HIDE DEF g, x
<1>3. g = [way |-> h.way, rank |-> h.rank, victim |-> h.victim, sharers |-> h.sharers,
           mem |-> h.mem, data |-> h.data, asserts |-> x]
  BY <1>1, <1>2, RecordUpdates
<1>4. HierTyped(g)
  BY <1>1, <1>3 DEF HierTyped, HierRecord
<1>5. g.asserts = x
  BY <1>3
<1>6. g.asserts
  BY <1>1, <1>5
<1>7. g.way = h.way /\ g.sharers = h.sharers /\ g.mem = h.mem
  BY <1>3
<1>. QED  BY <1>4, <1>6, <1>7 DEF g

\* The line of a request, as SharedLine leaves it.
LEMMA SharedLineAt ==
  ASSUME NEW h, HierTyped(h), OneWay(h), NEW a \in Line,
         \/ InCache(h, Shared_LLC, a)
         \/ KnownClean(h, h.way[Shared_LLC][LineAt(h, Shared_LLC, a)].addr)
  PROVE  /\ LineAt(h, Shared_LLC, a) \in WaysOf(Shared_LLC)
         /\ HierTyped(SharedLine(h, a))
         /\ SharedLine(h, a).way[Shared_LLC][LineAt(h, Shared_LLC, a)].addr = a
         /\ SharedLine(h, a).asserts = h.asserts
<1>. DEFINE e == SharedLine(h, a)
            w == LineAt(h, Shared_LLC, a)
<1>1. /\ HierTyped(e)
      /\ InCache(h, Shared_LLC, a) => SameLines(h, e)
      /\ ~InCache(h, Shared_LLC, a) => RoomMade(h, e, w, a)
  BY SharedLineFields
<1>2. w \in WaysOf(Shared_LLC) /\ (InCache(h, Shared_LLC, a) => h.way[Shared_LLC][w].addr = a)
  BY InHierarchy, LineAtFacts
<1>. HIDE DEF e, w
<1>3. e.way[Shared_LLC][w].addr = a /\ e.asserts = h.asserts
  BY <1>1, <1>2 DEF SameLines, RoomMade
<1>. QED  BY <1>1, <1>2, <1>3 DEF e, w

\* A read that misses fills the way from memory.
LEMMA ReadOfMemory ==
  ASSUME NEW h, HierTyped(h), OneWay(h), NEW a \in Line, NEW i \in CPU,
         ~InCache(h, Shared_LLC, a), inclusion # "Exclusive",
         KnownClean(h, h.way[Shared_LLC][LineAt(h, Shared_LLC, a)].addr)
  PROVE  LET g == SharedRead(h, a, i)
             w == LineAt(h, Shared_LLC, a)
             e == SharedLine(h, a)
         IN /\ HierTyped(g) /\ g.data = e.mem[a] /\ g.asserts = h.asserts
            /\ Answered(e, g, w, a, "Shared", e.mem[a], e.sharers[a] \cup {i})
<1>. DEFINE g == SharedRead(h, a, i)
            w == LineAt(h, Shared_LLC, a)
            e == SharedLine(h, a)
            S == e.sharers[a] \cup {i}
            d == WithSharers(e, a, S)
            m == e.mem[a]
            f == Fill(d, Shared_LLC, w, "Shared", m)
<1>1. /\ w \in WaysOf(Shared_LLC) /\ HierTyped(e) /\ e.way[Shared_LLC][w].addr = a
      /\ e.asserts = h.asserts
  BY SharedLineAt
<1>. HIDE DEF e
<1>2. S \in SUBSET CPU /\ m \in BOOLEAN /\ "Shared" \in LineState
  BY <1>1 DEF HierTyped, LineState
<1>3. Registered(e, a, i) = d
  BY DEF Registered, WithSharers
<1>. HIDE DEF S, m
<1>4. d.mem = e.mem
  BY <1>1, <1>2, SharersFields
<1>. HIDE DEF w
<1>5. ASSUME NEW x \in BOOLEAN
      PROVE  /\ HierTyped(Fill(d, Shared_LLC, w, "Shared", x))
             /\ Answered(e, Fill(d, Shared_LLC, w, "Shared", x), w, a, "Shared", x, S)
             /\ Fill(d, Shared_LLC, w, "Shared", x).asserts = e.asserts
  <2>1. Fill(d, Shared_LLC, w, "Shared", x).asserts = e.asserts
    BY <1>1, <1>2, AnsweredAsserts
  <2>2. HierTyped(Fill(d, Shared_LLC, w, "Shared", x))
    BY <1>1, <1>2, AnsweredFields
  <2>3. Answered(e, Fill(d, Shared_LLC, w, "Shared", x), w, a, "Shared", x, S)
    BY <1>1, <1>2, AnsweredFields
  <2>. QED  BY <2>1, <2>2, <2>3
<1>6. HierTyped(f) /\ Answered(e, f, w, a, "Shared", m, S) /\ f.asserts = e.asserts
  BY <1>2, <1>5, Zenon
<1>7. g = [f EXCEPT !.data = m]
  BY <1>3, <1>4 DEF SharedRead, e, w, m
<1>. HIDE DEF f, g
<1>8. /\ HierTyped(g) /\ g.way = f.way /\ g.sharers = f.sharers /\ g.mem = f.mem
      /\ g.asserts = f.asserts /\ g.data = m
  BY <1>2, <1>6, <1>7, DataFields
<1>9. Answered(e, g, w, a, "Shared", m, S)
  BY <1>6, <1>8 DEF Answered
<1>. QED  BY <1>1, <1>6, <1>8, <1>9 DEF g, e, w, m, S

\* A write of a line from above.
LEMMA WriteOfShared ==
  ASSUME NEW h, HierTyped(h), OneWay(h), NEW a \in Line, NEW i \in CPU, NEW cur \in BOOLEAN,
         \/ InCache(h, Shared_LLC, a)
         \/ KnownClean(h, h.way[Shared_LLC][LineAt(h, Shared_LLC, a)].addr)
  PROVE  LET g == SharedWrite(h, a, i, cur)
             w == LineAt(h, Shared_LLC, a)
             e == SharedLine(h, a)
             S == e.sharers[a] \ {i}
         IN /\ HierTyped(g) /\ g.asserts = h.asserts
            /\ Answered(e, g, w, a,
                        IF inclusion = "Exclusive" /\ ~InCache(h, Shared_LLC, a) /\ S # {}
                        THEN "Invalid" ELSE "Modified", cur, S)
<1>. DEFINE g == SharedWrite(h, a, i, cur)
            w == LineAt(h, Shared_LLC, a)
            e == SharedLine(h, a)
            S == e.sharers[a] \ {i}
            d == WithSharers(e, a, S)
            dropped == inclusion = "Exclusive" /\ ~InCache(h, Shared_LLC, a) /\ S # {}
            old == d.way[Shared_LLC][w].current
<1>1. /\ w \in WaysOf(Shared_LLC) /\ HierTyped(e) /\ e.way[Shared_LLC][w].addr = a
      /\ e.asserts = h.asserts
  BY SharedLineAt
<1>. HIDE DEF e
<1>2. S \in SUBSET CPU /\ {"Invalid", "Modified"} \subseteq LineState
  BY <1>1 DEF HierTyped, LineState
<1>3. Withdrawn(e, a, i) = d
  BY DEF Withdrawn, WithSharers
<1>. HIDE DEF S
<1>4. d.sharers[a] = S /\ HierTyped(d)
  <2>1. HierTyped(d) /\ d.sharers = [e.sharers EXCEPT ![a] = S]
    BY <1>1, <1>2, SharersFields
  <2>. QED  BY <1>1, <2>1 DEF HierTyped
<1>5. old \in BOOLEAN
  BY <1>1, <1>4, InHierarchy DEF HierTyped, HierLine
<1>6. g = IF dropped THEN Fill(d, Shared_LLC, w, "Invalid", old)
          ELSE Fill(d, Shared_LLC, w, "Modified", cur)
  BY <1>3, <1>4 DEF SharedWrite, SetState, e, w
<1>. HIDE DEF w, old
<1>7. ASSUME NEW x \in BOOLEAN, NEW s \in LineState
      PROVE  /\ HierTyped(Fill(d, Shared_LLC, w, s, x))
             /\ Answered(e, Fill(d, Shared_LLC, w, s, x), w, a, s, x, S)
             /\ Fill(d, Shared_LLC, w, s, x).asserts = e.asserts
  <2>1. Fill(d, Shared_LLC, w, s, x).asserts = e.asserts
    BY <1>1, <1>2, AnsweredAsserts
  <2>2. HierTyped(Fill(d, Shared_LLC, w, s, x))
    BY <1>1, <1>2, AnsweredFields
  <2>3. Answered(e, Fill(d, Shared_LLC, w, s, x), w, a, s, x, S)
    BY <1>1, <1>2, AnsweredFields
  <2>. QED  BY <2>1, <2>2, <2>3
<1>. HIDE DEF d
<1>8. CASE dropped
  <2>1. HierTyped(g) /\ Answered(e, g, w, a, "Invalid", old, S) /\ g.asserts = e.asserts
    <3>1. "Invalid" \in LineState
      BY <1>2
    <3>2. g = Fill(d, Shared_LLC, w, "Invalid", old)
      BY <1>6, <1>8
    <3>. HIDE DEF g
    <3>. QED  BY <1>5, <1>7, <3>1, <3>2, Zenon
  <2>2. Answered(e, g, w, a, "Invalid", cur, S)
    BY <2>1 DEF Answered
  <2>. QED  BY <1>1, <1>8, <2>1, <2>2 DEF e, w, S
<1>9. CASE ~dropped
  <2>1. HierTyped(g) /\ Answered(e, g, w, a, "Modified", cur, S) /\ g.asserts = e.asserts
    <3>1. "Modified" \in LineState
      BY <1>2
    <3>2. g = Fill(d, Shared_LLC, w, "Modified", cur)
      BY <1>6, <1>9
    <3>. HIDE DEF g
    <3>. QED  BY <1>7, <3>1, <3>2, Zenon
  <2>. QED  BY <1>1, <1>9, <2>1 DEF e, w, S
<1>. QED  BY <1>8, <1>9

\* A clean line handed to a victim cache, whose assert holds.
LEMMA EvictToShared ==
  ASSUME NEW h, HierTyped(h), OneWay(h), NEW a \in Line, NEW i \in CPU, NEW cur \in BOOLEAN,
         ~InCache(h, Shared_LLC, a), h.asserts,
         KnownClean(h, h.way[Shared_LLC][LineAt(h, Shared_LLC, a)].addr)
  PROVE  LET g == SharedEvict(h, a, i, cur)
             w == LineAt(h, Shared_LLC, a)
             e == SharedLine(h, a)
             S == e.sharers[a] \ {i}
         IN /\ HierTyped(g) /\ g.asserts
            /\ S # {} => Answered(e, g, w, a, "Invalid", cur, S)
            /\ S = {} => Answered(e, g, w, a, "Shared", cur, S)
<1>. DEFINE g == SharedEvict(h, a, i, cur)
            w == LineAt(h, Shared_LLC, a)
            e == SharedLine(h, a)
            S == e.sharers[a] \ {i}
            d == WithSharers(e, a, S)
            s == IF S # {} THEN "Invalid" ELSE "Shared"
            f == Fill(d, Shared_LLC, w, s, cur)
            cond == ~InCache(h, Shared_LLC, a) \/ d.way[Shared_LLC][w].state = "Modified"
<1>1. /\ w \in WaysOf(Shared_LLC) /\ HierTyped(e) /\ e.way[Shared_LLC][w].addr = a
      /\ e.asserts = h.asserts
  BY SharedLineAt
<1>. HIDE DEF e
<1>2. S \in SUBSET CPU /\ s \in LineState /\ cond
  BY <1>1 DEF HierTyped, LineState
<1>3. Withdrawn(e, a, i) = d
  BY DEF Withdrawn, WithSharers
<1>. HIDE DEF S
<1>4. d.sharers[a] = S /\ HierTyped(d)
  <2>1. HierTyped(d) /\ d.sharers = [e.sharers EXCEPT ![a] = S]
    BY <1>1, <1>2, SharersFields
  <2>. QED  BY <1>1, <2>1 DEF HierTyped
<1>5. g = Asserted(f, cond)
  BY <1>3, <1>4 DEF SharedEvict, e, w
<1>. HIDE DEF s, w, cond
<1>6. HierTyped(f) /\ Answered(e, f, w, a, s, cur, S) /\ f.asserts = e.asserts
  <2>1. f.asserts = e.asserts
    BY <1>1, <1>2, AnsweredAsserts
  <2>2. HierTyped(f)
    BY <1>1, <1>2, AnsweredFields
  <2>3. Answered(e, f, w, a, s, cur, S)
    BY <1>1, <1>2, AnsweredFields
  <2>. QED  BY <2>1, <2>2, <2>3
<1>. HIDE DEF f, g
<1>7. HierTyped(g) /\ g.asserts /\ g.way = f.way /\ g.sharers = f.sharers /\ g.mem = f.mem
  <2>1. f.asserts
    BY <1>1, <1>6
  <2>. QED  BY <1>2, <1>5, <1>6, <2>1, AssertedFields
<1>8. Answered(e, g, w, a, s, cur, S)
  BY <1>6, <1>7 DEF Answered
<1>. QED  BY <1>7, <1>8 DEF g, e, w, s, S

-----------------------------------------------------------------------------
\* The sharers of b once there is room for a in the shared cache.
SharersThen(h, a, b) ==
  IF ~InCache(h, Shared_LLC, a) /\ inclusion = "Inclusive"
     /\ b = h.way[Shared_LLC][LineAt(h, Shared_LLC, a)].addr
  THEN {} ELSE h.sharers[b]

\* What the shared cache makes of a hierarchy h by an access to a that leaves the line in
\* state s with the content cur and with the sharers S.
Served(h, g, a, s, cur, S) ==
  LET w == LineAt(h, Shared_LLC, a)
      l == h.way[Shared_LLC][w]
      out == ~InCache(h, Shared_LLC, a)
  IN /\ g.way[Shared_LLC][w].addr = a /\ g.way[Shared_LLC][w].state = s
     /\ s # "Invalid" => g.way[Shared_LLC][w].current = cur
     /\ \A v \in WaysOf(Shared_LLC) : v # w => g.way[Shared_LLC][v] = h.way[Shared_LLC][v]
     /\ \A c \in CPU : \A v \in WaysOf(c) :
          /\ g.way[c][v].addr = h.way[c][v].addr /\ g.way[c][v].current = h.way[c][v].current
          /\ g.way[c][v].state = IF out /\ Known(h, l.addr, c, v) THEN "Invalid"
                                 ELSE h.way[c][v].state
     /\ \A b \in Line : g.sharers[b] = IF b = a THEN S ELSE SharersThen(h, a, b)
     /\ \A b \in Line : g.mem[b] = IF out /\ l.state = "Modified" /\ b = l.addr THEN l.current
                                   ELSE h.mem[b]

\* A request answered, seen from the hierarchy before it made room.
LEMMA AnsweredServed ==
  ASSUME NEW h, HierTyped(h), OneWay(h), NEW a \in Line,
         \/ InCache(h, Shared_LLC, a)
         \/ KnownClean(h, h.way[Shared_LLC][LineAt(h, Shared_LLC, a)].addr),
         NEW g, NEW s, NEW cur, NEW S,
         Answered(SharedLine(h, a), g, LineAt(h, Shared_LLC, a), a, s, cur, S)
  PROVE  /\ Served(h, g, a, s, cur, S)
         /\ SharedLine(h, a).sharers[a] = SharersThen(h, a, a)
         /\ SharedLine(h, a).mem[a] = h.mem[a]
<1>. DEFINE w == LineAt(h, Shared_LLC, a)
            l == h.way[Shared_LLC][w]
            e == SharedLine(h, a)
            out == ~InCache(h, Shared_LLC, a)
<1>1. /\ HierTyped(e)
      /\ InCache(h, Shared_LLC, a) => SameLines(h, e)
      /\ ~InCache(h, Shared_LLC, a) => RoomMade(h, e, w, a)
  BY SharedLineFields
<1>2. /\ w \in WaysOf(Shared_LLC) /\ l.addr \in Line
      /\ out => ~(Valid(l) /\ l.addr = a)
  <2>1. /\ w \in WaysOf(Shared_LLC)
        /\ \A v \in WaysOf(Shared_LLC) :
             Valid(h.way[Shared_LLC][v]) /\ h.way[Shared_LLC][v].addr = a =>
               InCache(h, Shared_LLC, a)
    BY InHierarchy, LineAtFacts
  <2>. QED  BY <2>1, InHierarchy DEF HierTyped, HierLine
<1>. HIDE DEF e
<1>3. \A b \in Line : e.sharers[b] = SharersThen(h, a, b)
  <2>. HIDE DEF w
  <2>. QED  BY <1>1, <1>2 DEF SharersThen, SameLines, RoomMade, HierTyped, w
<1>4. \A b \in Line : e.mem[b] = IF out /\ l.state = "Modified" /\ b = l.addr THEN l.current
                                 ELSE h.mem[b]
  BY <1>1, <1>2 DEF SameLines, RoomMade, HierTyped
<1>5. e.mem[a] = h.mem[a]
  BY <1>2, <1>4 DEF Valid
<1>6. \A c \in CPU : \A v \in WaysOf(c) :
          /\ e.way[c][v].addr = h.way[c][v].addr /\ e.way[c][v].current = h.way[c][v].current
          /\ e.way[c][v].state = IF out /\ Known(h, l.addr, c, v) THEN "Invalid"
                                 ELSE h.way[c][v].state
  BY <1>1 DEF SameLines, RoomMade
<1>7. \A v \in WaysOf(Shared_LLC) : v # w => e.way[Shared_LLC][v] = h.way[Shared_LLC][v]
  BY <1>1 DEF SameLines, RoomMade
<1>8. /\ g.way[Shared_LLC][w].addr = a /\ g.way[Shared_LLC][w].state = s
      /\ s # "Invalid" => g.way[Shared_LLC][w].current = cur
      /\ \A k \in Caches : \A v \in WaysOf(k) :
           k # Shared_LLC \/ v # w => g.way[k][v] = e.way[k][v]
      /\ g.sharers = [e.sharers EXCEPT ![a] = S]
      /\ g.mem = e.mem
  BY DEF Answered, e
<1>9. \A c \in CPU : \A v \in WaysOf(c) : g.way[c][v] = e.way[c][v]
  BY <1>8, InHierarchy
<1>10. \A b \in Line : g.sharers[b] = IF b = a THEN S ELSE SharersThen(h, a, b)
  BY <1>1, <1>3, <1>8 DEF HierTyped
<1>11. Served(h, g, a, s, cur, S)
  <2>1. \A v \in WaysOf(Shared_LLC) : v # w => g.way[Shared_LLC][v] = h.way[Shared_LLC][v]
    BY <1>7, <1>8, InHierarchy
  <2>2. \A c \in CPU : \A v \in WaysOf(c) :
          /\ g.way[c][v].addr = h.way[c][v].addr /\ g.way[c][v].current = h.way[c][v].current
          /\ g.way[c][v].state = IF out /\ Known(h, l.addr, c, v) THEN "Invalid"
                                 ELSE h.way[c][v].state
    BY <1>6, <1>9
  <2>3. \A b \in Line : g.mem[b] = IF out /\ l.state = "Modified" /\ b = l.addr THEN l.current
                                   ELSE h.mem[b]
    BY <1>4, <1>8
  <2>. QED  BY <1>8, <1>10, <2>1, <2>2, <2>3 DEF Served
<1>. QED  BY <1>3, <1>5, <1>11 DEF e

\* A read the shared cache serves.
LEMMA ServedRead ==
  ASSUME NEW h, HierTyped(h), OneWay(h), NEW a \in Line, NEW i \in CPU,
         \/ InCache(h, Shared_LLC, a)
         \/ /\ inclusion # "Exclusive"
            /\ KnownClean(h, h.way[Shared_LLC][LineAt(h, Shared_LLC, a)].addr)
  PROVE  LET g == SharedRead(h, a, i)
             l == h.way[Shared_LLC][LineAt(h, Shared_LLC, a)]
             hit == InCache(h, Shared_LLC, a)
         IN /\ HierTyped(g) /\ g.asserts = h.asserts
            /\ g.data = IF hit THEN l.current ELSE h.mem[a]
            /\ Served(h, g, a, IF ~hit THEN "Shared" ELSE IF inclusion = "Exclusive" THEN "Invalid"
                               ELSE l.state, g.data, SharersThen(h, a, a) \cup {i})
<1>. DEFINE g == SharedRead(h, a, i)
            w == LineAt(h, Shared_LLC, a)
            l == h.way[Shared_LLC][w]
            e == SharedLine(h, a)
<1>1. CASE InCache(h, Shared_LLC, a)
  <2>. DEFINE s == IF inclusion = "Exclusive" THEN "Invalid" ELSE l.state
              S == h.sharers[a] \cup {i}
  <2>1. HierTyped(g) /\ g.asserts = h.asserts /\ g.data = l.current
        /\ Answered(h, g, w, a, s, l.current, S)
    BY <1>1, ReadOfShared
  <2>2. SameLines(h, e) /\ SharersThen(h, a, a) = h.sharers[a]
    BY <1>1, SharedLineFields DEF SharersThen
  <2>. HIDE DEF s, S
  <2>3. Answered(e, g, w, a, s, l.current, S)
    <3>. HIDE DEF g, e, w
    <3>. QED  BY <2>1, <2>2 DEF Answered, SameLines
  <2>4. Served(h, g, a, s, l.current, S)
    BY <1>1, <2>3, AnsweredServed
  <2>. QED  BY <1>1, <2>1, <2>2, <2>4 DEF s, S
<1>2. CASE ~InCache(h, Shared_LLC, a)
  <2>. DEFINE S == e.sharers[a] \cup {i}
  <2>1. HierTyped(g) /\ g.asserts = h.asserts /\ g.data = e.mem[a]
        /\ Answered(e, g, w, a, "Shared", e.mem[a], S)
    BY <1>2, ReadOfMemory
  <2>. HIDE DEF S
  <2>2. Served(h, g, a, "Shared", e.mem[a], S) /\ e.sharers[a] = SharersThen(h, a, a)
        /\ e.mem[a] = h.mem[a]
    BY <1>2, <2>1, AnsweredServed
  <2>. HIDE DEF e
  <2>. QED  BY <1>2, <2>1, <2>2 DEF S
<1>. QED  BY <1>1, <1>2

\* A write-back the shared cache serves.
LEMMA ServedWrite ==
  ASSUME NEW h, HierTyped(h), OneWay(h), NEW a \in Line, NEW i \in CPU, NEW cur \in BOOLEAN,
         \/ InCache(h, Shared_LLC, a)
         \/ KnownClean(h, h.way[Shared_LLC][LineAt(h, Shared_LLC, a)].addr)
  PROVE  LET g == SharedWrite(h, a, i, cur)
             S == SharersThen(h, a, a) \ {i}
         IN /\ HierTyped(g) /\ g.asserts = h.asserts
            /\ inclusion = "Exclusive" /\ ~InCache(h, Shared_LLC, a) /\ S # {} =>
                 Served(h, g, a, "Invalid", cur, S)
            /\ ~(inclusion = "Exclusive" /\ ~InCache(h, Shared_LLC, a) /\ S # {}) =>
                 Served(h, g, a, "Modified", cur, S)
<1>. DEFINE g == SharedWrite(h, a, i, cur)
            w == LineAt(h, Shared_LLC, a)
            e == SharedLine(h, a)
            S == e.sharers[a] \ {i}
            s == IF inclusion = "Exclusive" /\ ~InCache(h, Shared_LLC, a) /\ S # {}
                 THEN "Invalid" ELSE "Modified"
<1>1. HierTyped(g) /\ g.asserts = h.asserts /\ Answered(e, g, w, a, s, cur, S)
  BY WriteOfShared
<1>. HIDE DEF s, S
<1>2. Served(h, g, a, s, cur, S) /\ e.sharers[a] = SharersThen(h, a, a)
  BY <1>1, AnsweredServed
<1>. HIDE DEF e
<1>. QED  BY <1>1, <1>2 DEF s, S

\* An evicted line the shared cache takes.
LEMMA ServedEvict ==
  ASSUME NEW h, HierTyped(h), OneWay(h), NEW a \in Line, NEW i \in CPU, NEW cur \in BOOLEAN,
         ~InCache(h, Shared_LLC, a), h.asserts,
         KnownClean(h, h.way[Shared_LLC][LineAt(h, Shared_LLC, a)].addr)
  PROVE  LET g == SharedEvict(h, a, i, cur)
             S == SharersThen(h, a, a) \ {i}
         IN /\ HierTyped(g) /\ g.asserts
            /\ S # {} => Served(h, g, a, "Invalid", cur, S)
            /\ S = {} => Served(h, g, a, "Shared", cur, S)
<1>. DEFINE g == SharedEvict(h, a, i, cur)
            w == LineAt(h, Shared_LLC, a)
            e == SharedLine(h, a)
            S == e.sharers[a] \ {i}
            s == IF S # {} THEN "Invalid" ELSE "Shared"
<1>1. HierTyped(g) /\ g.asserts /\ Answered(e, g, w, a, s, cur, S)
  <2>1. HierTyped(g) /\ g.asserts
    BY EvictToShared
  <2>2. CASE S # {}
    <3>1. Answered(e, g, w, a, "Invalid", cur, S)
      BY <2>2, EvictToShared
    <3>2. s = "Invalid"
      BY <2>2
    <3>. HIDE DEF s, g, e, S, w
    <3>. QED  BY ONLY <2>1, <3>1, <3>2
  <2>3. CASE S = {}
    <3>1. Answered(e, g, w, a, "Shared", cur, S)
      BY <2>3, EvictToShared
    <3>2. s = "Shared"
      BY <2>3
    <3>. HIDE DEF s, g, e, S, w
    <3>. QED  BY ONLY <2>1, <3>1, <3>2
  <2>. QED  BY <2>2, <2>3
<1>. HIDE DEF s, S
<1>2. Served(h, g, a, s, cur, S) /\ e.sharers[a] = SharersThen(h, a, a)
  BY <1>1, AnsweredServed
<1>. HIDE DEF e
<1>. QED  BY <1>1, <1>2 DEF s, S

\* The lines of level 1 after a request: of the same address and content, and of the same
\* state unless a clean copy was taken back.
LEMMA ServedAbove ==
  ASSUME NEW h, HierTyped(h), OneWay(h), OwnLines(h), NEW a \in Line,
         \/ InCache(h, Shared_LLC, a)
         \/ KnownClean(h, h.way[Shared_LLC][LineAt(h, Shared_LLC, a)].addr),
         NEW g, NEW s, NEW cur, NEW S, Served(h, g, a, s, cur, S)
  PROVE  /\ OneWay(g) /\ OwnLines(g)
         /\ \A c \in CPU : \A v \in WaysOf(c) :
              /\ g.way[c][v].addr = h.way[c][v].addr
              /\ g.way[c][v].current = h.way[c][v].current
              /\ h.way[c][v].state = "Modified" <=> g.way[c][v].state = "Modified"
              /\ Valid(g.way[c][v]) => g.way[c][v].state = h.way[c][v].state
              /\ inclusion # "Inclusive" => g.way[c][v].state = h.way[c][v].state
<1>. DEFINE w == LineAt(h, Shared_LLC, a)
            l == h.way[Shared_LLC][w]
<1>1. /\ \A c \in CPU : \A v \in WaysOf(c) :
           /\ g.way[c][v].addr = h.way[c][v].addr /\ g.way[c][v].current = h.way[c][v].current
           /\ g.way[c][v].state = IF ~InCache(h, Shared_LLC, a) /\ Known(h, l.addr, c, v)
                                  THEN "Invalid" ELSE h.way[c][v].state
      /\ g.way[Shared_LLC][w].addr = a
      /\ \A v \in WaysOf(Shared_LLC) : v # w => g.way[Shared_LLC][v] = h.way[Shared_LLC][v]
  BY DEF Served
<1>2. \A v \in WaysOf(Shared_LLC) :
        Valid(h.way[Shared_LLC][v]) /\ h.way[Shared_LLC][v].addr = a => v = w
  BY InHierarchy, LineAtFacts
<1>3. \A c \in CPU : \A v \in WaysOf(c) :
              /\ g.way[c][v].addr = h.way[c][v].addr
              /\ g.way[c][v].current = h.way[c][v].current
              /\ h.way[c][v].state = "Modified" <=> g.way[c][v].state = "Modified"
              /\ Valid(g.way[c][v]) => g.way[c][v].state = h.way[c][v].state
              /\ inclusion # "Inclusive" => g.way[c][v].state = h.way[c][v].state
  <2>1. ASSUME NEW c \in CPU, NEW v \in WaysOf(c)
        PROVE  /\ h.way[c][v].state = "Modified" <=> g.way[c][v].state = "Modified"
               /\ Valid(g.way[c][v]) => g.way[c][v].state = h.way[c][v].state
               /\ inclusion # "Inclusive" => g.way[c][v].state = h.way[c][v].state
    <3>. HIDE DEF w, l
    <3>. QED  BY <1>1, <2>1 DEF KnownClean, Valid, Known, w, l
  <2>. QED  BY <1>1, <2>1
<1>. HIDE DEF w, l
<1>4. OwnLines(g)
  BY <1>3 DEF OwnLines, Valid
<1>5. OneWay(g)
  <2>. SUFFICES ASSUME NEW k \in Caches, NEW u \in WaysOf(k), NEW v \in WaysOf(k),
                       Valid(g.way[k][u]), Valid(g.way[k][v]), g.way[k][u].addr = g.way[k][v].addr
                PROVE  u = v
    BY DEF OneWay
  <2>1. CASE k \in CPU
    <3>1. Valid(h.way[k][u]) /\ Valid(h.way[k][v]) /\ h.way[k][u].addr = h.way[k][v].addr
      BY <1>3, <2>1 DEF Valid
    <3>. QED  BY <3>1 DEF OneWay
  <2>2. CASE k = Shared_LLC
    <3>1. u # w /\ v # w => g.way[k][u] = h.way[k][u] /\ g.way[k][v] = h.way[k][v]
      BY <1>1, <2>2
    <3>2. u # w /\ v # w => u = v
      BY <3>1 DEF OneWay
    <3>3. u = w /\ v # w => FALSE
      BY <1>1, <1>2, <2>2
    <3>4. u # w /\ v = w => FALSE
      BY <1>1, <1>2, <2>2
    <3>. QED  BY <3>2, <3>3, <3>4
  <2>. QED  BY <2>1, <2>2 DEF Caches
<1>. QED  BY <1>3, <1>4, <1>5

-----------------------------------------------------------------------------
\* Way w of the cache of c is given to line a.
Vacated(x, g, c, w, a) ==
  /\ g.way[c][w].addr = a /\ g.way[c][w].state = "Invalid"
  /\ \A k \in Caches : \A v \in WaysOf(k) : k # c \/ v # w => g.way[k][v] = x.way[k][v]
  /\ g.sharers = x.sharers /\ g.mem = x.mem

\* Giving a way away keeps every line in one way.
LEMMA VacatedLines ==
  ASSUME NEW x, NEW g, OneWay(x), OwnLines(x), NEW c \in CPU, NEW w \in WaysOf(c), NEW a \in Line,
         Vacated(x, g, c, w, a)
  PROVE  OneWay(g) /\ OwnLines(g)
<1>1. \A k \in Caches : \A v \in WaysOf(k) :
        Valid(g.way[k][v]) => (k # c \/ v # w) /\ g.way[k][v] = x.way[k][v]
  BY DEF Vacated, Valid
<1>2. OneWay(g)
  BY <1>1 DEF OneWay
<1>3. OwnLines(g)
  <2>. SUFFICES ASSUME NEW d \in CPU, NEW v \in WaysOf(d), Valid(g.way[d][v])
                PROVE  /\ g.way[d][v].addr \in Private[d] \cup Common
                       /\ g.way[d][v].state = "Modified" => g.way[d][v].addr \in Private[d]
    BY DEF OwnLines, Valid
  <2>1. g.way[d][v] = x.way[d][v] /\ Valid(x.way[d][v])
    BY <1>1, InHierarchy
  <2>. QED  BY <2>1 DEF OwnLines
<1>. QED  BY <1>2, <1>3

\* Copies below level 1 when the shared cache served a request for b.
LEMMA ServedBelow ==
  ASSUME NEW h, HierTyped(h), OneWay(h), NEW b \in Line, NEW g, NEW s, NEW cur, NEW S,
         Served(h, g, b, s, cur, S)
  PROVE  /\ s # "Invalid" => InCache(g, Shared_LLC, b)
         /\ s = "Invalid" => ~InCache(g, Shared_LLC, b)
         /\ \A a \in Line : a # b /\ InCache(g, Shared_LLC, a) => InCache(h, Shared_LLC, a)
         /\ \A a \in Line : /\ a # b /\ InCache(h, Shared_LLC, a)
                            /\ ~InCache(g, Shared_LLC, a)
                            => /\ ~InCache(h, Shared_LLC, b)
                               /\ a = h.way[Shared_LLC][LineAt(h, Shared_LLC, b)].addr
                               /\ Valid(h.way[Shared_LLC][LineAt(h, Shared_LLC, b)])
<1>. DEFINE w == LineAt(h, Shared_LLC, b)
<1>1. /\ w \in WaysOf(Shared_LLC)
      /\ InCache(h, Shared_LLC, b) => h.way[Shared_LLC][w].addr = b
      /\ \A v \in WaysOf(Shared_LLC) :
           Valid(h.way[Shared_LLC][v]) /\ h.way[Shared_LLC][v].addr = b => v = w
  BY InHierarchy, LineAtFacts
<1>2. /\ g.way[Shared_LLC][w].addr = b /\ g.way[Shared_LLC][w].state = s
      /\ \A v \in WaysOf(Shared_LLC) : v # w => g.way[Shared_LLC][v] = h.way[Shared_LLC][v]
  BY DEF Served
<1>. HIDE DEF w
<1>3. \A f, a : InCache(f, Shared_LLC, a) <=>
        \E v \in WaysOf(Shared_LLC) : Valid(f.way[Shared_LLC][v]) /\ f.way[Shared_LLC][v].addr = a
  BY DEF InCache, Holders, Valid
<1>4. s # "Invalid" => InCache(g, Shared_LLC, b)
  BY <1>1, <1>2, <1>3 DEF Valid
<1>5. s = "Invalid" => ~InCache(g, Shared_LLC, b)
  BY <1>1, <1>2, <1>3 DEF Valid
<1>6. \A a \in Line : a # b /\ InCache(g, Shared_LLC, a) => InCache(h, Shared_LLC, a)
  BY <1>2, <1>3
<1>7. ASSUME NEW a \in Line, a # b, InCache(h, Shared_LLC, a), ~InCache(g, Shared_LLC, a)
      PROVE  ~InCache(h, Shared_LLC, b) /\ a = h.way[Shared_LLC][w].addr
             /\ Valid(h.way[Shared_LLC][w])
  <2>1. PICK v \in WaysOf(Shared_LLC) :
               Valid(h.way[Shared_LLC][v]) /\ h.way[Shared_LLC][v].addr = a
    BY <1>3, <1>7
  <2>2. v = w
    BY <1>2, <1>3, <1>7, <2>1
  <2>. QED  BY <1>1, <1>7, <2>1, <2>2
<1>. QED  BY <1>4, <1>5, <1>6, <1>7 DEF w

\* Inclusion when a modified line b of c is written back and its way given to a.
LEMMA InclusiveWriteBack ==
  ASSUME NEW h, HierTyped(h), OneWay(h), OwnLines(h), inclusion = "Inclusive", InclusiveInv(h),
         NEW c \in CPU, NEW w \in WaysOf(c), NEW a \in Line, NEW b \in Line,
         Valid(h.way[c][w]), h.way[c][w].addr = b,
         NEW x, NEW cur, Served(h, x, b, "Modified", cur, SharersThen(h, b, b) \ {c}),
         NEW g, Vacated(x, g, c, w, a)
  PROVE  InclusiveInv(g)
<1>. DEFINE l == h.way[Shared_LLC][LineAt(h, Shared_LLC, b)]
            out == ~InCache(h, Shared_LLC, b)
<1>1. \A d \in CPU : \A v \in WaysOf(d) :
        Valid(g.way[d][v]) =>
          /\ d # c \/ v # w
          /\ g.way[d][v].addr = h.way[d][v].addr /\ g.way[d][v].state = h.way[d][v].state
          /\ ~(out /\ Known(h, l.addr, d, v))
  <2>. SUFFICES ASSUME NEW d \in CPU, NEW v \in WaysOf(d), Valid(g.way[d][v])
                PROVE  /\ d # c \/ v # w
                       /\ g.way[d][v].addr = h.way[d][v].addr
                       /\ g.way[d][v].state = h.way[d][v].state
                       /\ ~(out /\ Known(h, l.addr, d, v))
    OBVIOUS
  <2>1. (d # c \/ v # w) /\ g.way[d][v] = x.way[d][v]
    BY InHierarchy DEF Vacated, Valid
  <2>2. /\ x.way[d][v].addr = h.way[d][v].addr
        /\ x.way[d][v].state = IF out /\ Known(h, l.addr, d, v) THEN "Invalid"
                               ELSE h.way[d][v].state
    BY DEF Served
  <2>. HIDE DEF l, out
  <2>. QED  BY <2>1, <2>2 DEF Valid
<1>2. \A y \in Line : g.sharers[y] = IF y = b THEN SharersThen(h, b, b) \ {c}
                                     ELSE SharersThen(h, b, y)
  <2>1. \A y \in Line : x.sharers[y] = IF y = b THEN SharersThen(h, b, b) \ {c}
                                       ELSE SharersThen(h, b, y)
    BY DEF Served
  <2>2. g.sharers = x.sharers
    BY DEF Vacated
  <2>. QED  BY <2>1, <2>2
<1>3. \A y \in Line : SharersThen(h, b, y) = IF out /\ y = l.addr THEN {} ELSE h.sharers[y]
  BY DEF SharersThen
<1>4. out => h.sharers[b] = {}
  BY DEF InclusiveInv
<1>. HIDE DEF l, out
<1>5. ASSUME NEW d \in CPU, NEW v \in WaysOf(d)
      PROVE  /\ g.way[d][v].state = "Shared" => d \in g.sharers[g.way[d][v].addr]
             /\ g.way[d][v].state = "Modified" => d \notin g.sharers[g.way[d][v].addr]
  <2>. DEFINE y == h.way[d][v].addr
  <2>1. y \in Line
    BY InHierarchy DEF HierTyped, HierLine
  <2>2. CASE g.way[d][v].state = "Shared"
    <3>1. /\ d # c \/ v # w
          /\ g.way[d][v].addr = y /\ h.way[d][v].state = "Shared" /\ Valid(h.way[d][v])
          /\ ~(out /\ Known(h, l.addr, d, v))
      BY <1>1, <2>2 DEF Valid
    <3>2. d \in h.sharers[y]
      BY <3>1 DEF InclusiveInv
    <3>3. ~(out /\ y = l.addr)
      BY <3>1, <3>2 DEF Known
    <3>4. d \in SharersThen(h, b, y)
      BY <1>3, <2>1, <3>2, <3>3
    <3>5. y = b => d # c
      BY <3>1, InHierarchy DEF OneWay
    <3>. QED  BY <1>2, <2>1, <2>2, <3>1, <3>4, <3>5
  <2>3. CASE g.way[d][v].state = "Modified"
    <3>1. g.way[d][v].addr = y /\ h.way[d][v].state = "Modified"
      BY <1>1, <2>3 DEF Valid
    <3>2. d \notin h.sharers[y]
      BY <3>1 DEF InclusiveInv
    <3>. QED  BY <1>2, <1>3, <2>1, <2>3, <3>1, <3>2
  <2>. QED  BY <2>2, <2>3
<1>6. ASSUME NEW y \in Line, g.sharers[y] # {}  PROVE InCache(g, Shared_LLC, y)
  <2>1. InCache(x, Shared_LLC, y)
    <3>1. CASE y = b
      BY <3>1, ServedBelow
    <3>2. CASE y # b
      <4>1. h.sharers[y] # {} /\ ~(out /\ y = l.addr)
        BY <1>2, <1>3, <1>6, <3>2
      <4>2. InCache(h, Shared_LLC, y)
        BY <4>1 DEF InclusiveInv
      <4>. QED  BY <3>2, <4>1, <4>2, ServedBelow DEF l, out
    <3>. QED  BY <3>1, <3>2
  <2>2. \A v \in WaysOf(Shared_LLC) : g.way[Shared_LLC][v] = x.way[Shared_LLC][v]
    BY InHierarchy DEF Vacated
  <2>. QED  BY <2>1, <2>2 DEF InCache, Holders
<1>. QED  BY <1>5, <1>6 DEF InclusiveInv

\* What is below level 1 of a line not written to, when the shared cache serves a request.
LEMMA BelowKept ==
  ASSUME NEW h, HierTyped(h), OneWay(h), NEW b \in Line, NEW g, NEW s, NEW cur, NEW S,
         Served(h, g, b, s, cur, S),
         \A v \in WaysOf(Shared_LLC) : h.way[Shared_LLC][v].state = "Shared" =>
           h.way[Shared_LLC][v].current = h.mem[h.way[Shared_LLC][v].addr],
         NEW a \in Line, a # b, Below(h, a)
  PROVE  Below(g, a)
<1>. DEFINE w == LineAt(h, Shared_LLC, b)
            l == h.way[Shared_LLC][w]
            out == ~InCache(h, Shared_LLC, b)
<1>1. /\ g.way[Shared_LLC][w].addr = b
      /\ \A v \in WaysOf(Shared_LLC) : v # w => g.way[Shared_LLC][v] = h.way[Shared_LLC][v]
      /\ g.mem[a] = IF out /\ l.state = "Modified" /\ a = l.addr THEN l.current ELSE h.mem[a]
  BY DEF Served
<1>2. w \in WaysOf(Shared_LLC) /\ l \in HierLine
  BY InHierarchy, LineAtFacts DEF HierTyped
<1>3. /\ InCache(h, Shared_LLC, a) /\ ~InCache(g, Shared_LLC, a) => out /\ a = l.addr /\ Valid(l)
      /\ InCache(g, Shared_LLC, a) => InCache(h, Shared_LLC, a)
  BY ServedBelow
<1>4. l.state = "Shared" => l.current = h.mem[l.addr]
  BY <1>2
<1>. HIDE DEF w, l
<1>5. \A v \in WaysOf(Shared_LLC) :
        Valid(g.way[Shared_LLC][v]) /\ g.way[Shared_LLC][v].addr = a => g.way[Shared_LLC][v].current
  BY <1>1 DEF Below
<1>6. CASE InCache(g, Shared_LLC, a)
  BY <1>5, <1>6 DEF Below
<1>7. CASE ~InCache(g, Shared_LLC, a) /\ InCache(h, Shared_LLC, a)
  <2>1. out /\ a = l.addr /\ Valid(l)
    BY <1>3, <1>7
  <2>2. l.current
    BY <1>2, <2>1 DEF Below, l
  <2>3. l.state = "Modified" \/ l.state = "Shared"
    BY <1>2, <2>1 DEF HierLine, LineState, Valid
  <2>4. g.mem[a]
    <3>1. CASE l.state = "Modified"
      BY <1>1, <2>1, <2>2, <3>1
    <3>2. CASE l.state = "Shared"
      <4>1. g.mem[a] = h.mem[a]
        BY <1>1, <3>2
      <4>. QED  BY <1>4, <2>1, <2>2, <3>2, <4>1
    <3>. QED  BY <2>3, <3>1, <3>2
  <2>. QED  BY <1>5, <2>4 DEF Below
<1>8. CASE ~InCache(g, Shared_LLC, a) /\ ~InCache(h, Shared_LLC, a)
  <2>1. h.mem[a]
    BY <1>8 DEF Below
  <2>2. ~(Valid(l) /\ l.addr = a)
    BY <1>2, <1>8 DEF InCache, Holders, Valid, l
  <2>3. g.mem[a] = h.mem[a]
    BY <1>1, <2>2 DEF Valid
  <2>. QED  BY <1>5, <2>1, <2>3 DEF Below
<1>. QED  BY <1>6, <1>7, <1>8

\* The clean lines of the shared cache are those of memory.
LEMMA CleanKept ==
  ASSUME NEW h, HierTyped(h), OneWay(h), NEW b \in Line, NEW g, NEW s, NEW cur, NEW S,
         Served(h, g, b, s, cur, S),
         \A v \in WaysOf(Shared_LLC) : h.way[Shared_LLC][v].state = "Shared" =>
           h.way[Shared_LLC][v].current = h.mem[h.way[Shared_LLC][v].addr],
         s = "Shared" => cur = h.mem[b]
  PROVE  \A v \in WaysOf(Shared_LLC) : g.way[Shared_LLC][v].state = "Shared" =>
           g.way[Shared_LLC][v].current = g.mem[g.way[Shared_LLC][v].addr]
<1>. DEFINE w == LineAt(h, Shared_LLC, b)
            l == h.way[Shared_LLC][w]
            out == ~InCache(h, Shared_LLC, b)
<1>1. /\ g.way[Shared_LLC][w].addr = b /\ g.way[Shared_LLC][w].state = s
      /\ s # "Invalid" => g.way[Shared_LLC][w].current = cur
      /\ \A v \in WaysOf(Shared_LLC) : v # w => g.way[Shared_LLC][v] = h.way[Shared_LLC][v]
      /\ \A a \in Line : g.mem[a] = IF out /\ l.state = "Modified" /\ a = l.addr THEN l.current
                                    ELSE h.mem[a]
  BY DEF Served
<1>2. w \in WaysOf(Shared_LLC) /\ l \in HierLine /\ (out => ~(Valid(l) /\ l.addr = b))
  <2>1. /\ w \in WaysOf(Shared_LLC)
        /\ Valid(l) /\ l.addr = b => InCache(h, Shared_LLC, b)
    BY InHierarchy, LineAtFacts
  <2>. QED  BY <2>1, InHierarchy DEF HierTyped
<1>3. \A v \in WaysOf(Shared_LLC) : Valid(h.way[Shared_LLC][v]) /\ v # w =>
        h.way[Shared_LLC][v].addr \in Line /\ ~(Valid(l) /\ h.way[Shared_LLC][v].addr = l.addr)
  BY <1>2, InHierarchy DEF OneWay, HierTyped, HierLine
<1>. HIDE DEF w, l, out
<1>. SUFFICES ASSUME NEW v \in WaysOf(Shared_LLC), g.way[Shared_LLC][v].state = "Shared"
              PROVE  g.way[Shared_LLC][v].current = g.mem[g.way[Shared_LLC][v].addr]
  OBVIOUS
<1>4. CASE v = w
  <2>1. g.mem[b] = h.mem[b]
    BY <1>1, <1>2 DEF Valid
  <2>2. g.way[Shared_LLC][v].current = cur /\ cur = h.mem[b]
    BY <1>1, <1>4
  <2>. QED  BY <1>1, <1>4, <2>1, <2>2
<1>5. CASE v # w
  <2>1. g.way[Shared_LLC][v] = h.way[Shared_LLC][v] /\ Valid(h.way[Shared_LLC][v])
    BY <1>1, <1>5 DEF Valid
  <2>. DEFINE y == h.way[Shared_LLC][v].addr
  <2>2. y \in Line /\ ~(Valid(l) /\ y = l.addr)
    BY <1>3, <1>5, <2>1
  <2>3. g.mem[y] = h.mem[y]
    BY <1>1, <2>2 DEF Valid
  <2>. QED  BY <2>1, <2>3
<1>. QED  BY <1>4, <1>5

\* The data when a modified line b of c is written back and its way given to a.
LEMMA DataWriteBack ==
  ASSUME NEW h, HierTyped(h), OneWay(h), OwnLines(h), DataInv(h),
         NEW c \in CPU, NEW w \in WaysOf(c), NEW a \in Line, NEW b \in Line,
         h.way[c][w].state = "Modified", h.way[c][w].addr = b,
         \/ InCache(h, Shared_LLC, b)
         \/ KnownClean(h, h.way[Shared_LLC][LineAt(h, Shared_LLC, b)].addr),
         NEW x, NEW S, Served(h, x, b, "Modified", h.way[c][w].current, S),
         NEW g, Vacated(x, g, c, w, a)
  PROVE  DataInv(g)
<1>1. /\ \A v \in WaysOf(Shared_LLC) : g.way[Shared_LLC][v] = x.way[Shared_LLC][v]
      /\ g.mem = x.mem
  BY InHierarchy DEF Vacated
<1>2. \A d \in CPU : \A v \in WaysOf(d) : d # c \/ v # w =>
        /\ g.way[d][v].addr = h.way[d][v].addr /\ g.way[d][v].current = h.way[d][v].current
        /\ h.way[d][v].state = "Modified" <=> g.way[d][v].state = "Modified"
        /\ Valid(g.way[d][v]) => Valid(h.way[d][v])
  <2>1. \A d \in CPU : \A v \in WaysOf(d) :
          /\ x.way[d][v].addr = h.way[d][v].addr
          /\ x.way[d][v].current = h.way[d][v].current
          /\ h.way[d][v].state = "Modified" <=> x.way[d][v].state = "Modified"
          /\ Valid(x.way[d][v]) => x.way[d][v].state = h.way[d][v].state
    BY ServedAbove
  <2>2. \A d \in CPU : \A v \in WaysOf(d) : d # c \/ v # w => g.way[d][v] = x.way[d][v]
    BY InHierarchy DEF Vacated
  <2>. QED  BY <2>1, <2>2 DEF Valid
<1>3. b \in Private[c] /\ h.way[c][w].current
  BY DEF OwnLines, DataInv, Valid
<1>4. \A v \in WaysOf(Shared_LLC) : g.way[Shared_LLC][v].state = "Shared" =>
        g.way[Shared_LLC][v].current = g.mem[g.way[Shared_LLC][v].addr]
  <2>1. \A v \in WaysOf(Shared_LLC) : x.way[Shared_LLC][v].state = "Shared" =>
          x.way[Shared_LLC][v].current = x.mem[x.way[Shared_LLC][v].addr]
    BY CleanKept DEF DataInv
  <2>. QED  BY <1>1, <2>1
<1>5. Below(x, b)
  <2>. DEFINE u == LineAt(h, Shared_LLC, b)
  <2>1. x.way[Shared_LLC][u].current
    BY <1>3 DEF Served
  <2>2. \A v \in WaysOf(Shared_LLC) : Valid(x.way[Shared_LLC][v]) /\ x.way[Shared_LLC][v].addr = b
          => v = u
    <3>1. \A v \in WaysOf(Shared_LLC) : v # u => x.way[Shared_LLC][v] = h.way[Shared_LLC][v]
      BY DEF Served
    <3>2. \A v \in WaysOf(Shared_LLC) :
            Valid(h.way[Shared_LLC][v]) /\ h.way[Shared_LLC][v].addr = b => v = u
      BY InHierarchy, LineAtFacts
    <3>. QED  BY <3>1, <3>2
  <2>3. InCache(x, Shared_LLC, b)
    BY ServedBelow
  <2>. QED  BY <2>1, <2>2, <2>3 DEF Below
<1>6. \A y \in Line : Below(x, y) => Below(g, y)
  BY <1>1 DEF Below, InCache, Holders
<1>7. ASSUME NEW d \in CPU, NEW y \in Private[d]
      PROVE  \/ \E v \in WaysOf(d) : g.way[d][v].addr = y /\ g.way[d][v].state = "Modified"
             \/ Below(g, y)
  <2>0. y \in Line
    BY DEF Line
  <2>1. CASE y = b
    BY <1>5, <1>6, <2>0, <2>1
  <2>2. CASE y # b /\ Below(h, y)
    <3>1. Below(x, y)
      BY <2>0, <2>2, BelowKept DEF DataInv
    <3>. QED  BY <1>6, <2>0, <3>1
  <2>3. CASE y # b /\ ~Below(h, y)
    <3>1. PICK v \in WaysOf(d) : h.way[d][v].addr = y /\ h.way[d][v].state = "Modified"
      BY <2>3 DEF DataInv
    <3>2. d # c \/ v # w
      BY <2>3, <3>1
    <3>. QED  BY <1>2, <3>1, <3>2
  <2>. QED  BY <2>1, <2>2, <2>3
<1>8. ASSUME NEW d \in CPU, NEW v \in WaysOf(d), Valid(g.way[d][v]), g.way[d][v].addr \in Private[d]
      PROVE  g.way[d][v].current
  <2>1. d # c \/ v # w
    BY <1>8 DEF Vacated, Valid
  <2>2. Valid(h.way[d][v]) /\ h.way[d][v].addr \in Private[d]
        /\ g.way[d][v].current = h.way[d][v].current
    BY <1>2, <1>8, <2>1
  <2>3. h.way[d][v].current
    BY <2>2 DEF DataInv
  <2>. QED  BY <2>2, <2>3
<1>. QED  BY <1>4, <1>7, <1>8 DEF DataInv

\* A cache holds a line when a valid way has its address.
LEMMA InCacheWay ==
  ASSUME NEW h, NEW k, NEW a
  PROVE  InCache(h, k, a) <=> \E v \in WaysOf(k) : Valid(h.way[k][v]) /\ h.way[k][v].addr = a
BY DEF InCache, Holders, Valid

\* Exclusion when a line b of c is handed to the shared cache and its way given to a.
LEMMA ExclusiveGiven ==
  ASSUME NEW h, HierTyped(h), OneWay(h), inclusion = "Exclusive", ExclusiveInv(h),
         NEW c \in CPU, NEW w \in WaysOf(c), NEW a \in Line, NEW b \in Line,
         Valid(h.way[c][w]), h.way[c][w].addr = b,
         NEW x, NEW s, NEW cur, Served(h, x, b, s, cur, h.sharers[b] \ {c}),
         s # "Invalid" => h.sharers[b] \ {c} = {},
         NEW g, Vacated(x, g, c, w, a)
  PROVE  ExclusiveInv(g)
<1>1. \A d \in CPU : \A v \in WaysOf(d) :
        /\ x.way[d][v].addr = h.way[d][v].addr /\ x.way[d][v].state = h.way[d][v].state
  BY DEF Served, Known
<1>2. /\ g.way[c][w].state = "Invalid"
      /\ \A d \in CPU : \A v \in WaysOf(d) : d # c \/ v # w => g.way[d][v] = x.way[d][v]
  BY InHierarchy DEF Vacated
<1>3. \A y \in Line : g.sharers[y] = IF y = b THEN h.sharers[b] \ {c} ELSE h.sharers[y]
  <2>1. \A y \in Line : x.sharers[y] = IF y = b THEN h.sharers[b] \ {c} ELSE SharersThen(h, b, y)
    BY DEF Served
  <2>2. \A y \in Line : SharersThen(h, b, y) = h.sharers[y]
    BY DEF SharersThen
  <2>3. g.sharers = x.sharers
    BY DEF Vacated
  <2>. QED  BY <2>1, <2>2, <2>3
<1>4. \A y \in Line : InCache(g, Shared_LLC, y) <=> InCache(x, Shared_LLC, y)
  <2>1. \A v \in WaysOf(Shared_LLC) : g.way[Shared_LLC][v] = x.way[Shared_LLC][v]
    BY InHierarchy DEF Vacated
  <2>. QED  BY <2>1, InCacheWay
<1>5. ASSUME NEW d \in CPU, NEW y \in Line
      PROVE  InCache(g, d, y) <=> InCache(h, d, y) /\ ~(d = c /\ y = b)
  <2>1. ASSUME NEW v \in WaysOf(d), Valid(g.way[d][v]), g.way[d][v].addr = y
        PROVE  InCache(h, d, y) /\ ~(d = c /\ y = b)
    <3>1. (d # c \/ v # w) /\ g.way[d][v] = x.way[d][v]
      BY <1>2, <2>1 DEF Valid
    <3>2. Valid(h.way[d][v]) /\ h.way[d][v].addr = y
      BY <1>1, <2>1, <3>1 DEF Valid
    <3>3. ~(d = c /\ y = b)
      BY <3>1, <3>2, InHierarchy DEF OneWay
    <3>. QED  BY <3>2, <3>3, InCacheWay
  <2>2. ASSUME NEW v \in WaysOf(d), Valid(h.way[d][v]), h.way[d][v].addr = y, ~(d = c /\ y = b)
        PROVE  InCache(g, d, y)
    <3>1. d # c \/ v # w
      BY <2>2
    <3>2. g.way[d][v] = x.way[d][v] /\ x.way[d][v].addr = y
          /\ x.way[d][v].state = h.way[d][v].state
      BY ONLY <1>1, <1>2, <2>2, <3>1
    <3>3. Valid(g.way[d][v]) /\ g.way[d][v].addr = y
      BY ONLY <2>2, <3>2 DEF Valid
    <3>. QED  BY <3>3, InCacheWay
  <2>. QED  BY <2>1, <2>2, InCacheWay
<1>6. ASSUME NEW d \in CPU, NEW y \in Line  PROVE InCache(g, d, y) <=> d \in g.sharers[y]
  <2>1. InCache(h, d, y) <=> d \in h.sharers[y]
    BY DEF ExclusiveInv
  <2>. QED  BY <1>3, <1>5, <2>1
<1>7. ASSUME NEW d \in CPU, NEW y \in Line, InCache(g, d, y), InCache(g, Shared_LLC, y)
      PROVE  FALSE
  <2>1. InCache(h, d, y) /\ InCache(x, Shared_LLC, y) /\ d \in g.sharers[y]
    BY <1>4, <1>5, <1>6, <1>7
  <2>2. CASE y = b
    <3>1. s # "Invalid"
      BY <2>1, <2>2, ServedBelow
    <3>. QED  BY <1>3, <2>1, <2>2, <3>1
  <2>3. CASE y # b
    <3>1. InCache(h, Shared_LLC, y)
      BY <2>1, <2>3, ServedBelow
    <3>. QED  BY <2>1, <3>1 DEF ExclusiveInv
  <2>. QED  BY <2>2, <2>3
<1>. QED  BY <1>6, <1>7 DEF ExclusiveInv

\* Inclusion does not need a line that is dropped.
LEMMA DroppedInclusive ==
  ASSUME NEW h, InclusiveInv(h), NEW c \in CPU, NEW w \in WaysOf(c), NEW a \in Line,
         NEW g, Vacated(h, g, c, w, a)
  PROVE  InclusiveInv(g)
<1>1. \A d \in CPU : \A v \in WaysOf(d) : Valid(g.way[d][v]) => g.way[d][v] = h.way[d][v]
  BY InHierarchy DEF Vacated, Valid
<1>2. g.sharers = h.sharers
  BY DEF Vacated
<1>3. \A y \in Line : InCache(h, Shared_LLC, y) => InCache(g, Shared_LLC, y)
  <2>1. \A v \in WaysOf(Shared_LLC) : g.way[Shared_LLC][v] = h.way[Shared_LLC][v]
    BY InHierarchy DEF Vacated
  <2>. QED  BY <2>1, InCacheWay
<1>4. ASSUME NEW d \in CPU, NEW v \in WaysOf(d)
      PROVE  /\ g.way[d][v].state = "Shared" => d \in g.sharers[g.way[d][v].addr]
             /\ g.way[d][v].state = "Modified" => d \notin g.sharers[g.way[d][v].addr]
  <2>1. Valid(g.way[d][v]) => g.way[d][v] = h.way[d][v]
    BY <1>1
  <2>2. /\ h.way[d][v].state = "Shared" => d \in h.sharers[h.way[d][v].addr]
        /\ h.way[d][v].state = "Modified" => d \notin h.sharers[h.way[d][v].addr]
    BY DEF InclusiveInv
  <2>. QED  BY <1>2, <2>1, <2>2 DEF Valid
<1>5. \A y \in Line : g.sharers[y] # {} => InCache(g, Shared_LLC, y)
  BY <1>2, <1>3 DEF InclusiveInv
<1>. QED  BY <1>4, <1>5 DEF InclusiveInv

\* No data is lost with a line that is not modified.
LEMMA DroppedData ==
  ASSUME NEW h, DataInv(h), NEW c \in CPU, NEW w \in WaysOf(c), NEW a \in Line,
         h.way[c][w].state # "Modified", NEW g, Vacated(h, g, c, w, a)
  PROVE  DataInv(g)
<1>1. /\ \A d \in CPU : \A v \in WaysOf(d) : Valid(g.way[d][v]) => g.way[d][v] = h.way[d][v]
      /\ \A d \in CPU : \A v \in WaysOf(d) :
           h.way[d][v].state = "Modified" => g.way[d][v] = h.way[d][v]
  BY InHierarchy DEF Vacated, Valid
<1>2. g.mem = h.mem /\ \A v \in WaysOf(Shared_LLC) : g.way[Shared_LLC][v] = h.way[Shared_LLC][v]
  BY InHierarchy DEF Vacated
<1>3. \A y \in Line : Below(h, y) => Below(g, y)
  BY <1>2, InCacheWay DEF Below
<1>4. \A v \in WaysOf(Shared_LLC) : g.way[Shared_LLC][v].state = "Shared" =>
        g.way[Shared_LLC][v].current = g.mem[g.way[Shared_LLC][v].addr]
  BY <1>2 DEF DataInv
<1>5. ASSUME NEW d \in CPU, NEW v \in WaysOf(d), Valid(g.way[d][v]), g.way[d][v].addr \in Private[d]
      PROVE  g.way[d][v].current
  BY <1>1, <1>5 DEF DataInv
<1>6. ASSUME NEW d \in CPU, NEW y \in Private[d]
      PROVE  \/ \E v \in WaysOf(d) : g.way[d][v].addr = y /\ g.way[d][v].state = "Modified"
             \/ Below(g, y)
  <2>1. y \in Line
    BY DEF Line
  <2>2. CASE Below(h, y)
    BY <1>3, <2>1, <2>2
  <2>3. CASE ~Below(h, y)
    <3>1. PICK v \in WaysOf(d) : h.way[d][v].addr = y /\ h.way[d][v].state = "Modified"
      BY <2>3 DEF DataInv
    <3>. QED  BY <1>1, <3>1
  <2>. QED  BY <2>2, <2>3
<1>. QED  BY <1>4, <1>5, <1>6 DEF DataInv

\* An exclusive cache need not know of a way that holds nothing.
LEMMA DroppedExclusive ==
  ASSUME NEW h, ExclusiveInv(h), NEW c \in CPU, NEW w \in WaysOf(c), NEW a \in Line,
         ~Valid(h.way[c][w]), NEW g, Vacated(h, g, c, w, a)
  PROVE  ExclusiveInv(g)
<1>1. \A k \in Caches : \A v \in WaysOf(k) :
        /\ Valid(g.way[k][v]) <=> Valid(h.way[k][v])
        /\ Valid(h.way[k][v]) => g.way[k][v] = h.way[k][v]
  BY DEF Vacated, Valid
<1>2. \A k \in Caches, y \in Line : InCache(g, k, y) <=> InCache(h, k, y)
  BY <1>1, InCacheWay
<1>3. g.sharers = h.sharers
  BY DEF Vacated
<1>4. \A d \in CPU, y \in Line : InCache(g, d, y) <=> InCache(h, d, y)
  BY <1>2, InHierarchy
<1>5. \A y \in Line : InCache(g, Shared_LLC, y) <=> InCache(h, Shared_LLC, y)
  BY <1>2, InHierarchy
<1>. QED  BY <1>3, <1>4, <1>5 DEF ExclusiveInv

\* The directory of an inclusive cache names no cache whose copy is modified.
LEMMA KnownAreClean ==
  ASSUME NEW h, inclusion = "Inclusive" => InclusiveInv(h), NEW b
  PROVE  KnownClean(h, b)
BY DEF KnownClean, Known, InclusiveInv

\* The last step of making room.
LEMMA RoomVacates ==
  ASSUME NEW x, HierTyped(x), NEW c \in CPU, NEW w \in WaysOf(c), NEW a \in Line
  PROVE  /\ HierTyped(NewLine(x, c, w, a)) /\ Vacated(x, NewLine(x, c, w, a), c, w, a)
         /\ NewLine(x, c, w, a).asserts = x.asserts
<1>1. c \in Caches
  BY InHierarchy
<1>. QED  BY <1>1, NewLineFields DEF Vacated

\* A miss of level 1 makes room: the line in the way is written back, handed to the
\* victim cache or dropped, and the shared cache may evict in turn.
LEMMA RoomInv ==
  ASSUME NEW h, HierInv(h), NEW c \in CPU, NEW w \in WaysOf(c), NEW a \in Line,
         inclusion \in {"NINE", "Inclusive", "Exclusive"}
  PROVE  LET g == Room(h, c, w, a)
         IN /\ HierInv(g) /\ g.way[c][w].addr = a /\ g.way[c][w].state = "Invalid"
            /\ \A v \in WaysOf(c) : Valid(g.way[c][v]) =>
                 Valid(h.way[c][v]) /\ g.way[c][v].addr = h.way[c][v].addr
<1>. DEFINE g == Room(h, c, w, a)
            line == h.way[c][w]
            b == line.addr
<1>1. /\ HierTyped(h) /\ OneWay(h) /\ OwnLines(h) /\ h.asserts
      /\ inclusion = "Exclusive" => ExclusiveInv(h)
      /\ inclusion = "Inclusive" => InclusiveInv(h)
      /\ inclusion # "Exclusive" => DataInv(h)
  BY DEF HierInv
<1>2. line \in HierLine /\ b \in Line /\ line.current \in BOOLEAN
  BY <1>1, InHierarchy DEF HierTyped, HierLine
<1>3. \A y : KnownClean(h, y)
  BY <1>1, KnownAreClean
<1>4. CASE line.state = "Modified"
  <2>. DEFINE x == SharedWrite(h, b, c, line.current)
              y == SetState(x, c, w, "Invalid")
              S == SharersThen(h, b, b) \ {c}
              s == IF inclusion = "Exclusive" /\ ~InCache(h, Shared_LLC, b) /\ S # {}
                   THEN "Invalid" ELSE "Modified"
  <2>1. HierTyped(x) /\ x.asserts = h.asserts /\ Served(h, x, b, s, line.current, S)
    <3>1. ASSUME NEW cur \in BOOLEAN
          PROVE  /\ HierTyped(SharedWrite(h, b, c, cur))
                 /\ SharedWrite(h, b, c, cur).asserts = h.asserts
                 /\ Served(h, SharedWrite(h, b, c, cur), b, s, cur, S)
      <4>1. HierTyped(h) /\ OneWay(h) /\ b \in Line
            /\ KnownClean(h, h.way[Shared_LLC][LineAt(h, Shared_LLC, b)].addr)
        BY <1>1, <1>2, <1>3
      <4>. HIDE DEF b
      <4>2. /\ HierTyped(SharedWrite(h, b, c, cur))
            /\ SharedWrite(h, b, c, cur).asserts = h.asserts
        BY <4>1, ServedWrite
      <4>3. Served(h, SharedWrite(h, b, c, cur), b, s, cur, S)
        BY <4>1, ServedWrite
      <4>. QED  BY <4>2, <4>3
    <3>. QED  BY <1>2, <3>1, Zenon
  <2>. HIDE DEF x
  <2>2. x.way[c][w].current \in BOOLEAN
    BY <2>1, InHierarchy DEF HierTyped, HierLine
  <2>3. /\ HierTyped(y) /\ y.way[c][w].state = "Invalid" /\ y.sharers = x.sharers /\ y.mem = x.mem
        /\ y.asserts = x.asserts
        /\ \A k \in Caches : \A v \in WaysOf(k) : k # c \/ v # w => y.way[k][v] = x.way[k][v]
    <3>1. "Invalid" \in LineState /\ c \in Caches
      BY InHierarchy DEF LineState
    <3>2. ASSUME NEW cur \in BOOLEAN
          PROVE  LET t == Fill(x, c, w, "Invalid", cur)
                 IN /\ HierTyped(t) /\ t.way[c][w].state = "Invalid" /\ t.sharers = x.sharers
                    /\ t.mem = x.mem /\ t.asserts = x.asserts
                    /\ \A k \in Caches : \A v \in WaysOf(k) :
                         k # c \/ v # w => t.way[k][v] = x.way[k][v]
      BY <2>1, <3>1, FillFields
    <3>3. y = Fill(x, c, w, "Invalid", x.way[c][w].current)
      BY DEF SetState
    <3>. QED  BY <2>2, <3>2, <3>3, Zenon
  <2>4. g = NewLine(y, c, w, a)
    <3>1. WrittenBack(h, c, w) = y
      BY <1>4 DEF WrittenBack, x
    <3>2. Evicted(y, c, w) = y
      BY <2>3 DEF Evicted
    <3>. QED  BY <3>1, <3>2 DEF Room
  <2>. HIDE DEF y, g
  <2>5. HierTyped(g) /\ Vacated(y, g, c, w, a) /\ g.asserts = y.asserts
    BY <2>3, <2>4, RoomVacates
  <2>6. Vacated(x, g, c, w, a)
    BY <2>3, <2>5 DEF Vacated
  <2>7. /\ OneWay(x) /\ OwnLines(x)
        /\ \A v \in WaysOf(c) : /\ x.way[c][v].addr = h.way[c][v].addr
                                /\ Valid(x.way[c][v]) => x.way[c][v].state = h.way[c][v].state
    <3>. HIDE DEF s, S, line, b
    <3>. QED  BY <1>1, <1>2, <1>3, <2>1, ServedAbove
  <2>8. OneWay(g) /\ OwnLines(g)
    BY <2>6, <2>7, VacatedLines
  <2>9. inclusion = "Inclusive" => InclusiveInv(g)
    BY <1>1, <1>2, <1>4, <2>1, <2>6, InclusiveWriteBack DEF Valid
  <2>10. inclusion # "Exclusive" => DataInv(g)
    <3>. HIDE DEF S
    <3>. QED  BY <1>1, <1>2, <1>3, <1>4, <2>1, <2>6, DataWriteBack
  <2>11. inclusion = "Exclusive" => ExclusiveInv(g)
    <3>. SUFFICES ASSUME inclusion = "Exclusive"  PROVE ExclusiveInv(g)
      OBVIOUS
    <3>1. ~InCache(h, Shared_LLC, b)
      <4>1. InCache(h, c, b)
        BY <1>4, InCacheWay DEF Valid
      <4>. QED  BY <1>1, <1>2, <4>1 DEF ExclusiveInv
    <3>2. S = h.sharers[b] \ {c}
      BY DEF SharersThen
    <3>3. s # "Invalid" => S = {}
      BY <3>1
    <3>. HIDE DEF s, S
    <3>. QED  BY <1>1, <1>2, <1>4, <2>1, <2>6, <3>2, <3>3, ExclusiveGiven DEF Valid
  <2>12. g.asserts
    BY <1>1, <2>1, <2>3, <2>5
  <2>13. /\ g.way[c][w].addr = a /\ g.way[c][w].state = "Invalid"
         /\ \A v \in WaysOf(c) : Valid(g.way[c][v]) =>
              Valid(h.way[c][v]) /\ g.way[c][v].addr = h.way[c][v].addr
    BY <2>6, <2>7, InHierarchy DEF Vacated, Valid
  <2>. QED  BY <2>5, <2>8, <2>9, <2>10, <2>11, <2>12, <2>13 DEF HierInv, g
<1>5. CASE line.state = "Shared" /\ inclusion = "Exclusive"
  <2>. DEFINE x == SharedEvict(h, b, c, line.current)
              S == SharersThen(h, b, b) \ {c}
              s == IF S # {} THEN "Invalid" ELSE "Shared"
  <2>1. ~InCache(h, Shared_LLC, b)
    <3>1. InCache(h, c, b)
      BY <1>5, InCacheWay DEF Valid
    <3>. QED  BY <1>1, <1>2, <1>5, <3>1 DEF ExclusiveInv
  <2>2. HierTyped(x) /\ x.asserts /\ Served(h, x, b, s, line.current, S)
    <3>1. ASSUME NEW cur \in BOOLEAN
          PROVE  /\ HierTyped(SharedEvict(h, b, c, cur))
                 /\ SharedEvict(h, b, c, cur).asserts
                 /\ Served(h, SharedEvict(h, b, c, cur), b, s, cur, S)
      <4>3. HierTyped(h) /\ OneWay(h) /\ b \in Line /\ h.asserts /\ ~InCache(h, Shared_LLC, b)
            /\ KnownClean(h, h.way[Shared_LLC][LineAt(h, Shared_LLC, b)].addr)
        BY <1>1, <1>2, <1>3, <2>1
      <4>. HIDE DEF b
      <4>1. HierTyped(SharedEvict(h, b, c, cur)) /\ SharedEvict(h, b, c, cur).asserts
        BY <4>3, ServedEvict
      <4>2. Served(h, SharedEvict(h, b, c, cur), b, s, cur, S)
        BY <4>3, ServedEvict
      <4>. QED  BY <4>1, <4>2
    <3>. QED  BY <1>2, <3>1, Zenon
  <2>. HIDE DEF x
  <2>4. g = NewLine(x, c, w, a)
    <3>1. WrittenBack(h, c, w) = h
      BY <1>5 DEF WrittenBack
    <3>2. Evicted(h, c, w) = x
      BY <1>5 DEF Evicted, x
    <3>. QED  BY <3>1, <3>2 DEF Room
  <2>. HIDE DEF g
  <2>6. HierTyped(g) /\ Vacated(x, g, c, w, a) /\ g.asserts = x.asserts
    BY <2>2, <2>4, RoomVacates
  <2>7. /\ OneWay(x) /\ OwnLines(x)
        /\ \A v \in WaysOf(c) : /\ x.way[c][v].addr = h.way[c][v].addr
                                /\ Valid(x.way[c][v]) => x.way[c][v].state = h.way[c][v].state
    <3>. HIDE DEF s, S, line, b
    <3>. QED  BY <1>1, <1>2, <1>3, <2>2, ServedAbove
  <2>8. OneWay(g) /\ OwnLines(g)
    BY <2>6, <2>7, VacatedLines
  <2>9. ExclusiveInv(g)
    <3>1. S = h.sharers[b] \ {c}
      BY <1>5 DEF SharersThen
    <3>2. s # "Invalid" => S = {}
      OBVIOUS
    <3>. HIDE DEF s, S
    <3>. QED  BY <1>1, <1>2, <1>5, <2>2, <2>6, <3>1, <3>2, ExclusiveGiven DEF Valid
  <2>10. g.asserts
    BY <2>2, <2>6
  <2>11. /\ g.way[c][w].addr = a /\ g.way[c][w].state = "Invalid"
         /\ \A v \in WaysOf(c) : Valid(g.way[c][v]) =>
              Valid(h.way[c][v]) /\ g.way[c][v].addr = h.way[c][v].addr
    BY <2>6, <2>7, InHierarchy DEF Vacated, Valid
  <2>. QED  BY <1>5, <2>6, <2>8, <2>9, <2>10, <2>11 DEF HierInv, g
<1>6. CASE line.state # "Modified" /\ ~(line.state = "Shared" /\ inclusion = "Exclusive")
  <2>1. g = NewLine(h, c, w, a)
    <3>1. WrittenBack(h, c, w) = h
      BY <1>6 DEF WrittenBack
    <3>2. Evicted(h, c, w) = h
      BY <1>6 DEF Evicted
    <3>. QED  BY <3>1, <3>2 DEF Room
  <2>. HIDE DEF g
  <2>2. HierTyped(g) /\ Vacated(h, g, c, w, a) /\ g.asserts = h.asserts
    BY <1>1, <2>1, RoomVacates
  <2>3. OneWay(g) /\ OwnLines(g)
    BY <1>1, <2>2, VacatedLines
  <2>4. inclusion = "Inclusive" => InclusiveInv(g)
    BY <1>1, <2>2, DroppedInclusive
  <2>5. inclusion # "Exclusive" => DataInv(g)
    BY <1>1, <1>6, <2>2, DroppedData
  <2>6. inclusion = "Exclusive" => ExclusiveInv(g)
    <3>1. inclusion = "Exclusive" => ~Valid(h.way[c][w])
      BY <1>2, <1>6 DEF HierLine, LineState, Valid
    <3>. QED  BY <1>1, <2>2, <3>1, DroppedExclusive
  <2>7. g.asserts
    BY <1>1, <2>2
  <2>8. /\ g.way[c][w].addr = a /\ g.way[c][w].state = "Invalid"
        /\ \A v \in WaysOf(c) : Valid(g.way[c][v]) =>
             Valid(h.way[c][v]) /\ g.way[c][v].addr = h.way[c][v].addr
    BY <2>2, InHierarchy DEF Vacated, Valid
  <2>. QED  BY <2>2, <2>3, <2>4, <2>5, <2>6, <2>7, <2>8 DEF HierInv, g
<1>. QED  BY <1>4, <1>5, <1>6

-----------------------------------------------------------------------------
\* Way w of the cache of c gets a clean copy of a.
Copied(x, g, c, w, a, data) ==
  /\ g.way[c][w].addr = a /\ g.way[c][w].state = "Shared" /\ g.way[c][w].current = data
  /\ \A k \in Caches : \A v \in WaysOf(k) : k # c \/ v # w => g.way[k][v] = x.way[k][v]
  /\ g.sharers = x.sharers /\ g.mem = x.mem

\* A copy read into a free way leaves every line in one way.
LEMMA CopiedLines ==
  ASSUME NEW x, NEW g, OneWay(x), OwnLines(x), NEW c \in CPU, NEW w \in WaysOf(c), NEW a \in Line,
         NEW data, Copied(x, g, c, w, a, data), ~InCache(x, c, a), a \in Private[c] \cup Common
  PROVE  OneWay(g) /\ OwnLines(g)
<1>1. /\ g.way[c][w].addr = a /\ g.way[c][w].state = "Shared"
      /\ \A k \in Caches : \A v \in WaysOf(k) : k # c \/ v # w => g.way[k][v] = x.way[k][v]
  BY DEF Copied
<1>2. \A v \in WaysOf(c) : ~(Valid(x.way[c][v]) /\ x.way[c][v].addr = a)
  BY InCacheWay
<1>3. OneWay(g)
  <2>. SUFFICES ASSUME NEW k \in Caches, NEW u \in WaysOf(k), NEW v \in WaysOf(k),
                       Valid(g.way[k][u]), Valid(g.way[k][v]), g.way[k][u].addr = g.way[k][v].addr
                PROVE  u = v
    BY DEF OneWay
  <2>1. CASE k # c \/ (u # w /\ v # w)
    <3>1. g.way[k][u] = x.way[k][u] /\ g.way[k][v] = x.way[k][v]
      BY <1>1, <2>1
    <3>. QED  BY <3>1 DEF OneWay
  <2>2. CASE k = c /\ u = w /\ v # w
    BY <1>1, <1>2, <2>2
  <2>3. CASE k = c /\ u # w /\ v = w
    BY <1>1, <1>2, <2>3
  <2>. QED  BY <2>1, <2>2, <2>3
<1>4. OwnLines(g)
  <2>. SUFFICES ASSUME NEW d \in CPU, NEW v \in WaysOf(d)
                PROVE  /\ Valid(g.way[d][v]) => g.way[d][v].addr \in Private[d] \cup Common
                       /\ g.way[d][v].state = "Modified" => g.way[d][v].addr \in Private[d]
    BY DEF OwnLines
  <2>1. CASE d = c /\ v = w
    BY <1>1, <2>1
  <2>2. CASE d # c \/ v # w
    <3>1. g.way[d][v] = x.way[d][v]
      BY <1>1, <2>2, InHierarchy
    <3>. QED  BY <3>1 DEF OwnLines
  <2>. QED  BY <2>1, <2>2
<1>. QED  BY <1>3, <1>4

\* Inclusion when a line is read into way w of c.
LEMMA InclusiveRead ==
  ASSUME NEW h, HierTyped(h), OneWay(h), OwnLines(h), inclusion = "Inclusive", InclusiveInv(h),
         NEW c \in CPU, NEW w \in WaysOf(c), NEW a \in Line, ~InCache(h, c, a),
         NEW x, NEW s, NEW cur, Served(h, x, a, s, cur, SharersThen(h, a, a) \cup {c}),
         s # "Invalid", NEW g, NEW data, Copied(x, g, c, w, a, data)
  PROVE  InclusiveInv(g)
<1>. DEFINE l == h.way[Shared_LLC][LineAt(h, Shared_LLC, a)]
            out == ~InCache(h, Shared_LLC, a)
<1>1. \A d \in CPU : \A v \in WaysOf(d) : (d # c \/ v # w) /\ Valid(g.way[d][v]) =>
        /\ g.way[d][v].addr = h.way[d][v].addr /\ g.way[d][v].state = h.way[d][v].state
        /\ ~(out /\ Known(h, l.addr, d, v))
  <2>. SUFFICES ASSUME NEW d \in CPU, NEW v \in WaysOf(d), d # c \/ v # w, Valid(g.way[d][v])
                PROVE  /\ g.way[d][v].addr = h.way[d][v].addr
                       /\ g.way[d][v].state = h.way[d][v].state
                       /\ ~(out /\ Known(h, l.addr, d, v))
    OBVIOUS
  <2>1. g.way[d][v] = x.way[d][v]
    BY InHierarchy DEF Copied
  <2>2. /\ x.way[d][v].addr = h.way[d][v].addr
        /\ x.way[d][v].state = IF out /\ Known(h, l.addr, d, v) THEN "Invalid"
                               ELSE h.way[d][v].state
    BY DEF Served
  <2>. HIDE DEF l, out
  <2>. QED  BY <2>1, <2>2 DEF Valid
<1>2. \A y \in Line : g.sharers[y] = IF y = a THEN SharersThen(h, a, a) \cup {c}
                                     ELSE SharersThen(h, a, y)
  <2>1. \A y \in Line : x.sharers[y] = IF y = a THEN SharersThen(h, a, a) \cup {c}
                                       ELSE SharersThen(h, a, y)
    BY DEF Served
  <2>2. g.sharers = x.sharers
    BY DEF Copied
  <2>. QED  BY <2>1, <2>2
<1>3. \A y \in Line : SharersThen(h, a, y) = IF out /\ y = l.addr THEN {} ELSE h.sharers[y]
  BY DEF SharersThen
<1>. HIDE DEF l, out
<1>5. ASSUME NEW d \in CPU, NEW v \in WaysOf(d)
      PROVE  /\ g.way[d][v].state = "Shared" => d \in g.sharers[g.way[d][v].addr]
             /\ g.way[d][v].state = "Modified" => d \notin g.sharers[g.way[d][v].addr]
  <2>. DEFINE y == h.way[d][v].addr
  <2>1. y \in Line
    BY InHierarchy DEF HierTyped, HierLine
  <2>2. CASE d = c /\ v = w
    <3>1. g.way[d][v].addr = a /\ g.way[d][v].state = "Shared"
      BY <2>2 DEF Copied
    <3>. QED  BY <1>2, <2>2, <3>1
  <2>3. CASE (d # c \/ v # w) /\ g.way[d][v].state = "Shared"
    <3>1. /\ g.way[d][v].addr = y /\ h.way[d][v].state = "Shared" /\ Valid(h.way[d][v])
          /\ ~(out /\ Known(h, l.addr, d, v))
      BY <1>1, <2>3 DEF Valid
    <3>2. d \in h.sharers[y]
      BY <3>1 DEF InclusiveInv
    <3>3. ~(out /\ y = l.addr)
      BY <3>1, <3>2 DEF Known
    <3>4. d \in SharersThen(h, a, y)
      BY <1>3, <2>1, <3>2, <3>3
    <3>. QED  BY <1>2, <2>1, <2>3, <3>1, <3>4
  <2>4. CASE (d # c \/ v # w) /\ g.way[d][v].state = "Modified"
    <3>1. g.way[d][v].addr = y /\ h.way[d][v].state = "Modified"
      BY <1>1, <2>4 DEF Valid
    <3>2. d \notin h.sharers[y]
      BY <3>1 DEF InclusiveInv
    <3>3. y = a => d # c
      BY <3>1, InCacheWay DEF Valid
    <3>. QED  BY <1>2, <1>3, <2>1, <2>4, <3>1, <3>2, <3>3
  <2>. QED  BY <2>2, <2>3, <2>4
<1>6. ASSUME NEW y \in Line, g.sharers[y] # {}  PROVE InCache(g, Shared_LLC, y)
  <2>1. InCache(x, Shared_LLC, y)
    <3>1. CASE y = a
      BY <3>1, ServedBelow
    <3>2. CASE y # a
      <4>1. h.sharers[y] # {} /\ ~(out /\ y = l.addr)
        BY <1>2, <1>3, <1>6, <3>2
      <4>2. InCache(h, Shared_LLC, y)
        BY <4>1 DEF InclusiveInv
      <4>. QED  BY <3>2, <4>1, <4>2, ServedBelow DEF l, out
    <3>. QED  BY <3>1, <3>2
  <2>2. \A v \in WaysOf(Shared_LLC) : g.way[Shared_LLC][v] = x.way[Shared_LLC][v]
    BY InHierarchy DEF Copied
  <2>. QED  BY <2>1, <2>2, InCacheWay
<1>. QED  BY <1>5, <1>6 DEF InclusiveInv

\* The data when a line is read into way w of c.
LEMMA DataRead ==
  ASSUME NEW h, HierTyped(h), OneWay(h), OwnLines(h), DataInv(h),
         NEW c \in CPU, NEW w \in WaysOf(c), NEW a \in Line, ~InCache(h, c, a),
         a \in Private[c] \cup Common, ~Valid(h.way[c][w]),
         \/ InCache(h, Shared_LLC, a)
         \/ KnownClean(h, h.way[Shared_LLC][LineAt(h, Shared_LLC, a)].addr),
         NEW x, NEW s, NEW data, NEW S, Served(h, x, a, s, data, S), s # "Invalid",
         data = IF InCache(h, Shared_LLC, a)
                THEN h.way[Shared_LLC][LineAt(h, Shared_LLC, a)].current ELSE h.mem[a],
         s = IF InCache(h, Shared_LLC, a)
             THEN h.way[Shared_LLC][LineAt(h, Shared_LLC, a)].state ELSE "Shared",
         NEW g, Copied(x, g, c, w, a, data)
  PROVE  DataInv(g)
<1>. DEFINE u == LineAt(h, Shared_LLC, a)
<1>1. /\ \A v \in WaysOf(Shared_LLC) : g.way[Shared_LLC][v] = x.way[Shared_LLC][v]
      /\ g.mem = x.mem
  BY InHierarchy DEF Copied
<1>2. \A d \in CPU : \A v \in WaysOf(d) : d # c \/ v # w =>
        /\ g.way[d][v].addr = h.way[d][v].addr /\ g.way[d][v].current = h.way[d][v].current
        /\ h.way[d][v].state = "Modified" <=> g.way[d][v].state = "Modified"
        /\ Valid(g.way[d][v]) => Valid(h.way[d][v])
  <2>1. \A d \in CPU : \A v \in WaysOf(d) :
          /\ x.way[d][v].addr = h.way[d][v].addr
          /\ x.way[d][v].current = h.way[d][v].current
          /\ h.way[d][v].state = "Modified" <=> x.way[d][v].state = "Modified"
          /\ Valid(x.way[d][v]) => x.way[d][v].state = h.way[d][v].state
    BY ServedAbove
  <2>2. \A d \in CPU : \A v \in WaysOf(d) : d # c \/ v # w => g.way[d][v] = x.way[d][v]
    BY InHierarchy DEF Copied
  <2>. QED  BY <2>1, <2>2 DEF Valid
<1>3. /\ u \in WaysOf(Shared_LLC)
      /\ InCache(h, Shared_LLC, a) => Valid(h.way[Shared_LLC][u]) /\ h.way[Shared_LLC][u].addr = a
      /\ \A v \in WaysOf(Shared_LLC) :
           Valid(h.way[Shared_LLC][v]) /\ h.way[Shared_LLC][v].addr = a => v = u
  BY InHierarchy, LineAtFacts
<1>4. \A v \in WaysOf(Shared_LLC) : g.way[Shared_LLC][v].state = "Shared" =>
        g.way[Shared_LLC][v].current = g.mem[g.way[Shared_LLC][v].addr]
  <2>1. s = "Shared" => data = h.mem[a]
    BY <1>3 DEF DataInv
  <2>2. \A v \in WaysOf(Shared_LLC) : h.way[Shared_LLC][v].state = "Shared" =>
           h.way[Shared_LLC][v].current = h.mem[h.way[Shared_LLC][v].addr]
    BY DEF DataInv
  <2>3. \A v \in WaysOf(Shared_LLC) : x.way[Shared_LLC][v].state = "Shared" =>
          x.way[Shared_LLC][v].current = x.mem[x.way[Shared_LLC][v].addr]
    BY ONLY HierTyped(h), OneWay(h), a \in Line, Served(h, x, a, s, data, S), <2>1, <2>2, CleanKept
  <2>. QED  BY <1>1, <2>3
<1>5. a \in Private[c] => data
  <2>. SUFFICES ASSUME a \in Private[c]  PROVE data
    OBVIOUS
  <2>1. Below(h, a)
    <3>1. ~ \E v \in WaysOf(c) : h.way[c][v].addr = a /\ h.way[c][v].state = "Modified"
      BY InCacheWay DEF Valid
    <3>. QED  BY <3>1 DEF DataInv
  <2>2. CASE InCache(h, Shared_LLC, a)
    <3>1. h.way[Shared_LLC][u].current
      BY <1>3, <2>1, <2>2 DEF Below
    <3>. QED  BY <2>2, <3>1
  <2>3. CASE ~InCache(h, Shared_LLC, a)
    <3>1. h.mem[a]
      BY <2>1, <2>3 DEF Below
    <3>. QED  BY <2>3, <3>1
  <2>. QED  BY <2>2, <2>3
<1>6. data => Below(x, a)
  <2>. SUFFICES ASSUME data  PROVE Below(x, a)
    OBVIOUS
  <2>1. x.way[Shared_LLC][u].current = data
    BY DEF Served
  <2>2. \A v \in WaysOf(Shared_LLC) : Valid(x.way[Shared_LLC][v]) /\ x.way[Shared_LLC][v].addr = a
          => v = u
    <3>1. \A v \in WaysOf(Shared_LLC) : v # u => x.way[Shared_LLC][v] = h.way[Shared_LLC][v]
      BY DEF Served
    <3>. QED  BY <1>3, <3>1
  <2>3. InCache(x, Shared_LLC, a)
    BY ServedBelow
  <2>4. x.way[Shared_LLC][u].current
    BY <2>1
  <2>. QED  BY <2>2, <2>3, <2>4 DEF Below
<1>7. \A y \in Line : Below(x, y) => Below(g, y)
  BY <1>1, InCacheWay DEF Below
<1>8. ASSUME NEW d \in CPU, NEW y \in Private[d]
      PROVE  \/ \E v \in WaysOf(d) : g.way[d][v].addr = y /\ g.way[d][v].state = "Modified"
             \/ Below(g, y)
  <2>0. y \in Line
    BY DEF Line
  <2>1. CASE y = a
    <3>1. d = c
      BY <2>1, HierarchyAssumption
    <3>. QED  BY <1>5, <1>6, <1>7, <2>0, <2>1, <3>1
  <2>2. CASE y # a /\ Below(h, y)
    <3>1. Below(x, y)
      BY <2>0, <2>2, BelowKept DEF DataInv
    <3>. QED  BY <1>7, <2>0, <3>1
  <2>3. CASE y # a /\ ~Below(h, y)
    <3>1. PICK v \in WaysOf(d) : h.way[d][v].addr = y /\ h.way[d][v].state = "Modified"
      BY <2>3 DEF DataInv
    <3>2. d # c \/ v # w
      BY <3>1 DEF Valid
    <3>. QED  BY <1>2, <3>1, <3>2
  <2>. QED  BY <2>1, <2>2, <2>3
<1>9. ASSUME NEW d \in CPU, NEW v \in WaysOf(d), Valid(g.way[d][v]), g.way[d][v].addr \in Private[d]
      PROVE  g.way[d][v].current
  <2>1. CASE d = c /\ v = w
    <3>1. g.way[d][v].addr = a /\ g.way[d][v].current = data
      BY <2>1 DEF Copied
    <3>. QED  BY <1>5, <1>9, <2>1, <3>1
  <2>2. CASE d # c \/ v # w
    <3>1. Valid(h.way[d][v]) /\ h.way[d][v].addr \in Private[d]
          /\ g.way[d][v].current = h.way[d][v].current
      BY <1>2, <1>9, <2>2
    <3>2. h.way[d][v].current
      BY <3>1 DEF DataInv
    <3>. QED  BY <3>1, <3>2
  <2>. QED  BY <2>1, <2>2
<1>. QED  BY <1>4, <1>8, <1>9 DEF DataInv

\* Exclusion when a line is read into way w of c: the shared cache gave it away.
LEMMA ExclusiveRead ==
  ASSUME NEW h, ExclusiveInv(h), NEW c \in CPU, NEW w \in WaysOf(c), NEW a \in Line,
         ~Valid(h.way[c][w]), NEW x,
         \A d \in CPU : \A v \in WaysOf(d) :
           x.way[d][v].addr = h.way[d][v].addr /\ x.way[d][v].state = h.way[d][v].state,
         \A y \in Line : x.sharers[y] = IF y = a THEN h.sharers[a] \cup {c} ELSE h.sharers[y],
         ~InCache(x, Shared_LLC, a),
         \A y \in Line : y # a /\ InCache(x, Shared_LLC, y) => InCache(h, Shared_LLC, y),
         NEW g, NEW data, Copied(x, g, c, w, a, data)
  PROVE  ExclusiveInv(g)
<1>1. /\ g.way[c][w].addr = a /\ g.way[c][w].state = "Shared" /\ g.sharers = x.sharers
      /\ \A k \in Caches : \A v \in WaysOf(k) : k # c \/ v # w => g.way[k][v] = x.way[k][v]
  BY DEF Copied
<1>2. \A y \in Line : InCache(g, Shared_LLC, y) <=> InCache(x, Shared_LLC, y)
  <2>1. \A v \in WaysOf(Shared_LLC) : g.way[Shared_LLC][v] = x.way[Shared_LLC][v]
    BY <1>1, InHierarchy
  <2>. QED  BY <2>1, InCacheWay
<1>3. \A d \in CPU : \A v \in WaysOf(d) : d # c \/ v # w =>
        g.way[d][v].addr = h.way[d][v].addr /\ g.way[d][v].state = h.way[d][v].state
  BY <1>1, InHierarchy
<1>4. ASSUME NEW d \in CPU, NEW y \in Line
      PROVE  InCache(g, d, y) <=> InCache(h, d, y) \/ (d = c /\ y = a)
  <2>1. ASSUME NEW v \in WaysOf(d), Valid(g.way[d][v]), g.way[d][v].addr = y
        PROVE  InCache(h, d, y) \/ (d = c /\ y = a)
    <3>1. CASE d = c /\ v = w
      BY <1>1, <2>1, <3>1
    <3>2. CASE d # c \/ v # w
      <4>1. Valid(h.way[d][v]) /\ h.way[d][v].addr = y
        BY <1>3, <2>1, <3>2 DEF Valid
      <4>. QED  BY <4>1, InCacheWay
    <3>. QED  BY <3>1, <3>2
  <2>2. ASSUME NEW v \in WaysOf(d), Valid(h.way[d][v]), h.way[d][v].addr = y
        PROVE  InCache(g, d, y)
    <3>1. d # c \/ v # w
      BY <2>2
    <3>2. Valid(g.way[d][v]) /\ g.way[d][v].addr = y
      BY <1>3, <2>2, <3>1 DEF Valid
    <3>. QED  BY <3>2, InCacheWay
  <2>3. InCache(g, c, a)
    BY <1>1, InCacheWay DEF Valid
  <2>. QED  BY <2>1, <2>2, <2>3, InCacheWay
<1>5. ASSUME NEW d \in CPU, NEW y \in Line  PROVE InCache(g, d, y) <=> d \in g.sharers[y]
  <2>1. InCache(h, d, y) <=> d \in h.sharers[y]
    BY DEF ExclusiveInv
  <2>. QED  BY <1>1, <1>4, <2>1
<1>6. ASSUME NEW d \in CPU, NEW y \in Line, InCache(g, d, y), InCache(g, Shared_LLC, y)
      PROVE  FALSE
  <2>1. InCache(x, Shared_LLC, y) /\ y # a
    BY <1>2, <1>6
  <2>2. InCache(h, Shared_LLC, y) /\ InCache(h, d, y)
    BY <1>4, <1>6, <2>1
  <2>. QED  BY <2>2 DEF ExclusiveInv
<1>. QED  BY <1>5, <1>6 DEF ExclusiveInv

\* A read that the shared cache serves.
LEMMA ServedCopied ==
  ASSUME NEW h, HierInv(h), NEW c \in CPU, NEW w \in WaysOf(c), NEW a \in Line,
         a \in Private[c] \cup Common, ~InCache(h, c, a),
         h.way[c][w].addr = a, h.way[c][w].state = "Invalid",
         NEW x, NEW s, NEW data, Served(h, x, a, s, data, SharersThen(h, a, a) \cup {c}),
         data = IF InCache(h, Shared_LLC, a)
                THEN h.way[Shared_LLC][LineAt(h, Shared_LLC, a)].current ELSE h.mem[a],
         inclusion = "Exclusive" => s = "Invalid",
         inclusion # "Exclusive" =>
           s = IF InCache(h, Shared_LLC, a)
               THEN h.way[Shared_LLC][LineAt(h, Shared_LLC, a)].state ELSE "Shared",
         NEW g, Copied(x, g, c, w, a, data)
  PROVE  /\ OneWay(g) /\ OwnLines(g)
         /\ inclusion = "Exclusive" => ExclusiveInv(g)
         /\ inclusion = "Inclusive" => InclusiveInv(g)
         /\ inclusion # "Exclusive" => DataInv(g)
<1>. DEFINE l == h.way[Shared_LLC][LineAt(h, Shared_LLC, a)]
            hit == InCache(h, Shared_LLC, a)
            S == SharersThen(h, a, a) \cup {c}
<1>1. /\ HierTyped(h) /\ OneWay(h) /\ OwnLines(h)
      /\ inclusion = "Exclusive" => ExclusiveInv(h)
      /\ inclusion = "Inclusive" => InclusiveInv(h)
      /\ inclusion # "Exclusive" => DataInv(h)
  BY DEF HierInv
<1>2. KnownClean(h, l.addr)
  BY <1>1, KnownAreClean
<1>3. ~Valid(h.way[c][w]) /\ (hit => Valid(l) /\ l.addr = a)
  BY <1>1, InHierarchy, LineAtFacts DEF Valid
<1>4. inclusion # "Exclusive" => s # "Invalid"
  BY <1>3 DEF Valid
<1>5. /\ OneWay(x) /\ OwnLines(x)
      /\ \A d \in CPU : \A v \in WaysOf(d) :
           /\ x.way[d][v].addr = h.way[d][v].addr
           /\ Valid(x.way[d][v]) => x.way[d][v].state = h.way[d][v].state
           /\ inclusion # "Inclusive" => x.way[d][v].state = h.way[d][v].state
  <2>1. HierTyped(h) /\ OneWay(h) /\ OwnLines(h) /\ (hit \/ KnownClean(h, l.addr))
        /\ Served(h, x, a, s, data, S)
    BY <1>1, <1>2
  <2>. HIDE DEF S
  <2>. QED  BY ONLY <2>1, ServedAbove, a \in Line
<1>6. ~InCache(x, c, a)
  BY <1>5, InCacheWay DEF Valid
<1>7. OneWay(g) /\ OwnLines(g)
  BY <1>5, <1>6, CopiedLines
<1>8. ASSUME inclusion = "Inclusive"  PROVE InclusiveInv(g)
  BY <1>1, <1>4, <1>8, InclusiveRead
<1>9. ASSUME inclusion # "Exclusive"  PROVE DataInv(g)
  <2>1. /\ HierTyped(h) /\ OneWay(h) /\ OwnLines(h) /\ DataInv(h) /\ s # "Invalid"
        /\ s = IF hit THEN l.state ELSE "Shared"
        /\ hit \/ KnownClean(h, l.addr)
        /\ ~Valid(h.way[c][w])
        /\ Served(h, x, a, s, data, S)
    BY <1>1, <1>2, <1>3, <1>4, <1>9
  <2>. HIDE DEF S
  <2>. QED  BY <2>1, DataRead
<1>10. ASSUME inclusion = "Exclusive"  PROVE ExclusiveInv(g)
  <2>1. /\ ~InCache(x, Shared_LLC, a)
        /\ \A y \in Line : y # a /\ InCache(x, Shared_LLC, y) => InCache(h, Shared_LLC, y)
    <3>1. s = "Invalid" /\ HierTyped(h) /\ OneWay(h) /\ Served(h, x, a, s, data, S)
      BY <1>1, <1>10
    <3>. HIDE DEF S
    <3>. QED  BY ONLY <3>1, ServedBelow, a \in Line
  <2>2. \A y \in Line : x.sharers[y] = IF y = a THEN S ELSE SharersThen(h, a, y)
    BY DEF Served
  <2>3. \A y \in Line : SharersThen(h, a, y) = h.sharers[y]
    BY <1>10 DEF SharersThen
  <2>4. \A y \in Line : x.sharers[y] = IF y = a THEN h.sharers[a] \cup {c} ELSE h.sharers[y]
    BY <2>2, <2>3
  <2>5. \A d \in CPU : \A v \in WaysOf(d) :
          x.way[d][v].addr = h.way[d][v].addr /\ x.way[d][v].state = h.way[d][v].state
    BY <1>5, <1>10
  <2>6. ExclusiveInv(h)
    BY <1>1, <1>10
  <2>. QED  BY <1>3, <2>1, <2>4, <2>5, <2>6, ExclusiveRead
<1>. QED  BY <1>7, <1>8, <1>9, <1>10

\* A read of a line that the cache of c does not hold, with way w free for it.
LEMMA FilledInv ==
  ASSUME NEW h, HierInv(h), NEW c \in CPU, NEW w \in WaysOf(c), NEW a \in Line,
         a \in Private[c] \cup Common, ~InCache(h, c, a),
         h.way[c][w].addr = a, h.way[c][w].state = "Invalid",
         inclusion \in {"NINE", "Inclusive", "Exclusive"}
  PROVE  LET x == SharedRead(h, a, c)
         IN /\ HierTyped(x) /\ x.way[c][w].addr = a
            /\ HierInv(Fill(x, c, w, "Shared", x.data))
<1>. DEFINE x == SharedRead(h, a, c)
            g == Fill(x, c, w, "Shared", x.data)
            l == h.way[Shared_LLC][LineAt(h, Shared_LLC, a)]
            hit == InCache(h, Shared_LLC, a)
<1>1. /\ HierTyped(h) /\ OneWay(h) /\ OwnLines(h) /\ h.asserts
      /\ inclusion = "Exclusive" => ExclusiveInv(h)
      /\ inclusion = "Inclusive" => InclusiveInv(h)
      /\ inclusion # "Exclusive" => DataInv(h)
  BY DEF HierInv
<1>2. \A y : KnownClean(h, y)
  BY <1>1, KnownAreClean
<1>3. ~Valid(h.way[c][w]) /\ (hit => Valid(l) /\ l.addr = a)
  BY <1>1, InHierarchy, LineAtFacts DEF Valid
<1>4. ASSUME HierTyped(x), x.way[c][w].addr = a
      PROVE  HierTyped(g) /\ Copied(x, g, c, w, a, x.data) /\ g.asserts = x.asserts
  <2>1. x.data \in BOOLEAN /\ "Shared" \in LineState /\ c \in Caches
    BY <1>4, InHierarchy DEF HierTyped, LineState
  <2>. HIDE DEF x
  <2>2. /\ HierTyped(g) /\ g.way[c][w].addr = x.way[c][w].addr /\ g.way[c][w].state = "Shared"
        /\ g.way[c][w].current = x.data
        /\ \A k \in Caches : \A v \in WaysOf(k) : k # c \/ v # w => g.way[k][v] = x.way[k][v]
        /\ g.sharers = x.sharers /\ g.mem = x.mem /\ g.asserts = x.asserts
    BY <1>4, <2>1, FillFields
  <2>. HIDE DEF g
  <2>. QED  BY <1>4, <2>2 DEF Copied
<1>5. CASE hit \/ inclusion # "Exclusive"
  <2>. DEFINE S == SharersThen(h, a, a) \cup {c}
  <2>1. /\ HierTyped(x) /\ x.asserts = h.asserts /\ x.data = IF hit THEN l.current ELSE h.mem[a]
        /\ \E s : /\ Served(h, x, a, s, x.data, S)
                  /\ s = IF inclusion = "Exclusive" THEN "Invalid"
                         ELSE IF hit THEN l.state ELSE "Shared"
    <3>1. HierTyped(h) /\ OneWay(h) /\ (hit \/ (inclusion # "Exclusive" /\ KnownClean(h, l.addr)))
      BY <1>1, <1>2, <1>5
    <3>. QED  BY ONLY <3>1, <1>5, ServedRead, a \in Line, c \in CPU
  <2>2. PICK s : /\ Served(h, x, a, s, x.data, S)
                 /\ inclusion = "Exclusive" => s = "Invalid"
                 /\ inclusion # "Exclusive" => s = IF hit THEN l.state ELSE "Shared"
    BY <2>1
  <2>. HIDE DEF x, g
  <2>3. x.way[c][w].addr = a
    BY <2>2 DEF Served
  <2>4. HierTyped(g) /\ Copied(x, g, c, w, a, x.data) /\ g.asserts
    BY <1>1, <1>4, <2>1, <2>3
  <2>5. /\ OneWay(g) /\ OwnLines(g)
        /\ inclusion = "Exclusive" => ExclusiveInv(g)
        /\ inclusion = "Inclusive" => InclusiveInv(g)
        /\ inclusion # "Exclusive" => DataInv(g)
    <3>1. ASSUME NEW data, Served(h, x, a, s, data, S), Copied(x, g, c, w, a, data),
                 data = IF hit THEN l.current ELSE h.mem[a]
          PROVE  /\ OneWay(g) /\ OwnLines(g)
                 /\ inclusion = "Exclusive" => ExclusiveInv(g)
                 /\ inclusion = "Inclusive" => InclusiveInv(g)
                 /\ inclusion # "Exclusive" => DataInv(g)
      BY <2>2, <3>1, ServedCopied
    <3>. QED  BY <2>1, <2>2, <2>4, <3>1, Zenon
  <2>. QED  BY <2>1, <2>3, <2>4, <2>5 DEF HierInv, g, x
<1>6. CASE ~hit /\ inclusion = "Exclusive"
  <2>1. \A d \in h.sharers[a] : InCache(h, d, a)
    BY <1>1, <1>6 DEF ExclusiveInv, HierTyped
  <2>2. /\ HierTyped(x) /\ x.asserts /\ x.mem = h.mem
        /\ \A k \in Caches : \A v \in WaysOf(k) : x.way[k][v] = h.way[k][v]
        /\ x.sharers = [h.sharers EXCEPT ![a] = h.sharers[a] \cup {c}]
    BY <1>1, <1>6, <2>1, ReadThrough
  <2>. HIDE DEF x, g
  <2>3. x.way[c][w].addr = a
    BY <2>2, InHierarchy
  <2>4. HierTyped(g) /\ Copied(x, g, c, w, a, x.data) /\ g.asserts
    BY <1>4, <2>2, <2>3
  <2>5. OneWay(x) /\ OwnLines(x) /\ ~InCache(x, c, a) /\ ~InCache(x, Shared_LLC, a)
    <3>1. OneWay(x)
      BY <1>1, <2>2 DEF OneWay
    <3>2. OwnLines(x)
      BY <1>1, <2>2, InHierarchy DEF OwnLines
    <3>3. ~InCache(x, c, a)
      BY <2>2, InHierarchy, InCacheWay
    <3>4. ~InCache(x, Shared_LLC, a)
      BY <1>6, <2>2, InHierarchy, InCacheWay
    <3>. QED  BY <3>1, <3>2, <3>3, <3>4
  <2>6. OneWay(g) /\ OwnLines(g)
    BY <2>4, <2>5, CopiedLines
  <2>7. ExclusiveInv(g)
    <3>1. \A y \in Line : x.sharers[y] = IF y = a THEN h.sharers[a] \cup {c} ELSE h.sharers[y]
      BY <1>1, <2>2 DEF HierTyped
    <3>2. \A d \in CPU : \A v \in WaysOf(d) :
            x.way[d][v].addr = h.way[d][v].addr /\ x.way[d][v].state = h.way[d][v].state
      BY <2>2, InHierarchy
    <3>3. \A y \in Line : y # a /\ InCache(x, Shared_LLC, y) => InCache(h, Shared_LLC, y)
      BY <2>2, InHierarchy, InCacheWay
    <3>. QED  BY <1>1, <1>3, <1>6, <2>4, <2>5, <3>1, <3>2, <3>3, ExclusiveRead
  <2>. QED  BY <1>6, <2>2, <2>3, <2>4, <2>6, <2>7 DEF HierInv, g, x
<1>. QED  BY <1>5, <1>6

\* The ranks of the ways and the data of an answer are of no account.
LEMMA SameInv ==
  ASSUME NEW h, HierInv(h), NEW g, HierTyped(g), SameLines(h, g)
  PROVE  HierInv(g)
<1>1. g.way = h.way /\ g.sharers = h.sharers /\ g.mem = h.mem /\ g.asserts = h.asserts
  BY DEF SameLines
<1>2. /\ HierTyped(h) /\ OneWay(h) /\ OwnLines(h) /\ h.asserts
      /\ inclusion = "Exclusive" => ExclusiveInv(h)
      /\ inclusion = "Inclusive" => InclusiveInv(h)
      /\ inclusion # "Exclusive" => DataInv(h)
  BY DEF HierInv
<1>3. OneWay(g) /\ OwnLines(g)
  BY <1>1, <1>2 DEF OneWay, OwnLines
<1>4. \A k, y : InCache(g, k, y) <=> InCache(h, k, y)
  BY <1>1, InCacheWay
<1>5. ExclusiveInv(h) => ExclusiveInv(g)
  BY <1>1, <1>4 DEF ExclusiveInv
<1>6. InclusiveInv(h) => InclusiveInv(g)
  BY <1>1, <1>4 DEF InclusiveInv
<1>7. DataInv(h) => DataInv(g)
  <2>1. \A y : Below(h, y) => Below(g, y)
    BY <1>1, <1>4 DEF Below
  <2>. QED  BY <1>1, <2>1 DEF DataInv
<1>. QED  BY <1>1, <1>2, <1>3, <1>5, <1>6, <1>7 DEF HierInv

\* An access that hits.
LEMMA RankedInv ==
  ASSUME NEW h, HierInv(h), NEW c \in CPU, NEW w \in WaysOf(c)
  PROVE  HierInv(Ranked(h, c, w)) /\ Ranked(h, c, w).way = h.way
<1>1. HierTyped(h) /\ c \in Caches
  BY InHierarchy DEF HierInv
<1>2. HierTyped(Ranked(h, c, w)) /\ SameLines(h, Ranked(h, c, w)) /\ Ranked(h, c, w).way = h.way
  BY <1>1, RankedFields DEF SameLines
<1>. QED  BY <1>2, SameInv

\* A miss of the cache of c: the answer x of the shared cache, and the hierarchy once
\* the line is read into its way.
LEMMA FetchedInv ==
  ASSUME NEW h, HierInv(h), NEW c \in CPU, NEW a \in Line, a \in Private[c] \cup Common,
         ~InCache(h, c, a), inclusion \in {"NINE", "Inclusive", "Exclusive"}
  PROVE  LET w == LineAt(h, c, a)
             x == SharedRead(Room(Ranked(h, c, w), c, w, a), a, c)
         IN /\ w \in WaysOf(c) /\ HierTyped(x) /\ x.way[c][w].addr = a
            /\ HierInv(Fill(x, c, w, "Shared", x.data))
<1>. DEFINE w == LineAt(h, c, a)
            r == Ranked(h, c, w)
            m == Room(r, c, w, a)
<1>1. w \in WaysOf(c)
  BY InHierarchy, LineAtFacts DEF HierInv
<1>. HIDE DEF w
<1>2. HierInv(r) /\ r.way = h.way
  BY <1>1, RankedInv
<1>. HIDE DEF r
<1>3. /\ HierInv(m) /\ m.way[c][w].addr = a /\ m.way[c][w].state = "Invalid"
      /\ \A v \in WaysOf(c) : Valid(m.way[c][v]) =>
           Valid(r.way[c][v]) /\ m.way[c][v].addr = r.way[c][v].addr
  BY <1>1, <1>2, RoomInv
<1>. HIDE DEF m
<1>4. ~InCache(m, c, a)
  BY <1>2, <1>3, InCacheWay
<1>5. /\ HierTyped(SharedRead(m, a, c)) /\ SharedRead(m, a, c).way[c][w].addr = a
      /\ HierInv(Fill(SharedRead(m, a, c), c, w, "Shared", SharedRead(m, a, c).data))
  BY <1>1, <1>3, <1>4, FilledInv
<1>. QED  BY <1>1, <1>5 DEF w, r, m

\* A read leaves the line in the cache that reads.
LEMMA ReadInv ==
  ASSUME NEW h, HierInv(h), NEW c \in CPU, NEW a \in Line, a \in Private[c] \cup Common,
         inclusion \in {"NINE", "Inclusive", "Exclusive"}
  PROVE  HierInv(ReadLine(h, c, a))
<1>. DEFINE w == LineAt(h, c, a)
<1>1. CASE InCache(h, c, a)
  <2>1. w \in WaysOf(c)
    BY InHierarchy, LineAtFacts DEF HierInv
  <2>2. ReadLine(h, c, a) = Ranked(h, c, w)
    BY <1>1 DEF ReadLine
  <2>. HIDE DEF w
  <2>. QED  BY <2>1, <2>2, RankedInv
<1>2. CASE ~InCache(h, c, a)
  <2>. DEFINE x == SharedRead(Room(Ranked(h, c, w), c, w, a), a, c)
  <2>1. HierInv(Fill(x, c, w, "Shared", x.data))
    BY <1>2, FetchedInv
  <2>2. ReadLine(h, c, a) = Fill(x, c, w, "Shared", x.data)
    BY <1>2 DEF ReadLine, Fetched
  <2>. HIDE DEF x, w
  <2>. QED  BY <2>1, <2>2
<1>. QED  BY <1>1, <1>2

-----------------------------------------------------------------------------
\* Which copies a write makes old.
LEMMA OutdatedFields ==
  ASSUME NEW h, HierTyped(h), NEW c \in CPU, NEW a \in Line
  PROVE  LET g == Outdated(h, c, a)
         IN /\ HierTyped(g)
            /\ \A k \in Caches : \A v \in WaysOf(k) :
                 /\ g.way[k][v].addr = h.way[k][v].addr /\ g.way[k][v].state = h.way[k][v].state
                 /\ k # c /\ h.way[k][v].addr = a => ~g.way[k][v].current
                 /\ k = c \/ h.way[k][v].addr # a => g.way[k][v] = h.way[k][v]
            /\ g.sharers = h.sharers /\ g.asserts = h.asserts
            /\ ~g.mem[a] /\ \A y \in Line : y # a => g.mem[y] = h.mem[y]
<1>. DEFINE g == Outdated(h, c, a)
            W == [k \in Caches |-> [w \in WaysOf(k) |->
                    IF k # c /\ h.way[k][w].addr = a THEN [h.way[k][w] EXCEPT !.current = FALSE]
                    ELSE h.way[k][w]]]
            M == [h.mem EXCEPT ![a] = FALSE]
            e == [h EXCEPT !.mem = M]
<1>1. M \in [Line -> BOOLEAN] /\ DOMAIN W = Caches /\ HierRecord(h)
  BY DEF HierTyped
<1>2. \A k \in Caches : W[k] \in [WaysOf(k) -> HierLine]
  <2>1. \A l \in HierLine : [l EXCEPT !.current = FALSE] \in HierLine
    BY DEF HierLine
  <2>2. \A k \in Caches : \A v \in WaysOf(k) : h.way[k][v] \in HierLine
    BY DEF HierTyped
  <2>3. \A k \in Caches : \A v \in WaysOf(k) : W[k][v] \in HierLine
    BY <2>1, <2>2
  <2>. QED  BY <2>3
<1>3. \A k \in Caches : \A v \in WaysOf(k) :
        /\ W[k][v].addr = h.way[k][v].addr /\ W[k][v].state = h.way[k][v].state
        /\ k # c /\ h.way[k][v].addr = a => ~W[k][v].current
        /\ k = c \/ h.way[k][v].addr # a => W[k][v] = h.way[k][v]
  BY DEF HierTyped, HierLine
<1>4. g = [e EXCEPT !.way = W]
  BY DEF Outdated
<1>. HIDE DEF W, M, g
<1>5. e = [way |-> h.way, rank |-> h.rank, victim |-> h.victim, sharers |-> h.sharers,
           mem |-> M, data |-> h.data, asserts |-> h.asserts]
  BY <1>1, RecordUpdates
<1>. HIDE DEF e
<1>6. g = [way |-> W, rank |-> h.rank, victim |-> h.victim, sharers |-> h.sharers,
           mem |-> M, data |-> h.data, asserts |-> h.asserts]
  BY <1>4, <1>5
<1>7. HierTyped(g)
  BY <1>1, <1>2, <1>6 DEF HierTyped, HierRecord
<1>8. ~g.mem[a] /\ \A y \in Line : y # a => g.mem[y] = h.mem[y]
  BY <1>6 DEF M, HierTyped
<1>. QED  BY <1>3, <1>6, <1>7, <1>8 DEF g

\* CPU c wrote line a in way w of its cache, where r has it.
Wrote(r, g, c, w, a) ==
  /\ g.way[c][w].addr = a /\ g.way[c][w].state = "Modified"
  /\ g.way[c][w].current = r.way[c][w].current
  /\ \A k \in Caches : \A v \in WaysOf(k) : k # c \/ v # w =>
       /\ g.way[k][v].addr = r.way[k][v].addr /\ g.way[k][v].state = r.way[k][v].state
       /\ k # c /\ r.way[k][v].addr = a => ~g.way[k][v].current
       /\ k = c \/ r.way[k][v].addr # a => g.way[k][v].current = r.way[k][v].current
  /\ g.sharers = r.sharers /\ g.asserts = r.asserts
  /\ ~g.mem[a] /\ \A y \in Line : y # a => g.mem[y] = r.mem[y]

\* A write into a way that holds the line, or that was fetched for it.
LEMMA WrittenFields ==
  ASSUME NEW f, HierTyped(f), NEW c \in CPU, NEW w \in WaysOf(c), NEW a \in Line,
         NEW r, f.way[c][w].addr = a, f.way[c][w].current = r.way[c][w].current,
         \A k \in Caches : \A v \in WaysOf(k) : k # c \/ v # w => f.way[k][v] = r.way[k][v],
         f.sharers = r.sharers, f.mem = r.mem, f.asserts = r.asserts
  PROVE  LET g == Fill(Outdated(f, c, a), c, w, "Modified", f.way[c][w].current)
         IN HierTyped(g) /\ Wrote(r, g, c, w, a)
<1>. DEFINE o == Outdated(f, c, a)
<1>1. /\ HierTyped(o)
      /\ \A k \in Caches : \A v \in WaysOf(k) :
           /\ o.way[k][v].addr = f.way[k][v].addr /\ o.way[k][v].state = f.way[k][v].state
           /\ k # c /\ f.way[k][v].addr = a => ~o.way[k][v].current
           /\ k = c \/ f.way[k][v].addr # a => o.way[k][v] = f.way[k][v]
      /\ o.sharers = f.sharers /\ o.asserts = f.asserts
      /\ ~o.mem[a] /\ \A y \in Line : y # a => o.mem[y] = f.mem[y]
  BY OutdatedFields
<1>2. f.way[c][w].current \in BOOLEAN /\ "Modified" \in LineState /\ c \in Caches
  BY InHierarchy DEF HierTyped, HierLine, LineState
<1>. HIDE DEF o
<1>3. ASSUME NEW cur \in BOOLEAN, cur = r.way[c][w].current
      PROVE  LET g == Fill(o, c, w, "Modified", cur) IN HierTyped(g) /\ Wrote(r, g, c, w, a)
  <2>. DEFINE g == Fill(o, c, w, "Modified", cur)
  <2>1. /\ HierTyped(g) /\ g.way[c][w].addr = o.way[c][w].addr /\ g.way[c][w].state = "Modified"
        /\ g.way[c][w].current = cur
        /\ \A k \in Caches : \A v \in WaysOf(k) : k # c \/ v # w => g.way[k][v] = o.way[k][v]
        /\ g.sharers = o.sharers /\ g.mem = o.mem /\ g.asserts = o.asserts
    BY <1>1, <1>2, FillFields
  <2>. HIDE DEF g
  <2>2. ~g.mem[a] /\ \A y \in Line : y # a => g.mem[y] = r.mem[y]
    BY <1>1, <2>1
  <2>3. \A k \in Caches : \A v \in WaysOf(k) : k # c \/ v # w =>
          /\ g.way[k][v].addr = r.way[k][v].addr /\ g.way[k][v].state = r.way[k][v].state
          /\ k # c /\ r.way[k][v].addr = a => ~g.way[k][v].current
          /\ k = c \/ r.way[k][v].addr # a => g.way[k][v].current = r.way[k][v].current
    <3>. SUFFICES ASSUME NEW k \in Caches, NEW v \in WaysOf(k), k # c \/ v # w
                  PROVE  /\ g.way[k][v].addr = r.way[k][v].addr
                         /\ g.way[k][v].state = r.way[k][v].state
                         /\ k # c /\ r.way[k][v].addr = a => ~g.way[k][v].current
                         /\ k = c \/ r.way[k][v].addr # a =>
                              g.way[k][v].current = r.way[k][v].current
      OBVIOUS
    <3>1. g.way[k][v] = o.way[k][v]
      BY <2>1
    <3>2. f.way[k][v] = r.way[k][v]
      OBVIOUS
    <3>3. /\ o.way[k][v].addr = f.way[k][v].addr /\ o.way[k][v].state = f.way[k][v].state
          /\ k # c /\ f.way[k][v].addr = a => ~o.way[k][v].current
          /\ k = c \/ f.way[k][v].addr # a => o.way[k][v] = f.way[k][v]
      BY <1>1
    <3>. QED  BY ONLY <3>1, <3>2, <3>3
  <2>4. g.way[c][w].addr = a
    BY <1>1, <1>2, <2>1
  <2>5. /\ HierTyped(g) /\ g.way[c][w].state = "Modified"
        /\ g.way[c][w].current = r.way[c][w].current
        /\ g.sharers = r.sharers /\ g.asserts = r.asserts
    BY <1>1, <1>3, <2>1
  <2>6. Wrote(r, g, c, w, a)
    BY ONLY <2>2, <2>3, <2>4, <2>5 DEF Wrote
  <2>. QED  BY <2>5, <2>6 DEF g
<1>. QED  BY <1>2, <1>3, Zenon DEF o

\* What a write leaves true before an inclusive cache below is told of it.
LEMMA WroteInv ==
  ASSUME NEW r, HierInv(r), NEW c \in CPU, NEW w \in WaysOf(c), NEW a \in Line, a \in Private[c],
         Valid(r.way[c][w]), r.way[c][w].addr = a,
         NEW g, HierTyped(g), Wrote(r, g, c, w, a)
  PROVE  /\ OneWay(g) /\ OwnLines(g) /\ g.asserts
         /\ inclusion = "Exclusive" => ExclusiveInv(g)
         /\ inclusion # "Exclusive" => DataInv(g)
<1>1. /\ OneWay(r) /\ OwnLines(r) /\ r.asserts
      /\ inclusion = "Exclusive" => ExclusiveInv(r)
      /\ inclusion # "Exclusive" => DataInv(r)
  BY DEF HierInv
<1>2. \A k \in Caches : \A v \in WaysOf(k) :
        /\ g.way[k][v].addr = r.way[k][v].addr
        /\ Valid(g.way[k][v]) <=> Valid(r.way[k][v])
        /\ k # c \/ v # w => g.way[k][v].state = r.way[k][v].state
  <2>. SUFFICES ASSUME NEW k \in Caches, NEW v \in WaysOf(k)
                PROVE  /\ g.way[k][v].addr = r.way[k][v].addr
                       /\ Valid(g.way[k][v]) <=> Valid(r.way[k][v])
                       /\ k # c \/ v # w => g.way[k][v].state = r.way[k][v].state
    OBVIOUS
  <2>1. CASE k = c /\ v = w
    BY <2>1 DEF Wrote, Valid
  <2>2. CASE k # c \/ v # w
    BY <2>2 DEF Wrote, Valid
  <2>. QED  BY <2>1, <2>2
<1>3. g.way[c][w].state = "Modified" /\ g.way[c][w].addr = a
      /\ g.sharers = r.sharers /\ g.asserts = r.asserts
  BY DEF Wrote
<1>4. OneWay(g)
  BY <1>1, <1>2 DEF OneWay
<1>5. OwnLines(g)
  <2>. SUFFICES ASSUME NEW d \in CPU, NEW v \in WaysOf(d)
                PROVE  /\ Valid(g.way[d][v]) => g.way[d][v].addr \in Private[d] \cup Common
                       /\ g.way[d][v].state = "Modified" => g.way[d][v].addr \in Private[d]
    BY DEF OwnLines
  <2>1. CASE d = c /\ v = w
    BY <1>3, <2>1
  <2>2. CASE d # c \/ v # w
    <3>1. d \in Caches
      BY InHierarchy
    <3>. QED  BY <1>1, <1>2, <2>2, <3>1 DEF OwnLines
  <2>. QED  BY <2>1, <2>2
<1>6. \A k \in Caches, y \in Line : InCache(g, k, y) <=> InCache(r, k, y)
  BY <1>2, InCacheWay
<1>7. ASSUME inclusion = "Exclusive"  PROVE ExclusiveInv(g)
  BY <1>1, <1>3, <1>6, <1>7, InHierarchy DEF ExclusiveInv
<1>8. ASSUME inclusion # "Exclusive"  PROVE DataInv(g)
  <2>1. DataInv(r)
    BY <1>1, <1>8
  <2>2. ASSUME NEW v \in WaysOf(Shared_LLC), g.way[Shared_LLC][v].state = "Shared"
        PROVE  g.way[Shared_LLC][v].current = g.mem[g.way[Shared_LLC][v].addr]
    <3>. DEFINE l == r.way[Shared_LLC][v]
    <3>1. /\ l.addr \in Line /\ l.state = "Shared" /\ g.way[Shared_LLC][v].addr = l.addr
          /\ g.way[Shared_LLC][v].current \in BOOLEAN
      <4>1. g.way[Shared_LLC][v] \in HierLine
        BY InHierarchy DEF HierTyped
      <4>2. Shared_LLC \in Caches /\ Shared_LLC # c
        BY InHierarchy
      <4>3. g.way[Shared_LLC][v].addr = l.addr /\ g.way[Shared_LLC][v].state = l.state
        BY <1>2, <4>2
      <4>. QED  BY <2>2, <4>1, <4>3 DEF HierLine
    <3>2. l.current = r.mem[l.addr]
      BY <2>1, <3>1 DEF DataInv
    <3>3. CASE l.addr = a
      <4>1. ~g.way[Shared_LLC][v].current /\ ~g.mem[a] /\ g.mem[a] \in BOOLEAN
        BY <3>3, InHierarchy DEF Wrote, HierTyped
      <4>. QED  BY <3>1, <3>3, <4>1
    <3>4. CASE l.addr # a
      <4>1. g.way[Shared_LLC][v].current = l.current
        BY <3>4, InHierarchy DEF Wrote
      <4>2. g.mem[l.addr] = r.mem[l.addr]
        BY <3>1, <3>4 DEF Wrote
      <4>. QED  BY <3>1, <3>2, <4>1, <4>2
    <3>. QED  BY <3>3, <3>4
  <2>3. ASSUME NEW d \in CPU, NEW v \in WaysOf(d), Valid(g.way[d][v]),
               g.way[d][v].addr \in Private[d]
        PROVE  g.way[d][v].current
    <3>1. d \in Caches /\ Valid(r.way[d][v]) /\ g.way[d][v].addr = r.way[d][v].addr
      BY <1>2, <2>3, InHierarchy
    <3>2. r.way[d][v].current
      BY <2>1, <2>3, <3>1 DEF DataInv
    <3>3. d # c => r.way[d][v].addr # a
      BY <2>3, <3>1, HierarchyAssumption
    <3>4. g.way[d][v].current = r.way[d][v].current
      <4>1. CASE d = c /\ v = w
        BY <4>1 DEF Wrote
      <4>2. CASE d # c \/ v # w
        BY <3>1, <3>3, <4>2 DEF Wrote
      <4>. QED  BY <4>1, <4>2
    <3>. QED  BY <3>2, <3>4
  <2>4. ASSUME NEW d \in CPU, NEW y \in Private[d]
        PROVE  \/ \E v \in WaysOf(d) : g.way[d][v].addr = y /\ g.way[d][v].state = "Modified"
               \/ Below(g, y)
    <3>0. y \in Line /\ d \in Caches /\ Shared_LLC \in Caches /\ Shared_LLC # c
      BY InHierarchy DEF Line
    <3>1. CASE y = a
      <4>1. d = c
        BY <3>1, HierarchyAssumption
      <4>. QED  BY <1>3, <3>1, <4>1
    <3>2. CASE y # a /\ \E v \in WaysOf(d) : r.way[d][v].addr = y /\ r.way[d][v].state = "Modified"
      <4>1. PICK v \in WaysOf(d) : r.way[d][v].addr = y /\ r.way[d][v].state = "Modified"
        BY <3>2
      <4>2. d # c \/ v # w
        BY <3>2, <4>1
      <4>3. g.way[d][v].addr = y /\ g.way[d][v].state = "Modified"
        BY <1>2, <3>0, <4>1, <4>2
      <4>. QED  BY <4>3
    <3>3. CASE y # a /\ Below(r, y)
      <4>1. \A v \in WaysOf(Shared_LLC) : r.way[Shared_LLC][v].addr = y =>
              g.way[Shared_LLC][v].current = r.way[Shared_LLC][v].current
        BY <3>0, <3>3 DEF Wrote
      <4>2. \A v \in WaysOf(Shared_LLC) :
              Valid(g.way[Shared_LLC][v]) /\ g.way[Shared_LLC][v].addr = y =>
                g.way[Shared_LLC][v].current
        BY <1>2, <3>0, <3>3, <4>1 DEF Below
      <4>3. g.mem[y] = r.mem[y]
        BY <3>0, <3>3 DEF Wrote
      <4>4. InCache(g, Shared_LLC, y) <=> InCache(r, Shared_LLC, y)
        BY <1>6, <3>0
      <4>. QED  BY <3>3, <4>2, <4>3, <4>4 DEF Below
    <3>. QED  BY <2>1, <3>1, <3>2, <3>3 DEF DataInv
  <2>. QED  BY <2>2, <2>3, <2>4 DEF DataInv
<1>. QED  BY <1>1, <1>3, <1>4, <1>5, <1>7, <1>8

\* No copy an inclusive cache knows of is modified, but the one just written.
LEMMA WroteClean ==
  ASSUME NEW r, HierTyped(r), OneWay(r), inclusion = "Inclusive", InclusiveInv(r),
         NEW c \in CPU, NEW w \in WaysOf(c), NEW a \in Line,
         NEW g, HierTyped(g), OneWay(g), Wrote(r, g, c, w, a)
  PROVE  \/ InCache(g, Shared_LLC, a)
         \/ KnownClean(g, g.way[Shared_LLC][LineAt(g, Shared_LLC, a)].addr)
<1>. DEFINE b == g.way[Shared_LLC][LineAt(g, Shared_LLC, a)].addr
<1>. SUFFICES ASSUME ~InCache(g, Shared_LLC, a), NEW d \in CPU, NEW v \in WaysOf(d),
                     Known(g, b, d, v), g.way[d][v].state = "Modified"
              PROVE  FALSE
  BY DEF KnownClean
<1>1. g.sharers = r.sharers /\ \A u \in WaysOf(Shared_LLC) :
        g.way[Shared_LLC][u].addr = r.way[Shared_LLC][u].addr
        /\ g.way[Shared_LLC][u].state = r.way[Shared_LLC][u].state
  BY InHierarchy DEF Wrote
<1>2. ~InCache(r, Shared_LLC, a)
  BY <1>1, InCacheWay DEF Valid
<1>3. g.sharers[a] = {}
  BY <1>1, <1>2 DEF InclusiveInv
<1>4. d \in g.sharers[b] /\ g.way[d][v].addr = b
  BY DEF Known
<1>. HIDE DEF b
<1>5. CASE d = c /\ v = w
  <2>1. b = a
    BY <1>4, <1>5 DEF Wrote
  <2>. QED  BY <1>3, <1>4, <2>1
<1>6. CASE d # c \/ v # w
  <2>1. r.way[d][v].addr = b /\ r.way[d][v].state = "Modified"
    BY <1>4, <1>6, InHierarchy DEF Wrote
  <2>. QED  BY <1>1, <1>4, <2>1 DEF InclusiveInv
<1>. QED  BY <1>5, <1>6

\* Inclusion once the shared cache is told of the write.
LEMMA InclusiveWritten ==
  ASSUME NEW r, HierTyped(r), OneWay(r), inclusion = "Inclusive", InclusiveInv(r),
         NEW c \in CPU, NEW w \in WaysOf(c), NEW a \in Line,
         Valid(r.way[c][w]), r.way[c][w].addr = a,
         NEW h, HierTyped(h), OneWay(h), Wrote(r, h, c, w, a),
         NEW g, NEW cur, Served(h, g, a, "Modified", cur, SharersThen(h, a, a) \ {c})
  PROVE  InclusiveInv(g)
<1>. DEFINE l == h.way[Shared_LLC][LineAt(h, Shared_LLC, a)]
            out == ~InCache(h, Shared_LLC, a)
<1>1. \A d \in CPU : \A v \in WaysOf(d) :
        /\ g.way[d][v].addr = h.way[d][v].addr
        /\ g.way[d][v].state = IF out /\ Known(h, l.addr, d, v) THEN "Invalid"
                               ELSE h.way[d][v].state
  BY DEF Served
<1>2. \A y \in Line : g.sharers[y] = IF y = a THEN SharersThen(h, a, a) \ {c}
                                     ELSE SharersThen(h, a, y)
  BY DEF Served
<1>3. \A y \in Line : SharersThen(h, a, y) = IF out /\ y = l.addr THEN {} ELSE h.sharers[y]
  BY DEF SharersThen
<1>4. h.sharers = r.sharers /\ h.way[c][w].addr = a /\ h.way[c][w].state = "Modified"
  BY DEF Wrote
<1>5. \A d \in CPU : \A v \in WaysOf(d) :
        /\ h.way[d][v].addr = r.way[d][v].addr
        /\ d # c \/ v # w => h.way[d][v].state = r.way[d][v].state
  BY InHierarchy DEF Wrote
<1>. HIDE DEF l, out
<1>6. ASSUME NEW d \in CPU, NEW v \in WaysOf(d)
      PROVE  /\ g.way[d][v].state = "Shared" => d \in g.sharers[g.way[d][v].addr]
             /\ g.way[d][v].state = "Modified" => d \notin g.sharers[g.way[d][v].addr]
  <2>. DEFINE y == h.way[d][v].addr
  <2>1. y \in Line /\ g.way[d][v].addr = y /\ d \in Caches
    BY <1>1, InHierarchy DEF HierTyped, HierLine
  <2>2. CASE d = c /\ v = w
    <3>1. y = a /\ g.way[d][v].state # "Shared"
      BY <1>1, <1>4, <2>2
    <3>. QED  BY <1>2, <2>1, <2>2, <3>1
  <2>3. CASE (d # c \/ v # w) /\ g.way[d][v].state = "Shared"
    <3>1. h.way[d][v].state = "Shared" /\ ~(out /\ Known(h, l.addr, d, v))
      BY <1>1, <2>3
    <3>2. r.way[d][v].state = "Shared" /\ r.way[d][v].addr = y
      BY <1>5, <2>3, <3>1
    <3>3. d \in h.sharers[y]
      BY <1>4, <3>2 DEF InclusiveInv
    <3>4. ~(out /\ y = l.addr)
      BY <3>1, <3>3 DEF Known, Valid
    <3>5. d \in SharersThen(h, a, y)
      BY <1>3, <2>1, <3>3, <3>4
    <3>6. y = a => d # c
      BY <2>1, <2>3, <3>2 DEF OneWay, Valid
    <3>. QED  BY <1>2, <2>1, <2>3, <3>5, <3>6
  <2>4. CASE (d # c \/ v # w) /\ g.way[d][v].state = "Modified"
    <3>1. h.way[d][v].state = "Modified"
      BY <1>1, <2>4
    <3>2. r.way[d][v].state = "Modified" /\ r.way[d][v].addr = y
      BY <1>5, <2>4, <3>1
    <3>3. d \notin h.sharers[y]
      BY <1>4, <3>2 DEF InclusiveInv
    <3>4. d \notin SharersThen(h, a, y)
      BY <1>3, <2>1, <3>3
    <3>. QED  BY <1>2, <2>1, <2>4, <3>4
  <2>. QED  BY <2>2, <2>3, <2>4
<1>7. ASSUME NEW y \in Line, g.sharers[y] # {}  PROVE InCache(g, Shared_LLC, y)
  <2>1. CASE y = a
    BY <2>1, ServedBelow
  <2>2. CASE y # a
    <3>1. h.sharers[y] # {} /\ ~(out /\ y = l.addr)
      BY <1>2, <1>3, <1>7, <2>2
    <3>2. InCache(r, Shared_LLC, y)
      BY <1>4, <3>1 DEF InclusiveInv
    <3>3. \A v \in WaysOf(Shared_LLC) : h.way[Shared_LLC][v].addr = r.way[Shared_LLC][v].addr
            /\ h.way[Shared_LLC][v].state = r.way[Shared_LLC][v].state
      BY InHierarchy DEF Wrote
    <3>4. InCache(h, Shared_LLC, y)
      BY <3>2, <3>3, InCacheWay DEF Valid
    <3>. QED  BY <2>2, <3>1, <3>4, ServedBelow DEF l, out
  <2>. QED  BY <2>1, <2>2
<1>. QED  BY <1>6, <1>7 DEF InclusiveInv

\* The data once the shared cache is told of a write.
LEMMA DataWritten ==
  ASSUME NEW h, HierTyped(h), OneWay(h), OwnLines(h), DataInv(h),
         NEW c \in CPU, NEW w \in WaysOf(c), NEW a \in Line, a \in Private[c],
         h.way[c][w].addr = a, h.way[c][w].state = "Modified",
         \/ InCache(h, Shared_LLC, a)
         \/ KnownClean(h, h.way[Shared_LLC][LineAt(h, Shared_LLC, a)].addr),
         NEW g, NEW cur, NEW S, Served(h, g, a, "Modified", cur, S)
  PROVE  DataInv(g)
<1>1. \A d \in CPU : \A v \in WaysOf(d) :
        /\ g.way[d][v].addr = h.way[d][v].addr /\ g.way[d][v].current = h.way[d][v].current
        /\ h.way[d][v].state = "Modified" <=> g.way[d][v].state = "Modified"
        /\ Valid(g.way[d][v]) => g.way[d][v].state = h.way[d][v].state
  BY ServedAbove
<1>2. \A v \in WaysOf(Shared_LLC) : h.way[Shared_LLC][v].state = "Shared" =>
        h.way[Shared_LLC][v].current = h.mem[h.way[Shared_LLC][v].addr]
  BY DEF DataInv
<1>3. \A v \in WaysOf(Shared_LLC) : g.way[Shared_LLC][v].state = "Shared" =>
        g.way[Shared_LLC][v].current = g.mem[g.way[Shared_LLC][v].addr]
  BY <1>2, CleanKept
<1>4. ASSUME NEW d \in CPU, NEW v \in WaysOf(d), Valid(g.way[d][v]), g.way[d][v].addr \in Private[d]
      PROVE  g.way[d][v].current
  <2>1. Valid(h.way[d][v]) /\ h.way[d][v].addr \in Private[d]
        /\ g.way[d][v].current = h.way[d][v].current
    BY <1>1, <1>4 DEF Valid
  <2>2. h.way[d][v].current
    BY <2>1 DEF DataInv
  <2>. QED  BY <2>1, <2>2
<1>5. ASSUME NEW d \in CPU, NEW y \in Private[d]
      PROVE  \/ \E v \in WaysOf(d) : g.way[d][v].addr = y /\ g.way[d][v].state = "Modified"
             \/ Below(g, y)
  <2>0. y \in Line
    BY DEF Line
  <2>1. CASE y = a
    <3>1. d = c
      BY <2>1, HierarchyAssumption
    <3>2. g.way[c][w].addr = a /\ g.way[c][w].state = "Modified"
      BY <1>1
    <3>. QED  BY <2>1, <3>1, <3>2
  <2>2. CASE y # a /\ Below(h, y)
    <3>1. Below(g, y)
      BY <1>2, <2>0, <2>2, BelowKept
    <3>. QED  BY <3>1
  <2>3. CASE y # a /\ ~Below(h, y)
    <3>1. PICK v \in WaysOf(d) : h.way[d][v].addr = y /\ h.way[d][v].state = "Modified"
      BY <2>3 DEF DataInv
    <3>2. g.way[d][v].addr = y /\ g.way[d][v].state = "Modified"
      BY <1>1, <3>1
    <3>. QED  BY <3>2
  <2>. QED  BY <2>1, <2>2, <2>3
<1>. QED  BY <1>3, <1>4, <1>5 DEF DataInv

\* Once the line is in the cache of c, it is written, there and in an inclusive cache below.
LEMMA WrittenInv ==
  ASSUME NEW r, HierInv(r), NEW c \in CPU, NEW w \in WaysOf(c), NEW a \in Line, a \in Private[c],
         Valid(r.way[c][w]), r.way[c][w].addr = a, NEW cur \in BOOLEAN,
         NEW h, HierTyped(h), Wrote(r, h, c, w, a)
  PROVE  HierInv(IF inclusion = "Inclusive" THEN SharedWrite(h, a, c, cur) ELSE h)
<1>1. /\ OneWay(h) /\ OwnLines(h) /\ h.asserts
      /\ inclusion = "Exclusive" => ExclusiveInv(h)
      /\ inclusion # "Exclusive" => DataInv(h)
  BY WroteInv
<1>2. CASE inclusion # "Inclusive"
  BY <1>1, <1>2 DEF HierInv
<1>3. CASE inclusion = "Inclusive"
  <2>. DEFINE g == SharedWrite(h, a, c, cur)
              S == SharersThen(h, a, a) \ {c}
  <2>1. /\ HierTyped(r) /\ OneWay(r) /\ InclusiveInv(r) /\ DataInv(h)
        /\ h.way[c][w].addr = a /\ h.way[c][w].state = "Modified"
    BY <1>1, <1>3 DEF HierInv, Wrote
  <2>2. \/ InCache(h, Shared_LLC, a)
        \/ KnownClean(h, h.way[Shared_LLC][LineAt(h, Shared_LLC, a)].addr)
    BY <1>1, <1>3, <2>1, WroteClean
  <2>3. HierTyped(g) /\ g.asserts = h.asserts /\ Served(h, g, a, "Modified", cur, S)
    <3>1. HierTyped(g) /\ g.asserts = h.asserts
      BY <1>1, <2>2, ServedWrite
    <3>2. Served(h, g, a, "Modified", cur, S)
      BY <1>1, <1>3, <2>2, ServedWrite
    <3>. QED  BY <3>1, <3>2
  <2>. HIDE DEF g
  <2>4. InclusiveInv(g)
    BY <1>1, <1>3, <2>1, <2>3, InclusiveWritten
  <2>. HIDE DEF S
  <2>5. DataInv(g)
    BY <1>1, <2>1, <2>2, <2>3, DataWritten
  <2>6. OneWay(g) /\ OwnLines(g)
    BY <1>1, <2>2, <2>3, ServedAbove
  <2>. QED  BY <1>1, <1>3, <2>3, <2>4, <2>5, <2>6 DEF HierInv, g
<1>. QED  BY <1>2, <1>3

\* A write of a CPU keeps what holds of the hierarchy.
LEMMA WriteInv ==
  ASSUME NEW h, HierInv(h), NEW c \in CPU, NEW a \in Line, a \in Private[c],
         inclusion \in {"NINE", "Inclusive", "Exclusive"}
  PROVE  HierInv(WriteLine(h, c, a))
<1>. DEFINE w == LineAt(h, c, a)
            x == SharedRead(Room(Ranked(h, c, w), c, w, a), a, c)
            f == IF InCache(h, c, a) THEN Ranked(h, c, w) ELSE Fetched(h, c, w, a, "Invalid")
            g == Fill(Outdated(f, c, a), c, w, "Modified", f.way[c][w].current)
<1>1. w \in WaysOf(c) /\ c \in Caches
  BY InHierarchy, LineAtFacts DEF HierInv
<1>2. \E r : /\ HierInv(r) /\ HierTyped(f) /\ Valid(r.way[c][w]) /\ r.way[c][w].addr = a
             /\ f.way[c][w].addr = a /\ f.way[c][w].current = r.way[c][w].current
             /\ \A k \in Caches : \A v \in WaysOf(k) : k # c \/ v # w => f.way[k][v] = r.way[k][v]
             /\ f.sharers = r.sharers /\ f.mem = r.mem /\ f.asserts = r.asserts
  <2>1. CASE InCache(h, c, a)
    <3>1. Valid(h.way[c][w]) /\ h.way[c][w].addr = a
      BY <1>1, <2>1, LineAtFacts DEF HierInv
    <3>2. f = Ranked(h, c, w)
      BY <2>1
    <3>. HIDE DEF w, f
    <3>3. HierInv(f) /\ f.way = h.way
      BY <1>1, <3>2, RankedInv
    <3>. QED  BY <3>1, <3>3 DEF HierInv
  <2>2. CASE ~InCache(h, c, a)
    <3>. DEFINE r == Fill(x, c, w, "Shared", x.data)
    <3>1. HierTyped(x) /\ x.way[c][w].addr = a /\ HierInv(r)
      BY <2>2, FetchedInv
    <3>2. f = Fill(x, c, w, "Invalid", x.data)
      BY <2>2 DEF Fetched
    <3>. HIDE DEF w, f, x
    <3>3. x.data \in BOOLEAN /\ "Shared" \in LineState /\ "Invalid" \in LineState
      BY <3>1 DEF HierTyped, LineState
    <3>4. ASSUME NEW s \in LineState
          PROVE  LET t == Fill(x, c, w, s, x.data)
                 IN /\ HierTyped(t) /\ t.way[c][w].addr = a /\ t.way[c][w].state = s
                    /\ t.way[c][w].current = x.data
                    /\ \A k \in Caches : \A v \in WaysOf(k) :
                         k # c \/ v # w => t.way[k][v] = x.way[k][v]
                    /\ t.sharers = x.sharers /\ t.mem = x.mem /\ t.asserts = x.asserts
      BY <1>1, <3>1, <3>3, FillFields
    <3>5. /\ Valid(r.way[c][w]) /\ r.way[c][w].addr = a /\ r.way[c][w].current = x.data
          /\ \A k \in Caches : \A v \in WaysOf(k) : k # c \/ v # w => r.way[k][v] = x.way[k][v]
          /\ r.sharers = x.sharers /\ r.mem = x.mem /\ r.asserts = x.asserts
      BY <3>3, <3>4 DEF Valid
    <3>. HIDE DEF r
    <3>6. /\ HierTyped(f) /\ f.way[c][w].addr = a /\ f.way[c][w].current = x.data
          /\ \A k \in Caches : \A v \in WaysOf(k) : k # c \/ v # w => f.way[k][v] = x.way[k][v]
          /\ f.sharers = x.sharers /\ f.mem = x.mem /\ f.asserts = x.asserts
      BY <3>2, <3>3, <3>4
    <3>7. /\ f.way[c][w].current = r.way[c][w].current
          /\ \A k \in Caches : \A v \in WaysOf(k) : k # c \/ v # w => f.way[k][v] = r.way[k][v]
          /\ f.sharers = r.sharers /\ f.mem = r.mem /\ f.asserts = r.asserts
      BY <3>5, <3>6
    <3>. QED  BY <3>1, <3>5, <3>6, <3>7
  <2>. QED  BY <2>1, <2>2
<1>3. WriteLine(h, c, a) =
        IF inclusion = "Inclusive" THEN SharedWrite(g, a, c, f.way[c][w].current) ELSE g
  BY DEF WriteLine
<1>. HIDE DEF w, f
<1>4. PICK r : /\ HierInv(r) /\ HierTyped(f) /\ Valid(r.way[c][w]) /\ r.way[c][w].addr = a
               /\ f.way[c][w].addr = a /\ f.way[c][w].current = r.way[c][w].current
               /\ \A k \in Caches : \A v \in WaysOf(k) : k # c \/ v # w => f.way[k][v] = r.way[k][v]
               /\ f.sharers = r.sharers /\ f.mem = r.mem /\ f.asserts = r.asserts
  BY <1>2
<1>5. HierTyped(g) /\ Wrote(r, g, c, w, a)
  BY <1>1, <1>4, WrittenFields
<1>6. f.way[c][w].current \in BOOLEAN
  BY <1>1, <1>4 DEF HierTyped, HierLine
<1>. HIDE DEF g
<1>7. ASSUME NEW cur \in BOOLEAN
      PROVE  HierInv(IF inclusion = "Inclusive" THEN SharedWrite(g, a, c, cur) ELSE g)
  BY <1>1, <1>4, <1>5, WrittenInv
<1>. QED  BY <1>3, <1>6, <1>7, Zenon

-----------------------------------------------------------------------------
\* What holds of the hierarchy between two accesses.
HierarchyInv == inclusion \in {"NINE", "Inclusive", "Exclusive"} /\ HierInv(hier)

\* Empty caches above a current memory satisfy the invariant.
LEMMA InitHierarchy ==
  HierInit => HierarchyInv
<1>. SUFFICES ASSUME HierInit  PROVE HierarchyInv
  OBVIOUS
<1>1. PICK zero \in Line :
       hier = [way |-> [k \in Caches |-> [w \in WaysOf(k) |->
                          [addr |-> zero, state |-> "Invalid", current |-> FALSE]]],
               rank |-> [k \in Caches |-> [w \in WaysOf(k) |-> Assoc[k] - w - 1]],
               victim |-> [k \in Caches |-> 0],
               sharers |-> [a \in Line |-> {}],
               mem |-> [a \in Line |-> TRUE],
               data |-> TRUE, asserts |-> TRUE]
  BY DEF HierInit
<1>2. \A k \in Caches : Assoc[k] \in Nat \ {0} /\ 0 \in WaysOf(k)
        /\ \A w \in WaysOf(k) : Assoc[k] - w - 1 \in WaysOf(k)
  BY HierarchyAssumption DEF WaysOf
<1>3. /\ hier.way = [k \in Caches |-> [w \in WaysOf(k) |->
                       [addr |-> zero, state |-> "Invalid", current |-> FALSE]]]
      /\ hier.rank = [k \in Caches |-> [w \in WaysOf(k) |-> Assoc[k] - w - 1]]
      /\ hier.victim = [k \in Caches |-> 0]
      /\ hier.sharers = [a \in Line |-> {}] /\ hier.mem = [a \in Line |-> TRUE]
      /\ hier.data /\ hier.asserts /\ hier.data \in BOOLEAN /\ hier.asserts \in BOOLEAN
      /\ HierRecord(hier)
  BY <1>1 DEF HierRecord
<1>4. [addr |-> zero, state |-> "Invalid", current |-> FALSE] \in HierLine
  BY DEF HierLine, LineState
<1>5. HierTyped(hier)
  <2>1. \A k \in Caches : hier.way[k] \in [WaysOf(k) -> HierLine]
    BY <1>3, <1>4
  <2>2. \A k \in Caches : hier.rank[k] \in [WaysOf(k) -> WaysOf(k)] /\ hier.victim[k] \in WaysOf(k)
    BY <1>2, <1>3
  <2>3. hier.mem \in [Line -> BOOLEAN] /\ hier.sharers \in [Line -> SUBSET CPU]
    BY <1>3
  <2>. QED  BY <1>3, <2>1, <2>2, <2>3 DEF HierTyped
<1>6. \A k \in Caches : \A w \in WaysOf(k) :
        ~Valid(hier.way[k][w]) /\ hier.way[k][w].state = "Invalid"
  BY <1>3 DEF Valid
<1>7. \A k \in Caches : \A y : ~InCache(hier, k, y)
  BY <1>6, InCacheWay
<1>8. OneWay(hier) /\ OwnLines(hier)
  BY <1>6, InHierarchy DEF OneWay, OwnLines
<1>9. ExclusiveInv(hier)
  BY <1>3, <1>7, InHierarchy DEF ExclusiveInv
<1>10. InclusiveInv(hier)
  BY <1>3, <1>6, InHierarchy DEF InclusiveInv
<1>11. DataInv(hier)
  <2>1. \A c \in CPU : \A a \in Private[c] : Below(hier, a)
    <3>. SUFFICES ASSUME NEW c \in CPU, NEW a \in Private[c]  PROVE Below(hier, a)
      OBVIOUS
    <3>1. a \in Line
      BY DEF Line
    <3>2. hier.mem[a]
      BY <1>3, <3>1
    <3>. QED  BY <1>6, <3>2, InHierarchy DEF Below
  <2>. QED  BY <1>6, <2>1, InHierarchy DEF DataInv
<1>. QED  BY <1>3, <1>5, <1>8, <1>9, <1>10, <1>11 DEF HierInit, HierarchyInv, HierInv

\* The data of the last answer is of no account.
LEMMA DataInvKept ==
  ASSUME NEW h, HierInv(h)
  PROVE  HierInv([h EXCEPT !.data = TRUE])
<1>. DEFINE g == [h EXCEPT !.data = TRUE]
<1>1. HierTyped(h)
  BY DEF HierInv
<1>2. HierTyped(g) /\ SameLines(h, g)
  BY <1>1, DataFields DEF SameLines
<1>. HIDE DEF g
<1>3. HierInv(g)
  BY <1>2, SameInv
<1>. QED  BY <1>3 DEF g

\* Every access keeps the invariant.
LEMMA NextHierarchy ==
  HierarchyInv /\ [HierNext]_hierVars => HierarchyInv'
<1>. SUFFICES ASSUME HierarchyInv, [HierNext]_hierVars  PROVE HierarchyInv'
  OBVIOUS
<1>1. HierInv(hier) /\ inclusion \in {"NINE", "Inclusive", "Exclusive"}
  BY DEF HierarchyInv
<1>2. ASSUME NEW h, HierInv(h), hier' = h, inclusion' = inclusion
      PROVE  HierarchyInv'
  <2>1. HierInv(h)' <=> HierInv(h)
    BY <1>2 DEF HierInv
  <2>. QED  BY <1>1, <1>2, <2>1 DEF HierarchyInv
<1>3. ASSUME NEW c \in CPU, NEW a \in Line, CpuRead(c, a)  PROVE HierarchyInv'
  <2>1. /\ a \in Private[c] \cup Common /\ hier' = [ReadLine(hier, c, a) EXCEPT !.data = TRUE]
        /\ inclusion' = inclusion
    BY <1>3 DEF CpuRead
  <2>2. HierInv([ReadLine(hier, c, a) EXCEPT !.data = TRUE])
    BY <1>1, <2>1, ReadInv, DataInvKept
  <2>. QED  BY <1>2, <2>1, <2>2
<1>4. ASSUME NEW c \in CPU, NEW a \in Line, CpuWrite(c, a)  PROVE HierarchyInv'
  <2>1. /\ a \in Private[c] /\ hier' = [WriteLine(hier, c, a) EXCEPT !.data = TRUE]
        /\ inclusion' = inclusion
    BY <1>4 DEF CpuWrite
  <2>2. HierInv([WriteLine(hier, c, a) EXCEPT !.data = TRUE])
    BY <1>1, <2>1, WriteInv, DataInvKept
  <2>. QED  BY <1>2, <2>1, <2>2
<1>5. CASE UNCHANGED hierVars
  <2>1. hier' = hier /\ inclusion' = inclusion
    BY <1>5 DEF hierVars
  <2>. QED  BY <1>1, <1>2, <2>1
<1>. QED  BY <1>3, <1>4, <1>5 DEF HierNext

\* What the invariant says of the copies that the properties are about.
LEMMA CopiesOfHierarchy ==
  HierarchyInv => HierTypeOK /\ ExclusionExact /\ NewestKept /\ CleanIncluded
<1>. SUFFICES ASSUME HierarchyInv
              PROVE  HierTypeOK /\ ExclusionExact /\ NewestKept /\ CleanIncluded
  OBVIOUS
<1>1. /\ HierTyped(hier) /\ OneWay(hier) /\ OwnLines(hier) /\ hier.asserts
      /\ inclusion = "Exclusive" => ExclusiveInv(hier)
      /\ inclusion = "Inclusive" => InclusiveInv(hier)
      /\ inclusion # "Exclusive" => DataInv(hier)
      /\ inclusion \in {"NINE", "Inclusive", "Exclusive"}
  BY DEF HierarchyInv, HierInv
<1>2. HierTypeOK
  BY <1>1 DEF HierTypeOK, HierTyped, HierLine, LineState
<1>3. \A k \in Caches, a \in Line : Holds(k, a) =>
        \E w \in WaysOf(k) : /\ Valid(hier.way[k][w]) /\ hier.way[k][w].addr = a
                             /\ Copy(k, a) = hier.way[k][w]
  BY <1>1, LineAtFacts DEF Holds, Copy
<1>4. ExclusionExact
  <2>1. ExclusionKept
    BY <1>1 DEF ExclusionKept, ExclusiveInv, Holds
  <2>2. SharersExact
    BY <1>1 DEF SharersExact, ExclusiveInv, Holds
  <2>. QED  BY <1>1, <1>2, <2>1, <2>2 DEF ExclusionExact, HierAssertsHold
<1>5. CleanIncluded
  <2>. SUFFICES ASSUME inclusion = "Inclusive", NEW c \in CPU, NEW a \in Line, Holds(c, a),
                       Copy(c, a).state = "Shared"
                PROVE  Holds(Shared_LLC, a)
    BY DEF CleanIncluded
  <2>1. PICK w \in WaysOf(c) : hier.way[c][w].addr = a /\ hier.way[c][w].state = "Shared"
    BY <1>3, InHierarchy
  <2>2. c \in hier.sharers[a]
    BY <1>1, <2>1 DEF InclusiveInv
  <2>. QED  BY <1>1, <2>2 DEF InclusiveInv, Holds
<1>6. NewestKept
  <2>. SUFFICES ASSUME inclusion # "Exclusive", NEW c \in CPU, NEW a \in Private[c]
                PROVE  Visible(c, a)
    BY DEF NewestKept
  <2>0. a \in Line /\ c \in Caches /\ DataInv(hier) /\ Shared_LLC \in Caches
    BY <1>1, InHierarchy DEF Line
  <2>1. CASE Holds(c, a)
    <3>1. PICK w \in WaysOf(c) : /\ Valid(hier.way[c][w]) /\ hier.way[c][w].addr = a
                                 /\ Copy(c, a) = hier.way[c][w]
      BY <1>3, <2>0, <2>1
    <3>2. hier.way[c][w].current
      BY <2>0, <3>1 DEF DataInv
    <3>3. Visible(c, a) = Copy(c, a).current
      BY <2>1 DEF Visible
    <3>. QED  BY <3>1, <3>2, <3>3
  <2>2. CASE ~Holds(c, a)
    <3>1. Below(hier, a)
      <4>1. \A w \in WaysOf(c) : hier.way[c][w].addr = a => hier.way[c][w].state # "Modified"
        BY <2>2, InCacheWay DEF Holds, Valid
      <4>. QED  BY <2>0, <4>1 DEF DataInv
    <3>2. CASE Holds(Shared_LLC, a)
      <4>1. PICK w \in WaysOf(Shared_LLC) :
              /\ Valid(hier.way[Shared_LLC][w]) /\ hier.way[Shared_LLC][w].addr = a
              /\ Copy(Shared_LLC, a) = hier.way[Shared_LLC][w]
        BY <1>3, <2>0, <3>2
      <4>2. hier.way[Shared_LLC][w].current
        BY <3>1, <4>1 DEF Below
      <4>3. Visible(c, a) = Copy(Shared_LLC, a).current
        BY <2>2, <3>2 DEF Visible
      <4>. QED  BY <4>1, <4>2, <4>3
    <3>3. CASE ~Holds(Shared_LLC, a)
      <4>1. hier.mem[a]
        BY <3>1, <3>3 DEF Below, Holds
      <4>2. Visible(c, a) = hier.mem[a]
        BY <2>2, <3>3 DEF Visible
      <4>. QED  BY <4>1, <4>2
    <3>. QED  BY <3>2, <3>3
  <2>. QED  BY <2>1, <2>2
<1>. QED  BY <1>2, <1>4, <1>5, <1>6

\* The inductive invariant holds at every access of HierSpec.
LEMMA HierarchyInvariance ==
  HierSpec => []HierarchyInv
BY InitHierarchy, NextHierarchy, PTL DEF HierSpec

\* Under exclusion no line is both in the shared cache and above it, the directory names
\* exactly the caches that hold a line, and the asserts of accessNonCoherentCache hold;
\* of every policy, ways, ranks and victims stay inside their sets.
THEOREM ExclusionIsExact ==
  HierSpec => []ExclusionExact
BY HierarchyInvariance, CopiesOfHierarchy, PTL

\* A CPU finds what it wrote last, whatever evictions, write-backs and invalidations of
\* accessNonCoherentCache came between, above a shared cache that is inclusive or
\* neither, of any size and below any number of CPUs.
THEOREM NewestIsKept ==
  HierSpec => []NewestKept
BY HierarchyInvariance, CopiesOfHierarchy, PTL

\* An inclusive cache has every line that a cache above it holds clean
\* (accessNonCoherentCache).
THEOREM CleanAreIncluded ==
  HierSpec => []CleanIncluded
BY HierarchyInvariance, CopiesOfHierarchy, PTL
=============================================================================
