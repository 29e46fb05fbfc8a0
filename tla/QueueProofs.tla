---------------------------- MODULE QueueProofs ----------------------------
(***************************************************************************)
(* The lock-free queue is a FIFO and answers truly, whatever the two       *)
(* threads do at the same time and for every block size, capacity and      *)
(* number of allocations.                                                  *)
(***************************************************************************)
EXTENDS ReaderWriterQueue, FiniteSetTheorems, WellFoundedInduction, TLAPS

-----------------------------------------------------------------------------
(***************************************************************************)
(* Distances in a circular buffer of s slots.                              *)
(***************************************************************************)

Dist(s, i, j) == IF i <= j THEN j - i ELSE j + s - i
At(s, i, j)   == IF i + j < s THEN i + j ELSE i + j - s

Size(b) == Cardinality(DOMAIN blocks[b].data)
Held(b) == Dist(Size(b), blocks[b].front, blocks[b].tail)
Seen(b) == Dist(Size(b), blocks[b].front, blocks[b].localTail)
Used(b) == Dist(Size(b), blocks[b].localFront, blocks[b].tail)
Last(b) == Size(b) - 1

\* A block that is allocated is in the circle once it is linked.
NLinked == IF prod.pc = "link" THEN Len(blocks) - 1 ELSE Len(blocks)
Linked  == 1 .. NLinked

Many     == ceilToPow2(maxSize + 1) > MAX_BLOCK_SIZE * 2
BaseSize == IF Many THEN MAX_BLOCK_SIZE ELSE ceilToPow2(maxSize + 1)

Slot == Element \cup {NoElement}
DataT == UNION {[0 .. s - 1 -> Slot] : s \in Nat}
BlockT == [front : Nat, localTail : Nat, tail : Nat, localFront : Nat, next : Nat, data : DataT]
ProdPc == {Idle, "construct", "moveTail", "full", "constructNext", "moveTailNext",
           "alloc", "link", "moveTailBlock"}
ConsPc == {Idle, "noElement", "recheck", "readNext", "moveFrontBlock", "take", "moveFront"}
ConsT  == [pc : ConsPc, op : {"none", "try_dequeue", "pop", "peek"}, block : Nat, at : Nat,
           element : Slot, answer : BOOLEAN, empty : BOOLEAN]

BlockOK(b) ==
  /\ Size(b) \in Nat /\ Size(b) >= BaseSize
  /\ blocks[b].data \in [0 .. Last(b) -> Slot]
  /\ blocks[b].front \in 0 .. Last(b) /\ blocks[b].tail \in 0 .. Last(b)
  /\ blocks[b].localFront \in 0 .. Last(b) /\ blocks[b].localTail \in 0 .. Last(b)
  /\ blocks[b].next \in Linked

QTyped ==
  /\ maxSize \in MaxSizes
  /\ initialBlocks = IF Many THEN initialBlockCount(maxSize) ELSE 1
  /\ blocks \in Seq(BlockT)
  /\ \A b \in 1 .. Len(blocks) : BlockOK(b)
  /\ Len(blocks) \in initialBlocks .. initialBlocks + MaxAllocs
  /\ NLinked >= initialBlocks
  /\ frontBlock \in Linked /\ tailBlock \in Linked
  /\ largestBlockSize \in Nat /\ largestBlockSize >= BaseSize
  /\ prod \in [pc : ProdPc, canAlloc : BOOLEAN, element : Nat, block : Nat,
               answer : BOOLEAN, room : BOOLEAN]
  /\ prod.element \in 1 .. MaxElements + 1
  /\ prod.pc # Idle => prod.element \in Element
  /\ prod.block \in Linked
  /\ cons \in ConsT
  /\ cons.block \in Linked
  /\ result \in Slot
  /\ failed = FALSE

\* pos: how many links a block is behind the front block.
QRing(pos) ==
  /\ pos \in [Linked -> 0 .. NLinked - 1]
  /\ \A b, c \in Linked : pos[b] = pos[c] => b = c
  /\ pos[frontBlock] = 0
  /\ \A b \in Linked :
       pos[blocks[b].next] = IF pos[b] = NLinked - 1 THEN 0 ELSE pos[b] + 1

\* The blocks between front and tail block are full, those behind are empty.
QCount(pos) ==
  /\ \A b \in Linked : Seen(b) <= Held(b) /\ Held(b) <= Used(b)
  /\ \A b \in Linked : pos[b] > pos[tailBlock] =>
       Held(b) = IF prod.pc = "moveTailBlock" /\ b = prod.block THEN 1 ELSE 0
  /\ \A b \in Linked : pos[b] > 0 /\ pos[b] < pos[tailBlock] => Held(b) = Last(b)
  /\ pos[tailBlock] > 0 => Held(tailBlock) >= 1

\* A block holds the elements after the n-th one.
Slots(b, n) ==
  \A j \in 0 .. Held(b) - 1 : BlockSlot(b, At(Size(b), blocks[b].front, j)) = n + j + 1

\* lo: how many elements were enqueued before those a block holds.
QData(pos, lo) ==
  /\ lo \in [Linked -> Nat]
  /\ \A b \in Linked : pos[b] < pos[tailBlock] => lo[blocks[b].next] = lo[b] + Held(b)
  /\ lo[tailBlock] + Held(tailBlock) = prod.element - 1
  /\ \A b \in Linked : pos[b] <= pos[tailBlock] => lo[b] + Held(b) <= prod.element - 1
  /\ \A b \in Linked : pos[b] <= pos[tailBlock] => Slots(b, lo[b])
Ahead == {"constructNext", "moveTailNext", "moveTailBlock"}

QProd(pos) ==
  /\ prod.pc \in {"construct", "moveTail"} => Used(tailBlock) < Last(tailBlock)
  /\ prod.pc \in {"construct", "moveTail", "full", "alloc", "link"} => prod.block = tailBlock
  /\ prod.pc \in Ahead => /\ pos[tailBlock] < NLinked - 1
                          /\ prod.block = blocks[tailBlock].next
  /\ prod.pc \in {"full", "alloc", "link"} \cup Ahead /\ pos[tailBlock] > 0 =>
       Held(tailBlock) = Last(tailBlock)
  /\ prod.pc \in {"constructNext", "moveTailNext"} =>
       blocks[prod.block].localFront = blocks[prod.block].front
  /\ prod.pc \in {"moveTail", "moveTailNext"} =>
       blocks[prod.block].data[blocks[prod.block].tail] = prod.element
  /\ prod.pc = "moveTailBlock" =>
       blocks[prod.block].data[blocks[prod.block].front] = prod.element
  /\ prod.pc = "full" /\ pos[tailBlock] = NLinked - 1 => ~prod.room
  /\ prod.pc \in {"alloc", "link"} => ~prod.room
  /\ ~prod.answer => ~prod.room

\* The block that is allocated and not linked.
QNew ==
  prod.pc = "link" =>
    LET k == blocks[Len(blocks)] IN
    /\ k.front = 0 /\ k.tail = 1 /\ k.localTail = 1 /\ k.localFront = 0
    /\ k.data[0] = prod.element /\ k.next = blocks[tailBlock].next

QCons(pos, lo) ==
  /\ cons.pc \in {"noElement", "recheck", "readNext", "moveFront"} => cons.block = frontBlock
  /\ cons.pc # Idle => cons.at = blocks[cons.block].front
  /\ cons.pc = "noElement" /\ pos[tailBlock] = 0 => cons.empty
  /\ cons.pc \in {"recheck", "readNext", "moveFrontBlock"} => pos[tailBlock] > 0
  /\ cons.pc \in {"readNext", "moveFrontBlock"} => Held(frontBlock) = 0
  /\ cons.pc = "moveFrontBlock" =>
       cons.block = blocks[frontBlock].next /\ Seen(cons.block) >= 1 /\ cons.op # "peek"
  /\ cons.pc = "take" =>
       \/ cons.block = frontBlock /\ Seen(cons.block) >= 1
       \/ /\ cons.op = "peek" /\ cons.block = blocks[frontBlock].next
          /\ pos[tailBlock] > 0 /\ Held(frontBlock) = 0
  /\ cons.pc = "moveFront" =>
       Seen(cons.block) >= 1 /\ cons.op # "peek" /\ cons.element = lo[frontBlock] + 1
  /\ cons.pc = Idle /\ cons.op = "peek" /\ cons.answer =>
       cons.element = lo[frontBlock] + 1 /\ cons.element < prod.element
  /\ cons.pc = Idle /\ ~cons.answer => cons.empty

QI(pos, lo) ==
  QTyped /\ QRing(pos) /\ QCount(pos) /\ QData(pos, lo) /\ QProd(pos) /\ QNew /\ QCons(pos, lo)

QInv == \E pos, lo : QI(pos, lo)

-----------------------------------------------------------------------------
(***************************************************************************)
(* Arithmetic of a circular buffer.                                        *)
(***************************************************************************)

Next1(s, i) == IF i + 1 = s THEN 0 ELSE i + 1

LEMMA NextIndex ==
    ASSUME NEW s \in Nat, s > 0, NEW i \in 0 .. s - 1
    PROVE  (i + 1) % s = Next1(s, i)
<1>1. CASE i + 1 = s
  <2>1. s % s = 0
    OBVIOUS
  <2>. QED  BY <1>1, <2>1 DEF Next1
<1>2. CASE i + 1 < s
  BY <1>2 DEF Next1
<1>. QED  BY <1>1, <1>2

LEMMA DistFacts ==
    ASSUME NEW s \in Nat, s > 0, NEW i \in 0 .. s - 1, NEW j \in 0 .. s - 1
    PROVE  /\ Dist(s, i, j) \in 0 .. s - 1
           /\ Dist(s, i, j) = 0 <=> i = j
           /\ Next1(s, j) \in 0 .. s - 1
           /\ Next1(s, j) = i <=> Dist(s, i, j) = s - 1
           /\ Dist(s, i, j) < s - 1 => Dist(s, i, Next1(s, j)) = Dist(s, i, j) + 1
           /\ i # j => Dist(s, Next1(s, i), j) = Dist(s, i, j) - 1
           /\ At(s, i, Dist(s, i, j)) = j
           /\ At(s, i, 0) = i
  BY DEF Dist, Next1, At

LEMMA AtFacts ==
    ASSUME NEW s \in Nat, s > 0, NEW i \in 0 .. s - 1, NEW j \in 0 .. s - 1,
           NEW k \in 0 .. s - 1
    PROVE  /\ At(s, i, k) \in 0 .. s - 1
           /\ At(s, i, k) = j <=> k = Dist(s, i, j)
           /\ k + 1 < s => At(s, Next1(s, i), k) = At(s, i, k + 1)
           /\ (i + k) % s = At(s, i, k)
<1>1. (i + k) % s = At(s, i, k)
  <2>1. CASE i + k < s
    BY <2>1 DEF At
  <2>2. CASE i + k >= s
    <3>1. PICK x \in 0 .. s - 1 : i + k = x + s
      <4>1. i + k - s \in 0 .. s - 1 /\ i + k = (i + k - s) + s
        BY <2>2
      <4>. QED  BY <4>1
    <3>2. (x + s) % s = x
      OBVIOUS
    <3>. QED  BY <2>2, <3>1, <3>2 DEF At
  <2>. QED  BY <2>1, <2>2
<1>2. At(s, i, k) \in 0 .. s - 1 /\ (At(s, i, k) = j <=> k = Dist(s, i, j))
  BY DEF At, Dist
<1>3. k + 1 < s => At(s, Next1(s, i), k) = At(s, i, k + 1)
  BY DEF At, Next1
<1>. QED  BY <1>1, <1>2, <1>3

-----------------------------------------------------------------------------
(***************************************************************************)
(* Runs of consecutive numbers.                                            *)
(***************************************************************************)

Run(t, n) == [k \in 1 .. n |-> t + k]

LEMMA RunIsSeq ==
    ASSUME NEW t \in Nat, NEW n \in Nat
    PROVE  Run(t, n) \in Seq(Nat) /\ Len(Run(t, n)) = n
<1>1. Run(t, n) \in [1 .. n -> Nat]
  BY DEF Run
<1>2. \A f \in [1 .. n -> Nat] : f \in Seq(Nat) /\ Len(f) = n
  OBVIOUS
<1>. QED  BY <1>1, <1>2

LEMMA RunConcat ==
    ASSUME NEW t \in Nat, NEW m \in Nat, NEW n \in Nat
    PROVE  Run(t, m) \o Run(t + m, n) = Run(t, m + n)
  BY RunIsSeq DEF Run

LEMMA RunAppend ==
    ASSUME NEW t \in Nat, NEW n \in Nat
    PROVE  Append(Run(t, n), t + n + 1) = Run(t, n + 1)
  BY RunIsSeq DEF Run

LEMMA RunTail ==
    ASSUME NEW t \in Nat, NEW n \in Nat, n > 0
    PROVE  /\ Run(t, n) # <<>> /\ Head(Run(t, n)) = t + 1
           /\ Tail(Run(t, n)) = Run(t + 1, n - 1)
  BY RunIsSeq DEF Run

LEMMA RunEmpty ==
    ASSUME NEW t \in Nat
    PROVE  Run(t, 0) = <<>>
  BY DEF Run

-----------------------------------------------------------------------------
(***************************************************************************)
(* The recursive definitions are functions that satisfy their equations:   *)
(* by a smallest number for which there is none.                           *)
(***************************************************************************)

LEMMA LeastOf ==
    ASSUME NEW S \in SUBSET Nat, S # {}
    PROVE  \E x \in S : \A y \in S : x <= y
<1>1. PICK x \in S : \A y \in S : ~(<<y, x>> \in OpToRel(<, Nat))
  BY NatLessThanWellFounded, WFMin, Zenon
<1>2. \A y \in S : x <= y
  <2>. SUFFICES ASSUME NEW y \in S, y < x  PROVE FALSE
    OBVIOUS
  <2>1. <<y, x>> \in OpToRel(<, Nat)
    BY DEF OpToRel
  <2>. QED  BY <1>1, <2>1
<1>. QED  BY <1>2

IsNth(f, n, a, ks) == f = [i \in 0 .. n |-> IF i = 0 THEN a ELSE ks[f[i - 1]].next]
IsJoin(f, n, a, g) == f = [i \in 0 .. n |-> IF i = 0 THEN a ELSE f[i - 1] \o g[i]]

LEMMA NthExists ==
    ASSUME NEW n \in Nat, NEW a, NEW ks
    PROVE  \E f : IsNth(f, n, a, ks)
<1>. DEFINE Bad == {m \in Nat : ~ \E f : IsNth(f, m, a, ks)}
<1>. SUFFICES ASSUME Bad # {}  PROVE FALSE
  OBVIOUS
<1>1. PICK m \in Bad : \A k \in Bad : m <= k
  BY LeastOf
<1>2. m # 0
  <2>1. IsNth([i \in 0 .. 0 |-> a], 0, a, ks)
    BY DEF IsNth
  <2>. QED  BY <2>1
<1>3. PICK f : IsNth(f, m - 1, a, ks)
  <2>1. m - 1 \in Nat /\ m - 1 \notin Bad
    BY <1>1, <1>2
  <2>. QED  BY <2>1
<1>4. \E g : IsNth(g, m, a, ks)
  <2>. DEFINE g == [i \in 0 .. m |-> IF i = m THEN ks[f[m - 1]].next ELSE f[i]]
              e(i) == IF i = 0 THEN a ELSE ks[g[i - 1]].next
  <2>1. m \in Nat \ {0}
    BY <1>2
  <2>2. \A i \in 0 .. m : g[i] = e(i)
    <3>. SUFFICES ASSUME NEW i \in 0 .. m  PROVE g[i] = e(i)
      OBVIOUS
    <3>1. CASE i = m
      BY <2>1, <3>1
    <3>2. CASE i # m /\ i # 0
      <4>1. f[i] = ks[f[i - 1]].next
        BY <2>1, <3>2, <1>3 DEF IsNth
      <4>2. g[i] = f[i] /\ g[i - 1] = f[i - 1]
        BY <2>1, <3>2
      <4>. QED  BY <3>2, <4>1, <4>2
    <3>3. CASE i = 0
      <4>1. f[i] = a
        BY <2>1, <3>3, <1>3 DEF IsNth
      <4>. QED  BY <2>1, <3>3, <4>1
    <3>. QED  BY <3>1, <3>2, <3>3
  <2>3. g = [i \in 0 .. m |-> e(i)]
    <3>1. g = [i \in 0 .. m |-> g[i]]
      OBVIOUS
    <3>. HIDE DEF g
    <3>2. [i \in 0 .. m |-> g[i]] = [i \in 0 .. m |-> e(i)]
      BY <2>2
    <3>. QED  BY <3>1, <3>2
  <2>4. IsNth(g, m, a, ks)
    BY <2>3, Zenon DEF IsNth
  <2>. QED  BY <2>4
<1>. QED  BY <1>1, <1>4

LEMMA JoinExists ==
    ASSUME NEW n \in Nat, NEW a, NEW h
    PROVE  \E f : IsJoin(f, n, a, h)
<1>. DEFINE Bad == {m \in Nat : ~ \E f : IsJoin(f, m, a, h)}
<1>. SUFFICES ASSUME Bad # {}  PROVE FALSE
  OBVIOUS
<1>1. PICK m \in Bad : \A k \in Bad : m <= k
  BY LeastOf
<1>2. m # 0
  <2>1. IsJoin([i \in 0 .. 0 |-> a], 0, a, h)
    BY DEF IsJoin
  <2>. QED  BY <2>1
<1>3. PICK f : IsJoin(f, m - 1, a, h)
  <2>1. m - 1 \in Nat /\ m - 1 \notin Bad
    BY <1>1, <1>2
  <2>. QED  BY <2>1
<1>4. \E g : IsJoin(g, m, a, h)
  <2>. DEFINE g == [i \in 0 .. m |-> IF i = m THEN f[m - 1] \o h[m] ELSE f[i]]
              e(i) == IF i = 0 THEN a ELSE g[i - 1] \o h[i]
  <2>1. m \in Nat \ {0}
    BY <1>2
  <2>2. \A i \in 0 .. m : g[i] = e(i)
    <3>. SUFFICES ASSUME NEW i \in 0 .. m  PROVE g[i] = e(i)
      OBVIOUS
    <3>1. CASE i = m
      BY <2>1, <3>1
    <3>2. CASE i # m /\ i # 0
      <4>1. f[i] = f[i - 1] \o h[i]
        BY <2>1, <3>2, <1>3 DEF IsJoin
      <4>2. g[i] = f[i] /\ g[i - 1] = f[i - 1]
        BY <2>1, <3>2
      <4>. QED  BY <3>2, <4>1, <4>2
    <3>3. CASE i = 0
      <4>1. f[i] = a
        BY <2>1, <3>3, <1>3 DEF IsJoin
      <4>. QED  BY <2>1, <3>3, <4>1
    <3>. QED  BY <3>1, <3>2, <3>3
  <2>3. g = [i \in 0 .. m |-> e(i)]
    <3>1. g = [i \in 0 .. m |-> g[i]]
      OBVIOUS
    <3>. HIDE DEF g
    <3>2. [i \in 0 .. m |-> g[i]] = [i \in 0 .. m |-> e(i)]
      BY <2>2
    <3>. QED  BY <3>1, <3>2
  <2>4. IsJoin(g, m, a, h)
    BY <2>3, Zenon DEF IsJoin
  <2>. QED  BY <2>4
<1>. QED  BY <1>1, <1>4

\* Nth follows the links from the front block.
LEMMA NthIs ==
    ASSUME Len(blocks) \in Nat
    PROVE  /\ Nth[0] = frontBlock
           /\ \A i \in 1 .. Len(blocks) : Nth[i] = blocks[Nth[i - 1]].next
<1>1. \E f : IsNth(f, Len(blocks), frontBlock, blocks)
  BY NthExists
<1>2. Nth = CHOOSE f : IsNth(f, Len(blocks), frontBlock, blocks)
  BY Zenon DEF Nth, IsNth
<1>3. IsNth(Nth, Len(blocks), frontBlock, blocks)
  BY <1>1, <1>2
<1>4. \E f : f = Nth
  OBVIOUS
<1>5. PICK f : f = Nth
  BY <1>4
<1>6. IsNth(f, Len(blocks), frontBlock, blocks)
  BY <1>3, <1>5
<1>7. \A i \in 0 .. Len(blocks) : f[i] = IF i = 0 THEN frontBlock ELSE blocks[f[i - 1]].next
  BY <1>6 DEF IsNth
<1>. QED  BY <1>5, <1>7

\* ContentsUpTo joins the contents of the blocks.
LEMMA ContentsUpToIs ==
    ASSUME Len(blocks) \in Nat
    PROVE  /\ ContentsUpTo[0] = BlockContents(frontBlock)
           /\ \A i \in 1 .. Len(blocks) :
                ContentsUpTo[i] = ContentsUpTo[i - 1] \o BlockContents(Nth[i])
<1>. DEFINE P(f) == f = [i \in 0 .. Len(blocks) |->
                           IF i = 0 THEN BlockContents(frontBlock)
                           ELSE f[i - 1] \o BlockContents(Nth[i])]
<1>1. \E f : P(f)
  <2>. DEFINE h == [i \in 0 .. Len(blocks) |-> BlockContents(Nth[i])]
  <2>1. PICK f : IsJoin(f, Len(blocks), BlockContents(frontBlock), h)
    BY JoinExists
  <2>2. f = [i \in 0 .. Len(blocks) |-> IF i = 0 THEN BlockContents(frontBlock)
                                        ELSE f[i - 1] \o h[i]]
    BY <2>1, Zenon DEF IsJoin
  <2>3. \A i \in 0 .. Len(blocks) : h[i] = BlockContents(Nth[i])
    OBVIOUS
  <2>. HIDE DEF h
  <2>4. [i \in 0 .. Len(blocks) |-> IF i = 0 THEN BlockContents(frontBlock)
                                    ELSE f[i - 1] \o h[i]]
        = [i \in 0 .. Len(blocks) |-> IF i = 0 THEN BlockContents(frontBlock)
                                      ELSE f[i - 1] \o BlockContents(Nth[i])]
    BY <2>3
  <2>5. P(f)
    BY <2>2, <2>4, Zenon
  <2>. QED  BY <2>5, Zenon
<1>2. ContentsUpTo = CHOOSE f : P(f)
  BY Zenon DEF ContentsUpTo
<1>3. P(ContentsUpTo)
  <2>. HIDE DEF P
  <2>. QED  BY <1>1, <1>2
<1>4. \E f : f = ContentsUpTo
  OBVIOUS
<1>5. PICK f : f = ContentsUpTo
  BY <1>4
<1>6. P(f)
  BY <1>3, <1>5, Zenon
<1>7. \A i \in 0 .. Len(blocks) : f[i] = IF i = 0 THEN BlockContents(frontBlock)
                                         ELSE f[i - 1] \o BlockContents(Nth[i])
  BY <1>6
<1>. HIDE DEF P
<1>8. f[0] = BlockContents(frontBlock)
  BY <1>7
<1>9. ASSUME NEW i \in 1 .. Len(blocks)  PROVE f[i] = f[i - 1] \o BlockContents(Nth[i])
  <2>1. i \in 0 .. Len(blocks) /\ i # 0
    OBVIOUS
  <2>. QED  BY <1>7, <2>1, Zenon
<1>. QED  BY <1>5, <1>8, <1>9, Zenon

-----------------------------------------------------------------------------
(***************************************************************************)
(* What the types say.                                                     *)
(***************************************************************************)

\* The power of two is there, and holds what was asked for with a spare slot.
LEMMA BaseFacts ==
    ASSUME maxSize \in MaxSizes
    PROVE  /\ maxSize \in Nat /\ maxSize >= 1
           /\ MAX_BLOCK_SIZE \in Nat /\ MAX_BLOCK_SIZE >= 2
           /\ ceilToPow2(maxSize + 1) \in Nat
           /\ ceilToPow2(maxSize + 1) >= maxSize + 1
           /\ BaseSize \in Nat /\ BaseSize >= 2
           /\ ~Many => BaseSize >= maxSize + 1
<1>1. /\ maxSize \in Nat /\ maxSize >= 1
      /\ MAX_BLOCK_SIZE \in Nat /\ MAX_BLOCK_SIZE >= 2
  BY QueueAssumption
<1>2. /\ ceilToPow2(maxSize + 1) \in PowersOfTwo
      /\ maxSize + 1 <= ceilToPow2(maxSize + 1)
  <2>1. \E p \in PowersOfTwo : maxSize + 1 <= p /\ p < 2 * (maxSize + 1)
    BY QueueAssumption
  <2>. QED  BY <2>1 DEF ceilToPow2
<1>3. ceilToPow2(maxSize + 1) \in Nat
  BY <1>2, QueueAssumption
<1>. QED  BY <1>1, <1>2, <1>3 DEF BaseSize

\* The reserved blocks but one hold what was asked for.
LEMMA BlockCountFacts ==
    ASSUME maxSize \in MaxSizes
    PROVE  /\ initialBlockCount(maxSize) \in Nat /\ initialBlockCount(maxSize) >= 1
           /\ (initialBlockCount(maxSize) - 1) * (MAX_BLOCK_SIZE - 1) >= maxSize
<1>. DEFINE d == MAX_BLOCK_SIZE - 1
            x == maxSize + MAX_BLOCK_SIZE * 2 - 3
<1>1. /\ maxSize \in Nat /\ d \in Nat /\ d > 0 /\ x \in Nat /\ x = maxSize + 2 * d - 1
      /\ maxSize >= 1
  BY BaseFacts
<1>2. initialBlockCount(maxSize) = x \div d
  BY DEF initialBlockCount
<1>. HIDE DEF d, x
<1>3. PICK q : q = x \div d
  OBVIOUS
<1>4. q \in Nat /\ x < q * d + d
  BY <1>1, <1>3, Z3
<1>5. q # 0
  BY <1>1, <1>4
<1>6. PICK r \in Nat : q = r + 1
  <2>1. q - 1 \in Nat /\ q = (q - 1) + 1
    BY <1>4, <1>5
  <2>. QED  BY <2>1
<1>7. q * d + d = r * d + 2 * d /\ r * d \in Int /\ 2 * d \in Int
  BY <1>1, <1>6
<1>8. r * d >= maxSize
  BY <1>1, <1>4, <1>7
<1>. QED  BY <1>2, <1>3, <1>4, <1>5, <1>6, <1>8 DEF d

QBasic ==
  /\ Len(blocks) \in Nat /\ NLinked \in Nat /\ NLinked >= 1 /\ NLinked <= Len(blocks)
  /\ prod.pc # "link" => NLinked = Len(blocks)
  /\ prod.pc = "link" => NLinked = Len(blocks) - 1
  /\ frontBlock \in Linked /\ tailBlock \in Linked
  /\ prod.block \in Linked /\ cons.block \in Linked
  /\ Linked \subseteq 1 .. Len(blocks)
  /\ \A b \in 1 .. Len(blocks) :
       /\ Size(b) \in Nat /\ Size(b) > 0 /\ Last(b) \in Nat /\ Last(b) >= 1
       /\ Last(b) = Size(b) - 1
       /\ Held(b) \in 0 .. Last(b) /\ Seen(b) \in 0 .. Last(b) /\ Used(b) \in 0 .. Last(b)
       /\ blocks[b].front \in 0 .. Last(b) /\ blocks[b].tail \in 0 .. Last(b)
       /\ blocks[b].localFront \in 0 .. Last(b) /\ blocks[b].localTail \in 0 .. Last(b)
       /\ blocks[b].data \in [0 .. Last(b) -> Slot]
       /\ blocks[b].next \in Linked
       /\ blocks[b] \in BlockT

LEMMA Basics ==
    ASSUME QTyped
    PROVE  QBasic
<1>1. maxSize \in MaxSizes /\ BaseSize \in Nat /\ BaseSize >= 2
  BY BaseFacts DEF QTyped
<1>2. initialBlocks \in Nat /\ initialBlocks >= 1
  BY <1>1, BlockCountFacts DEF QTyped
<1>3. /\ Len(blocks) \in Nat /\ NLinked \in Nat /\ NLinked >= 1 /\ NLinked <= Len(blocks)
      /\ prod.pc # "link" => NLinked = Len(blocks)
      /\ prod.pc = "link" => NLinked = Len(blocks) - 1
      /\ frontBlock \in Linked /\ tailBlock \in Linked
      /\ prod.block \in Linked /\ cons.block \in Linked
  BY <1>2 DEF QTyped, NLinked
<1>4. ASSUME NEW b \in 1 .. Len(blocks)
      PROVE  /\ Size(b) \in Nat /\ Size(b) > 0 /\ Last(b) \in Nat /\ Last(b) >= 1
             /\ Last(b) = Size(b) - 1
             /\ Held(b) \in 0 .. Last(b) /\ Seen(b) \in 0 .. Last(b)
             /\ Used(b) \in 0 .. Last(b)
             /\ blocks[b].front \in 0 .. Last(b) /\ blocks[b].tail \in 0 .. Last(b)
             /\ blocks[b].localFront \in 0 .. Last(b)
             /\ blocks[b].localTail \in 0 .. Last(b)
             /\ blocks[b].data \in [0 .. Last(b) -> Slot]
             /\ blocks[b].next \in Linked
             /\ blocks[b] \in BlockT
  <2>1. BlockOK(b) /\ blocks[b] \in BlockT
    BY DEF QTyped
  <2>2. /\ Size(b) \in Nat /\ Size(b) > 0 /\ Last(b) \in Nat /\ Last(b) >= 1
        /\ Last(b) = Size(b) - 1
    BY <1>1, <2>1 DEF BlockOK, Last
  <2>3. /\ blocks[b].front \in 0 .. Last(b) /\ blocks[b].tail \in 0 .. Last(b)
        /\ blocks[b].localFront \in 0 .. Last(b)
        /\ blocks[b].localTail \in 0 .. Last(b)
        /\ blocks[b].data \in [0 .. Last(b) -> Slot]
        /\ blocks[b].next \in Linked
    BY <2>1 DEF BlockOK
  <2>4. Held(b) \in 0 .. Last(b) /\ Seen(b) \in 0 .. Last(b) /\ Used(b) \in 0 .. Last(b)
    BY <2>2, <2>3, DistFacts DEF Held, Seen, Used
  <2>. QED  BY <2>1, <2>2, <2>3, <2>4
<1>5. Linked \subseteq 1 .. Len(blocks)
  BY <1>3 DEF Linked
<1>. QED  BY <1>3, <1>4, <1>5, Zenon DEF QBasic

-----------------------------------------------------------------------------
(***************************************************************************)
(* What the queue holds is a run of consecutive elements.                  *)
(***************************************************************************)

LEMMA BlockContentsIs ==
    ASSUME NEW b \in 1 .. Len(blocks), QBasic
    PROVE  BlockContents(b)
           = [i \in 1 .. Held(b) |-> BlockSlot(b, At(Size(b), blocks[b].front, i - 1))]
<1>. DEFINE s == Size(b)
            f == blocks[b].front
            t == blocks[b].tail
<1>1. s \in Nat /\ s > 0 /\ f \in 0 .. s - 1 /\ t \in 0 .. s - 1 /\ Held(b) = Dist(s, f, t)
      /\ Held(b) \in 0 .. s - 1
  BY DEF QBasic, Held
<1>2. BlockContents(b) = [i \in 1 .. (t + s - f) % s |-> BlockSlot(b, (f + i - 1) % s)]
  BY Zenon DEF BlockContents, Size
<1>. HIDE DEF s, f, t
<1>3. (t + s - f) % s = Held(b)
  <2>1. CASE f <= t
    <3>1. PICK x \in 0 .. s - 1 : x = t - f
      BY <1>1, <2>1
    <3>2. (x + s) % s = x
      BY <1>1
    <3>. QED  BY <1>1, <2>1, <3>1, <3>2 DEF Dist
  <2>2. CASE f > t
    <3>1. t + s - f \in 0 .. s - 1 /\ Held(b) = t + s - f
      BY <1>1, <2>2 DEF Dist
    <3>. QED  BY <1>1, <3>1
  <2>. QED  BY <1>1, <2>1, <2>2
<1>4. ASSUME NEW i \in 1 .. Held(b)  PROVE (f + i - 1) % s = At(s, f, i - 1)
  <2>1. i - 1 \in 0 .. s - 1 /\ f + i - 1 = f + (i - 1)
    BY <1>1
  <2>. QED  BY <1>1, <2>1, AtFacts
<1>. QED  BY <1>2, <1>3, <1>4 DEF s, f

LEMMA BlockRun ==
    ASSUME NEW pos, NEW lo, QBasic, QRing(pos), QData(pos, lo),
           NEW b \in Linked, pos[b] <= pos[tailBlock]
    PROVE  BlockContents(b) = Run(lo[b], Held(b))
<1>1. b \in 1 .. Len(blocks) /\ Held(b) \in Nat
  <2>1. b \in 1 .. Len(blocks)
    BY DEF QBasic
  <2>. QED  BY <2>1 DEF QBasic
<1>2. lo[b] \in Nat
  BY DEF QData
<1>3. ASSUME NEW i \in 1 .. Held(b)
      PROVE  BlockSlot(b, At(Size(b), blocks[b].front, i - 1)) = lo[b] + i
  <2>1. i - 1 \in 0 .. Held(b) - 1 /\ (i - 1) + 1 = i
    BY <1>1
  <2>2. BlockSlot(b, At(Size(b), blocks[b].front, i - 1)) = lo[b] + (i - 1) + 1
    BY <2>1 DEF QData, Slots
  <2>. QED  BY <1>2, <2>1, <2>2
<1>4. BlockContents(b)
      = [i \in 1 .. Held(b) |-> BlockSlot(b, At(Size(b), blocks[b].front, i - 1))]
  BY <1>1, BlockContentsIs, Zenon
<1>. QED  BY <1>3, <1>4 DEF Run

\* The i-th block after the front block is at position i.
LEMMA NthAt ==
    ASSUME NEW pos, QBasic, QRing(pos)
    PROVE  \A i \in 0 .. NLinked - 1 : Nth[i] \in Linked /\ pos[Nth[i]] = i
<1>. DEFINE Good(i) == Nth[i] \in Linked /\ pos[Nth[i]] = i
            Bad == {i \in Nat : i <= NLinked - 1 /\ ~Good(i)}
<1>1. /\ Len(blocks) \in Nat /\ NLinked \in Nat /\ NLinked >= 1 /\ NLinked <= Len(blocks)
  BY DEF QBasic
<1>2. /\ Nth[0] = frontBlock
      /\ \A i \in 1 .. Len(blocks) : Nth[i] = blocks[Nth[i - 1]].next
  BY <1>1, NthIs
<1>3. SUFFICES ASSUME Bad # {}  PROVE FALSE
  BY <1>1
<1>. Bad \in SUBSET Nat
  OBVIOUS
<1>4. PICK m \in Bad : \A k \in Bad : m <= k
  BY <1>3, LeastOf, Zenon
<1>5. m # 0
  BY <1>2 DEF QRing, QBasic
<1>6. Good(m - 1)
  <2>1. m - 1 \in Nat /\ m - 1 <= NLinked - 1 /\ m - 1 \notin Bad
    BY <1>1, <1>4, <1>5
  <2>. QED  BY <2>1
<1>7. m \in 1 .. Len(blocks) /\ m \in Nat /\ m <= NLinked - 1
  BY <1>1, <1>5
<1>8. Nth[m] = blocks[Nth[m - 1]].next
  BY <1>2, <1>7
<1>9. PICK c \in Linked : c = Nth[m - 1] /\ pos[c] = m - 1
  BY <1>6
<1>10. Nth[m] \in Linked
  <2>1. c \in 1 .. Len(blocks)
    BY DEF QBasic
  <2>. QED  BY <1>8, <1>9, <2>1 DEF QBasic
<1>11. pos[Nth[m]] = IF pos[c] = NLinked - 1 THEN 0 ELSE pos[c] + 1
  BY <1>8, <1>9 DEF QRing
<1>. QED  BY <1>1, <1>7, <1>9, <1>10, <1>11

\* Up to the block at position i, the queue holds the elements from the first
\* one on.
LEMMA ContentsAt ==
    ASSUME NEW pos, NEW lo, QBasic, QRing(pos), QData(pos, lo)
    PROVE  \A i \in 0 .. pos[tailBlock] :
             /\ lo[frontBlock] <= lo[Nth[i]] + Held(Nth[i])
             /\ ContentsUpTo[i] = Run(lo[frontBlock],
                                      lo[Nth[i]] + Held(Nth[i]) - lo[frontBlock])
<1>. DEFINE t == lo[frontBlock]
            T == pos[tailBlock]
            Good(i) == /\ t <= lo[Nth[i]] + Held(Nth[i])
                       /\ ContentsUpTo[i] = Run(t, lo[Nth[i]] + Held(Nth[i]) - t)
            Bad == {i \in Nat : i <= T /\ ~Good(i)}
<1>1. /\ Len(blocks) \in Nat /\ NLinked \in Nat /\ NLinked >= 1 /\ NLinked <= Len(blocks)
      /\ T \in 0 .. NLinked - 1
  BY DEF QBasic, QRing
<1>2. /\ Nth[0] = frontBlock
      /\ \A i \in 1 .. Len(blocks) : Nth[i] = blocks[Nth[i - 1]].next
  BY <1>1, NthIs
<1>3. /\ ContentsUpTo[0] = BlockContents(frontBlock)
      /\ \A i \in 1 .. Len(blocks) :
           ContentsUpTo[i] = ContentsUpTo[i - 1] \o BlockContents(Nth[i])
  BY <1>1, ContentsUpToIs
<1>4. \A i \in 0 .. NLinked - 1 : Nth[i] \in Linked /\ pos[Nth[i]] = i
  BY NthAt
<1>5. \A b \in Linked : lo[b] \in Nat /\ Held(b) \in Nat
  <2>. SUFFICES ASSUME NEW b \in Linked  PROVE lo[b] \in Nat /\ Held(b) \in Nat
    OBVIOUS
  <2>1. b \in 1 .. Len(blocks)
    BY DEF QBasic
  <2>2. Held(b) \in Nat
    BY <2>1 DEF QBasic
  <2>. QED  BY <2>2 DEF QData
<1>6. frontBlock \in Linked /\ pos[frontBlock] = 0 /\ t \in Nat
  BY <1>5 DEF QBasic, QRing
<1>7. SUFFICES ASSUME Bad # {}  PROVE FALSE
  BY <1>1
<1>. Bad \in SUBSET Nat
  OBVIOUS
<1>8. PICK m \in Bad : \A k \in Bad : m <= k
  BY <1>7, LeastOf, Zenon
<1>9. m # 0
  <2>1. BlockContents(frontBlock) = Run(t, Held(frontBlock))
    BY <1>1, <1>6, BlockRun
  <2>2. t <= t + Held(frontBlock) /\ t + Held(frontBlock) - t = Held(frontBlock)
    BY <1>5, <1>6
  <2>. QED  BY <1>2, <1>3, <2>1, <2>2
<1>10. Good(m - 1)
  <2>1. m - 1 \in Nat /\ m - 1 <= T /\ m - 1 \notin Bad
    BY <1>1, <1>8, <1>9
  <2>. QED  BY <2>1
<1>11. /\ m \in 1 .. Len(blocks) /\ m \in 0 .. NLinked - 1 /\ m - 1 \in 0 .. NLinked - 1
       /\ m <= T /\ m - 1 < T
  BY <1>1, <1>9
<1>12. PICK c \in Linked : c = Nth[m - 1] /\ pos[c] = m - 1
  BY <1>4, <1>11
<1>13. PICK d \in Linked : d = Nth[m] /\ pos[d] = m /\ d = blocks[c].next
  BY <1>2, <1>4, <1>11, <1>12
<1>14. lo[d] = lo[c] + Held(c)
  BY <1>11, <1>12, <1>13 DEF QData
<1>15. BlockContents(d) = Run(lo[d], Held(d))
  BY <1>11, <1>13, BlockRun
<1>16. PICK n \in Nat : lo[c] + Held(c) - t = n /\ lo[d] = t + n
  <2>1. lo[c] + Held(c) - t \in Nat /\ lo[d] = t + (lo[c] + Held(c) - t)
    BY <1>5, <1>6, <1>10, <1>12, <1>14
  <2>. QED  BY <2>1
<1>17. ContentsUpTo[m] = Run(t, n) \o Run(t + n, Held(d))
  BY <1>3, <1>10, <1>11, <1>12, <1>13, <1>15, <1>16
<1>18. Run(t, n) \o Run(t + n, Held(d)) = Run(t, n + Held(d))
  BY <1>5, <1>6, RunConcat, ZenonT(60)
<1>19. n + Held(d) = lo[d] + Held(d) - t /\ t <= lo[d] + Held(d)
  BY <1>5, <1>6, <1>16
<1>20. Good(m)
  BY <1>13, <1>17, <1>18, <1>19
<1>. QED  BY <1>8, <1>20

\* What the queue holds, for every invariant state.
LEMMA ContentsIs ==
    ASSUME NEW pos, NEW lo, QTyped, QRing(pos), QData(pos, lo)
    PROVE  /\ lo[frontBlock] \in Nat /\ prod.element \in Nat
           /\ prod.element - 1 - lo[frontBlock] \in Nat
           /\ Contents = Run(lo[frontBlock], prod.element - 1 - lo[frontBlock])
<1>. DEFINE T == pos[tailBlock]
            P(i) == Nth[i] = tailBlock /\ \A j \in 0 .. i - 1 : Nth[j] # tailBlock
<1>0. QBasic
  BY Basics
<1>1. /\ Len(blocks) \in Nat /\ NLinked \in Nat /\ NLinked >= 1 /\ NLinked <= Len(blocks)
      /\ T \in 0 .. NLinked - 1 /\ tailBlock \in Linked
  BY <1>0 DEF QBasic, QRing
<1>2. \A i \in 0 .. NLinked - 1 : Nth[i] \in Linked /\ pos[Nth[i]] = i
  BY <1>0, NthAt
<1>3. Nth[T] = tailBlock
  BY <1>1, <1>2 DEF QRing
<1>4. \E i \in 0 .. Len(blocks) : P(i)
  <2>1. \A j \in 0 .. T - 1 : Nth[j] # tailBlock
    BY <1>1, <1>2
  <2>. QED  BY <1>1, <1>3, <2>1
<1>5. ASSUME NEW i \in 0 .. Len(blocks), P(i)  PROVE i = T
  <2>1. CASE i <= NLinked - 1
    BY <1>1, <1>2, <1>5, <2>1
  <2>2. CASE i > NLinked - 1
    BY <1>1, <1>3, <1>5, <2>2
  <2>. QED  BY <1>1, <2>1, <2>2
<1>6. Contents = ContentsUpTo[CHOOSE i \in 0 .. Len(blocks) : P(i)]
  BY DEF Contents
<1>. HIDE DEF P
<1>7. (CHOOSE i \in 0 .. Len(blocks) : P(i)) = T
  BY <1>4, <1>5
<1>8. Contents = ContentsUpTo[T]
  BY <1>6, <1>7
<1>9. /\ lo[frontBlock] <= lo[tailBlock] + Held(tailBlock)
      /\ ContentsUpTo[T] = Run(lo[frontBlock], lo[tailBlock] + Held(tailBlock) - lo[frontBlock])
  BY <1>0, <1>1, <1>3, ContentsAt
<1>10. lo[tailBlock] + Held(tailBlock) = prod.element - 1
  BY DEF QData
<1>11. lo[frontBlock] \in Nat
  BY <1>0 DEF QBasic, QData
<1>12. prod.element \in Nat
  BY DEF QTyped
<1>13. lo[frontBlock] <= prod.element - 1
  BY <1>9, <1>10
<1>14. prod.element - 1 - lo[frontBlock] \in Nat
  BY <1>11, <1>12, <1>13
<1>15. Contents = Run(lo[frontBlock], lo[tailBlock] + Held(tailBlock) - lo[frontBlock])
  BY <1>8, <1>9, Zenon
<1>16. lo[tailBlock] + Held(tailBlock) - lo[frontBlock] = prod.element - 1 - lo[frontBlock]
  <2>1. tailBlock \in 1 .. Len(blocks)
    BY <1>0 DEF QBasic
  <2>2. Held(tailBlock) \in Nat
    BY <1>0, <2>1 DEF QBasic
  <2>3. lo[tailBlock] \in Nat
    BY <1>1 DEF QData
  <2>. QED  BY <1>10, <1>11, <1>12, <2>2, <2>3
<1>17. Contents = Run(lo[frontBlock], prod.element - 1 - lo[frontBlock])
  BY <1>15, <1>16
<1>. QED  BY <1>11, <1>12, <1>14, <1>17

-----------------------------------------------------------------------------
(***************************************************************************)
(* A queue whose last free block is in use and full holds what was asked   *)
(* for.                                                                    *)
(***************************************************************************)

LEMMA TimesMono ==
    ASSUME NEW a \in Nat, NEW b \in Nat, NEW d \in Nat, a <= b
    PROVE  a * d <= b * d
<1>1. PICK c \in Nat : b = a + c
  <2>1. b - a \in Nat /\ b = a + (b - a)
    OBVIOUS
  <2>. QED  BY <2>1
<1>2. b * d = a * d + c * d /\ c * d \in Nat /\ a * d \in Nat
  BY <1>1
<1>. QED  BY <1>2

\* Every block between the front and the tail block is full.
LEMMA LoGrows ==
    ASSUME NEW pos, NEW lo, QTyped, QRing(pos), QCount(pos), QData(pos, lo),
           NEW d \in Nat, d = BaseSize - 1
    PROVE  \A k \in 0 .. pos[tailBlock] - 1 : lo[Nth[k + 1]] >= lo[frontBlock] + k * d
<1>. DEFINE t == lo[frontBlock]
            T == pos[tailBlock]
            Good(k) == lo[Nth[k + 1]] >= t + k * d
            Bad == {k \in Nat : k < T /\ ~Good(k)}
<1>0. QBasic
  BY Basics
<1>1. /\ Len(blocks) \in Nat /\ NLinked \in Nat /\ NLinked >= 1 /\ NLinked <= Len(blocks)
      /\ T \in 0 .. NLinked - 1 /\ BaseSize \in Nat
  BY <1>0, BaseFacts DEF QBasic, QRing, QTyped
<1>2. /\ Nth[0] = frontBlock
      /\ \A i \in 1 .. Len(blocks) : Nth[i] = blocks[Nth[i - 1]].next
  BY <1>1, NthIs
<1>3. \A i \in 0 .. NLinked - 1 : Nth[i] \in Linked /\ pos[Nth[i]] = i
  BY <1>0, NthAt
<1>4. \A b \in Linked : lo[b] \in Nat /\ Held(b) \in Nat /\ Last(b) \in Nat /\ Last(b) >= d
  <2>. SUFFICES ASSUME NEW b \in Linked
                PROVE  lo[b] \in Nat /\ Held(b) \in Nat /\ Last(b) \in Nat /\ Last(b) >= d
    OBVIOUS
  <2>1. b \in 1 .. Len(blocks)
    BY <1>0 DEF QBasic
  <2>2. Held(b) \in Nat /\ Last(b) \in Nat
    BY <1>0, <2>1 DEF QBasic
  <2>3. Last(b) >= d
    BY <1>1, <2>1 DEF QTyped, BlockOK, Last
  <2>. QED  BY <2>2, <2>3 DEF QData
<1>5. frontBlock \in Linked /\ pos[frontBlock] = 0 /\ t \in Nat
  BY <1>0, <1>4 DEF QBasic, QRing
<1>6. SUFFICES ASSUME Bad # {}  PROVE FALSE
  BY <1>1
<1>. Bad \in SUBSET Nat
  OBVIOUS
<1>7. PICK m \in Bad : \A k \in Bad : m <= k
  BY <1>6, LeastOf, Zenon
<1>8. /\ m \in Nat /\ m < T /\ m \in 0 .. NLinked - 1 /\ m + 1 \in 0 .. NLinked - 1
      /\ m + 1 \in 1 .. Len(blocks) /\ (m + 1) - 1 = m
  BY <1>1, SMTT(30)
<1>9. PICK c \in Linked : c = Nth[m] /\ pos[c] = m /\ Nth[m + 1] = blocks[c].next
  BY <1>2, <1>3, <1>8
<1>10. lo[Nth[m + 1]] = lo[c] + Held(c)
  BY <1>8, <1>9 DEF QData
<1>11. m # 0
  <2>. SUFFICES ASSUME m = 0  PROVE FALSE
    OBVIOUS
  <2>1. c = frontBlock /\ m * d = 0
    BY <1>2, <1>9
  <2>2. lo[Nth[m + 1]] >= t
    BY <1>4, <1>5, <1>10, <2>1
  <2>. QED  BY <1>5, <1>7, <2>1, <2>2
<1>12. PICK k \in Nat : m = k + 1
  <2>1. m - 1 \in Nat /\ m = (m - 1) + 1
    BY <1>8, <1>11
  <2>. QED  BY <2>1
<1>13. Good(k)
  <2>1. k < T /\ k < m
    BY <1>1, <1>8, <1>12
  <2>2. k \notin Bad
    <3>. HIDE DEF Bad
    <3>. QED  BY <1>7, <1>8, <2>1
  <2>. QED  BY <2>1, <2>2
<1>14. Held(c) = Last(c)
  BY <1>8, <1>9, <1>11 DEF QCount
<1>15. lo[c] >= t + k * d
  BY <1>9, <1>12, <1>13
<1>16. m * d = k * d + d /\ k * d \in Nat
  BY <1>12
<1>17. lo[Nth[m + 1]] >= t + m * d
  BY <1>4, <1>5, <1>9, <1>10, <1>14, <1>15, <1>16
<1>. QED  BY <1>7, <1>17

LEMMA FullHolds ==
    ASSUME NEW pos, NEW lo, QTyped, QRing(pos), QCount(pos), QData(pos, lo),
           pos[tailBlock] = NLinked - 1, Held(tailBlock) = Last(tailBlock)
    PROVE  prod.element - 1 - lo[frontBlock] >= maxSize
<1>. DEFINE t == lo[frontBlock]
            T == pos[tailBlock]
            d == BaseSize - 1
            ib == initialBlockCount(maxSize)
<1>0. QBasic
  BY Basics
<1>1. /\ Len(blocks) \in Nat /\ NLinked \in Nat /\ NLinked >= 1 /\ NLinked <= Len(blocks)
      /\ T \in Nat /\ T = NLinked - 1 /\ NLinked >= initialBlocks
      /\ BaseSize \in Nat /\ BaseSize >= 2 /\ d \in Nat /\ d >= 1
  <2>1. maxSize \in MaxSizes /\ NLinked >= initialBlocks
    BY DEF QTyped
  <2>2. BaseSize \in Nat /\ BaseSize >= 2
    BY <2>1, BaseFacts
  <2>. QED  BY <1>0, <2>1, <2>2 DEF QBasic
<1>2. /\ maxSize \in Nat /\ maxSize >= 1
      /\ Many => d = MAX_BLOCK_SIZE - 1
      /\ ~Many => d >= maxSize
  BY BaseFacts DEF QTyped, BaseSize
<1>3. Many => ib \in Nat /\ ib >= 1 /\ (ib - 1) * d >= maxSize /\ T >= ib - 1
  BY <1>1, <1>2, BlockCountFacts DEF QTyped
<1>4. tailBlock \in Linked /\ tailBlock \in 1 .. Len(blocks)
  BY <1>0 DEF QBasic
<1>5. lo[tailBlock] \in Nat /\ t \in Nat /\ Held(tailBlock) \in Nat
  BY <1>0, <1>4 DEF QBasic, QData
<1>6. Held(tailBlock) >= d
  <2>1. BlockOK(tailBlock)
    BY <1>4 DEF QTyped
  <2>2. Size(tailBlock) \in Nat /\ Size(tailBlock) >= BaseSize
    BY <2>1 DEF BlockOK
  <2>. QED  BY <1>1, <2>2 DEF Last
<1>7. prod.element - 1 = lo[tailBlock] + Held(tailBlock)
  BY DEF QData
<1>8. prod.element - 1 - t >= T * d
  <2>1. CASE T = 0
    <3>1. tailBlock = frontBlock
      BY <1>0, <1>4, <2>1 DEF QRing, QBasic
    <3>2. T * d = 0
      BY <1>1, <2>1
    <3>. QED  BY <1>5, <1>7, <3>1, <3>2
  <2>2. CASE T # 0
    <3>1. PICK k \in Nat : T = k + 1
      <4>1. T - 1 \in Nat /\ T = (T - 1) + 1
        BY <1>1, <2>2
      <4>. QED  BY <4>1
    <3>2. Nth[k + 1] = tailBlock
      <4>1. T \in 0 .. NLinked - 1
        BY <1>1
      <4>2. Nth[T] \in Linked /\ pos[Nth[T]] = T
        BY <1>0, <4>1, NthAt
      <4>. QED  BY <1>4, <3>1, <4>2 DEF QRing
    <3>3. lo[Nth[k + 1]] >= t + k * d
      <4>1. k \in 0 .. pos[tailBlock] - 1
        BY <1>1, <3>1
      <4>. HIDE DEF d
      <4>. QED  BY <1>1, <4>1, LoGrows DEF d
    <3>4. T * d = k * d + d /\ k * d \in Nat
      BY <1>1, <3>1
    <3>. HIDE DEF d
    <3>. QED  BY <1>1, <1>5, <1>6, <1>7, <3>2, <3>3, <3>4, SMTT(30)
  <2>. QED  BY <2>1, <2>2
<1>9. CASE Many
  <2>1. (ib - 1) * d <= T * d
    BY <1>1, <1>3, <1>9, TimesMono
  <2>2. (ib - 1) * d \in Int /\ T * d \in Int /\ prod.element - 1 - t \in Int
    BY <1>1, <1>3, <1>5, <1>7, <1>9, SMTT(30)
  <2>. HIDE DEF d, ib
  <2>. QED  BY <1>2, <1>3, <1>8, <1>9, <2>1, <2>2
<1>10. CASE ~Many
  <2>1. CASE T = 0
    <3>1. tailBlock = frontBlock
      BY <1>0, <1>4, <2>1 DEF QRing, QBasic
    <3>. HIDE DEF d
    <3>. QED  BY <1>1, <1>2, <1>5, <1>6, <1>7, <1>10, <3>1
  <2>2. CASE T >= 1
    <3>1. 1 * d <= T * d /\ 1 * d = d
      BY <1>1, <2>2, TimesMono
    <3>2. T * d \in Int /\ prod.element - 1 - t \in Int
      BY <1>1, <1>5, <1>7
    <3>. HIDE DEF d
    <3>. QED  BY <1>1, <1>2, <1>8, <1>10, <3>1, <3>2
  <2>. QED  BY <1>1, <2>1, <2>2
<1>. QED  BY <1>9, <1>10

-----------------------------------------------------------------------------
(***************************************************************************)
(* A step that writes one block.                                           *)
(***************************************************************************)

\* Block b has these indices after the step; the other blocks are as before.
Wrote(b, f, lt, t, lf) ==
  /\ blocks' \in Seq(BlockT) /\ Len(blocks') = Len(blocks)
  /\ NLinked' = NLinked /\ Linked' = Linked /\ BaseSize' = BaseSize /\ Many' = Many
  /\ \A c \in 1 .. Len(blocks) :
       /\ Size(c)' = Size(c) /\ Last(c)' = Last(c) /\ BlockOK(c)'
       /\ blocks'[c].next = blocks[c].next
  /\ \A c \in 1 .. Len(blocks) : c # b =>
       /\ blocks'[c] = blocks[c]
       /\ Held(c)' = Held(c) /\ Seen(c)' = Seen(c) /\ Used(c)' = Used(c)
  /\ blocks'[b].front = f /\ blocks'[b].localTail = lt
  /\ blocks'[b].tail = t /\ blocks'[b].localFront = lf
  /\ Held(b)' = Dist(Size(b), f, t)
  /\ Seen(b)' = Dist(Size(b), f, lt)
  /\ Used(b)' = Dist(Size(b), lf, t)

LEMMA WritesBlock ==
    ASSUME QTyped, NEW b \in 1 .. Len(blocks), NEW k \in BlockT,
           blocks' = [blocks EXCEPT ![b] = k],
           maxSize' = maxSize, (prod'.pc = "link") <=> (prod.pc = "link"),
           k.next = blocks[b].next, k.data \in [0 .. Last(b) -> Slot],
           k.front \in 0 .. Last(b), k.tail \in 0 .. Last(b),
           k.localFront \in 0 .. Last(b), k.localTail \in 0 .. Last(b)
    PROVE  Wrote(b, k.front, k.localTail, k.tail, k.localFront)
<1>0. QBasic
  BY Basics
<1>1. /\ blocks' \in Seq(BlockT) /\ Len(blocks') = Len(blocks) /\ blocks'[b] = k
      /\ \A c \in 1 .. Len(blocks) : c # b => blocks'[c] = blocks[c]
  BY DEF QTyped
<1>2. NLinked' = NLinked
  BY <1>1 DEF NLinked
<1>3. Linked' = Linked
  BY <1>2 DEF Linked
<1>4. Many' = Many
  BY DEF Many, ceilToPow2
<1>5. BaseSize' = BaseSize
  BY <1>4 DEF BaseSize, ceilToPow2
<1>6. ASSUME NEW c \in 1 .. Len(blocks)
      PROVE  Size(c)' = Size(c) /\ Last(c)' = Last(c)
  <2>1. DOMAIN blocks'[c].data = DOMAIN blocks[c].data
    BY <1>0, <1>1 DEF QBasic
  <2>. QED  BY <2>1 DEF Size, Last
<1>7. ASSUME NEW c \in 1 .. Len(blocks), c # b
      PROVE  Held(c)' = Held(c) /\ Seen(c)' = Seen(c) /\ Used(c)' = Used(c)
  BY <1>1, <1>6, <1>7 DEF Held, Seen, Used
<1>8. ASSUME NEW c \in 1 .. Len(blocks)  PROVE BlockOK(c)'
  <2>1. BlockOK(c)
    BY DEF QTyped
  <2>2. CASE c = b
    BY <1>1, <1>3, <1>5, <1>6, <2>1, <2>2 DEF BlockOK
  <2>3. CASE c # b
    BY <1>1, <1>3, <1>5, <1>6, <2>1, <2>3 DEF BlockOK
  <2>. QED  BY <2>2, <2>3
<1>9. /\ Held(b)' = Dist(Size(b), k.front, k.tail)
      /\ Seen(b)' = Dist(Size(b), k.front, k.localTail)
      /\ Used(b)' = Dist(Size(b), k.localFront, k.tail)
  BY <1>1, <1>6 DEF Held, Seen, Used
<1>10. \A c \in 1 .. Len(blocks) : blocks'[c].next = blocks[c].next
  BY <1>1
<1>. QED  BY <1>1, <1>2, <1>3, <1>4, <1>5, <1>6, <1>7, <1>8, <1>9, <1>10, Zenon DEF Wrote

LEMMA WritesFront ==
    ASSUME QTyped, NEW b \in 1 .. Len(blocks), NEW v \in 0 .. Last(b),
           blocks' = [blocks EXCEPT ![b].front = v],
           maxSize' = maxSize, (prod'.pc = "link") <=> (prod.pc = "link")
    PROVE  /\ Wrote(b, v, blocks[b].localTail, blocks[b].tail, blocks[b].localFront)
           /\ \A c \in 1 .. Len(blocks) : blocks'[c].data = blocks[c].data
<1>. DEFINE k == [blocks[b] EXCEPT !.front = v]
<1>1. QBasic
  BY Basics
<1>2. /\ k \in BlockT /\ blocks' = [blocks EXCEPT ![b] = k]
      /\ k.next = blocks[b].next /\ k.data = blocks[b].data
      /\ k.front = v /\ k.localTail = blocks[b].localTail
      /\ k.tail = blocks[b].tail /\ k.localFront = blocks[b].localFront
  <2>1. blocks[b] \in BlockT
    BY <1>1 DEF QBasic
  <2>2. v \in Nat
    OBVIOUS
  <2>. QED  BY <2>1, <2>2 DEF BlockT
<1>3. Wrote(b, k.front, k.localTail, k.tail, k.localFront)
  <2>. HIDE DEF k
  <2>. QED  BY <1>1, <1>2, WritesBlock DEF QBasic
<1>. HIDE DEF k
<1>. QED  BY <1>2, <1>3 DEF QTyped

LEMMA WritesLocalTail ==
    ASSUME QTyped, NEW b \in 1 .. Len(blocks), NEW v \in 0 .. Last(b),
           blocks' = [blocks EXCEPT ![b].localTail = v],
           maxSize' = maxSize, (prod'.pc = "link") <=> (prod.pc = "link")
    PROVE  /\ Wrote(b, blocks[b].front, v, blocks[b].tail, blocks[b].localFront)
           /\ \A c \in 1 .. Len(blocks) : blocks'[c].data = blocks[c].data
<1>. DEFINE k == [blocks[b] EXCEPT !.localTail = v]
<1>1. QBasic
  BY Basics
<1>2. /\ k \in BlockT /\ blocks' = [blocks EXCEPT ![b] = k]
      /\ k.next = blocks[b].next /\ k.data = blocks[b].data
      /\ k.front = blocks[b].front /\ k.localTail = v
      /\ k.tail = blocks[b].tail /\ k.localFront = blocks[b].localFront
  <2>1. blocks[b] \in BlockT
    BY <1>1 DEF QBasic
  <2>2. v \in Nat
    OBVIOUS
  <2>. QED  BY <2>1, <2>2 DEF BlockT
<1>3. Wrote(b, k.front, k.localTail, k.tail, k.localFront)
  <2>. HIDE DEF k
  <2>. QED  BY <1>1, <1>2, WritesBlock DEF QBasic
<1>. HIDE DEF k
<1>. QED  BY <1>2, <1>3 DEF QTyped

LEMMA WritesTail ==
    ASSUME QTyped, NEW b \in 1 .. Len(blocks), NEW v \in 0 .. Last(b),
           blocks' = [blocks EXCEPT ![b].tail = v],
           maxSize' = maxSize, (prod'.pc = "link") <=> (prod.pc = "link")
    PROVE  /\ Wrote(b, blocks[b].front, blocks[b].localTail, v, blocks[b].localFront)
           /\ \A c \in 1 .. Len(blocks) : blocks'[c].data = blocks[c].data
<1>. DEFINE k == [blocks[b] EXCEPT !.tail = v]
<1>1. QBasic
  BY Basics
<1>2. /\ k \in BlockT /\ blocks' = [blocks EXCEPT ![b] = k]
      /\ k.next = blocks[b].next /\ k.data = blocks[b].data
      /\ k.front = blocks[b].front /\ k.localTail = blocks[b].localTail
      /\ k.tail = v /\ k.localFront = blocks[b].localFront
  <2>1. blocks[b] \in BlockT
    BY <1>1 DEF QBasic
  <2>2. v \in Nat
    OBVIOUS
  <2>. QED  BY <2>1, <2>2 DEF BlockT
<1>3. Wrote(b, k.front, k.localTail, k.tail, k.localFront)
  <2>. HIDE DEF k
  <2>. QED  BY <1>1, <1>2, WritesBlock DEF QBasic
<1>. HIDE DEF k
<1>. QED  BY <1>2, <1>3 DEF QTyped

LEMMA WritesLocalFront ==
    ASSUME QTyped, NEW b \in 1 .. Len(blocks), NEW v \in 0 .. Last(b),
           blocks' = [blocks EXCEPT ![b].localFront = v],
           maxSize' = maxSize, (prod'.pc = "link") <=> (prod.pc = "link")
    PROVE  /\ Wrote(b, blocks[b].front, blocks[b].localTail, blocks[b].tail, v)
           /\ \A c \in 1 .. Len(blocks) : blocks'[c].data = blocks[c].data
<1>. DEFINE k == [blocks[b] EXCEPT !.localFront = v]
<1>1. QBasic
  BY Basics
<1>2. /\ k \in BlockT /\ blocks' = [blocks EXCEPT ![b] = k]
      /\ k.next = blocks[b].next /\ k.data = blocks[b].data
      /\ k.front = blocks[b].front /\ k.localTail = blocks[b].localTail
      /\ k.tail = blocks[b].tail /\ k.localFront = v
  <2>1. blocks[b] \in BlockT
    BY <1>1 DEF QBasic
  <2>2. v \in Nat
    OBVIOUS
  <2>. QED  BY <2>1, <2>2 DEF BlockT
<1>3. Wrote(b, k.front, k.localTail, k.tail, k.localFront)
  <2>. HIDE DEF k
  <2>. QED  BY <1>1, <1>2, WritesBlock DEF QBasic
<1>. HIDE DEF k
<1>. QED  BY <1>2, <1>3 DEF QTyped

LEMMA WritesData ==
    ASSUME QTyped, NEW b \in 1 .. Len(blocks), NEW i \in 0 .. Last(b), NEW v \in Slot,
           blocks' = [blocks EXCEPT ![b].data[i] = v],
           maxSize' = maxSize, (prod'.pc = "link") <=> (prod.pc = "link")
    PROVE  /\ Wrote(b, blocks[b].front, blocks[b].localTail, blocks[b].tail,
                    blocks[b].localFront)
           /\ \A c \in 1 .. Len(blocks) : c # b => blocks'[c].data = blocks[c].data
           /\ \A j \in 0 .. Last(b) :
                blocks'[b].data[j] = IF j = i THEN v ELSE blocks[b].data[j]
<1>. DEFINE d == [blocks[b].data EXCEPT ![i] = v]
            k == [blocks[b] EXCEPT !.data = d]
<1>1. QBasic
  BY Basics
<1>2. /\ d \in [0 .. Last(b) -> Slot]
      /\ \A j \in 0 .. Last(b) : d[j] = IF j = i THEN v ELSE blocks[b].data[j]
  BY <1>1 DEF QBasic
<1>3. blocks' = [blocks EXCEPT ![b] = k]
  OBVIOUS
<1>. HIDE DEF d
<1>4. d \in DataT
  <2>1. Size(b) \in Nat /\ Last(b) = Size(b) - 1
    BY <1>1 DEF QBasic
  <2>. QED  BY <1>2, <2>1 DEF DataT
<1>5. /\ k \in BlockT
      /\ k.next = blocks[b].next /\ k.data = d
      /\ k.front = blocks[b].front /\ k.localTail = blocks[b].localTail
      /\ k.tail = blocks[b].tail /\ k.localFront = blocks[b].localFront
  <2>1. blocks[b] \in BlockT
    BY <1>1 DEF QBasic
  <2>. QED  BY <1>4, <2>1 DEF BlockT
<1>. HIDE DEF k
<1>6. Wrote(b, k.front, k.localTail, k.tail, k.localFront)
  BY <1>1, <1>2, <1>3, <1>5, WritesBlock DEF QBasic
<1>7. /\ blocks'[b] = k
      /\ \A c \in 1 .. Len(blocks) : c # b => blocks'[c] = blocks[c]
  BY <1>3 DEF QTyped
<1>. QED  BY <1>2, <1>5, <1>6, <1>7

-----------------------------------------------------------------------------
(***************************************************************************)
(* What keeps each part of the invariant.                                  *)
(***************************************************************************)

LEMMA LinkedIn ==
    ASSUME QBasic, NEW b \in Linked
    PROVE  b \in 1 .. Len(blocks)
  BY DEF QBasic

LEMMA RingKept ==
    ASSUME NEW pos, QBasic, QRing(pos), NLinked' = NLinked, Linked' = Linked,
           frontBlock' = frontBlock,
           \A c \in 1 .. Len(blocks) : blocks'[c].next = blocks[c].next
    PROVE  QRing(pos)'
<1>1. \A c \in Linked : blocks'[c].next = blocks[c].next
  BY LinkedIn
<1>. QED  BY <1>1 DEF QRing

LEMMA CountKept ==
    ASSUME NEW pos, QBasic, QCount(pos), Linked' = Linked, tailBlock' = tailBlock,
           \/ prod.pc # "moveTailBlock" /\ prod'.pc # "moveTailBlock"
           \/ prod' = prod,
           \A c \in Linked : /\ Held(c)' = Held(c) /\ Last(c)' = Last(c)
                             /\ Seen(c)' <= Held(c) /\ Held(c) <= Used(c)'
    PROVE  QCount(pos)'
<1>1. tailBlock \in Linked
  BY DEF QBasic
<1>. QED  BY <1>1 DEF QCount

LEMMA SlotsKept ==
    ASSUME QBasic, NEW b \in Linked, NEW n, Slots(b, n),
           Held(b)' = Held(b), Size(b)' = Size(b), blocks'[b].front = blocks[b].front,
           \A i \in 0 .. Last(b) : i # blocks[b].tail => BlockSlot(b, i)' = BlockSlot(b, i)
    PROVE  Slots(b, n)'
<1>0. b \in 1 .. Len(blocks)
  BY LinkedIn
<1>1. /\ Size(b) \in Nat /\ Size(b) > 0 /\ Last(b) = Size(b) - 1
      /\ Held(b) \in 0 .. Last(b) /\ blocks[b].front \in 0 .. Last(b)
      /\ blocks[b].tail \in 0 .. Last(b)
  BY <1>0 DEF QBasic
<1>2. ASSUME NEW j \in 0 .. Held(b) - 1
      PROVE  /\ At(Size(b), blocks[b].front, j) \in 0 .. Last(b)
             /\ At(Size(b), blocks[b].front, j) # blocks[b].tail
  <2>1. /\ j \in 0 .. Size(b) - 1 /\ j # Held(b)
        /\ blocks[b].front \in 0 .. Size(b) - 1 /\ blocks[b].tail \in 0 .. Size(b) - 1
    BY <1>1
  <2>2. Held(b) = Dist(Size(b), blocks[b].front, blocks[b].tail)
    BY DEF Held
  <2>3. /\ At(Size(b), blocks[b].front, j) \in 0 .. Size(b) - 1
        /\ At(Size(b), blocks[b].front, j) = blocks[b].tail
             <=> j = Dist(Size(b), blocks[b].front, blocks[b].tail)
    BY <1>1, <2>1, AtFacts, ZenonT(60)
  <2>. QED  BY <1>1, <2>1, <2>2, <2>3
<1>3. ASSUME NEW j \in 0 .. Held(b) - 1
      PROVE  (BlockSlot(b, At(Size(b), blocks[b].front, j)))' = n + j + 1
  <2>1. PICK i \in 0 .. Last(b) : i = At(Size(b), blocks[b].front, j)
    BY <1>2
  <2>2. BlockSlot(b, i) = n + j + 1
    BY <2>1 DEF Slots
  <2>3. BlockSlot(b, i)' = n + j + 1
    BY <1>2, <2>1, <2>2
  <2>4. i = (At(Size(b), blocks[b].front, j))'
    BY <2>1
  <2>. QED  BY <2>3, <2>4
<1>. QED  BY <1>3 DEF Slots

LEMMA DataKept ==
    ASSUME NEW pos, NEW lo, QBasic, QRing(pos), QData(pos, lo),
           Linked' = Linked, tailBlock' = tailBlock, prod'.element = prod.element,
           \A c \in Linked : pos[c] <= pos[tailBlock] =>
             /\ Held(c)' = Held(c) /\ Size(c)' = Size(c)
             /\ blocks'[c].front = blocks[c].front /\ blocks'[c].next = blocks[c].next
             /\ \A i \in 0 .. Last(c) :
                  i # blocks[c].tail => BlockSlot(c, i)' = BlockSlot(c, i)
    PROVE  QData(pos, lo)'
<1>1. tailBlock \in Linked
  BY DEF QBasic
<1>2. \A c \in Linked : pos[c] \in Int
  BY DEF QRing, QBasic
<1>3. ASSUME NEW c \in Linked, pos[c] <= pos[tailBlock]  PROVE Slots(c, lo[c])'
  <2>1. Slots(c, lo[c])
    BY <1>3 DEF QData
  <2>. QED  BY <1>3, <2>1, SlotsKept
<1>4. (\A b \in Linked : pos[b] <= pos[tailBlock] => Slots(b, lo[b]))'
  BY <1>3
<1>5. (lo[tailBlock] + Held(tailBlock) = prod.element - 1)'
  BY <1>1, <1>2 DEF QData
<1>6. (\A b \in Linked : pos[b] < pos[tailBlock] => lo[blocks[b].next] = lo[b] + Held(b))'
  BY <1>1, <1>2 DEF QData
<1>7. (\A b \in Linked : pos[b] <= pos[tailBlock] => lo[b] + Held(b) <= prod.element - 1)'
  BY <1>1, <1>2 DEF QData
<1>. QED  BY <1>4, <1>5, <1>6, <1>7 DEF QData

\* A step of the producer and the consumer's part: p and l are the positions
\* and numbers after the step.
LEMMA ConsKept ==
    ASSUME NEW pos, NEW lo, NEW p, NEW l, QBasic, QRing(pos), QCons(pos, lo),
           cons' = cons, frontBlock' = frontBlock, l[frontBlock] = lo[frontBlock],
           p[tailBlock'] \in Nat, prod.element \in Int, prod'.element \in Int,
           prod'.element >= prod.element, lo[frontBlock] \in Int,
           pos[tailBlock] > 0 => /\ p[tailBlock'] > 0
                                 /\ Held(frontBlock)' = Held(frontBlock)
                                 /\ blocks'[frontBlock].next = blocks[frontBlock].next,
           \A c \in Linked : blocks'[c].front = blocks[c].front /\ Seen(c)' = Seen(c)
    PROVE  QCons(p, l)'
<1>1. frontBlock \in Linked /\ cons.block \in Linked /\ pos[tailBlock] \in Nat
  BY DEF QBasic, QRing
<1>. QED  BY <1>1 DEF QCons

\* A step of the consumer and the producer's part.
LEMMA ProdKept ==
    ASSUME NEW pos, NEW p, QBasic, QRing(pos), QProd(pos),
           prod' = prod, tailBlock' = tailBlock, NLinked' = NLinked,
           p[tailBlock] \in Nat, p[tailBlock] <= pos[tailBlock],
           \A c \in Linked :
             /\ Used(c)' = Used(c) /\ Last(c)' = Last(c)
             /\ blocks'[c].next = blocks[c].next /\ blocks'[c].tail = blocks[c].tail
             /\ blocks'[c].localFront = blocks[c].localFront
             /\ blocks'[c].data[blocks[c].tail] = blocks[c].data[blocks[c].tail]
             /\ pos[c] > 0 => /\ Held(c)' = Held(c)
                              /\ blocks'[c].front = blocks[c].front
                              /\ pos[c] > pos[tailBlock] => blocks'[c].data = blocks[c].data
    PROVE  QProd(p)'
<1>1. /\ tailBlock \in Linked /\ prod.block \in Linked /\ pos[tailBlock] \in 0 .. NLinked - 1
      /\ NLinked \in Nat
  BY DEF QBasic, QRing
<1>2. prod.pc \in Ahead => pos[prod.block] = pos[tailBlock] + 1
  BY <1>1 DEF QProd, QRing
<1>3. /\ prod.pc \in {"construct", "moveTail"} => Used(tailBlock)' < Last(tailBlock)'
      /\ prod.pc \in {"construct", "moveTail", "full", "alloc", "link"} => prod.block = tailBlock
      /\ prod.pc \in Ahead => p[tailBlock] < NLinked - 1 /\ prod.block = blocks'[tailBlock].next
  BY <1>1 DEF QProd
<1>4. prod.pc \in {"full", "alloc", "link"} \cup Ahead /\ p[tailBlock] > 0 =>
        Held(tailBlock)' = Last(tailBlock)'
  BY <1>1 DEF QProd
<1>5. prod.pc \in {"constructNext", "moveTailNext"} =>
        blocks'[prod.block].localFront = blocks'[prod.block].front
  BY <1>1, <1>2 DEF QProd, Ahead
<1>6. prod.pc \in {"moveTail", "moveTailNext"} =>
        blocks'[prod.block].data[blocks'[prod.block].tail] = prod.element
  BY <1>1 DEF QProd
<1>7. prod.pc = "moveTailBlock" =>
        blocks'[prod.block].data[blocks'[prod.block].front] = prod.element
  BY <1>1, <1>2 DEF QProd, Ahead
<1>8. /\ prod.pc = "full" /\ p[tailBlock] = NLinked - 1 => ~prod.room
      /\ prod.pc \in {"alloc", "link"} => ~prod.room
      /\ ~prod.answer => ~prod.room
  BY <1>1 DEF QProd
<1>. QED  BY <1>3, <1>4, <1>5, <1>6, <1>7, <1>8 DEF QProd, Ahead

\* The block that is not linked yet is the producer's.
LEMMA NewKept ==
    ASSUME QBasic, QNew, prod' = prod, tailBlock' = tailBlock, Len(blocks') = Len(blocks),
           \A c \in 1 .. Len(blocks) :
             /\ blocks'[c].next = blocks[c].next
             /\ c \notin Linked => blocks'[c] = blocks[c]
    PROVE  QNew'
<1>1. tailBlock \in 1 .. Len(blocks)
  BY DEF QBasic
<1>2. prod.pc = "link" => Len(blocks) \in 1 .. Len(blocks) /\ Len(blocks) \notin Linked
  BY DEF QBasic, Linked
<1>. QED  BY <1>1, <1>2 DEF QNew

-----------------------------------------------------------------------------
(***************************************************************************)
(* The steps of the producer.                                              *)
(***************************************************************************)

\* The types after a step that writes one block.
LEMMA TypedKept ==
    ASSUME QTyped, NEW b, NEW f, NEW lt, NEW t, NEW lf, Wrote(b, f, lt, t, lf),
           maxSize' = maxSize, initialBlocks' = initialBlocks,
           largestBlockSize' = largestBlockSize, frontBlock' = frontBlock,
           tailBlock' = tailBlock,
           prod' \in [pc : ProdPc, canAlloc : BOOLEAN, element : Nat, block : Nat,
                      answer : BOOLEAN, room : BOOLEAN],
           prod'.element \in 1 .. MaxElements + 1,
           prod'.pc # Idle => prod'.element \in Element,
           prod'.block \in Linked,
           cons' \in ConsT,
           cons'.block \in Linked,
           result' \in Slot, failed' = FALSE
    PROVE  QTyped'
<1>1. initialBlockCount(maxSize') = initialBlockCount(maxSize)
  BY DEF initialBlockCount
<1>. QED  BY <1>1 DEF QTyped, Wrote, initialBlockCount

LEMMA ContentsLen ==
    ASSUME NEW pos, NEW lo, QTyped, QRing(pos), QData(pos, lo)
    PROVE  /\ lo[frontBlock] \in Nat /\ prod.element \in Nat
           /\ prod.element - 1 - lo[frontBlock] \in Nat
           /\ Len(Contents) = prod.element - 1 - lo[frontBlock]
           /\ Contents = <<>> <=> prod.element - 1 = lo[frontBlock]
<1>1. /\ lo[frontBlock] \in Nat /\ prod.element \in Nat
      /\ prod.element - 1 - lo[frontBlock] \in Nat
      /\ Contents = Run(lo[frontBlock], prod.element - 1 - lo[frontBlock])
  BY ContentsIs
<1>2. PICK n \in Nat : n = prod.element - 1 - lo[frontBlock]
  BY <1>1
<1>3. Contents = Run(lo[frontBlock], n)
  BY <1>1, <1>2
<1>4. Len(Contents) = n /\ Contents \in Seq(Nat)
  BY <1>1, <1>3, RunIsSeq
<1>5. Contents = <<>> <=> n = 0
  BY <1>4
<1>. QED  BY <1>1, <1>2, <1>4, <1>5

\* In terms of the counts: the successor of the tail.
LEMMA TailFacts ==
    ASSUME QBasic, NEW b \in 1 .. Len(blocks)
    PROVE  /\ Succ(b, blocks[b].tail) = Next1(Size(b), blocks[b].tail)
           /\ Succ(b, blocks[b].tail) \in 0 .. Last(b)
           /\ Succ(b, blocks[b].tail) = blocks[b].localFront <=> Used(b) = Last(b)
           /\ Succ(b, blocks[b].tail) = blocks[b].front <=> Held(b) = Last(b)
           /\ Held(b) < Last(b) =>
                Dist(Size(b), blocks[b].front, Succ(b, blocks[b].tail)) = Held(b) + 1
           /\ Used(b) < Last(b) =>
                Dist(Size(b), blocks[b].localFront, Succ(b, blocks[b].tail)) = Used(b) + 1
           /\ Held(b) = 0 <=> blocks[b].front = blocks[b].tail
           /\ Seen(b) = 0 <=> blocks[b].front = blocks[b].localTail
<1>1. /\ Size(b) \in Nat /\ Size(b) > 0 /\ Last(b) = Size(b) - 1
      /\ blocks[b].front \in 0 .. Size(b) - 1 /\ blocks[b].tail \in 0 .. Size(b) - 1
      /\ blocks[b].localFront \in 0 .. Size(b) - 1
      /\ blocks[b].localTail \in 0 .. Size(b) - 1
  BY DEF QBasic
<1>2. Succ(b, blocks[b].tail) = Next1(Size(b), blocks[b].tail)
  BY <1>1, NextIndex DEF Succ, Size
<1>3. PICK s, f, t, lf, lt : /\ s = Size(b) /\ f = blocks[b].front /\ t = blocks[b].tail
                             /\ lf = blocks[b].localFront /\ lt = blocks[b].localTail
  OBVIOUS
<1>4. /\ s \in Nat /\ s > 0 /\ f \in 0 .. s - 1 /\ t \in 0 .. s - 1
      /\ lf \in 0 .. s - 1 /\ lt \in 0 .. s - 1
  BY <1>1, <1>3
<1>5. /\ Next1(s, t) \in 0 .. s - 1
      /\ Next1(s, t) = lf <=> Dist(s, lf, t) = s - 1
      /\ Next1(s, t) = f <=> Dist(s, f, t) = s - 1
      /\ Dist(s, f, t) < s - 1 => Dist(s, f, Next1(s, t)) = Dist(s, f, t) + 1
      /\ Dist(s, lf, t) < s - 1 => Dist(s, lf, Next1(s, t)) = Dist(s, lf, t) + 1
      /\ Dist(s, f, t) = 0 <=> f = t
      /\ Dist(s, f, lt) = 0 <=> f = lt
  <2>1. /\ Next1(s, t) \in 0 .. s - 1
        /\ Next1(s, t) = f <=> Dist(s, f, t) = s - 1
        /\ Dist(s, f, t) < s - 1 => Dist(s, f, Next1(s, t)) = Dist(s, f, t) + 1
        /\ Dist(s, f, t) = 0 <=> f = t
    BY <1>4, DistFacts
  <2>2. /\ Next1(s, t) = lf <=> Dist(s, lf, t) = s - 1
        /\ Dist(s, lf, t) < s - 1 => Dist(s, lf, Next1(s, t)) = Dist(s, lf, t) + 1
    BY <1>4, DistFacts
  <2>3. Dist(s, f, lt) = 0 <=> f = lt
    BY <1>4, DistFacts
  <2>. QED  BY <2>1, <2>2, <2>3
<1>6. Held(b) = Dist(s, f, t) /\ Used(b) = Dist(s, lf, t) /\ Seen(b) = Dist(s, f, lt)
  BY <1>3 DEF Held, Used, Seen
<1>. QED  BY <1>1, <1>2, <1>3, <1>5, <1>6

LEMMA enqueueStep ==
    ASSUME NEW pos, NEW lo, QI(pos, lo), NEW canAlloc \in BOOLEAN, enqueue(canAlloc)
    PROVE  QI(pos, lo)'
<1>. PICK b : b = tailBlock
  OBVIOUS
<1>. DEFINE stale == Succ(b, blocks[b].tail) = blocks[b].localFront
            noRoom == stale /\ Succ(b, blocks[b].tail) = blocks[b].front
            v == IF stale THEN blocks[b].front ELSE blocks[b].localFront
<1>0. QTyped /\ QBasic /\ QRing(pos) /\ QCount(pos) /\ QData(pos, lo) /\ QProd(pos)
      /\ QNew /\ QCons(pos, lo)
  BY Basics DEF QI
<1>1. /\ prod.pc = Idle /\ prod.element \in Element
      /\ prod' = [prod EXCEPT !.pc = IF noRoom THEN "full" ELSE "construct",
                              !.canAlloc = canAlloc, !.block = b, !.answer = TRUE,
                              !.room = Len(Contents) < maxSize]
      /\ blocks' = [blocks EXCEPT ![b].localFront = v]
      /\ UNCHANGED <<maxSize, initialBlocks, frontBlock, tailBlock, largestBlockSize, cons,
                     result, failed>>
  BY DEF enqueue
<1>2. b \in Linked /\ b \in 1 .. Len(blocks) /\ b \in Nat
  BY <1>0 DEF QBasic
<1>3. /\ prod'.pc \in {"full", "construct"} /\ prod'.block = b /\ prod'.answer = TRUE
      /\ prod'.element = prod.element /\ prod'.room = (Len(Contents) < maxSize)
      /\ prod'.pc = IF noRoom THEN "full" ELSE "construct"
  BY <1>0, <1>1 DEF QTyped
<1>4. prod' \in [pc : ProdPc, canAlloc : BOOLEAN, element : Nat, block : Nat,
                 answer : BOOLEAN, room : BOOLEAN]
  <2>1. (Len(Contents) < maxSize) \in BOOLEAN
    OBVIOUS
  <2>2. prod \in [pc : ProdPc, canAlloc : BOOLEAN, element : Nat, block : Nat,
                  answer : BOOLEAN, room : BOOLEAN]
    BY <1>0 DEF QTyped
  <2>. QED  BY <1>1, <1>2, <2>1, <2>2 DEF ProdPc
<1>5. v \in 0 .. Last(b)
  BY <1>0, <1>2 DEF QBasic
<1>6. /\ Wrote(b, blocks[b].front, blocks[b].localTail, blocks[b].tail, v)
      /\ \A c \in 1 .. Len(blocks) : blocks'[c].data = blocks[c].data
  <2>. HIDE DEF v
  <2>. QED  BY <1>0, <1>1, <1>2, <1>3, <1>5, WritesLocalFront DEF Idle
<1>7. /\ stale <=> Used(b) = Last(b)
      /\ noRoom <=> Used(b) = Last(b) /\ Held(b) = Last(b)
  BY <1>0, <1>2, TailFacts
<1>8. /\ Held(b) \in Nat /\ Used(b) \in Nat /\ Last(b) \in Nat
      /\ Held(b) <= Used(b) /\ Used(b) <= Last(b)
  BY <1>0, <1>2 DEF QBasic, QCount
<1>9. /\ Used(b)' = IF stale THEN Held(b) ELSE Used(b)
      /\ Held(b)' = Held(b) /\ Seen(b)' = Seen(b)
  BY <1>6 DEF Wrote, Held, Used, Seen
<1>10. \A c \in 1 .. Len(blocks) :
         /\ Held(c)' = Held(c) /\ Seen(c)' = Seen(c) /\ Last(c)' = Last(c)
         /\ Size(c)' = Size(c)
         /\ blocks'[c].front = blocks[c].front /\ blocks'[c].next = blocks[c].next
         /\ c # b => Used(c)' = Used(c)
  BY <1>6, <1>9 DEF Wrote
<1>. HIDE DEF v, stale, noRoom
<1>11. QTyped'
  BY <1>0, <1>1, <1>2, <1>3, <1>4, <1>6, TypedKept DEF QTyped
<1>12. Linked' = Linked /\ NLinked' = NLinked /\ Linked \subseteq 1 .. Len(blocks)
  BY <1>0, <1>6 DEF Wrote, QBasic
<1>13. QRing(pos)'
  BY <1>0, <1>1, <1>10, <1>12, RingKept
<1>14. QCount(pos)'
  <2>1. \A c \in Linked : /\ Held(c)' = Held(c) /\ Last(c)' = Last(c)
                          /\ Seen(c)' <= Held(c) /\ Held(c) <= Used(c)'
    BY <1>0, <1>8, <1>9, <1>10, <1>12 DEF QCount
  <2>. QED  BY <1>0, <1>1, <1>3, <1>12, <2>1, CountKept DEF Idle
<1>15. QData(pos, lo)'
  <2>1. \A c \in Linked : \A i \in 0 .. Last(c) : BlockSlot(c, i)' = BlockSlot(c, i)
    BY <1>1, <1>6, <1>12 DEF BlockSlot
  <2>. QED  BY <1>0, <1>1, <1>3, <1>10, <1>12, <2>1, DataKept
<1>16. QProd(pos)'
  <2>1. prod'.pc = "construct" => Used(b)' < Last(b)'
    BY <1>2, <1>3, <1>7, <1>8, <1>9, <1>10
  <2>2. prod'.pc = "full" => Held(b)' = Last(b)'
    BY <1>2, <1>3, <1>7, <1>10
  <2>3. prod'.pc = "full" /\ pos[b] = NLinked - 1 => ~prod'.room
    <3>. SUFFICES ASSUME prod'.pc = "full", pos[b] = NLinked - 1  PROVE ~prod'.room
      OBVIOUS
    <3>1. Held(b) = Last(b)
      BY <1>3, <1>7
    <3>2. prod.element - 1 - lo[frontBlock] >= maxSize
      BY <1>0, <3>1, FullHolds
    <3>3. Len(Contents) = prod.element - 1 - lo[frontBlock] /\ Len(Contents) \in Nat
      BY <1>0, ContentsLen
    <3>4. maxSize \in Nat
      BY <1>0, BaseFacts DEF QTyped
    <3>5. ~(Len(Contents) < maxSize)
      BY <3>2, <3>3, <3>4
    <3>. QED  BY <1>3, <3>5, Zenon
  <2>. QED  BY <1>1, <1>3, <1>12, <2>1, <2>2, <2>3 DEF QProd, Ahead
<1>17. QNew'
  BY <1>3 DEF QNew
<1>18. QCons(pos, lo)'
  <2>1. lo[frontBlock] \in Int /\ prod.element \in Int
    BY <1>0, ContentsLen
  <2>2. pos[tailBlock] \in Nat
    BY <1>0, <1>2 DEF QRing, QBasic
  <2>3. \A c \in Linked : blocks'[c].front = blocks[c].front /\ Seen(c)' = Seen(c)
    BY <1>10, <1>12
  <2>4. /\ Held(frontBlock)' = Held(frontBlock)
        /\ blocks'[frontBlock].next = blocks[frontBlock].next
    <3>1. frontBlock \in 1 .. Len(blocks)
      BY <1>0 DEF QBasic
    <3>. QED  BY <1>1, <1>10, <3>1
  <2>. QED  BY <1>0, <1>1, <1>3, <2>1, <2>2, <2>3, <2>4, ConsKept
<1>. QED  BY <1>11, <1>13, <1>14, <1>15, <1>16, <1>17, <1>18 DEF QI

\* What the counts are when no index of a block is written.
Counted(c) ==
  /\ Held(c)' = Held(c) /\ Seen(c)' = Seen(c) /\ Used(c)' = Used(c)
  /\ Size(c)' = Size(c) /\ Last(c)' = Last(c)
  /\ blocks'[c].front = blocks[c].front /\ blocks'[c].tail = blocks[c].tail
  /\ blocks'[c].localFront = blocks[c].localFront
  /\ blocks'[c].localTail = blocks[c].localTail
  /\ blocks'[c].next = blocks[c].next

LEMMA WroteCounted ==
    ASSUME NEW b \in 1 .. Len(blocks),
           Wrote(b, blocks[b].front, blocks[b].localTail, blocks[b].tail,
                 blocks[b].localFront)
    PROVE  \A c \in 1 .. Len(blocks) : Counted(c)
<1>1. Held(b)' = Held(b) /\ Seen(b)' = Seen(b) /\ Used(b)' = Used(b)
  BY DEF Wrote, Held, Seen, Used
<1>. QED  BY <1>1 DEF Wrote, Counted

LEMMA WritesNothing ==
    ASSUME QTyped, blocks' = blocks, maxSize' = maxSize,
           (prod'.pc = "link") <=> (prod.pc = "link"), NEW b \in 1 .. Len(blocks)
    PROVE  /\ Wrote(b, blocks[b].front, blocks[b].localTail, blocks[b].tail,
                    blocks[b].localFront)
           /\ \A c \in 1 .. Len(blocks) : Counted(c)
<1>0. QBasic
  BY Basics
<1>1. PICK k : k = blocks[b]
  OBVIOUS
<1>2. blocks' = [blocks EXCEPT ![b] = k]
  BY <1>1 DEF QTyped
<1>3. Wrote(b, k.front, k.localTail, k.tail, k.localFront)
  BY <1>0, <1>1, <1>2, WritesBlock DEF QBasic
<1>. QED  BY <1>1, <1>3, WroteCounted

\* The element is constructed in its slot, in either block.
LEMMA constructStep ==
    ASSUME NEW pos, NEW lo, QI(pos, lo),
           \/ Store("construct", Constructed(prod.block), "moveTail")
           \/ Store("constructNext", Constructed(prod.block), "moveTailNext")
    PROVE  QI(pos, lo)'
<1>. PICK b : b = prod.block
  OBVIOUS
<1>0. QTyped /\ QBasic /\ QRing(pos) /\ QCount(pos) /\ QData(pos, lo) /\ QProd(pos)
      /\ QNew /\ QCons(pos, lo)
  BY Basics DEF QI
<1>1. /\ \/ prod.pc = "construct" /\ prod' = [prod EXCEPT !.pc = "moveTail"]
         \/ prod.pc = "constructNext" /\ prod' = [prod EXCEPT !.pc = "moveTailNext"]
      /\ blocks' = [blocks EXCEPT ![b] = [blocks[b] EXCEPT !.data[blocks[b].tail] = prod.element]]
      /\ UNCHANGED <<maxSize, initialBlocks, frontBlock, tailBlock, largestBlockSize, cons,
                     result, failed>>
  BY DEF Store, Constructed, Idle
<1>2. b \in Linked /\ b \in 1 .. Len(blocks)
  BY <1>0 DEF QBasic
<1>3. /\ prod' \in [pc : ProdPc, canAlloc : BOOLEAN, element : Nat, block : Nat,
                    answer : BOOLEAN, room : BOOLEAN]
      /\ prod'.block = b /\ prod'.element = prod.element /\ prod'.answer = prod.answer
      /\ prod'.room = prod.room /\ prod.element \in Element
      /\ prod'.element \in 1 .. MaxElements + 1
      /\ \/ prod.pc = "construct" /\ prod'.pc = "moveTail"
         \/ prod.pc = "constructNext" /\ prod'.pc = "moveTailNext"
  BY <1>0, <1>1 DEF QTyped, ProdPc, Idle
<1>4. PICK i \in 0 .. Last(b) : i = blocks[b].tail
  BY <1>0, <1>2 DEF QBasic
<1>5. blocks' = [blocks EXCEPT ![b].data[i] = prod.element]
  BY <1>1, <1>4
<1>6. PICK v \in Slot : v = prod.element
  BY <1>3 DEF Slot
<1>7. /\ Wrote(b, blocks[b].front, blocks[b].localTail, blocks[b].tail, blocks[b].localFront)
      /\ \A c \in 1 .. Len(blocks) : c # b => blocks'[c].data = blocks[c].data
      /\ \A j \in 0 .. Last(b) :
           blocks'[b].data[j] = IF j = i THEN v ELSE blocks[b].data[j]
  <2>1. blocks' = [blocks EXCEPT ![b].data[i] = v]
    BY <1>5, <1>6, Zenon
  <2>2. QTyped /\ maxSize' = maxSize /\ ((prod'.pc = "link") <=> (prod.pc = "link"))
    BY <1>0, <1>1, <1>3
  <2>. QED  BY <1>2, <2>1, <2>2, WritesData
<1>8. \A c \in 1 .. Len(blocks) : Counted(c)
  BY <1>2, <1>7, WroteCounted
<1>9. Linked' = Linked /\ NLinked' = NLinked /\ Linked \subseteq 1 .. Len(blocks)
  BY <1>0, <1>7 DEF Wrote, QBasic
<1>10. \A c \in Linked : Counted(c)
  BY <1>8, <1>9
<1>11. QTyped'
  BY <1>0, <1>1, <1>2, <1>3, <1>7, TypedKept DEF QTyped
<1>12. QRing(pos)'
  BY <1>0, <1>1, <1>8, <1>9, RingKept DEF Counted
<1>13. QCount(pos)'
  <2>1. \A c \in Linked : /\ Held(c)' = Held(c) /\ Last(c)' = Last(c)
                          /\ Seen(c)' <= Held(c) /\ Held(c) <= Used(c)'
    BY <1>0, <1>10 DEF QCount, Counted
  <2>. QED  BY <1>0, <1>1, <1>3, <1>9, <2>1, CountKept
<1>14. QData(pos, lo)'
  <2>1. \A c \in Linked : \A j \in 0 .. Last(c) :
          j # blocks[c].tail => BlockSlot(c, j)' = BlockSlot(c, j)
    BY <1>1, <1>4, <1>7, <1>9 DEF BlockSlot
  <2>. QED  BY <1>0, <1>1, <1>3, <1>9, <1>10, <2>1, DataKept DEF Counted
<1>15. QProd(pos)'
  <2>1. tailBlock \in Linked /\ Counted(tailBlock) /\ Counted(b)
    BY <1>0, <1>2, <1>8, <1>10 DEF QBasic
  <2>2. blocks'[b].data[blocks'[b].tail] = prod.element
    BY <1>4, <1>6, <1>7, <2>1 DEF Counted
  <2>. QED  BY <1>0, <1>1, <1>3, <1>9, <2>1, <2>2 DEF QProd, Ahead, Counted
<1>16. QNew'
  BY <1>3 DEF QNew
<1>17. QCons(pos, lo)'
  <2>1. lo[frontBlock] \in Int /\ prod.element \in Int
    BY <1>0, ContentsLen
  <2>2. pos[tailBlock] \in Nat /\ Counted(frontBlock)
    BY <1>0, <1>10 DEF QRing, QBasic
  <2>. QED  BY <1>0, <1>1, <1>3, <1>10, <2>1, <2>2, ConsKept DEF Counted
<1>. QED  BY <1>11, <1>12, <1>13, <1>14, <1>15, <1>16, <1>17 DEF QI

LEMMA PosFacts ==
    ASSUME NEW pos, QBasic, QRing(pos)
    PROVE  /\ \A c \in Linked : pos[c] \in Nat /\ pos[c] <= NLinked - 1
           /\ \A c \in Linked : pos[c] = 0 <=> c = frontBlock
           /\ \A c \in Linked : pos[c] = pos[tailBlock] <=> c = tailBlock
<1>1. /\ NLinked \in Nat /\ frontBlock \in Linked /\ tailBlock \in Linked
      /\ pos \in [Linked -> 0 .. NLinked - 1] /\ pos[frontBlock] = 0
      /\ \A b, c \in Linked : pos[b] = pos[c] => b = c
  BY DEF QBasic, QRing
<1>2. \A c \in Linked : pos[c] \in Nat /\ pos[c] <= NLinked - 1
  BY <1>1
<1>3. \A c \in Linked : pos[c] = 0 <=> c = frontBlock
  BY <1>1
<1>4. \A c \in Linked : pos[c] = pos[tailBlock] <=> c = tailBlock
  BY <1>1
<1>. QED  BY <1>2, <1>3, <1>4

LEMMA AheadFacts ==
    ASSUME NEW pos, QBasic, QRing(pos), QProd(pos), prod.pc \in Ahead
    PROVE  /\ pos[prod.block] = pos[tailBlock] + 1
           /\ prod.block # tailBlock /\ prod.block # frontBlock
<1>1. /\ tailBlock \in Linked /\ prod.block \in Linked /\ pos[tailBlock] < NLinked - 1
      /\ prod.block = blocks[tailBlock].next
  BY DEF QBasic, QProd
<1>2. pos[prod.block] = IF pos[tailBlock] = NLinked - 1 THEN 0 ELSE pos[tailBlock] + 1
  BY <1>1 DEF QRing
<1>3. pos[tailBlock] \in Nat /\ NLinked \in Nat /\ pos[frontBlock] = 0
  BY <1>1, PosFacts DEF QRing, QBasic
<1>. QED  BY <1>1, <1>2, <1>3
\* The slot of the element that is not in the queue yet is not the one the
\* consumer empties.
LEMMA SlotIsData ==
    ASSUME NEW pos, NEW lo, QBasic, QRing(pos), QCount(pos), QCons(pos, lo),
           NEW b \in Linked, NEW i, b # frontBlock \/ i = blocks[b].tail
    PROVE  BlockSlot(b, i) = blocks[b].data[i]
<1>. SUFFICES ASSUME cons.pc = "moveFront", cons.block = b, cons.at = i  PROVE FALSE
  BY DEF BlockSlot
<1>1. b = frontBlock /\ i = blocks[b].front /\ Seen(b) >= 1
  BY DEF QCons, Idle
<1>2. b \in 1 .. Len(blocks)
  BY LinkedIn
<1>3. Held(b) >= Seen(b) /\ Held(b) \in Nat /\ Seen(b) \in Nat
  BY <1>2 DEF QCount, QBasic
<1>4. blocks[b].front # blocks[b].tail
  BY <1>1, <1>2, <1>3, TailFacts
<1>. QED  BY <1>1, <1>4

LEMMA SlotsGrow ==
    ASSUME QBasic, NEW b \in Linked, NEW n \in Nat, Slots(b, n),
           Held(b)' = Held(b) + 1, Held(b) < Last(b),
           Size(b)' = Size(b), blocks'[b].front = blocks[b].front,
           \A i \in 0 .. Last(b) : BlockSlot(b, i)' = BlockSlot(b, i),
           BlockSlot(b, blocks[b].tail) = n + Held(b) + 1
    PROVE  Slots(b, n)'
<1>0. b \in 1 .. Len(blocks)
  BY LinkedIn
<1>1. /\ Size(b) \in Nat /\ Size(b) > 0 /\ Last(b) = Size(b) - 1
      /\ Held(b) \in Nat /\ blocks[b].front \in 0 .. Size(b) - 1
      /\ blocks[b].tail \in 0 .. Size(b) - 1
  <2>1. /\ Size(b) \in Nat /\ Size(b) > 0 /\ Last(b) = Size(b) - 1 /\ Held(b) \in 0 .. Last(b)
        /\ blocks[b].front \in 0 .. Last(b) /\ blocks[b].tail \in 0 .. Last(b)
    BY <1>0 DEF QBasic
  <2>. QED  BY <2>1
<1>2. Held(b) = Dist(Size(b), blocks[b].front, blocks[b].tail)
  BY DEF Held
<1>3. ASSUME NEW j \in 0 .. Held(b)
      PROVE  (BlockSlot(b, At(Size(b), blocks[b].front, j)))' = n + j + 1
  <2>0. j \in 0 .. Size(b) - 1
    BY <1>1
  <2>1. PICK i \in 0 .. Last(b) : i = At(Size(b), blocks[b].front, j)
    BY <1>1, <2>0, AtFacts
  <2>2. BlockSlot(b, i) = n + j + 1
    <3>1. CASE j = Held(b)
      <4>1. At(Size(b), blocks[b].front, Held(b)) = blocks[b].tail
        <5>1. At(Size(b), blocks[b].front, Dist(Size(b), blocks[b].front, blocks[b].tail))
              = blocks[b].tail
          BY <1>1, DistFacts, ZenonT(60)
        <5>. QED  BY <1>2, <5>1, Zenon
      <4>. QED  BY <2>1, <3>1, <4>1
    <3>2. CASE j # Held(b)
      <4>1. j \in 0 .. Held(b) - 1
        BY <1>1, <3>2
      <4>. QED  BY <2>1, <4>1 DEF Slots
    <3>. QED  BY <3>1, <3>2
  <2>3. BlockSlot(b, i)' = n + j + 1
    BY <2>1, <2>2
  <2>4. i = (At(Size(b), blocks[b].front, j))'
    BY <2>1
  <2>. QED  BY <2>3, <2>4
<1>4. Held(b)' - 1 = Held(b)
  BY <1>1
<1>. QED  BY <1>3, <1>4 DEF Slots

\* The producer's locals after a call that enqueued its element.
LEMMA EnqueuedIs ==
    ASSUME QTyped, prod.pc # Idle, prod' = Enqueued
    PROVE  /\ prod' \in [pc : ProdPc, canAlloc : BOOLEAN, element : Nat, block : Nat,
                         answer : BOOLEAN, room : BOOLEAN]
           /\ prod'.block = 1 /\ prod'.element = prod.element + 1 /\ prod'.answer = TRUE
           /\ prod.element \in Element /\ prod'.pc = Idle
           /\ prod'.element \in 1 .. MaxElements + 1
<1>1. /\ prod \in [pc : ProdPc, canAlloc : BOOLEAN, element : Nat, block : Nat,
                   answer : BOOLEAN, room : BOOLEAN]
      /\ prod.element \in Element
  BY DEF QTyped
<1>2. prod.element + 1 \in 1 .. MaxElements + 1 /\ prod.element + 1 \in Nat
  BY <1>1, QueueAssumption DEF Element
<1>3. Idle \in ProdPc
  BY DEF ProdPc
<1>4. prod' = [prod EXCEPT !.pc = Idle, !.answer = TRUE, !.element = prod.element + 1,
                           !.block = 1, !.canAlloc = FALSE, !.room = TRUE]
  BY DEF Enqueued
<1>5. /\ prod'.block = 1 /\ prod'.element = prod.element + 1 /\ prod'.pc = Idle
      /\ prod'.answer = TRUE
  BY <1>1, <1>4
<1>6. prod' \in [pc : ProdPc, canAlloc : BOOLEAN, element : Nat, block : Nat,
                 answer : BOOLEAN, room : BOOLEAN]
  <2>1. PICK e \in Nat : e = prod.element + 1
    BY <1>2
  <2>2. PICK q : q = [prod EXCEPT !.pc = Idle, !.element = e, !.block = 1]
    OBVIOUS
  <2>3. q \in [pc : ProdPc, canAlloc : BOOLEAN, element : Nat, block : Nat,
               answer : BOOLEAN, room : BOOLEAN]
    BY <1>1, <1>3, <2>2
  <2>4. prod' = [q EXCEPT !.answer = TRUE, !.canAlloc = FALSE, !.room = TRUE]
    BY <1>1, <1>4, <2>1, <2>2
  <2>. QED  BY <2>3, <2>4
<1>. QED  BY <1>1, <1>2, <1>5, <1>6

\* The producer's locals after a call that was refused.
LEMMA RefusedIs ==
    ASSUME prod \in [pc : ProdPc, canAlloc : BOOLEAN, element : Nat, block : Nat,
                     answer : BOOLEAN, room : BOOLEAN],
           prod' = Refused
    PROVE  /\ prod' \in [pc : ProdPc, canAlloc : BOOLEAN, element : Nat, block : Nat,
                         answer : BOOLEAN, room : BOOLEAN]
           /\ prod'.element = prod.element /\ prod'.room = prod.room
           /\ prod'.pc = Idle /\ prod'.block = 1 /\ prod'.answer = FALSE
<1>1. Idle \in ProdPc
  BY DEF ProdPc
<1>2. prod' = [prod EXCEPT !.pc = Idle, !.answer = FALSE, !.block = 1, !.canAlloc = FALSE]
  BY DEF Refused
<1>3. /\ prod'.element = prod.element /\ prod'.room = prod.room
      /\ prod'.pc = Idle /\ prod'.block = 1 /\ prod'.answer = FALSE
  BY <1>2
<1>4. PICK q : q = [prod EXCEPT !.pc = Idle, !.block = 1]
  OBVIOUS
<1>5. q \in [pc : ProdPc, canAlloc : BOOLEAN, element : Nat, block : Nat,
             answer : BOOLEAN, room : BOOLEAN]
  BY <1>1, <1>4
<1>6. prod' = [q EXCEPT !.answer = FALSE, !.canAlloc = FALSE]
  BY <1>2, <1>4
<1>. QED  BY <1>3, <1>5, <1>6

LEMMA moveTailStep ==
    ASSUME NEW pos, NEW lo, QI(pos, lo), Store("moveTail", TailMoved(prod.block), Idle)
    PROVE  QI(pos, lo)'
<1>. PICK b : b = prod.block
  OBVIOUS
<1>0. QTyped /\ QBasic /\ QRing(pos) /\ QCount(pos) /\ QData(pos, lo) /\ QProd(pos)
      /\ QNew /\ QCons(pos, lo)
  BY Basics DEF QI
<1>1. /\ prod.pc = "moveTail" /\ prod' = Enqueued
      /\ blocks' = [blocks EXCEPT ![b] = [blocks[b] EXCEPT !.tail = Succ(b, @)]]
      /\ UNCHANGED <<maxSize, initialBlocks, frontBlock, tailBlock, largestBlockSize, cons,
                     result, failed>>
  BY DEF Store, TailMoved, Idle
<1>2. /\ b \in Linked /\ b \in 1 .. Len(blocks) /\ b = tailBlock
      /\ frontBlock \in Linked /\ frontBlock \in 1 .. Len(blocks)
  BY <1>0, <1>1 DEF QBasic, QProd
<1>3. /\ prod' \in [pc : ProdPc, canAlloc : BOOLEAN, element : Nat, block : Nat,
                    answer : BOOLEAN, room : BOOLEAN]
      /\ prod'.block = 1 /\ prod'.element = prod.element + 1 /\ prod'.answer = TRUE
      /\ prod.element \in Element /\ prod'.pc = Idle
      /\ prod'.element \in 1 .. MaxElements + 1
  BY <1>0, <1>1, EnqueuedIs DEF QTyped, Idle
<1>4. PICK v \in 0 .. Last(b) : v = Succ(b, blocks[b].tail)
  BY <1>0, <1>2, TailFacts
<1>5. /\ Wrote(b, blocks[b].front, blocks[b].localTail, v, blocks[b].localFront)
      /\ \A c \in 1 .. Len(blocks) : blocks'[c].data = blocks[c].data
  <2>1. blocks' = [blocks EXCEPT ![b].tail = v]
    BY <1>1, <1>4
  <2>2. QTyped /\ maxSize' = maxSize /\ ((prod'.pc = "link") <=> (prod.pc = "link"))
    BY <1>0, <1>1, <1>3 DEF Idle
  <2>. QED  BY <1>2, <2>1, <2>2, WritesTail
<1>6. /\ Held(b) \in Nat /\ Used(b) \in Nat /\ Last(b) \in Nat /\ Seen(b) \in Nat
      /\ Seen(b) <= Held(b) /\ Held(b) <= Used(b) /\ Used(b) < Last(b)
  BY <1>0, <1>1, <1>2 DEF QBasic, QCount, QProd
<1>7. Held(b)' = Held(b) + 1 /\ Used(b)' = Used(b) + 1 /\ Seen(b)' = Seen(b)
  <2>1. Held(b) < Last(b)
    BY <1>6
  <2>2. Held(b)' = Held(b) + 1 /\ Used(b)' = Used(b) + 1
    BY <1>0, <1>2, <1>4, <1>5, <1>6, <2>1, TailFacts DEF Wrote
  <2>. QED  BY <1>5, <2>2 DEF Wrote, Seen
<1>8. Linked' = Linked /\ NLinked' = NLinked /\ Linked \subseteq 1 .. Len(blocks)
      /\ NLinked >= 1 /\ NLinked \in Nat
  BY <1>0, <1>5 DEF Wrote, QBasic
<1>9. \A c \in Linked : c # b => Counted(c)
  BY <1>5, <1>8 DEF Wrote, Counted
<1>10. \A c \in Linked : /\ blocks'[c].next = blocks[c].next
                         /\ blocks'[c].front = blocks[c].front
                         /\ Size(c)' = Size(c) /\ Last(c)' = Last(c)
                         /\ blocks'[c].data = blocks[c].data
                         /\ Seen(c)' = Seen(c)
  BY <1>5, <1>7, <1>8, <1>9 DEF Wrote, Counted
<1>11. QTyped'
  <2>1. prod'.block \in Linked
    BY <1>3, <1>8 DEF Linked
  <2>. QED  BY <1>0, <1>1, <1>2, <1>3, <1>5, <2>1, TypedKept DEF QTyped
<1>12. QRing(pos)'
  BY <1>0, <1>1, <1>5, <1>8, RingKept DEF Wrote
<1>13. \A c \in Linked : pos[c] \in Nat
  BY <1>0, PosFacts
<1>14. QCount(pos)'
  <2>1. (\A c \in Linked : Seen(c) <= Held(c) /\ Held(c) <= Used(c))'
    BY <1>0, <1>6, <1>7, <1>8, <1>9 DEF QCount, Counted
  <2>2. (\A c \in Linked : pos[c] > pos[tailBlock] =>
           Held(c) = IF prod.pc = "moveTailBlock" /\ c = prod.block THEN 1 ELSE 0)'
    BY <1>0, <1>1, <1>2, <1>3, <1>8, <1>9, <1>13 DEF QCount, Counted, Idle
  <2>3. (\A c \in Linked : pos[c] > 0 /\ pos[c] < pos[tailBlock] => Held(c) = Last(c))'
    BY <1>0, <1>1, <1>2, <1>8, <1>9, <1>13 DEF QCount, Counted
  <2>4. (pos[tailBlock] > 0 => Held(tailBlock) >= 1)'
    BY <1>1, <1>2, <1>6, <1>7
  <2>. QED  BY <2>1, <2>2, <2>3, <2>4 DEF QCount
<1>15. QData(pos, lo)'
  <2>1. \A c \in Linked : lo[c] \in Nat
    BY <1>0 DEF QData
  <2>2. \A c \in Linked : \A i \in 0 .. Last(c) : BlockSlot(c, i)' = BlockSlot(c, i)
    BY <1>1, <1>10 DEF BlockSlot
  <2>3. lo[b] + Held(b) = prod.element - 1 /\ prod.element \in Nat
    BY <1>0, <1>2 DEF QData, QTyped
  <2>4. Slots(b, lo[b])'
    <3>1. Slots(b, lo[b])
      BY <1>0, <1>2, <1>13 DEF QData
    <3>2. BlockSlot(b, blocks[b].tail) = blocks[b].data[blocks[b].tail]
      BY <1>0, <1>2, SlotIsData
    <3>3. blocks[b].data[blocks[b].tail] = prod.element
      BY <1>0, <1>1 DEF QProd
    <3>4. BlockSlot(b, blocks[b].tail) = lo[b] + Held(b) + 1
      BY <1>2, <1>6, <2>1, <2>3, <3>2, <3>3
    <3>5. Held(b) < Last(b)
      BY <1>6
    <3>. QED  BY <1>0, <1>2, <1>7, <1>10, <2>1, <2>2, <3>1, <3>4, <3>5, SlotsGrow
  <2>5. ASSUME NEW c \in Linked, pos[c] <= pos[tailBlock], c # b  PROVE Slots(c, lo[c])'
    <3>1. Slots(c, lo[c])
      BY <1>0, <2>5 DEF QData
    <3>. QED  BY <1>0, <1>9, <2>2, <2>5, <3>1, SlotsKept DEF Counted
  <2>6. (\A c \in Linked : pos[c] <= pos[tailBlock] => Slots(c, lo[c]))'
    BY <1>1, <1>8, <2>4, <2>5
  <2>7. (lo[tailBlock] + Held(tailBlock) = prod.element - 1)'
    <3>1. lo[b] \in Nat /\ Held(b)' = Held(b) + 1 /\ prod'.element = prod.element + 1
      BY <1>2, <1>3, <1>7, <2>1
    <3>2. lo[b] + Held(b)' = prod'.element - 1
      BY <1>6, <2>3, <3>1
    <3>. QED  BY <1>1, <1>2, <3>2
  <2>8. (\A c \in Linked : pos[c] < pos[tailBlock] => lo[blocks[c].next] = lo[c] + Held(c))'
    BY <1>0, <1>1, <1>2, <1>8, <1>9, <1>13 DEF QData, Counted
  <2>9. (\A c \in Linked : pos[c] <= pos[tailBlock] => lo[c] + Held(c) <= prod.element - 1)'
    <3>. SUFFICES ASSUME NEW c \in Linked, pos[c] <= pos[tailBlock]
                  PROVE  lo[c] + Held(c)' <= prod'.element - 1
      BY <1>1, <1>8
    <3>1. CASE c = b
      <4>1. lo[b] \in Nat /\ Held(b)' = Held(b) + 1 /\ prod'.element = prod.element + 1
        BY <1>2, <1>3, <1>7, <2>1
      <4>2. lo[b] + Held(b)' <= prod'.element - 1
        BY <1>6, <2>3, <4>1
      <4>. QED  BY <3>1, <4>2
    <3>2. CASE c # b
      <4>1. Held(c) \in Nat
        BY <1>0, <1>8 DEF QBasic
      <4>2. lo[c] + Held(c) <= prod.element - 1
        BY <1>0 DEF QData
      <4>3. Held(c)' = Held(c)
        BY <1>9, <3>2 DEF Counted
      <4>. QED  BY <1>3, <2>1, <2>3, <4>1, <4>2, <4>3
    <3>. QED  BY <3>1, <3>2
  <2>. QED  BY <1>0, <1>8, <2>6, <2>7, <2>8, <2>9 DEF QData
<1>16. QProd(pos)'
  BY <1>3 DEF QProd, Ahead, Idle
<1>17. QNew'
  BY <1>3 DEF QNew, Idle
<1>18. QCons(pos, lo)'
  <2>1. lo[frontBlock] \in Int /\ prod.element \in Int
    BY <1>0, ContentsLen
  <2>2. pos[tailBlock] > 0 => frontBlock # b
    BY <1>0, <1>2, <1>13 DEF QRing
  <2>3. pos[tailBlock] > 0 => Counted(frontBlock)
    BY <1>2, <1>9, <2>2
  <2>4. pos[tailBlock] \in Nat
    BY <1>2, <1>13
  <2>. QED  BY <1>0, <1>1, <1>3, <1>10, <2>1, <2>3, <2>4, ConsKept DEF Counted
<1>. QED  BY <1>11, <1>12, <1>14, <1>15, <1>16, <1>17, <1>18 DEF QI

LEMMA moveTailNextStep ==
    ASSUME NEW pos, NEW lo, QI(pos, lo),
           Store("moveTailNext", TailMoved(prod.block), "moveTailBlock")
    PROVE  QI(pos, lo)'
<1>. PICK b : b = prod.block
  OBVIOUS
<1>0. QTyped /\ QBasic /\ QRing(pos) /\ QCount(pos) /\ QData(pos, lo) /\ QProd(pos)
      /\ QNew /\ QCons(pos, lo)
  BY Basics DEF QI
<1>1. /\ prod.pc = "moveTailNext" /\ prod' = [prod EXCEPT !.pc = "moveTailBlock"]
      /\ blocks' = [blocks EXCEPT ![b] = [blocks[b] EXCEPT !.tail = Succ(b, @)]]
      /\ UNCHANGED <<maxSize, initialBlocks, frontBlock, tailBlock, largestBlockSize, cons,
                     result, failed>>
  BY DEF Store, TailMoved, Idle
<1>2. /\ b \in Linked /\ b \in 1 .. Len(blocks) /\ b = blocks[tailBlock].next
      /\ pos[b] = pos[tailBlock] + 1 /\ b # tailBlock /\ b # frontBlock
      /\ frontBlock \in Linked /\ tailBlock \in Linked
  <2>1. prod.pc \in Ahead
    BY <1>1 DEF Ahead
  <2>. QED  BY <1>0, <2>1, AheadFacts DEF QBasic, QProd
<1>3. /\ prod' \in [pc : ProdPc, canAlloc : BOOLEAN, element : Nat, block : Nat,
                    answer : BOOLEAN, room : BOOLEAN]
      /\ prod'.block = b /\ prod'.element = prod.element /\ prod'.answer = prod.answer
      /\ prod'.room = prod.room /\ prod.element \in Element
      /\ prod'.element \in 1 .. MaxElements + 1 /\ prod'.pc = "moveTailBlock"
  BY <1>0, <1>1 DEF QTyped, ProdPc, Idle
<1>4. PICK v \in 0 .. Last(b) : v = Succ(b, blocks[b].tail)
  BY <1>0, <1>2, TailFacts
<1>5. /\ Wrote(b, blocks[b].front, blocks[b].localTail, v, blocks[b].localFront)
      /\ \A c \in 1 .. Len(blocks) : blocks'[c].data = blocks[c].data
  <2>1. blocks' = [blocks EXCEPT ![b].tail = v]
    BY <1>1, <1>4
  <2>2. QTyped /\ maxSize' = maxSize /\ ((prod'.pc = "link") <=> (prod.pc = "link"))
    BY <1>0, <1>1, <1>3
  <2>. QED  BY <1>2, <2>1, <2>2, WritesTail
<1>6. \A c \in Linked : pos[c] \in Nat
  BY <1>0, PosFacts
<1>7. /\ Held(b) = 0 /\ Used(b) = 0 /\ Seen(b) = 0 /\ Last(b) \in Nat /\ Last(b) >= 1
      /\ blocks[b].localFront = blocks[b].front /\ blocks[b].front = blocks[b].tail
  <2>1. pos[b] > pos[tailBlock]
    BY <1>2, <1>6
  <2>2. Held(b) = 0
    BY <1>0, <1>1, <1>2, <2>1 DEF QCount
  <2>3. blocks[b].localFront = blocks[b].front
    BY <1>0, <1>1 DEF QProd
  <2>4. Used(b) = 0
    BY <2>2, <2>3 DEF Held, Used
  <2>5. Seen(b) \in Nat /\ Seen(b) <= Held(b) /\ Last(b) \in Nat /\ Last(b) >= 1
    <3>1. Seen(b) \in 0 .. Last(b) /\ Last(b) \in Nat /\ Last(b) >= 1
      BY <1>0, <1>2 DEF QBasic
    <3>. QED  BY <1>0, <1>2, <3>1 DEF QCount
  <2>6. blocks[b].front = blocks[b].tail
    BY <1>0, <1>2, <2>2, TailFacts
  <2>. QED  BY <2>2, <2>3, <2>4, <2>5, <2>6
<1>8. Held(b)' = 1 /\ Used(b)' = 1 /\ Seen(b)' = 0
  <2>1. Held(b)' = Held(b) + 1 /\ Used(b)' = Used(b) + 1
    BY <1>0, <1>2, <1>4, <1>5, <1>7, TailFacts, SMTT(30) DEF Wrote
  <2>2. Seen(b)' = Seen(b)
    BY <1>5 DEF Wrote, Seen
  <2>. QED  BY <1>7, <2>1, <2>2
<1>9. Linked' = Linked /\ NLinked' = NLinked /\ Linked \subseteq 1 .. Len(blocks)
  BY <1>0, <1>5 DEF Wrote, QBasic
<1>10. \A c \in Linked : c # b => Counted(c)
  BY <1>5, <1>9 DEF Wrote, Counted
<1>11. \A c \in Linked : /\ blocks'[c].next = blocks[c].next
                         /\ blocks'[c].front = blocks[c].front
                         /\ Size(c)' = Size(c) /\ Last(c)' = Last(c)
                         /\ blocks'[c].data = blocks[c].data
                         /\ Seen(c)' = Seen(c)
  BY <1>5, <1>7, <1>8, <1>9, <1>10 DEF Wrote, Counted
<1>12. QTyped'
  BY <1>0, <1>1, <1>2, <1>3, <1>5, TypedKept DEF QTyped
<1>13. QRing(pos)'
  BY <1>0, <1>1, <1>5, <1>9, RingKept DEF Wrote
<1>14. QCount(pos)'
  <2>1. (\A c \in Linked : Seen(c) <= Held(c) /\ Held(c) <= Used(c))'
    BY <1>0, <1>8, <1>9, <1>10 DEF QCount, Counted
  <2>2. (\A c \in Linked : pos[c] > pos[tailBlock] =>
           Held(c) = IF prod.pc = "moveTailBlock" /\ c = prod.block THEN 1 ELSE 0)'
    BY <1>0, <1>1, <1>3, <1>8, <1>9, <1>10 DEF QCount, Counted
  <2>3. (\A c \in Linked : pos[c] > 0 /\ pos[c] < pos[tailBlock] => Held(c) = Last(c))'
    BY <1>0, <1>1, <1>2, <1>6, <1>9, <1>10 DEF QCount, Counted
  <2>4. (pos[tailBlock] > 0 => Held(tailBlock) >= 1)'
    BY <1>0, <1>1, <1>2, <1>10 DEF QCount, Counted
  <2>. QED  BY <2>1, <2>2, <2>3, <2>4 DEF QCount
<1>15. QData(pos, lo)'
  <2>1. \A c \in Linked : \A i \in 0 .. Last(c) : BlockSlot(c, i)' = BlockSlot(c, i)
    BY <1>1, <1>11 DEF BlockSlot
  <2>2. \A c \in Linked : pos[c] <= pos[tailBlock] => Counted(c)
    BY <1>2, <1>6, <1>10
  <2>. QED  BY <1>0, <1>1, <1>3, <1>9, <2>1, <2>2, DataKept DEF Counted
<1>16. QProd(pos)'
  <2>1. Counted(tailBlock)
    BY <1>2, <1>10
  <2>2. blocks'[b].data[blocks'[b].front] = prod.element
    BY <1>0, <1>1, <1>2, <1>7, <1>11 DEF QProd
  <2>. QED  BY <1>0, <1>1, <1>2, <1>3, <1>9, <2>1, <2>2 DEF QProd, Ahead, Counted
<1>17. QNew'
  BY <1>3 DEF QNew
<1>18. QCons(pos, lo)'
  <2>1. lo[frontBlock] \in Int /\ prod.element \in Int
    BY <1>0, ContentsLen
  <2>2. pos[tailBlock] \in Nat /\ Counted(frontBlock)
    BY <1>2, <1>6, <1>10
  <2>. QED  BY <1>0, <1>1, <1>3, <1>11, <2>1, <2>2, ConsKept DEF Counted
<1>. QED  BY <1>12, <1>13, <1>14, <1>15, <1>16, <1>17, <1>18 DEF QI

\* The tail block is full: the three ways on.
LEMMA tailBlockFullStep ==
    ASSUME NEW pos, NEW lo, QI(pos, lo), tailBlockFull
    PROVE  QI(pos, lo)'
<1>. PICK b : b = prod.block
  OBVIOUS
<1>. PICK n : n = blocks[b].next
  OBVIOUS
<1>0. QTyped /\ QBasic /\ QRing(pos) /\ QCount(pos) /\ QData(pos, lo) /\ QProd(pos)
      /\ QNew /\ QCons(pos, lo)
  BY Basics DEF QI
<1>1. /\ prod.pc = "full"
      /\ UNCHANGED <<maxSize, initialBlocks, frontBlock, tailBlock, largestBlockSize, cons,
                     result>>
  BY DEF tailBlockFull
<1>2. /\ b = tailBlock /\ b \in Linked /\ b \in 1 .. Len(blocks)
      /\ n \in Linked /\ n \in 1 .. Len(blocks)
      /\ frontBlock \in Linked /\ NLinked \in Nat /\ NLinked >= 1
  <2>1. b = tailBlock /\ b \in Linked
    BY <1>0, <1>1 DEF QProd, QBasic
  <2>2. b \in 1 .. Len(blocks)
    BY <1>0, <2>1, LinkedIn
  <2>3. n \in Linked
    BY <1>0, <2>2 DEF QBasic
  <2>. QED  BY <1>0, <2>1, <2>2, <2>3, LinkedIn DEF QBasic
<1>3. /\ \A c \in Linked : pos[c] \in Nat /\ pos[c] <= NLinked - 1
      /\ \A c \in Linked : pos[c] = 0 <=> c = frontBlock
      /\ pos[n] = IF pos[b] = NLinked - 1 THEN 0 ELSE pos[b] + 1
  BY <1>0, <1>2, PosFacts DEF QRing
<1>4. lo[frontBlock] \in Int /\ prod.element \in Int
  BY <1>0, ContentsLen
<1>5. pos[b] > 0 => Held(b) = Last(b)
  BY <1>0, <1>1, <1>2 DEF QProd
<1>6. prod \in [pc : ProdPc, canAlloc : BOOLEAN, element : Nat, block : Nat,
                answer : BOOLEAN, room : BOOLEAN]
      /\ prod.element \in Element /\ prod.element \in 1 .. MaxElements + 1
  BY <1>0, <1>1 DEF QTyped, Idle
<1>7. CASE /\ n # frontBlock
           /\ blocks' = [blocks EXCEPT ![n].localFront = blocks[n].front]
           /\ failed' = (failed \/ blocks[n].front # blocks[n].tail)
           /\ prod' = [prod EXCEPT !.pc = "constructNext", !.block = n]
  <2>1. pos[n] = pos[b] + 1 /\ pos[n] > pos[tailBlock] /\ pos[b] < NLinked - 1 /\ n # b
    BY <1>2, <1>3, <1>7
  <2>2. /\ prod' \in [pc : ProdPc, canAlloc : BOOLEAN, element : Nat, block : Nat,
                      answer : BOOLEAN, room : BOOLEAN]
        /\ prod'.block = n /\ prod'.element = prod.element /\ prod'.answer = prod.answer
        /\ prod'.room = prod.room /\ prod'.pc = "constructNext"
    <3>1. n \in Nat /\ "constructNext" \in ProdPc
      BY <1>2 DEF ProdPc
    <3>. QED  BY <1>6, <1>7, <3>1
  <2>3. Held(n) = 0 /\ blocks[n].front = blocks[n].tail
    <3>1. Held(n) = 0
      BY <1>0, <1>1, <1>2, <2>1 DEF QCount
    <3>. QED  BY <1>0, <1>2, <3>1, TailFacts
  <2>4. failed' = FALSE
    BY <1>0, <1>7, <2>3 DEF QTyped
  <2>5. PICK v \in 0 .. Last(n) : v = blocks[n].front
    BY <1>0, <1>2 DEF QBasic
  <2>6. /\ Wrote(n, blocks[n].front, blocks[n].localTail, blocks[n].tail, v)
        /\ \A c \in 1 .. Len(blocks) : blocks'[c].data = blocks[c].data
    <3>1. blocks' = [blocks EXCEPT ![n].localFront = v]
      BY <1>7, <2>5
    <3>2. QTyped /\ maxSize' = maxSize /\ ((prod'.pc = "link") <=> (prod.pc = "link"))
      BY <1>0, <1>1, <2>2
    <3>. QED  BY <1>2, <3>1, <3>2, WritesLocalFront
  <2>7. Held(n)' = Held(n) /\ Seen(n)' = Seen(n) /\ Used(n)' = Held(n)
    BY <2>5, <2>6 DEF Wrote, Held, Seen
  <2>8. Linked' = Linked /\ NLinked' = NLinked /\ Linked \subseteq 1 .. Len(blocks)
    BY <1>0, <2>6 DEF Wrote, QBasic
  <2>9. \A c \in Linked : c # n => Counted(c)
    BY <2>6, <2>8 DEF Wrote, Counted
  <2>10. \A c \in Linked :
           /\ Held(c)' = Held(c) /\ Seen(c)' = Seen(c) /\ Last(c)' = Last(c)
           /\ Size(c)' = Size(c)
           /\ blocks'[c].front = blocks[c].front /\ blocks'[c].next = blocks[c].next
           /\ blocks'[c].data = blocks[c].data
    BY <2>6, <2>7, <2>8, <2>9 DEF Wrote, Counted
  <2>11. QTyped'
    BY <1>0, <1>1, <1>2, <1>6, <2>2, <2>4, <2>6, TypedKept DEF QTyped
  <2>12. QRing(pos)'
    BY <1>0, <1>1, <2>6, <2>8, RingKept DEF Wrote
  <2>13. QCount(pos)'
    <3>1. \A c \in Linked : Held(c) \in Nat
      BY <1>0, <2>8, SMTT(30) DEF QBasic
    <3>2. \A c \in Linked : /\ Held(c)' = Held(c) /\ Last(c)' = Last(c)
                            /\ Seen(c)' <= Held(c) /\ Held(c) <= Used(c)'
      BY <1>0, <2>7, <2>9, <2>10, <3>1 DEF QCount, Counted
    <3>. QED  BY <1>0, <1>1, <2>2, <2>8, <3>2, CountKept
  <2>14. QData(pos, lo)'
    <3>1. \A c \in Linked : \A i \in 0 .. Last(c) : BlockSlot(c, i)' = BlockSlot(c, i)
      BY <1>1, <2>10 DEF BlockSlot
    <3>. QED  BY <1>0, <1>1, <2>2, <2>8, <2>10, <3>1, DataKept
  <2>15. QProd(pos)'
    <3>1. /\ blocks'[n].localFront = blocks'[n].front
          /\ blocks'[tailBlock].next = n
      BY <1>2, <2>5, <2>6, <2>10 DEF Wrote
    <3>2. pos[tailBlock] > 0 => Held(tailBlock)' = Last(tailBlock)'
      BY <1>1, <1>2, <1>5, <2>10
    <3>. QED  BY <1>0, <1>1, <1>2, <2>1, <2>2, <2>8, <3>1, <3>2 DEF QProd, Ahead
  <2>16. QNew'
    BY <2>2 DEF QNew
  <2>17. QCons(pos, lo)'
    <3>1. pos[tailBlock] \in Nat
      BY <1>2, <1>3
    <3>2. Held(frontBlock)' = Held(frontBlock)
      BY <1>1, <1>2, <2>10
    <3>. QED  BY <1>0, <1>1, <1>2, <1>4, <2>2, <2>10, <3>1, <3>2, ConsKept
  <2>. QED  BY <2>11, <2>12, <2>13, <2>14, <2>15, <2>16, <2>17 DEF QI
<1>8. CASE /\ n = frontBlock
           /\ \/ prod' = [prod EXCEPT !.pc = "alloc"]
              \/ prod' = Refused
           /\ UNCHANGED <<blocks, failed>>
  <2>1. pos[b] = NLinked - 1 /\ ~prod.room
    <3>1. pos[b] = NLinked - 1
      BY <1>2, <1>3, <1>8
    <3>. QED  BY <1>0, <1>1, <1>2, <3>1 DEF QProd
  <2>2. /\ prod' \in [pc : ProdPc, canAlloc : BOOLEAN, element : Nat, block : Nat,
                      answer : BOOLEAN, room : BOOLEAN]
        /\ prod'.element = prod.element /\ prod'.room = prod.room
        /\ \/ prod'.pc = "alloc" /\ prod'.block = b /\ prod'.answer = prod.answer
           \/ prod'.pc = Idle /\ prod'.block = 1 /\ prod'.answer = FALSE
        /\ prod'.block \in Linked
    <3>1. 1 \in Linked
      BY <1>2 DEF Linked
    <3>2. CASE prod' = [prod EXCEPT !.pc = "alloc"]
      <4>1. "alloc" \in ProdPc
        BY DEF ProdPc
      <4>. QED  BY <1>2, <1>6, <3>2, <4>1
    <3>3. CASE prod' = Refused
      BY <1>6, <3>1, <3>3, RefusedIs
    <3>. QED  BY <1>8, <3>2, <3>3
  <2>3. /\ Wrote(b, blocks[b].front, blocks[b].localTail, blocks[b].tail, blocks[b].localFront)
        /\ \A c \in 1 .. Len(blocks) : Counted(c)
    <3>1. (prod'.pc = "link") <=> (prod.pc = "link")
      BY <1>1, <2>2 DEF Idle
    <3>. QED  BY <1>0, <1>1, <1>2, <1>8, <3>1, WritesNothing
  <2>4. Linked' = Linked /\ NLinked' = NLinked /\ Linked \subseteq 1 .. Len(blocks)
    BY <1>0, <2>3 DEF Wrote, QBasic
  <2>5. \A c \in Linked : Counted(c)
    BY <2>3, <2>4
  <2>6. QTyped'
    BY <1>0, <1>1, <1>6, <1>8, <2>2, <2>3, TypedKept DEF QTyped
  <2>7. QRing(pos)'
    BY <1>0, <1>1, <2>3, <2>4, RingKept DEF Wrote
  <2>8. QCount(pos)'
    <3>1. \A c \in Linked : /\ Held(c)' = Held(c) /\ Last(c)' = Last(c)
                            /\ Seen(c)' <= Held(c) /\ Held(c) <= Used(c)'
      BY <1>0, <2>5 DEF QCount, Counted
    <3>. QED  BY <1>0, <1>1, <2>2, <2>4, <3>1, CountKept DEF Idle
  <2>9. QData(pos, lo)'
    <3>1. \A c \in Linked : \A i \in 0 .. Last(c) : BlockSlot(c, i)' = BlockSlot(c, i)
      BY <1>1, <1>8 DEF BlockSlot
    <3>. QED  BY <1>0, <1>1, <2>2, <2>4, <2>5, <3>1, DataKept DEF Counted
  <2>10. QProd(pos)'
    <3>1. pos[tailBlock] > 0 => Held(tailBlock)' = Last(tailBlock)'
      BY <1>1, <1>2, <1>5, <2>5 DEF Counted
    <3>. QED  BY <1>1, <1>2, <2>1, <2>2, <3>1 DEF QProd, Ahead, Idle
  <2>11. QNew'
    BY <2>2 DEF QNew, Idle
  <2>12. QCons(pos, lo)'
    <3>1. pos[tailBlock] \in Nat /\ Counted(frontBlock)
      BY <1>2, <1>3, <2>5
    <3>. QED  BY <1>0, <1>1, <1>4, <2>2, <2>5, <3>1, ConsKept DEF Counted
  <2>. QED  BY <2>6, <2>7, <2>8, <2>9, <2>10, <2>11, <2>12 DEF QI
<1>. QED  BY <1>7, <1>8 DEF tailBlockFull, nextFree

\* The tail block moves: the element counts as enqueued.
LEMMA moveTailBlockStep ==
    ASSUME NEW pos, NEW lo, QI(pos, lo), moveTailBlock
    PROVE  \E l : QI(pos, l)' /\ l[frontBlock] = lo[frontBlock]
<1>. PICK b : b = prod.block
  OBVIOUS
<1>. PICK l : l = [lo EXCEPT ![b] = prod.element - 1]
  OBVIOUS
<1>0. QTyped /\ QBasic /\ QRing(pos) /\ QCount(pos) /\ QData(pos, lo) /\ QProd(pos)
      /\ QNew /\ QCons(pos, lo)
  BY Basics DEF QI
<1>1. /\ prod.pc = "moveTailBlock" /\ tailBlock' = b /\ prod' = Enqueued
      /\ UNCHANGED <<maxSize, initialBlocks, blocks, frontBlock, largestBlockSize, cons,
                     result, failed>>
  BY DEF moveTailBlock
<1>2. /\ b \in Linked /\ b \in 1 .. Len(blocks) /\ b = blocks[tailBlock].next
      /\ pos[b] = pos[tailBlock] + 1 /\ b # tailBlock /\ b # frontBlock
      /\ frontBlock \in Linked /\ tailBlock \in Linked
      /\ pos[tailBlock] < NLinked - 1
  <2>1. prod.pc \in Ahead
    BY <1>1 DEF Ahead
  <2>. QED  BY <1>0, <2>1, AheadFacts DEF QBasic, QProd
<1>3. /\ prod' \in [pc : ProdPc, canAlloc : BOOLEAN, element : Nat, block : Nat,
                    answer : BOOLEAN, room : BOOLEAN]
      /\ prod'.block = 1 /\ prod'.element = prod.element + 1 /\ prod'.answer = TRUE
      /\ prod.element \in Element /\ prod'.pc = Idle
      /\ prod'.element \in 1 .. MaxElements + 1
  BY <1>0, <1>1, EnqueuedIs DEF Idle
<1>4. /\ Wrote(b, blocks[b].front, blocks[b].localTail, blocks[b].tail, blocks[b].localFront)
      /\ \A c \in 1 .. Len(blocks) : Counted(c)
  <2>1. (prod'.pc = "link") <=> (prod.pc = "link")
    BY <1>1, <1>3 DEF Idle
  <2>. QED  BY <1>0, <1>1, <1>2, <2>1, WritesNothing
<1>5. Linked' = Linked /\ NLinked' = NLinked /\ Linked \subseteq 1 .. Len(blocks)
      /\ NLinked >= 1 /\ NLinked \in Nat
  BY <1>0, <1>4 DEF Wrote, QBasic
<1>6. \A c \in Linked : Counted(c)
  BY <1>4, <1>5
<1>7. /\ \A c \in Linked : pos[c] \in Nat /\ pos[c] <= NLinked - 1
      /\ \A c \in Linked : pos[c] = pos[tailBlock] <=> c = tailBlock
      /\ \A c, d \in Linked : pos[c] = pos[d] => c = d
  BY <1>0, PosFacts DEF QRing
<1>8. prod.element \in Nat /\ prod.element >= 1
  BY <1>0 DEF QTyped
<1>9. /\ lo \in [Linked -> Nat] /\ l \in [Linked -> Nat]
      /\ l[b] = prod.element - 1 /\ \A c \in Linked : c # b => l[c] = lo[c]
  <2>1. lo \in [Linked -> Nat]
    BY <1>0 DEF QData
  <2>2. prod.element - 1 \in Nat
    BY <1>8
  <2>. QED  BY <1>2, <2>1, <2>2
<1>10. Held(b) = 1
  <2>1. pos[b] > pos[tailBlock]
    BY <1>2, <1>7
  <2>. QED  BY <1>0, <1>1, <1>2, <2>1 DEF QCount
<1>11. QTyped'
  <2>1. prod'.block \in Linked
    BY <1>3, <1>5 DEF Linked
  <2>. QED  BY <1>0, <1>1, <1>2, <1>3, <1>4, <1>5, <2>1 DEF QTyped, Wrote, initialBlockCount
<1>12. QRing(pos)'
  BY <1>0, <1>1, <1>4, <1>5, RingKept DEF Wrote
<1>13. QCount(pos)'
  <2>1. (\A c \in Linked : Seen(c) <= Held(c) /\ Held(c) <= Used(c))'
    BY <1>0, <1>5, <1>6 DEF QCount, Counted
  <2>2. (\A c \in Linked : pos[c] > pos[tailBlock] =>
           Held(c) = IF prod.pc = "moveTailBlock" /\ c = prod.block THEN 1 ELSE 0)'
    <3>. SUFFICES ASSUME NEW c \in Linked, pos[c] > pos[b]  PROVE Held(c)' = 0
      BY <1>1, <1>3, <1>5 DEF Idle
    <3>1. pos[c] > pos[tailBlock] /\ c # b
      BY <1>2, <1>7
    <3>2. Held(c) = 0
      BY <1>0, <3>1 DEF QCount
    <3>. QED  BY <1>6, <3>2 DEF Counted
  <2>3. (\A c \in Linked : pos[c] > 0 /\ pos[c] < pos[tailBlock] => Held(c) = Last(c))'
    <3>. SUFFICES ASSUME NEW c \in Linked, pos[c] > 0, pos[c] < pos[b]
                  PROVE  Held(c)' = Last(c)'
      BY <1>1, <1>5
    <3>1. CASE c = tailBlock
      <4>1. Held(tailBlock) = Last(tailBlock)
        BY <1>0, <1>1, <3>1 DEF QProd, Ahead
      <4>. QED  BY <1>6, <3>1, <4>1 DEF Counted
    <3>2. CASE c # tailBlock
      <4>1. pos[c] < pos[tailBlock]
        BY <1>2, <1>7, <3>2
      <4>. QED  BY <1>0, <1>6, <4>1 DEF QCount, Counted
    <3>. QED  BY <3>1, <3>2
  <2>4. (pos[tailBlock] > 0 => Held(tailBlock) >= 1)'
    <3>1. Held(b)' = 1
      BY <1>2, <1>6, <1>10 DEF Counted
    <3>. QED  BY <1>1, <3>1
  <2>. QED  BY <2>1, <2>2, <2>3, <2>4 DEF QCount
<1>14. QData(pos, l)'
  <2>1. \A c \in Linked : \A i \in 0 .. Last(c) : BlockSlot(c, i)' = BlockSlot(c, i)
    BY <1>1 DEF BlockSlot
  <2>2. lo[tailBlock] + Held(tailBlock) = prod.element - 1
    BY <1>0 DEF QData
  <2>3. \A c \in Linked : Held(c) \in Nat /\ Held(c)' = Held(c)
    <3>1. \A c \in Linked : Held(c) \in Nat
      BY <1>0, <1>5 DEF QBasic
    <3>. QED  BY <1>6, <3>1 DEF Counted
  <2>4. ASSUME NEW c \in Linked, pos[c] < pos[b]
        PROVE  /\ l[blocks'[c].next] = l[c] + Held(c)'
               /\ c # b /\ pos[c] <= pos[tailBlock]
    <3>1. c # b /\ pos[c] <= pos[tailBlock]
      BY <1>2, <1>7, <2>4
    <3>2. CASE c = tailBlock
      BY <1>1, <1>2, <1>9, <2>2, <2>3, <3>1, <3>2
    <3>3. CASE c # tailBlock
      <4>1. pos[c] < pos[tailBlock]
        BY <1>2, <1>7, <3>1, <3>3
      <4>2. pos[blocks[c].next] = pos[c] + 1 /\ blocks[c].next \in Linked
        <5>1. pos[c] # NLinked - 1
          BY <1>2, <1>5, <1>7, <4>1
        <5>2. c \in 1 .. Len(blocks)
          BY <1>5
        <5>3. blocks[c].next \in Linked
          BY <1>0, <5>2 DEF QBasic
        <5>. QED  BY <1>0, <5>1, <5>3 DEF QRing
      <4>3. blocks[c].next # b
        BY <1>2, <1>7, <4>1, <4>2
      <4>4. lo[blocks[c].next] = lo[c] + Held(c)
        BY <1>0, <4>1 DEF QData
      <4>. QED  BY <1>1, <1>9, <2>3, <3>1, <4>2, <4>3, <4>4
    <3>. QED  BY <3>1, <3>2, <3>3
  <2>5. (\A c \in Linked : pos[c] < pos[tailBlock] => l[blocks[c].next] = l[c] + Held(c))'
    BY <1>1, <1>5, <2>4
  <2>6. l[b] + Held(b)' = prod'.element - 1
    BY <1>2, <1>3, <1>8, <1>9, <1>10, <2>3
  <2>7. (l[tailBlock] + Held(tailBlock) = prod.element - 1)'
    BY <1>1, <2>6
  <2>8. ASSUME NEW c \in Linked, pos[c] <= pos[b]
        PROVE  l[c] + Held(c)' <= prod'.element - 1 /\ Slots(c, l[c])'
    <3>1. CASE c = b
      <4>1. l[b] + Held(b)' <= prod'.element - 1
        BY <1>2, <1>3, <1>8, <1>9, <1>10, <2>3, SMTT(30)
      <4>2. BlockSlot(b, blocks[b].front) = prod.element
        <5>1. BlockSlot(b, blocks[b].front) = blocks[b].data[blocks[b].front]
          BY <1>0, <1>2, SlotIsData
        <5>. QED  BY <1>0, <1>1, <5>1 DEF QProd
      <4>3. ASSUME NEW j \in 0 .. 0
            PROVE  BlockSlot(b, At(Size(b), blocks[b].front, j)) = l[b] + j + 1
        <5>1. At(Size(b), blocks[b].front, j) = blocks[b].front
          <6>1. Size(b) \in Nat /\ blocks[b].front \in 0 .. Last(b) /\ Last(b) = Size(b) - 1
            BY <1>0, <1>2 DEF QBasic
          <6>. QED  BY <6>1 DEF At
        <5>2. l[b] + j + 1 = prod.element
          BY <1>8, <1>9
        <5>. QED  BY <4>2, <5>1, <5>2
      <4>4. Slots(b, l[b])
        BY <1>10, <4>3 DEF Slots
      <4>5. Slots(b, l[b])'
        BY <1>0, <1>2, <1>6, <2>1, <4>4, SlotsKept DEF Counted
      <4>. QED  BY <3>1, <4>1, <4>5
    <3>2. CASE c # b
      <4>1. pos[c] <= pos[tailBlock]
        BY <1>2, <1>7, <2>8, <3>2
      <4>2. l[c] = lo[c] /\ lo[c] \in Nat
        BY <1>9, <3>2
      <4>3. lo[c] + Held(c) <= prod.element - 1 /\ Slots(c, lo[c])
        BY <1>0, <4>1 DEF QData
      <4>4. Slots(c, lo[c])'
        BY <1>0, <1>6, <2>1, <4>3, SlotsKept DEF Counted
      <4>5. l[c] + Held(c)' <= prod'.element - 1
        BY <1>3, <1>8, <2>3, <4>2, <4>3
      <4>. QED  BY <4>2, <4>4, <4>5
    <3>. QED  BY <3>1, <3>2
  <2>9. (\A c \in Linked : pos[c] <= pos[tailBlock] => l[c] + Held(c) <= prod.element - 1)'
    BY <1>1, <1>5, <2>8
  <2>10. (\A c \in Linked : pos[c] <= pos[tailBlock] => Slots(c, l[c]))'
    BY <1>1, <1>5, <2>8
  <2>. QED  BY <1>5, <1>9, <2>5, <2>7, <2>9, <2>10 DEF QData
<1>15. QProd(pos)'
  BY <1>3 DEF QProd, Ahead, Idle
<1>16. QNew'
  BY <1>3 DEF QNew, Idle
<1>17. l[frontBlock] = lo[frontBlock]
  BY <1>2, <1>9
<1>18. QCons(pos, l)'
  <2>1. lo[frontBlock] \in Int /\ prod.element \in Int
    BY <1>0, ContentsLen
  <2>2. pos[b] \in Nat /\ pos[b] > 0 /\ Counted(frontBlock)
    BY <1>2, <1>6, <1>7
  <2>3. prod'.element \in Int /\ prod'.element >= prod.element
    BY <1>3, <1>8
  <2>4. \A c \in Linked : blocks'[c].front = blocks[c].front /\ Seen(c)' = Seen(c)
    BY <1>6 DEF Counted
  <2>5. /\ Held(frontBlock)' = Held(frontBlock)
        /\ blocks'[frontBlock].next = blocks[frontBlock].next
    BY <1>1, <2>2 DEF Counted
  <2>6. pos[tailBlock'] \in Nat /\ pos[tailBlock'] > 0
    BY <1>1, <2>2
  <2>7. cons' = cons /\ frontBlock' = frontBlock
    BY <1>1
  <2>. QED  BY <1>0, <1>17, <2>1, <2>3, <2>4, <2>5, <2>6, <2>7, ConsKept
<1>. QED  BY <1>11, <1>12, <1>13, <1>14, <1>15, <1>16, <1>17, <1>18 DEF QI

LEMMA SizeOfInterval ==
    ASSUME NEW s \in Nat
    PROVE  Cardinality(0 .. s - 1) = s
  BY FS_Interval

\* A new block is appended, or the call is refused.
LEMMA allocStep ==
    ASSUME NEW pos, NEW lo, QI(pos, lo), alloc
    PROVE  QI(pos, lo)'
<1>. PICK b : b = prod.block
  OBVIOUS
<1>. PICK n : n = blocks[b].next
  OBVIOUS
<1>. PICK s : s = IF largestBlockSize >= MAX_BLOCK_SIZE THEN largestBlockSize
                                                        ELSE largestBlockSize * 2
  OBVIOUS
<1>0. QTyped /\ QBasic /\ QRing(pos) /\ QCount(pos) /\ QData(pos, lo) /\ QProd(pos)
      /\ QNew /\ QCons(pos, lo)
  BY Basics DEF QI
<1>1. /\ prod.pc = "alloc"
      /\ UNCHANGED <<maxSize, initialBlocks, frontBlock, tailBlock, cons, result, failed>>
  BY DEF alloc
<1>2. /\ b = tailBlock /\ b \in Linked /\ b \in 1 .. Len(blocks)
      /\ n \in Linked /\ n \in 1 .. Len(blocks) /\ n \in Nat
      /\ frontBlock \in Linked /\ NLinked \in Nat /\ NLinked >= 1
      /\ NLinked = Len(blocks) /\ Linked = 1 .. Len(blocks)
  <2>1. b = tailBlock /\ b \in Linked
    BY <1>0, <1>1 DEF QProd, QBasic
  <2>2. b \in 1 .. Len(blocks)
    BY <1>0, <2>1, LinkedIn
  <2>3. n \in Linked
    BY <1>0, <2>2 DEF QBasic
  <2>4. frontBlock \in Linked /\ NLinked \in Nat /\ NLinked >= 1 /\ NLinked = Len(blocks)
    BY <1>0, <1>1 DEF QBasic
  <2>5. Linked = 1 .. Len(blocks)
    BY <2>4 DEF Linked
  <2>. QED  BY <2>1, <2>2, <2>3, <2>4, <2>5
<1>3. /\ prod \in [pc : ProdPc, canAlloc : BOOLEAN, element : Nat, block : Nat,
                   answer : BOOLEAN, room : BOOLEAN]
      /\ prod.element \in Element /\ prod.element \in 1 .. MaxElements + 1
      /\ ~prod.room
  BY <1>0, <1>1 DEF QTyped, Idle, QProd
<1>4. \A c \in Linked : pos[c] \in Nat
  BY <1>0, PosFacts
<1>5. lo[frontBlock] \in Int /\ prod.element \in Int
  BY <1>0, ContentsLen
<1>6. CASE prod' = Refused /\ UNCHANGED <<largestBlockSize, blocks>>
  <2>1. /\ prod' \in [pc : ProdPc, canAlloc : BOOLEAN, element : Nat, block : Nat,
                      answer : BOOLEAN, room : BOOLEAN]
        /\ prod'.element = prod.element /\ prod'.room = prod.room
        /\ prod'.pc = Idle /\ prod'.block = 1 /\ prod'.answer = FALSE
        /\ prod'.block \in Linked
    <3>1. 1 \in Linked
      BY <1>2 DEF Linked
    <3>. QED  BY <1>3, <1>6, <3>1, RefusedIs
  <2>2. /\ Wrote(b, blocks[b].front, blocks[b].localTail, blocks[b].tail, blocks[b].localFront)
        /\ \A c \in 1 .. Len(blocks) : Counted(c)
    <3>1. (prod'.pc = "link") <=> (prod.pc = "link")
      BY <1>1, <2>1 DEF Idle
    <3>. QED  BY <1>0, <1>1, <1>2, <1>6, <3>1, WritesNothing
  <2>3. Linked' = Linked /\ NLinked' = NLinked
    BY <2>2 DEF Wrote
  <2>4. \A c \in Linked : Counted(c)
    BY <1>2, <2>2
  <2>5. QTyped'
    BY <1>0, <1>1, <1>3, <1>6, <2>1, <2>2, TypedKept DEF QTyped
  <2>6. QRing(pos)'
    BY <1>0, <1>1, <2>2, <2>3, RingKept DEF Wrote
  <2>7. QCount(pos)'
    <3>1. \A c \in Linked : /\ Held(c)' = Held(c) /\ Last(c)' = Last(c)
                            /\ Seen(c)' <= Held(c) /\ Held(c) <= Used(c)'
      BY <1>0, <2>4 DEF QCount, Counted
    <3>. QED  BY <1>0, <1>1, <2>1, <2>3, <3>1, CountKept DEF Idle
  <2>8. QData(pos, lo)'
    <3>1. \A c \in Linked : \A i \in 0 .. Last(c) : BlockSlot(c, i)' = BlockSlot(c, i)
      BY <1>1, <1>6 DEF BlockSlot
    <3>. QED  BY <1>0, <1>1, <2>1, <2>3, <2>4, <3>1, DataKept DEF Counted
  <2>9. QProd(pos)'
    BY <1>3, <2>1 DEF QProd, Ahead, Idle
  <2>10. QNew'
    BY <2>1 DEF QNew, Idle
  <2>11. QCons(pos, lo)'
    <3>1. pos[tailBlock] \in Nat /\ Counted(frontBlock)
      BY <1>2, <1>4, <2>4
    <3>. QED  BY <1>0, <1>1, <1>5, <2>1, <2>4, <3>1, ConsKept DEF Counted
  <2>. QED  BY <2>5, <2>6, <2>7, <2>8, <2>9, <2>10, <2>11 DEF QI
<1>7. CASE /\ Len(blocks) < initialBlocks + MaxAllocs
           /\ largestBlockSize' = s
           /\ blocks' = Append(blocks, [make_block(s, n) EXCEPT !.data[0] = prod.element,
                                                    !.tail = 1, !.localTail = 1])
           /\ prod' = [prod EXCEPT !.pc = "link"]
  <2>1. /\ prod' \in [pc : ProdPc, canAlloc : BOOLEAN, element : Nat, block : Nat,
                      answer : BOOLEAN, room : BOOLEAN]
        /\ prod'.element = prod.element /\ prod'.room = prod.room
        /\ prod'.pc = "link" /\ prod'.block = b /\ prod'.answer = prod.answer
    <3>1. "link" \in ProdPc
      BY DEF ProdPc
    <3>. QED  BY <1>3, <1>7, <3>1
  <2>2. /\ BaseSize \in Nat /\ BaseSize >= 2 /\ MAX_BLOCK_SIZE \in Nat
        /\ largestBlockSize \in Nat /\ largestBlockSize >= BaseSize
    BY <1>0, BaseFacts DEF QTyped
  <2>3. s \in Nat /\ s >= BaseSize /\ s >= 2 /\ 1 \in 0 .. s - 1 /\ 0 \in 0 .. s - 1
    BY <2>2
  <2>4. PICK d : d = [[i \in 0 .. s - 1 |-> NoElement] EXCEPT ![0] = prod.element]
    OBVIOUS
  <2>5. d \in [0 .. s - 1 -> Slot] /\ d[0] = prod.element
    BY <1>3, <2>3, <2>4 DEF Slot
  <2>6. PICK k : k = [make_block(s, n) EXCEPT !.data[0] = prod.element, !.tail = 1,
                                              !.localTail = 1]
    OBVIOUS
  <2>7. PICK q : q = [front |-> 0, localTail |-> 0, tail |-> 0, localFront |-> 0,
                      next |-> n, data |-> d]
    OBVIOUS
  <2>8. /\ k \in BlockT
        /\ k.front = 0 /\ k.tail = 1 /\ k.localTail = 1 /\ k.localFront = 0
        /\ k.next = n /\ k.data = d
    <3>1. PICK f : f = [i \in 0 .. s - 1 |-> NoElement]
      OBVIOUS
    <3>2. PICK r : r = [front |-> 0, localTail |-> 0, tail |-> 0, localFront |-> 0,
                        next |-> n, data |-> f]
      OBVIOUS
    <3>3. make_block(s, n) = r
      BY <3>1, <3>2 DEF make_block
    <3>4. d = [f EXCEPT ![0] = prod.element]
      BY <2>4, <3>1, Zenon
    <3>5. r.data = f
      BY <3>2
    <3>6. [r EXCEPT !.data[0] = prod.element] = q
      BY <2>7, <3>2, <3>4, <3>5
    <3>7. k = [q EXCEPT !.tail = 1, !.localTail = 1]
      BY <2>6, <3>3, <3>6, Zenon
    <3>8. d \in DataT
      BY <2>3, <2>5 DEF DataT
    <3>9. /\ q \in BlockT
          /\ q.front = 0 /\ q.localFront = 0 /\ q.next = n /\ q.data = d
      BY <1>2, <2>7, <3>8 DEF BlockT
    <3>. QED  BY <3>7, <3>9 DEF BlockT
  <2>9. blocks' = Append(blocks, k)
    BY <1>7, <2>6, Zenon
  <2>10. /\ blocks' \in Seq(BlockT) /\ Len(blocks') = Len(blocks) + 1
         /\ blocks'[Len(blocks')] = k
         /\ \A c \in 1 .. Len(blocks) : blocks'[c] = blocks[c]
    BY <1>0, <2>8, <2>9 DEF QTyped
  <2>11. NLinked' = NLinked /\ Linked' = Linked
    BY <1>2, <2>1, <2>10 DEF NLinked, Linked
  <2>12. Many' = Many /\ BaseSize' = BaseSize
    BY <1>1 DEF Many, BaseSize, ceilToPow2
  <2>13. \A c \in Linked : Counted(c)
    BY <1>2, <2>10 DEF Counted, Held, Seen, Used, Last, Size
  <2>14. \A c \in 1 .. Len(blocks) : BlockOK(c)'
    <3>. SUFFICES ASSUME NEW c \in 1 .. Len(blocks)  PROVE BlockOK(c)'
      OBVIOUS
    <3>1. BlockOK(c) /\ Counted(c) /\ blocks'[c] = blocks[c]
      BY <1>0, <1>2, <2>10, <2>13 DEF QTyped
    <3>. QED  BY <2>11, <2>12, <3>1 DEF BlockOK, Counted
  <2>15. ASSUME NEW c, c = Len(blocks')  PROVE BlockOK(c)'
    <3>1. blocks'[c] = k
      BY <2>10, <2>15
    <3>2. DOMAIN d = 0 .. s - 1
      BY <2>5
    <3>3. Size(c)' = s
      BY <2>3, <2>8, <3>1, <3>2, SizeOfInterval DEF Size
    <3>4. Last(c)' = s - 1
      BY <3>3 DEF Last
    <3>. QED  BY <1>2, <2>3, <2>5, <2>8, <2>11, <2>12, <3>1, <3>3, <3>4 DEF BlockOK
  <2>16. (\A c \in 1 .. Len(blocks) : BlockOK(c))'
    <3>. SUFFICES ASSUME NEW c \in 1 .. Len(blocks')  PROVE BlockOK(c)'
      OBVIOUS
    <3>1. CASE c = Len(blocks')
      BY <2>15, <3>1
    <3>2. CASE c # Len(blocks')
      <4>1. c \in 1 .. Len(blocks)
        BY <1>2, <2>10, <3>2
      <4>. QED  BY <2>14, <4>1
    <3>. QED  BY <3>1, <3>2
  <2>17. QTyped'
    <3>1. (Len(blocks) \in initialBlocks .. initialBlocks + MaxAllocs)'
      <4>1. initialBlocks \in Nat
        BY <1>0, BlockCountFacts DEF QTyped
      <4>2. Len(blocks) \in Nat /\ Len(blocks) >= initialBlocks /\ MaxAllocs \in Nat
        BY <1>0, <1>2, <4>1, QueueAssumption DEF QTyped
      <4>. QED  BY <1>1, <1>7, <2>10, <4>1, <4>2
    <3>2. (NLinked >= initialBlocks)'
      BY <1>0, <1>1, <2>11 DEF QTyped
    <3>3. initialBlocks' = IF Many' THEN initialBlockCount(maxSize') ELSE 1
      BY <1>0, <1>1, <2>12 DEF QTyped, initialBlockCount
    <3>4. largestBlockSize' \in Nat /\ largestBlockSize' >= BaseSize'
      BY <1>7, <2>3, <2>12
    <3>. QED  BY <1>0, <1>1, <1>2, <1>3, <2>1, <2>10, <2>11, <2>16, <3>1, <3>2, <3>3, <3>4
              DEF QTyped, initialBlockCount
  <2>18. QRing(pos)'
    BY <1>0, <1>1, <2>10, <2>11, RingKept
  <2>19. QCount(pos)'
    <3>1. \A c \in Linked : /\ Held(c)' = Held(c) /\ Last(c)' = Last(c)
                            /\ Seen(c)' <= Held(c) /\ Held(c) <= Used(c)'
      BY <1>0, <2>13 DEF QCount, Counted
    <3>. QED  BY <1>0, <1>1, <2>1, <2>11, <3>1, CountKept
  <2>20. QData(pos, lo)'
    <3>1. \A c \in Linked : \A i \in 0 .. Last(c) : BlockSlot(c, i)' = BlockSlot(c, i)
      BY <1>1, <1>2, <2>10 DEF BlockSlot
    <3>. QED  BY <1>0, <1>1, <2>1, <2>11, <2>13, <3>1, DataKept DEF Counted
  <2>21. QProd(pos)'
    <3>1. pos[tailBlock] > 0 => Held(tailBlock)' = Last(tailBlock)'
      <4>1. Counted(tailBlock)
        BY <1>2, <2>13
      <4>. QED  BY <1>0, <1>1, <4>1 DEF QProd, Counted
    <3>. QED  BY <1>1, <1>2, <1>3, <2>1, <3>1 DEF QProd, Ahead
  <2>22. QNew'
    <3>1. blocks'[tailBlock'].next = n
      BY <1>1, <1>2, <2>10
    <3>. QED  BY <2>1, <2>5, <2>8, <2>10, <3>1 DEF QNew
  <2>23. QCons(pos, lo)'
    <3>1. pos[tailBlock] \in Nat /\ Counted(frontBlock)
      BY <1>2, <1>4, <2>13
    <3>. QED  BY <1>0, <1>1, <1>5, <2>1, <2>13, <3>1, ConsKept DEF Counted
  <2>. QED  BY <2>17, <2>18, <2>19, <2>20, <2>21, <2>22, <2>23 DEF QI
<1>. QED  BY <1>6, <1>7 DEF alloc

\* The new block is linked behind the tail block.
LEMMA linkStep ==
    ASSUME NEW pos, NEW lo, QI(pos, lo), link
    PROVE  \E p, l : QI(p, l)' /\ l[frontBlock] = lo[frontBlock]
<1>. PICK b : b = prod.block
  OBVIOUS
<1>. PICK n : n = blocks[b].next
  OBVIOUS
<1>. PICK N : N = Len(blocks)
  OBVIOUS
<1>. PICK T : T = pos[b]
  OBVIOUS
<1>. PICK p : p = [c \in 1 .. N |-> IF c = N THEN T + 1
                                    ELSE IF pos[c] > T THEN pos[c] + 1 ELSE pos[c]]
  OBVIOUS
<1>. PICK l : l = [c \in 1 .. N |-> IF c = N THEN 0 ELSE lo[c]]
  OBVIOUS
<1>0. QTyped /\ QBasic /\ QRing(pos) /\ QCount(pos) /\ QData(pos, lo) /\ QProd(pos)
      /\ QNew /\ QCons(pos, lo)
  BY Basics DEF QI
<1>1. /\ prod.pc = "link"
      /\ blocks' = [blocks EXCEPT ![b].next = N]
      /\ prod' = [prod EXCEPT !.pc = "moveTailBlock", !.block = N]
      /\ UNCHANGED <<maxSize, initialBlocks, frontBlock, tailBlock, largestBlockSize, cons,
                     result, failed>>
  BY DEF link
<1>2. /\ N \in Nat /\ N >= 2 /\ NLinked = N - 1 /\ Linked = 1 .. N - 1 /\ N \notin Linked
      /\ b = tailBlock /\ b \in Linked /\ b \in 1 .. N /\ frontBlock \in Linked
      /\ n \in Linked
  <2>1. N \in Nat /\ NLinked = N - 1 /\ NLinked >= 1 /\ b \in Linked /\ frontBlock \in Linked
    BY <1>0, <1>1 DEF QBasic
  <2>2. Linked = 1 .. N - 1
    BY <2>1 DEF Linked
  <2>3. b = tailBlock
    BY <1>0, <1>1 DEF QProd
  <2>4. b \in 1 .. N
    BY <2>1, <2>2
  <2>5. n \in Linked
    BY <1>0, <2>4 DEF QBasic
  <2>. QED  BY <2>1, <2>2, <2>3, <2>4, <2>5
<1>3. /\ prod' \in [pc : ProdPc, canAlloc : BOOLEAN, element : Nat, block : Nat,
                    answer : BOOLEAN, room : BOOLEAN]
      /\ prod'.element = prod.element /\ prod'.room = prod.room /\ prod'.block = N
      /\ prod'.pc = "moveTailBlock" /\ prod'.answer = prod.answer /\ ~prod.room
      /\ prod.element \in Element /\ prod.element \in 1 .. MaxElements + 1
  <2>1. "moveTailBlock" \in ProdPc
    BY DEF ProdPc
  <2>. QED  BY <1>0, <1>1, <1>2, <2>1 DEF QTyped, Idle, QProd
<1>4. /\ blocks' \in Seq(BlockT) /\ Len(blocks') = N
      /\ \A c \in 1 .. N : c # b => blocks'[c] = blocks[c]
      /\ blocks'[b].next = N /\ blocks'[b].data = blocks[b].data
      /\ blocks'[b].front = blocks[b].front /\ blocks'[b].tail = blocks[b].tail
      /\ blocks'[b].localFront = blocks[b].localFront
      /\ blocks'[b].localTail = blocks[b].localTail
  <2>1. blocks[b] \in BlockT /\ blocks \in Seq(BlockT) /\ b \in 1 .. Len(blocks)
    BY <1>0, <1>2 DEF QBasic, QTyped
  <2>2. PICK k : k = [blocks[b] EXCEPT !.next = N]
    OBVIOUS
  <2>3. /\ k \in BlockT /\ k.next = N /\ k.data = blocks[b].data
        /\ k.front = blocks[b].front /\ k.tail = blocks[b].tail
        /\ k.localFront = blocks[b].localFront /\ k.localTail = blocks[b].localTail
    BY <1>2, <2>1, <2>2 DEF BlockT
  <2>4. blocks' = [blocks EXCEPT ![b] = k]
    BY <1>1, <2>2
  <2>. QED  BY <2>1, <2>3, <2>4
<1>5. NLinked' = N /\ Linked' = 1 .. N
  BY <1>3, <1>4 DEF NLinked, Linked
<1>6. Many' = Many /\ BaseSize' = BaseSize
  BY <1>1 DEF Many, BaseSize, ceilToPow2
<1>7. \A c \in 1 .. N : /\ Size(c)' = Size(c) /\ Last(c)' = Last(c)
                        /\ Held(c)' = Held(c) /\ Seen(c)' = Seen(c) /\ Used(c)' = Used(c)
                        /\ blocks'[c].data = blocks[c].data
                        /\ blocks'[c].front = blocks[c].front
                        /\ blocks'[c].tail = blocks[c].tail
                        /\ blocks'[c].localFront = blocks[c].localFront
                        /\ blocks'[c].localTail = blocks[c].localTail
  BY <1>4 DEF Held, Seen, Used, Last, Size
<1>8. \A c \in 1 .. N : BlockOK(c)'
  <2>. SUFFICES ASSUME NEW c \in 1 .. N  PROVE BlockOK(c)'
    OBVIOUS
  <2>1. BlockOK(c)
    BY <1>0 DEF QTyped
  <2>2. blocks'[c].next \in 1 .. N
    <3>1. blocks[c].next \in 1 .. N
      BY <1>2, <2>1 DEF BlockOK
    <3>2. c = b => blocks'[c].next = N
      BY <1>4
    <3>3. c # b => blocks'[c].next = blocks[c].next
      BY <1>4
    <3>4. N \in 1 .. N
      BY <1>2
    <3>. QED  BY <3>1, <3>2, <3>3, <3>4
  <2>. QED  BY <1>5, <1>6, <1>7, <2>1, <2>2 DEF BlockOK
<1>9. QTyped'
  <2>1. NLinked >= initialBlocks /\ initialBlocks \in Nat
    BY <1>0, BlockCountFacts DEF QTyped
  <2>2. (NLinked >= initialBlocks)'
    BY <1>1, <1>2, <1>5, <2>1
  <2>3. N \in Linked' /\ frontBlock \in Linked' /\ b \in Linked' /\ cons.block \in Linked'
    <3>1. cons.block \in Linked
      BY <1>0 DEF QBasic
    <3>2. Linked \subseteq 1 .. N /\ N \in 1 .. N
      BY <1>2
    <3>. QED  BY <1>2, <1>5, <3>1, <3>2
  <2>4. initialBlocks' = IF Many' THEN initialBlockCount(maxSize') ELSE 1
    BY <1>0, <1>1, <1>6 DEF QTyped, initialBlockCount
  <2>. QED  BY <1>0, <1>1, <1>2, <1>3, <1>4, <1>6, <1>8, <2>2, <2>3, <2>4
            DEF QTyped, initialBlockCount
<1>10. /\ \A c \in Linked : pos[c] \in Nat /\ pos[c] <= N - 2
       /\ T \in Nat /\ T <= N - 2 /\ pos[frontBlock] = 0
       /\ \A c, d \in Linked : pos[c] = pos[d] => c = d
       /\ \A c \in Linked : pos[blocks[c].next] = IF pos[c] = N - 2 THEN 0 ELSE pos[c] + 1
  <2>1. \A c \in Linked : pos[c] \in Nat /\ pos[c] <= NLinked - 1
    BY <1>0, PosFacts
  <2>2. NLinked - 1 = N - 2
    BY <1>2
  <2>. QED  BY <1>0, <1>2, <2>1, <2>2 DEF QRing
<1>11. /\ DOMAIN p = 1 .. N /\ p[N] = T + 1
       /\ \A c \in Linked : p[c] = IF pos[c] > T THEN pos[c] + 1 ELSE pos[c]
       /\ l \in [1 .. N -> Nat] /\ \A c \in Linked : l[c] = lo[c]
  <2>1. \A c \in Linked : lo[c] \in Nat
    BY <1>0 DEF QData
  <2>. QED  BY <1>2, <2>1
<1>22. /\ p[b] = T
       /\ \A c \in Linked : pos[c] > T => p[c] = pos[c] + 1
       /\ \A c \in Linked : pos[c] <= T => p[c] = pos[c]
       /\ \A c \in Linked : \/ p[c] = pos[c] + 1 /\ pos[c] > T
                            \/ p[c] = pos[c] /\ pos[c] <= T
  <2>1. ~(T > T)
    BY <1>10
  <2>2. p[b] = T
    BY <1>2, <1>11, <2>1
  <2>3. \A c \in Linked : pos[c] > T => p[c] = pos[c] + 1
    BY <1>11
  <2>4. ASSUME NEW c \in Linked  PROVE pos[c] > T <=> ~(pos[c] <= T)
    BY <1>10
  <2>5. \A c \in Linked : pos[c] <= T => p[c] = pos[c]
    BY <1>11, <2>4
  <2>. QED  BY <2>2, <2>3, <2>4, <2>5, Zenon
<1>12. \A c \in Linked : blocks[c].next \in Linked
  BY <1>0 DEF QBasic
<1>13. QRing(p)'
  <2>1. p \in [1 .. N -> 0 .. N - 1]
    <3>1. ASSUME NEW c \in 1 .. N  PROVE p[c] \in 0 .. N - 1
      <4>1. CASE c = N
        BY <1>2, <1>10, <1>11, <4>1
      <4>2. CASE c \in Linked
        <5>1. (p[c] = pos[c] + 1 /\ pos[c] > T) \/ (p[c] = pos[c] /\ pos[c] <= T)
          BY <1>22, <4>2, Zenon
        <5>2. pos[c] \in Nat /\ pos[c] <= N - 2
          BY <1>10, <4>2
        <5>. QED  BY <1>2, <5>1, <5>2, SMTT(30)
      <4>3. c = N \/ c \in 1 .. N - 1
        BY <1>2
      <4>. QED  BY <1>2, <4>1, <4>2, <4>3
    <3>. QED  BY <3>1
  <2>2. \A c, d \in 1 .. N : p[c] = p[d] => c = d
    <3>. SUFFICES ASSUME NEW c \in 1 .. N, NEW d \in 1 .. N, p[c] = p[d]  PROVE c = d
      OBVIOUS
    <3>0. \A x \in 1 .. N : x = N \/ x \in 1 .. N - 1
      BY <1>2
    <3>1. (c = N \/ c \in Linked) /\ (d = N \/ d \in Linked)
      BY <1>2, <3>0, Zenon
    <3>2. ASSUME NEW x \in Linked  PROVE p[x] # T + 1
      <4>1. (p[x] = pos[x] + 1 /\ pos[x] > T) \/ (p[x] = pos[x] /\ pos[x] <= T)
        BY <1>22, Zenon
      <4>. QED  BY <1>10, <4>1
    <3>3. CASE c = N \/ d = N
      BY <1>11, <3>1, <3>2, <3>3
    <3>4. CASE c \in Linked /\ d \in Linked
      <4>1. (p[c] = pos[c] + 1 /\ pos[c] > T) \/ (p[c] = pos[c] /\ pos[c] <= T)
        BY <1>22, <3>4, Zenon
      <4>2. (p[d] = pos[d] + 1 /\ pos[d] > T) \/ (p[d] = pos[d] /\ pos[d] <= T)
        BY <1>22, <3>4, Zenon
      <4>3. pos[c] \in Nat /\ pos[d] \in Nat
        BY <1>10, <3>4
      <4>4. pos[c] = pos[d]
        BY <1>10, <4>1, <4>2, <4>3, SMTT(30)
      <4>. QED  BY <1>10, <3>4, <4>4
    <3>. QED  BY <3>1, <3>3, <3>4
  <2>3. p[frontBlock] = 0
    BY <1>2, <1>10, <1>22
  <2>4. ASSUME NEW c \in 1 .. N
        PROVE  p[blocks'[c].next] = IF p[c] = N - 1 THEN 0 ELSE p[c] + 1
    <3>1. CASE c = b
      BY <1>2, <1>4, <1>10, <1>11, <1>22, <3>1
    <3>2. CASE c = N
      <4>1. blocks'[c].next = n
        BY <1>0, <1>1, <1>2, <1>4, <3>2 DEF QNew
      <4>2. pos[n] = IF T = N - 2 THEN 0 ELSE T + 1
        BY <1>2, <1>10
      <4>3. p[c] = T + 1
        BY <1>11, <3>2
      <4>4. CASE T = N - 2
        <5>1. p[n] = 0
          BY <1>2, <1>10, <1>22, <4>2, <4>4
        <5>2. p[c] = N - 1
          BY <1>2, <4>3, <4>4
        <5>. QED  BY <4>1, <5>1, <5>2
      <4>5. CASE T # N - 2
        <5>1. pos[n] = T + 1 /\ T + 1 > T
          BY <1>10, <4>2, <4>5
        <5>2. p[n] = T + 2
          <6>1. p[n] = pos[n] + 1
            BY <1>2, <1>22, <5>1
          <6>. QED  BY <1>10, <5>1, <6>1
        <5>3. p[c] # N - 1
          BY <1>2, <1>10, <4>3, <4>5
        <5>. QED  BY <1>10, <4>1, <4>3, <5>2, <5>3
      <4>. QED  BY <4>4, <4>5
    <3>3. CASE c \in Linked /\ c # b
      <4>1. blocks'[c].next = blocks[c].next /\ blocks[c].next \in Linked
        BY <1>2, <1>4, <1>12, <3>3
      <4>2. pos[c] # T
        BY <1>2, <1>10, <3>3
      <4>3. pos[blocks[c].next] = IF pos[c] = N - 2 THEN 0 ELSE pos[c] + 1
        BY <1>10, <3>3
      <4>4. PICK x \in Linked : x = blocks[c].next
        BY <4>1
      <4>5. (p[x] = pos[x] + 1 /\ pos[x] > T) \/ (p[x] = pos[x] /\ pos[x] <= T)
        BY <1>22, Zenon
      <4>6. (p[c] = pos[c] + 1 /\ pos[c] > T) \/ (p[c] = pos[c] /\ pos[c] <= T)
        BY <1>22, <3>3, Zenon
      <4>7. pos[c] \in Nat /\ pos[c] <= N - 2 /\ pos[x] \in Nat
        BY <1>10, <3>3
      <4>8. CASE pos[c] = N - 2
        <5>1. p[x] = 0
          BY <1>10, <4>3, <4>4, <4>5, <4>8
        <5>2. p[c] = N - 1
          BY <1>2, <1>10, <4>2, <4>6, <4>8
        <5>. QED  BY <4>1, <4>4, <5>1, <5>2
      <4>9. CASE pos[c] # N - 2
        <5>1. pos[x] = pos[c] + 1
          BY <4>3, <4>4, <4>9
        <5>2. p[x] = p[c] + 1
          BY <1>10, <4>2, <4>5, <4>6, <4>7, <5>1
        <5>3. p[c] # N - 1
          BY <1>2, <1>10, <4>2, <4>6, <4>7, <4>9, SMTT(30)
        <5>. QED  BY <4>1, <4>4, <5>2, <5>3
      <4>. QED  BY <4>8, <4>9
    <3>. QED  BY <1>2, <3>1, <3>2, <3>3
  <2>. QED  BY <1>1, <1>5, <2>1, <2>2, <2>3, <2>4 DEF QRing
<1>14. /\ blocks[N].front = 0 /\ blocks[N].tail = 1 /\ blocks[N].data[0] = prod.element
       /\ Held(N) = 1 /\ Seen(N) = 1 /\ Used(N) = 1
  <2>1. /\ blocks[N].front = 0 /\ blocks[N].tail = 1 /\ blocks[N].data[0] = prod.element
        /\ blocks[N].localFront = 0 /\ blocks[N].localTail = 1
    BY <1>0, <1>1 DEF QNew
  <2>. QED  BY <2>1 DEF Held, Seen, Used, Dist
<1>15. \A c \in Linked : c \in 1 .. N /\ c # N
  BY <1>2
<1>16. QCount(p)'
  <2>1. (\A c \in Linked : Seen(c) <= Held(c) /\ Held(c) <= Used(c))'
    <3>. SUFFICES ASSUME NEW c \in 1 .. N
                  PROVE  Seen(c)' <= Held(c)' /\ Held(c)' <= Used(c)'
      BY <1>5
    <3>1. CASE c = N
      BY <1>7, <1>14, <3>1
    <3>2. CASE c \in Linked
      BY <1>0, <1>7, <3>2 DEF QCount
    <3>. QED  BY <1>2, <3>1, <3>2
  <2>2. (\A c \in Linked : p[c] > p[tailBlock] =>
           Held(c) = IF prod.pc = "moveTailBlock" /\ c = prod.block THEN 1 ELSE 0)'
    <3>. SUFFICES ASSUME NEW c \in 1 .. N, p[c] > p[b]
                  PROVE  Held(c)' = IF c = N THEN 1 ELSE 0
      BY <1>1, <1>2, <1>3, <1>5
    <3>1. CASE c = N
      BY <1>7, <1>14, <3>1
    <3>2. CASE c \in Linked
      <4>1. pos[c] > pos[tailBlock]
        BY <1>2, <1>10, <1>11, <3>2
      <4>2. Held(c) = 0
        BY <1>0, <1>1, <3>2, <4>1 DEF QCount
      <4>. QED  BY <1>7, <1>15, <3>2, <4>2
    <3>. QED  BY <1>2, <3>1, <3>2
  <2>3. (\A c \in Linked : p[c] > 0 /\ p[c] < p[tailBlock] => Held(c) = Last(c))'
    <3>. SUFFICES ASSUME NEW c \in 1 .. N, p[c] > 0, p[c] < p[b]
                  PROVE  Held(c)' = Last(c)'
      BY <1>1, <1>2, <1>5
    <3>1. c \in Linked
      BY <1>2, <1>10, <1>11
    <3>2. pos[c] > 0 /\ pos[c] < pos[tailBlock]
      <4>1. (p[c] = pos[c] + 1 /\ pos[c] > T) \/ (p[c] = pos[c] /\ pos[c] <= T)
        BY <1>22, <3>1, Zenon
      <4>2. pos[c] \in Nat /\ p[c] < T /\ pos[tailBlock] = T
        BY <1>2, <1>10, <1>22, <3>1
      <4>. QED  BY <1>10, <4>1, <4>2
    <3>. QED  BY <1>0, <1>7, <3>1, <3>2 DEF QCount
  <2>4. (p[tailBlock] > 0 => Held(tailBlock) >= 1)'
    <3>1. p[b] = pos[tailBlock]
      BY <1>2, <1>22
    <3>2. Held(b)' = Held(tailBlock)
      BY <1>2, <1>7
    <3>. QED  BY <1>0, <1>1, <1>2, <3>1, <3>2 DEF QCount
  <2>. QED  BY <2>1, <2>2, <2>3, <2>4 DEF QCount
<1>17. QData(p, l)'
  <2>1. \A c \in Linked : \A i \in 0 .. Last(c) : BlockSlot(c, i)' = BlockSlot(c, i)
    BY <1>1, <1>7, <1>15 DEF BlockSlot
  <2>2. p[b] = T /\ tailBlock' = b
    BY <1>1, <1>2, <1>22
  <2>3. ASSUME NEW c \in 1 .. N, p[c] <= T  PROVE c \in Linked /\ p[c] = pos[c] /\ pos[c] <= T
    <3>1. c \in Linked
      BY <1>2, <1>10, <1>11, <2>3
    <3>. QED  BY <1>10, <1>11, <2>3, <3>1
  <2>4. (\A c \in Linked : p[c] < p[tailBlock] => l[blocks[c].next] = l[c] + Held(c))'
    <3>. SUFFICES ASSUME NEW c \in 1 .. N, p[c] < T
                  PROVE  l[blocks'[c].next] = l[c] + Held(c)'
      BY <1>5, <2>2
    <3>1. c \in Linked /\ pos[c] < T /\ c # b
      <4>1. c \in Linked
        BY <1>2, <1>10, <1>11
      <4>. QED  BY <1>10, <1>11, <2>2, <4>1
    <3>2. blocks'[c].next = blocks[c].next /\ blocks[c].next \in Linked
      BY <1>4, <1>12, <3>1
    <3>3. lo[blocks[c].next] = lo[c] + Held(c)
      BY <1>0, <1>2, <3>1 DEF QData
    <3>. QED  BY <1>7, <1>11, <3>1, <3>2, <3>3
  <2>5. (l[tailBlock] + Held(tailBlock) = prod.element - 1)'
    BY <1>0, <1>2, <1>3, <1>7, <1>11, <2>2 DEF QData
  <2>6. (\A c \in Linked : p[c] <= p[tailBlock] => l[c] + Held(c) <= prod.element - 1)'
    <3>. SUFFICES ASSUME NEW c \in 1 .. N, p[c] <= T
                  PROVE  l[c] + Held(c)' <= prod'.element - 1
      BY <1>5, <2>2
    <3>1. c \in Linked /\ pos[c] <= T
      BY <2>3
    <3>2. lo[c] + Held(c) <= prod.element - 1
      BY <1>0, <1>2, <3>1 DEF QData
    <3>. QED  BY <1>3, <1>7, <1>11, <3>1, <3>2
  <2>7. (\A c \in Linked : p[c] <= p[tailBlock] => Slots(c, l[c]))'
    <3>. SUFFICES ASSUME NEW c \in 1 .. N, p[c] <= T  PROVE Slots(c, l[c])'
      BY <1>5, <2>2
    <3>1. c \in Linked /\ pos[c] <= T
      BY <2>3
    <3>2. Slots(c, lo[c])
      BY <1>0, <1>2, <3>1 DEF QData
    <3>3. Slots(c, lo[c])'
      BY <1>0, <1>7, <2>1, <3>1, <3>2, SlotsKept
    <3>. QED  BY <1>11, <3>1, <3>3
  <2>. QED  BY <1>5, <1>11, <2>4, <2>5, <2>6, <2>7 DEF QData
<1>18. QProd(p)'
  <2>1. p[b] = T /\ T < N - 1 /\ blocks'[b].next = N /\ tailBlock' = b
    BY <1>1, <1>2, <1>4, <1>10, <1>22
  <2>2. T > 0 => Held(b)' = Last(b)'
    BY <1>0, <1>1, <1>2, <1>7 DEF QProd
  <2>3. blocks'[N].data[blocks'[N].front] = prod.element
    BY <1>2, <1>7, <1>14
  <2>. QED  BY <1>3, <1>5, <2>1, <2>2, <2>3 DEF QProd, Ahead
<1>19. QNew'
  BY <1>3 DEF QNew
<1>20. l[frontBlock] = lo[frontBlock]
  BY <1>2, <1>11
<1>21. QCons(p, l)'
  <2>1. lo[frontBlock] \in Int /\ prod.element \in Int /\ prod'.element \in Int
        /\ prod'.element >= prod.element
    BY <1>0, <1>3, ContentsLen
  <2>2. p[tailBlock'] = T /\ T = pos[tailBlock] /\ T \in Nat
    BY <1>1, <1>2, <1>10, <1>22
  <2>3. \A c \in Linked : blocks'[c].front = blocks[c].front /\ Seen(c)' = Seen(c)
    BY <1>7, <1>15
  <2>4. T > 0 => /\ Held(frontBlock)' = Held(frontBlock)
                 /\ blocks'[frontBlock].next = blocks[frontBlock].next
    <3>1. T > 0 => frontBlock # b
      BY <1>10
    <3>. QED  BY <1>1, <1>2, <1>4, <1>7, <1>15, <3>1
  <2>. QED  BY <1>0, <1>1, <1>20, <2>1, <2>2, <2>3, <2>4, ConsKept
<1>. QED  BY <1>9, <1>13, <1>16, <1>17, <1>18, <1>19, <1>20, <1>21 DEF QI

-----------------------------------------------------------------------------
(***************************************************************************)
(* The steps of the consumer.                                              *)
(***************************************************************************)

LEMMA GotoIs ==
    ASSUME QTyped, NEW pc \in ConsPc
    PROVE  /\ Goto(pc) \in ConsT /\ Goto(pc).pc = pc /\ Goto(pc).op = cons.op
           /\ Goto(pc).block = cons.block /\ Goto(pc).at = cons.at
           /\ Goto(pc).element = cons.element /\ Goto(pc).answer = cons.answer
           /\ Goto(pc).empty = (cons.empty \/ Contents = <<>>)
<1>1. PICK e \in BOOLEAN : e = (cons.empty \/ Contents = <<>>)
  OBVIOUS
<1>2. Goto(pc) = [cons EXCEPT !.pc = pc, !.empty = e]
  BY <1>1, Zenon DEF Goto
<1>3. cons \in ConsT
  BY DEF QTyped
<1>4. /\ Goto(pc) \in ConsT /\ Goto(pc).pc = pc /\ Goto(pc).op = cons.op
      /\ Goto(pc).block = cons.block /\ Goto(pc).at = cons.at
      /\ Goto(pc).element = cons.element /\ Goto(pc).answer = cons.answer
      /\ Goto(pc).empty = e
  BY <1>2, <1>3 DEF ConsT
<1>. QED  BY <1>1, <1>4, Zenon

LEMMA ReturnIs ==
    ASSUME QTyped, NEW a \in BOOLEAN, NEW v \in Slot
    PROVE  /\ Return(a, v) \in ConsT /\ Return(a, v).pc = Idle /\ Return(a, v).answer = a
           /\ Return(a, v).element = v /\ Return(a, v).block = 1 /\ Return(a, v).at = 0
           /\ Return(a, v).op = IF a /\ cons.op = "peek" THEN "peek" ELSE "none"
           /\ Return(a, v).empty = ((cons.empty \/ Contents = <<>>) /\ ~a)
<1>1. Idle \in ConsPc
  BY DEF ConsPc
<1>2. PICK g : g = Goto(Idle)
  OBVIOUS
<1>3. /\ g \in ConsT /\ g.pc = Idle /\ g.op = cons.op
      /\ g.empty = (cons.empty \/ Contents = <<>>)
  BY <1>1, <1>2, GotoIs
<1>4. PICK o, e : /\ o = IF a /\ g.op = "peek" THEN g.op ELSE "none"
                  /\ e = (g.empty /\ ~a)
  OBVIOUS
<1>5. e \in BOOLEAN /\ o \in {"none", "try_dequeue", "pop", "peek"}
  BY <1>4
<1>6. Return(a, v) = [g EXCEPT !.answer = a, !.element = v, !.block = 1, !.at = 0,
                               !.op = o, !.empty = e]
  BY <1>2, <1>4, Zenon DEF Return
<1>7. PICK h : h = [g EXCEPT !.answer = a, !.element = v, !.block = 1]
  OBVIOUS
<1>8. /\ h \in ConsT /\ h.pc = Idle /\ h.answer = a /\ h.element = v /\ h.block = 1
  BY <1>3, <1>7 DEF ConsT
<1>9. Return(a, v) = [h EXCEPT !.at = 0, !.op = o, !.empty = e]
  BY <1>3, <1>6, <1>7 DEF ConsT
<1>10. /\ Return(a, v) \in ConsT /\ Return(a, v).pc = Idle /\ Return(a, v).answer = a
       /\ Return(a, v).element = v /\ Return(a, v).block = 1 /\ Return(a, v).at = 0
       /\ Return(a, v).op = o /\ Return(a, v).empty = e
  <2>1. 0 \in Nat
    OBVIOUS
  <2>2. Return(a, v) \in ConsT
    BY <1>5, <1>8, <1>9, <2>1 DEF ConsT
  <2>3. DOMAIN h = {"pc", "op", "block", "at", "element", "answer", "empty"}
    BY <1>8 DEF ConsT
  <2>. QED  BY <1>8, <1>9, <2>2, <2>3
<1>11. o = IF a /\ cons.op = "peek" THEN "peek" ELSE "none"
  BY <1>3, <1>4
<1>12. e = ((cons.empty \/ Contents = <<>>) /\ ~a)
  BY <1>3, <1>4, Zenon
<1>. QED  BY <1>10, <1>11, <1>12, Zenon

\* The first element of a block.
LEMMA FirstOf ==
    ASSUME NEW pos, NEW lo, QBasic, QRing(pos), QData(pos, lo), prod.element \in Nat,
           NEW c \in Linked, pos[c] <= pos[tailBlock], Held(c) >= 1
    PROVE  /\ BlockSlot(c, blocks[c].front) = lo[c] + 1
           /\ lo[c] + 1 < prod.element /\ lo[c] \in Nat
<1>1. c \in 1 .. Len(blocks)
  BY LinkedIn
<1>2. /\ Size(c) \in Nat /\ Size(c) > 0 /\ blocks[c].front \in 0 .. Size(c) - 1
      /\ Held(c) \in Nat
  <2>1. /\ Size(c) \in Nat /\ Size(c) > 0 /\ Last(c) = Size(c) - 1
        /\ blocks[c].front \in 0 .. Last(c) /\ Held(c) \in 0 .. Last(c)
    BY <1>1 DEF QBasic
  <2>. QED  BY <2>1
<1>3. At(Size(c), blocks[c].front, 0) = blocks[c].front
  BY <1>2 DEF At
<1>4. /\ lo[c] \in Nat /\ lo[c] + Held(c) <= prod.element - 1 /\ Slots(c, lo[c])
  BY DEF QData
<1>5. 0 \in 0 .. Held(c) - 1
  BY <1>2
<1>6. BlockSlot(c, At(Size(c), blocks[c].front, 0)) = lo[c] + 0 + 1
  BY <1>4, <1>5 DEF Slots
<1>. QED  BY <1>2, <1>3, <1>4, <1>6

\* If the tail block is another one, the block after the front block has an
\* element.
LEMMA SecondHolds ==
    ASSUME NEW pos, NEW n, n = blocks[frontBlock].next, QBasic, QRing(pos), QCount(pos),
           pos[tailBlock] > 0
    PROVE  /\ n \in Linked /\ n \in 1 .. Len(blocks) /\ pos[n] = 1 /\ n # frontBlock
           /\ pos[n] <= pos[tailBlock] /\ Held(n) >= 1
           /\ blocks[n].front # blocks[n].tail
<1>1. /\ NLinked \in Nat /\ frontBlock \in Linked /\ tailBlock \in Linked
      /\ frontBlock \in 1 .. Len(blocks)
  BY LinkedIn DEF QBasic
<1>2. n \in Linked
  BY <1>1 DEF QBasic
<1>3. n \in 1 .. Len(blocks)
  BY <1>2, LinkedIn
<1>4. /\ \A c \in Linked : pos[c] \in Nat /\ pos[c] <= NLinked - 1
      /\ pos[frontBlock] = 0
      /\ pos[n] = IF pos[frontBlock] = NLinked - 1 THEN 0 ELSE pos[frontBlock] + 1
  BY <1>1, PosFacts DEF QRing
<1>5. pos[n] = 1 /\ pos[n] <= pos[tailBlock] /\ n # frontBlock
  BY <1>1, <1>4
<1>6. Held(n) \in Nat /\ Last(n) \in Nat /\ Last(n) >= 1
  BY <1>3 DEF QBasic
<1>7. Held(n) >= 1
  <2>1. CASE pos[n] < pos[tailBlock]
    BY <1>2, <1>5, <1>6, <2>1 DEF QCount
  <2>2. CASE n = tailBlock
    BY <2>2 DEF QCount
  <2>3. pos[n] = pos[tailBlock] <=> n = tailBlock
    BY <1>2, PosFacts
  <2>. QED  BY <1>1, <1>4, <1>5, <2>1, <2>2, <2>3
<1>. QED  BY <1>2, <1>3, <1>5, <1>6, <1>7, TailFacts

\* A step of the consumer that neither moves the front nor the front block.
LEMMA ReaderKept ==
    ASSUME NEW pos, NEW lo, QI(pos, lo), QTyped',
           NEW b \in Linked, NEW lt,
           Wrote(b, blocks[b].front, lt, blocks[b].tail, blocks[b].localFront),
           prod' = prod, tailBlock' = tailBlock, frontBlock' = frontBlock,
           Seen(b)' <= Held(b),
           \A c \in Linked : \A i \in 0 .. Last(c) : BlockSlot(c, i)' = BlockSlot(c, i),
           blocks'[b].data[blocks[b].tail] = blocks[b].data[blocks[b].tail],
           pos[b] > pos[tailBlock] => blocks'[b].data = blocks[b].data,
           QCons(pos, lo)'
    PROVE  QI(pos, lo)'
<1>0. QBasic /\ QRing(pos) /\ QCount(pos) /\ QData(pos, lo) /\ QProd(pos) /\ QNew
  BY Basics DEF QI
<1>1. /\ Linked' = Linked /\ NLinked' = NLinked /\ Linked \subseteq 1 .. Len(blocks)
      /\ Len(blocks') = Len(blocks) /\ tailBlock \in Linked
      /\ \A c \in 1 .. Len(blocks) : blocks'[c].next = blocks[c].next
  BY <1>0 DEF Wrote, QBasic
<1>2. Held(b)' = Held(b) /\ Used(b)' = Used(b)
  BY DEF Wrote, Held, Used
<1>3. \A c \in Linked :
        /\ Held(c)' = Held(c) /\ Used(c)' = Used(c) /\ Last(c)' = Last(c)
        /\ Size(c)' = Size(c)
        /\ blocks'[c].front = blocks[c].front /\ blocks'[c].next = blocks[c].next
        /\ blocks'[c].tail = blocks[c].tail /\ blocks'[c].localFront = blocks[c].localFront
        /\ c # b => blocks'[c].data = blocks[c].data /\ Seen(c)' = Seen(c)
  BY <1>1, <1>2 DEF Wrote
<1>4. QRing(pos)'
  BY <1>0, <1>1, RingKept
<1>5. QCount(pos)'
  <2>1. \A c \in Linked : /\ Held(c)' = Held(c) /\ Last(c)' = Last(c)
                          /\ Seen(c)' <= Held(c) /\ Held(c) <= Used(c)'
    BY <1>0, <1>3 DEF QCount
  <2>. QED  BY <1>0, <1>1, <2>1, CountKept
<1>6. QData(pos, lo)'
  BY <1>0, <1>1, <1>3, DataKept
<1>7. QProd(pos)'
  <2>1. pos[tailBlock] \in Nat /\ pos[tailBlock] <= pos[tailBlock]
    BY <1>0, <1>1, PosFacts
  <2>. QED  BY <1>0, <1>1, <1>3, <2>1, ProdKept
<1>8. QNew'
  <2>1. \A c \in 1 .. Len(blocks) : c \notin Linked => blocks'[c] = blocks[c]
    BY DEF Wrote
  <2>. QED  BY <1>0, <1>1, <2>1, NewKept
<1>. QED  BY <1>4, <1>5, <1>6, <1>7, <1>8 DEF QI

\* A call starts: localTail is read again if it says that there is nothing.
LEMMA dequeueStep ==
    ASSUME NEW pos, NEW lo, QI(pos, lo), NEW op \in {"try_dequeue", "pop", "peek"}, dequeue(op)
    PROVE  QI(pos, lo)' /\ frontBlock' = frontBlock
<1>. PICK b : b = frontBlock
  OBVIOUS
<1>. PICK k : k = blocks[b]
  OBVIOUS
<1>. PICK t : t = IF k.front = k.localTail THEN k.tail ELSE k.localTail
  OBVIOUS
<1>. PICK pc : pc = IF k.front # t THEN "take" ELSE "noElement"
  OBVIOUS
<1>. PICK e \in BOOLEAN : e = (Contents = <<>>)
  OBVIOUS
<1>0. QTyped /\ QBasic /\ QRing(pos) /\ QCount(pos) /\ QData(pos, lo) /\ QProd(pos)
      /\ QNew /\ QCons(pos, lo)
  BY Basics DEF QI
<1>1. /\ cons.pc = Idle
      /\ blocks' = [blocks EXCEPT ![b].localTail = t]
      /\ cons' = [pc |-> pc, op |-> op, block |-> b, at |-> k.front, element |-> NoElement,
                  answer |-> TRUE, empty |-> e]
      /\ UNCHANGED <<maxSize, initialBlocks, frontBlock, tailBlock, largestBlockSize, prod,
                     result, failed>>
  BY Zenon DEF dequeue
<1>2. b \in Linked /\ b \in 1 .. Len(blocks)
  BY <1>0, LinkedIn DEF QBasic
<1>3. /\ k.front \in 0 .. Last(b) /\ k.tail \in 0 .. Last(b) /\ k.localTail \in 0 .. Last(b)
      /\ Size(b) \in Nat /\ Size(b) > 0 /\ Last(b) = Size(b) - 1
      /\ Held(b) \in Nat /\ Seen(b) \in Nat /\ Seen(b) <= Held(b)
  <2>1. /\ k.front \in 0 .. Last(b) /\ k.tail \in 0 .. Last(b) /\ k.localTail \in 0 .. Last(b)
        /\ Size(b) \in Nat /\ Size(b) > 0 /\ Last(b) = Size(b) - 1
        /\ Held(b) \in 0 .. Last(b) /\ Seen(b) \in 0 .. Last(b)
    BY <1>0, <1>2 DEF QBasic
  <2>. QED  BY <1>0, <1>2, <2>1 DEF QCount
<1>4. t \in 0 .. Last(b)
  BY <1>3
<1>5. /\ Wrote(b, blocks[b].front, t, blocks[b].tail, blocks[b].localFront)
      /\ \A c \in 1 .. Len(blocks) : blocks'[c].data = blocks[c].data
  BY <1>0, <1>1, <1>2, <1>4, WritesLocalTail
<1>6. /\ Seen(b)' <= Held(b) /\ Seen(b)' \in Nat
      /\ k.front # t => Seen(b)' >= 1
      /\ k.front = t => Held(b) = 0
  <2>1. Seen(b)' = Dist(Size(b), k.front, t)
    BY <1>5 DEF Wrote
  <2>2. Held(b) = Dist(Size(b), k.front, k.tail) /\ Seen(b) = Dist(Size(b), k.front, k.localTail)
    BY DEF Held, Seen
  <2>3. Dist(Size(b), k.front, t) \in Nat /\ (Dist(Size(b), k.front, t) = 0 <=> k.front = t)
    <3>1. k.front \in 0 .. Size(b) - 1 /\ t \in 0 .. Size(b) - 1
      BY <1>3, <1>4
    <3>2. PICK s, f : s = Size(b) /\ f = k.front
      OBVIOUS
    <3>3. s \in Nat /\ f \in Nat /\ f < s /\ t \in Nat /\ t < s
      BY <1>3, <3>1, <3>2
    <3>4. Dist(s, f, t) \in Nat /\ (Dist(s, f, t) = 0 <=> f = t)
      BY <3>3 DEF Dist
    <3>. QED  BY <3>2, <3>4
  <2>4. CASE k.front = k.localTail
    BY <1>3, <2>1, <2>2, <2>3, <2>4
  <2>5. CASE k.front # k.localTail
    BY <1>3, <2>1, <2>2, <2>3, <2>5
  <2>. QED  BY <2>4, <2>5
<1>7. /\ cons' \in ConsT /\ cons'.pc = pc /\ cons'.op = op /\ cons'.block = b
      /\ cons'.at = k.front /\ cons'.empty = e
  <2>1. pc \in ConsPc /\ b \in Nat /\ k.front \in Nat /\ NoElement \in Slot
    BY <1>2, <1>3 DEF ConsPc, Slot
  <2>. QED  BY <1>1, <2>1 DEF ConsT
<1>8. QTyped'
  BY <1>0, <1>1, <1>2, <1>5, <1>7, TypedKept, ZenonT(60) DEF QTyped
<1>9. blocks'[b].front = k.front
  BY <1>5 DEF Wrote
<1>10. k.front = t /\ pos[tailBlock] = 0 => e
  <2>. SUFFICES ASSUME k.front = t, pos[tailBlock] = 0  PROVE e
    OBVIOUS
  <2>1. tailBlock = b
    BY <1>0, <1>2, PosFacts DEF QBasic
  <2>2. lo[b] + 0 = prod.element - 1 /\ lo[b] \in Nat
    BY <1>0, <1>2, <1>6, <2>1 DEF QData
  <2>3. Contents = <<>>
    BY <1>0, <2>2, ContentsLen
  <2>. QED  BY <2>3
<1>11. QCons(pos, lo)'
  <2>1. CASE k.front # t
    BY <1>1, <1>6, <1>7, <1>9, <2>1 DEF QCons, Idle
  <2>2. CASE k.front = t
    BY <1>1, <1>7, <1>9, <1>10, <2>2 DEF QCons, Idle
  <2>. QED  BY <2>1, <2>2
<1>12. \A c \in Linked : \A i \in 0 .. Last(c) : BlockSlot(c, i)' = BlockSlot(c, i)
  <2>1. cons.pc # "moveFront" /\ cons'.pc # "moveFront"
    BY <1>1, <1>7 DEF Idle
  <2>. QED  BY <1>0, <1>5, <2>1, LinkedIn DEF BlockSlot
<1>13. blocks'[b].data = blocks[b].data
  BY <1>2, <1>5
<1>. QED  BY <1>1, <1>2, <1>5, <1>6, <1>8, <1>11, <1>12, <1>13, ReaderKept

\* The front block is empty: the queue is, or the tail block is another one.
LEMMA noElementStep ==
    ASSUME NEW pos, NEW lo, QI(pos, lo), noElement
    PROVE  QI(pos, lo)' /\ frontBlock' = frontBlock
<1>. PICK b : b = cons.block
  OBVIOUS
<1>0. QTyped /\ QBasic /\ QRing(pos) /\ QCount(pos) /\ QData(pos, lo) /\ QProd(pos)
      /\ QNew /\ QCons(pos, lo)
  BY Basics DEF QI
<1>1. /\ cons.pc = "noElement"
      /\ cons' = IF b = tailBlock THEN Return(FALSE, NoElement) ELSE Goto("recheck")
      /\ UNCHANGED <<maxSize, initialBlocks, blocks, frontBlock, tailBlock, largestBlockSize,
                     prod, result, failed>>
  BY DEF noElement
<1>2. /\ b = frontBlock /\ b \in Linked /\ b \in 1 .. Len(blocks) /\ cons.at = blocks[b].front
      /\ tailBlock \in Linked /\ 1 \in Linked
  <2>1. b = frontBlock /\ b \in Linked /\ cons.at = blocks[b].front /\ tailBlock \in Linked
    BY <1>0, <1>1 DEF QCons, QBasic, Idle
  <2>2. 1 \in Linked
    BY <1>0 DEF QBasic, Linked
  <2>. QED  BY <1>0, <2>1, <2>2, LinkedIn
<1>3. /\ Wrote(b, blocks[b].front, blocks[b].localTail, blocks[b].tail, blocks[b].localFront)
      /\ \A c \in 1 .. Len(blocks) : Counted(c)
  BY <1>0, <1>1, <1>2, WritesNothing
<1>4. /\ cons' \in ConsT /\ cons'.block \in Linked
      /\ b = tailBlock => cons'.pc = Idle /\ cons'.op = "none" /\ cons'.empty
      /\ b # tailBlock => cons'.pc = "recheck" /\ cons'.at = cons.at /\ cons'.block = b
  <2>1. CASE b = tailBlock
    <3>1. cons.empty
      BY <1>0, <1>1, <1>2, <2>1 DEF QCons, QRing
    <3>2. NoElement \in Slot /\ FALSE \in BOOLEAN
      BY DEF Slot
    <3>3. /\ cons' \in ConsT /\ cons'.pc = Idle /\ cons'.block = 1
          /\ cons'.op = IF FALSE /\ cons.op = "peek" THEN "peek" ELSE "none"
          /\ cons'.empty = ((cons.empty \/ Contents = <<>>) /\ ~FALSE)
      BY <1>0, <1>1, <2>1, <3>2, ReturnIs
    <3>. QED  BY <1>2, <2>1, <3>1, <3>3
  <2>2. CASE b # tailBlock
    <3>1. "recheck" \in ConsPc
      BY DEF ConsPc
    <3>. QED  BY <1>0, <1>1, <1>2, <2>2, <3>1, GotoIs
  <2>. QED  BY <2>1, <2>2
<1>5. QTyped'
  BY <1>0, <1>1, <1>3, <1>4, TypedKept DEF QTyped
<1>6. b # tailBlock => pos[tailBlock] > 0
  BY <1>0, <1>2, PosFacts
<1>7. QCons(pos, lo)'
  <2>1. CASE b = tailBlock
    BY <1>1, <1>4, <2>1 DEF QCons, Idle
  <2>2. CASE b # tailBlock
    BY <1>1, <1>2, <1>4, <1>6, <2>2 DEF QCons, Idle
  <2>. QED  BY <2>1, <2>2
<1>8. \A c \in Linked : \A i \in 0 .. Last(c) : BlockSlot(c, i)' = BlockSlot(c, i)
  <2>1. cons.pc # "moveFront" /\ cons'.pc # "moveFront"
    BY <1>1, <1>4 DEF Idle
  <2>. QED  BY <1>1, <2>1 DEF BlockSlot
<1>9. Seen(b)' <= Held(b)
  BY <1>0, <1>2, <1>3 DEF Counted, QCount
<1>. QED  BY <1>1, <1>2, <1>3, <1>5, <1>7, <1>8, <1>9, ReaderKept

\* The tail block has moved on: the tail of the front block is read again.
LEMMA recheckStep ==
    ASSUME NEW pos, NEW lo, QI(pos, lo), recheck
    PROVE  QI(pos, lo)' /\ frontBlock' = frontBlock
<1>. PICK b : b = cons.block
  OBVIOUS
<1>. PICK t : t = blocks[b].tail
  OBVIOUS
<1>. PICK pc : pc = IF cons.at # t THEN "take" ELSE "readNext"
  OBVIOUS
<1>0. QTyped /\ QBasic /\ QRing(pos) /\ QCount(pos) /\ QData(pos, lo) /\ QProd(pos)
      /\ QNew /\ QCons(pos, lo)
  BY Basics DEF QI
<1>1. /\ cons.pc = "recheck"
      /\ blocks' = [blocks EXCEPT ![b].localTail = t]
      /\ cons' = Goto(pc)
      /\ UNCHANGED <<maxSize, initialBlocks, frontBlock, tailBlock, largestBlockSize, prod,
                     result, failed>>
  BY DEF recheck
<1>2. /\ b = frontBlock /\ b \in Linked /\ b \in 1 .. Len(blocks) /\ cons.at = blocks[b].front
      /\ pos[tailBlock] > 0
  <2>1. b = frontBlock /\ b \in Linked /\ cons.at = blocks[b].front /\ pos[tailBlock] > 0
    BY <1>0, <1>1 DEF QCons, QBasic, Idle
  <2>. QED  BY <1>0, <2>1, LinkedIn
<1>3. t \in 0 .. Last(b) /\ Held(b) \in 0 .. Last(b) /\ Last(b) \in Nat
  BY <1>0, <1>2 DEF QBasic
<1>4. /\ Wrote(b, blocks[b].front, t, blocks[b].tail, blocks[b].localFront)
      /\ \A c \in 1 .. Len(blocks) : blocks'[c].data = blocks[c].data
  BY <1>0, <1>1, <1>2, <1>3, WritesLocalTail
<1>5. Seen(b)' = Held(b) /\ Held(b)' = Held(b)
  BY <1>4 DEF Wrote, Held
<1>6. pc \in ConsPc
  BY DEF ConsPc
<1>7. /\ cons' \in ConsT /\ cons'.pc = pc /\ cons'.block = b /\ cons'.at = cons.at
      /\ cons'.op = cons.op
  BY <1>0, <1>1, <1>6, GotoIs
<1>8. QTyped'
  BY <1>0, <1>1, <1>2, <1>4, <1>7, TypedKept DEF QTyped
<1>9. blocks'[b].front = blocks[b].front
  BY <1>4 DEF Wrote
<1>10. Held(b) = 0 <=> cons.at = t
  BY <1>0, <1>2, TailFacts
<1>11. QCons(pos, lo)'
  <2>1. CASE cons.at # t
    <3>1. Seen(b)' >= 1
      BY <1>3, <1>5, <1>10, <2>1
    <3>. QED  BY <1>1, <1>2, <1>7, <1>9, <2>1, <3>1 DEF QCons, Idle
  <2>2. CASE cons.at = t
    <3>1. Held(b)' = 0
      BY <1>5, <1>10, <2>2
    <3>. QED  BY <1>1, <1>2, <1>7, <1>9, <2>2, <3>1 DEF QCons, Idle
  <2>. QED  BY <2>1, <2>2
<1>12. \A c \in Linked : \A i \in 0 .. Last(c) : BlockSlot(c, i)' = BlockSlot(c, i)
  <2>1. cons.pc # "moveFront" /\ cons'.pc # "moveFront"
    BY <1>1, <1>7 DEF Idle
  <2>. QED  BY <1>0, <1>4, <2>1, LinkedIn DEF BlockSlot
<1>13. blocks'[b].data = blocks[b].data /\ Seen(b)' <= Held(b)
  BY <1>2, <1>3, <1>4, <1>5
<1>. QED  BY <1>1, <1>2, <1>4, <1>8, <1>11, <1>12, <1>13, ReaderKept

\* The front block is empty and the next one is not.
LEMMA readNextStep ==
    ASSUME NEW pos, NEW lo, QI(pos, lo), readNext
    PROVE  QI(pos, lo)' /\ frontBlock' = frontBlock
<1>. PICK b : b = cons.block
  OBVIOUS
<1>. PICK n : n = blocks[b].next
  OBVIOUS
<1>. PICK pc : pc = IF cons.op = "peek" THEN "take" ELSE "moveFrontBlock"
  OBVIOUS
<1>. PICK t : t = IF cons.op = "peek" THEN blocks[n].localTail ELSE blocks[n].tail
  OBVIOUS
<1>0. QTyped /\ QBasic /\ QRing(pos) /\ QCount(pos) /\ QData(pos, lo) /\ QProd(pos)
      /\ QNew /\ QCons(pos, lo)
  BY Basics DEF QI
<1>1. /\ cons.pc = "readNext"
      /\ failed' = (failed \/ blocks[n].front = blocks[n].tail)
      /\ blocks' = IF cons.op = "peek" THEN blocks
                   ELSE [blocks EXCEPT ![n].localTail = blocks[n].tail]
      /\ cons' = [Goto(pc) EXCEPT !.block = n, !.at = blocks[n].front]
      /\ UNCHANGED <<maxSize, initialBlocks, frontBlock, tailBlock, largestBlockSize, prod,
                     result>>
  BY DEF readNext
<1>2. b = frontBlock /\ pos[tailBlock] > 0 /\ Held(frontBlock) = 0
  BY <1>0, <1>1 DEF QCons
<1>3. /\ n \in Linked /\ n \in 1 .. Len(blocks) /\ n # frontBlock /\ pos[n] <= pos[tailBlock]
      /\ Held(n) >= 1 /\ blocks[n].front # blocks[n].tail
      /\ frontBlock \in 1 .. Len(blocks) /\ frontBlock \in Linked
  <2>1. n = blocks[frontBlock].next
    BY <1>2
  <2>2. frontBlock \in Linked
    BY <1>0 DEF QBasic
  <2>. QED  BY <1>0, <1>2, <2>1, <2>2, SecondHolds, LinkedIn
<1>4. failed' = FALSE
  BY <1>0, <1>1, <1>3 DEF QTyped
<1>5. /\ blocks[n].tail \in 0 .. Last(n) /\ blocks[n].front \in 0 .. Last(n)
      /\ Held(n) \in 0 .. Last(n) /\ Last(n) \in Nat
  BY <1>0, <1>3 DEF QBasic
<1>6. /\ Wrote(n, blocks[n].front, t, blocks[n].tail, blocks[n].localFront)
      /\ \A c \in 1 .. Len(blocks) : blocks'[c].data = blocks[c].data
  <2>1. CASE cons.op = "peek"
    <3>1. blocks' = blocks
      BY <1>1, <2>1
    <3>. QED  BY <1>0, <1>1, <1>3, <2>1, <3>1, WritesNothing
  <2>2. CASE cons.op # "peek"
    BY <1>0, <1>1, <1>3, <1>5, <2>2, WritesLocalTail
  <2>. QED  BY <2>1, <2>2
<1>7. Seen(n)' <= Held(n) /\ (cons.op # "peek" => Seen(n)' >= 1)
  <2>1. CASE cons.op = "peek"
    <3>1. Seen(n)' = Seen(n)
      BY <1>6, <2>1 DEF Wrote, Seen
    <3>. QED  BY <1>0, <1>3, <2>1, <3>1 DEF QCount
  <2>2. CASE cons.op # "peek"
    <3>1. Seen(n)' = Held(n)
      BY <1>6, <2>2 DEF Wrote, Held
    <3>. QED  BY <1>3, <1>5, <3>1
  <2>. QED  BY <2>1, <2>2
<1>8. /\ cons' \in ConsT /\ cons'.pc = pc /\ cons'.block = n
      /\ cons'.at = blocks[n].front /\ cons'.op = cons.op
  <2>1. pc \in ConsPc
    BY DEF ConsPc
  <2>2. Goto(pc) \in ConsT /\ Goto(pc).pc = pc /\ Goto(pc).op = cons.op
    BY <1>0, <2>1, GotoIs
  <2>3. n \in Nat /\ blocks[n].front \in Nat
    BY <1>3, <1>5
  <2>. QED  BY <1>1, <2>2, <2>3 DEF ConsT
<1>9. QTyped'
  BY <1>0, <1>1, <1>3, <1>4, <1>6, <1>8, TypedKept DEF QTyped
<1>10. /\ blocks'[n].front = blocks[n].front /\ blocks'[frontBlock].next = n
       /\ Held(frontBlock)' = 0
  <2>1. blocks'[n].front = blocks[n].front
    BY <1>6 DEF Wrote
  <2>2. blocks'[frontBlock].next = blocks[frontBlock].next
    BY <1>3, <1>6 DEF Wrote
  <2>3. frontBlock' = frontBlock /\ Held(frontBlock)' = Held(frontBlock)
    BY <1>1, <1>3, <1>6 DEF Wrote
  <2>. QED  BY <1>2, <2>1, <2>2, <2>3
<1>11. QCons(pos, lo)'
  <2>1. CASE cons.op = "peek"
    BY <1>1, <1>2, <1>8, <1>10, <2>1 DEF QCons, Idle
  <2>2. CASE cons.op # "peek"
    BY <1>1, <1>2, <1>7, <1>8, <1>10, <2>2 DEF QCons, Idle
  <2>. QED  BY <2>1, <2>2
<1>12. \A c \in Linked : \A i \in 0 .. Last(c) : BlockSlot(c, i)' = BlockSlot(c, i)
  <2>1. cons.pc # "moveFront" /\ cons'.pc # "moveFront"
    BY <1>1, <1>8, SMTT(30)
  <2>. QED  BY <1>0, <1>6, <2>1, LinkedIn DEF BlockSlot
<1>13. blocks'[n].data = blocks[n].data
  BY <1>3, <1>6
<1>. QED  BY <1>1, <1>3, <1>6, <1>7, <1>9, <1>11, <1>12, <1>13, ReaderKept

\* peek answers with the front element; try_dequeue and pop empty its slot.
LEMMA takeStep ==
    ASSUME NEW pos, NEW lo, QI(pos, lo), take
    PROVE  QI(pos, lo)' /\ frontBlock' = frontBlock
<1>. PICK b : b = cons.block
  OBVIOUS
<1>. PICK i : i = cons.at
  OBVIOUS
<1>. PICK v : v = blocks[b].data[i]
  OBVIOUS
<1>0. QTyped /\ QBasic /\ QRing(pos) /\ QCount(pos) /\ QData(pos, lo) /\ QProd(pos)
      /\ QNew /\ QCons(pos, lo)
  BY Basics DEF QI
<1>1. /\ cons.pc = "take"
      /\ cons' = IF cons.op = "peek" THEN Return(TRUE, v)
                 ELSE [Goto("moveFront") EXCEPT !.element = v]
      /\ blocks' = IF cons.op = "peek" THEN blocks
                   ELSE [blocks EXCEPT ![b].data[i] = NoElement]
      /\ UNCHANGED <<maxSize, initialBlocks, frontBlock, tailBlock, largestBlockSize, prod,
                     result, failed>>
  BY DEF take
<1>2. /\ b \in Linked /\ b \in 1 .. Len(blocks) /\ i = blocks[b].front
      /\ frontBlock \in Linked /\ frontBlock \in 1 .. Len(blocks) /\ tailBlock \in Linked
      /\ 1 \in Linked
  <2>1. b \in Linked /\ i = blocks[b].front /\ frontBlock \in Linked /\ tailBlock \in Linked
    BY <1>0, <1>1 DEF QCons, QBasic, Idle
  <2>2. 1 \in Linked
    BY <1>0 DEF QBasic, Linked
  <2>. QED  BY <1>0, <2>1, <2>2, LinkedIn
<1>3. /\ pos[frontBlock] = 0 /\ pos[frontBlock] <= pos[tailBlock] /\ pos[tailBlock] \in Nat
  BY <1>0, <1>2, PosFacts
<1>4. i \in 0 .. Last(b) /\ Held(b) \in Nat /\ Seen(b) \in Nat /\ v \in Slot
      /\ Seen(b) <= Held(b)
  <2>1. /\ blocks[b].front \in 0 .. Last(b) /\ Held(b) \in 0 .. Last(b)
        /\ Seen(b) \in 0 .. Last(b) /\ blocks[b].data \in [0 .. Last(b) -> Slot]
    BY <1>0, <1>2 DEF QBasic
  <2>2. i \in 0 .. Last(b) /\ v \in Slot
    BY <1>2, <2>1
  <2>3. Last(b) \in Nat /\ Seen(b) <= Held(b)
    BY <1>0, <1>2 DEF QCount, QBasic
  <2>. QED  BY <2>1, <2>2, <2>3
<1>5. /\ v = lo[frontBlock] + 1 /\ v < prod.element
      /\ cons.op # "peek" => b = frontBlock /\ Seen(b) >= 1
  <2>0. prod.element \in Nat /\ BlockSlot(b, i) = v
    BY <1>0, <1>1 DEF QTyped, BlockSlot
  <2>1. CASE b = frontBlock /\ Seen(b) >= 1
    <3>1. Held(b) >= 1
      BY <1>4, <2>1
    <3>. QED  BY <1>0, <1>2, <1>3, <2>0, <2>1, <3>1, FirstOf
  <2>2. CASE /\ cons.op = "peek" /\ b = blocks[frontBlock].next
             /\ pos[tailBlock] > 0 /\ Held(frontBlock) = 0
    <3>1. pos[b] <= pos[tailBlock] /\ Held(b) >= 1
      BY <1>0, <2>2, SecondHolds
    <3>2. v = lo[b] + 1 /\ lo[b] + 1 < prod.element /\ lo[b] \in Nat
      BY <1>0, <1>2, <2>0, <3>1, FirstOf
    <3>3. lo[b] = lo[frontBlock] + 0 /\ lo[frontBlock] \in Nat
      BY <1>0, <1>2, <1>3, <2>2 DEF QData
    <3>. QED  BY <2>2, <3>2, <3>3
  <2>. QED  BY <1>0, <1>1, <2>1, <2>2 DEF QCons
<1>6. CASE cons.op = "peek"
  <2>1. blocks' = blocks
    BY <1>1, <1>6
  <2>2. /\ Wrote(b, blocks[b].front, blocks[b].localTail, blocks[b].tail, blocks[b].localFront)
        /\ \A c \in 1 .. Len(blocks) : Counted(c)
    BY <1>0, <1>1, <1>2, <2>1, WritesNothing
  <2>3. /\ cons' \in ConsT /\ cons'.pc = Idle /\ cons'.block = 1 /\ cons'.answer = TRUE
        /\ cons'.element = v
    BY <1>0, <1>1, <1>4, <1>6, ReturnIs
  <2>4. QTyped'
    BY <1>0, <1>1, <1>2, <2>2, <2>3, TypedKept DEF QTyped
  <2>5. QCons(pos, lo)'
    BY <1>1, <1>5, <2>3 DEF QCons, Idle
  <2>6. \A c \in Linked : \A j \in 0 .. Last(c) : BlockSlot(c, j)' = BlockSlot(c, j)
    BY <1>1, <2>1, <2>3 DEF BlockSlot, Idle
  <2>7. Seen(b)' <= Held(b)
    BY <1>2, <1>4, <2>2 DEF Counted
  <2>. QED  BY <1>1, <1>2, <2>1, <2>2, <2>4, <2>5, <2>6, <2>7, ReaderKept
<1>7. CASE cons.op # "peek"
  <2>0. b = frontBlock /\ Seen(b) >= 1 /\ NoElement \in Slot
    BY <1>5, <1>7 DEF Slot
  <2>1. /\ Wrote(b, blocks[b].front, blocks[b].localTail, blocks[b].tail, blocks[b].localFront)
        /\ \A c \in 1 .. Len(blocks) : c # b => blocks'[c].data = blocks[c].data
        /\ \A j \in 0 .. Last(b) :
             blocks'[b].data[j] = IF j = i THEN NoElement ELSE blocks[b].data[j]
    <3>1. blocks' = [blocks EXCEPT ![b].data[i] = NoElement]
      BY <1>1, <1>7
    <3>2. QTyped /\ maxSize' = maxSize /\ ((prod'.pc = "link") <=> (prod.pc = "link"))
      BY <1>0, <1>1
    <3>3. i \in 0 .. Last(b)
      BY <1>4
    <3>. QED  BY <1>2, <2>0, <3>1, <3>2, <3>3, WritesData
  <2>2. \A c \in 1 .. Len(blocks) : Counted(c)
    BY <1>2, <2>1, WroteCounted
  <2>3. /\ cons' \in ConsT /\ cons'.pc = "moveFront" /\ cons'.block = b /\ cons'.at = i
        /\ cons'.element = v /\ cons'.op = cons.op
    <3>1. "moveFront" \in ConsPc
      BY DEF ConsPc
    <3>2. PICK g : g = Goto("moveFront")
      OBVIOUS
    <3>3. /\ g \in ConsT /\ g.pc = "moveFront" /\ g.op = cons.op /\ g.block = b /\ g.at = i
      BY <1>0, <3>1, <3>2, GotoIs
    <3>4. cons' = [g EXCEPT !.element = v]
      BY <1>1, <1>7, <3>2
    <3>. QED  BY <1>4, <3>3, <3>4 DEF ConsT
  <2>4. QTyped'
    BY <1>0, <1>1, <1>2, <2>1, <2>3, TypedKept, ZenonT(60) DEF QTyped
  <2>5. QCons(pos, lo)'
    <3>1. blocks'[b].front = i /\ Seen(b)' >= 1
      BY <1>2, <2>0, <2>1, <2>2 DEF Wrote, Counted
    <3>. QED  BY <1>1, <1>5, <1>7, <2>0, <2>3, <3>1 DEF QCons, Idle
  <2>6. ASSUME NEW c \in Linked, NEW j \in 0 .. Last(c)
        PROVE  BlockSlot(c, j)' = BlockSlot(c, j)
    <3>0. BlockSlot(c, j) = blocks[c].data[j]
      BY <1>1 DEF BlockSlot
    <3>1. c \in 1 .. Len(blocks)
      BY <1>0, LinkedIn
    <3>2. CASE c = b /\ j = i
      BY <2>3, <3>0, <3>2 DEF BlockSlot
    <3>3. CASE ~(c = b /\ j = i)
      <4>1. BlockSlot(c, j)' = blocks'[c].data[j]
        BY <2>3, <3>3 DEF BlockSlot
      <4>2. blocks'[c].data[j] = blocks[c].data[j]
        BY <2>1, <3>1, <3>3
      <4>. QED  BY <3>0, <4>1, <4>2
    <3>. QED  BY <3>2, <3>3
  <2>7. Seen(b)' <= Held(b)
    BY <1>2, <1>4, <2>2 DEF Counted
  <2>8. blocks'[b].data[blocks[b].tail] = blocks[b].data[blocks[b].tail]
    <3>1. Held(b) # 0
      BY <1>4, <2>0
    <3>2. blocks[b].front # blocks[b].tail
      BY <1>0, <1>2, <3>1, TailFacts
    <3>3. blocks[b].tail \in 0 .. Last(b)
      BY <1>0, <1>2 DEF QBasic
    <3>. QED  BY <1>2, <2>1, <3>2, <3>3
  <2>9. ~(pos[b] > pos[tailBlock])
    BY <1>3, <2>0
  <2>. QED  BY <1>1, <1>2, <2>1, <2>4, <2>5, <2>6, <2>7, <2>8, <2>9, ReaderKept
<1>. QED  BY <1>6, <1>7

\* The front block moves to the next one, once it is empty.
LEMMA moveFrontBlockStep ==
    ASSUME NEW pos, NEW lo, QI(pos, lo), moveFrontBlock
    PROVE  \E p : QI(p, lo)' /\ lo[frontBlock'] = lo[frontBlock]
<1>. PICK f : f = frontBlock
  OBVIOUS
<1>. PICK n : n = cons.block
  OBVIOUS
<1>. PICK N : N = NLinked
  OBVIOUS
<1>. PICK T : T = pos[tailBlock]
  OBVIOUS
<1>. PICK p : p = [c \in Linked |-> IF pos[c] = 0 THEN N - 1 ELSE pos[c] - 1]
  OBVIOUS
<1>0. QTyped /\ QBasic /\ QRing(pos) /\ QCount(pos) /\ QData(pos, lo) /\ QProd(pos)
      /\ QNew /\ QCons(pos, lo)
  BY Basics DEF QI
<1>1. /\ cons.pc = "moveFrontBlock" /\ frontBlock' = n /\ cons' = Goto("take")
      /\ UNCHANGED <<maxSize, initialBlocks, blocks, tailBlock, largestBlockSize, prod, result,
                     failed>>
  BY DEF moveFrontBlock
<1>2. /\ n = blocks[f].next /\ Seen(n) >= 1 /\ cons.op # "peek" /\ T > 0 /\ Held(f) = 0
      /\ cons.at = blocks[n].front
  BY <1>0, <1>1 DEF QCons, Idle
<1>3. /\ n \in Linked /\ n \in 1 .. Len(blocks) /\ pos[n] = 1 /\ n # f
      /\ f \in Linked /\ tailBlock \in Linked /\ N \in Nat /\ N >= 1
  <2>1. /\ f \in Linked /\ tailBlock \in Linked /\ N \in Nat /\ N >= 1
    BY <1>0 DEF QBasic
  <2>. QED  BY <1>0, <1>2, <2>1, SecondHolds
<1>4. /\ \A c \in Linked : pos[c] \in Nat /\ pos[c] <= N - 1
      /\ \A c \in Linked : pos[c] = 0 <=> c = f
      /\ \A c, d \in Linked : pos[c] = pos[d] => c = d
      /\ \A c \in Linked : pos[blocks[c].next] = IF pos[c] = N - 1 THEN 0 ELSE pos[c] + 1
      /\ T \in Nat /\ T <= N - 1
  BY <1>0, <1>3, PosFacts DEF QRing
<1>5. /\ Wrote(n, blocks[n].front, blocks[n].localTail, blocks[n].tail, blocks[n].localFront)
      /\ \A c \in 1 .. Len(blocks) : Counted(c)
  BY <1>0, <1>1, <1>3, WritesNothing
<1>6. /\ Linked' = Linked /\ NLinked' = N /\ \A c \in Linked : Counted(c)
      /\ \A c \in Linked : blocks[c].next \in Linked
  <2>1. Linked \subseteq 1 .. Len(blocks)
    BY <1>0 DEF QBasic
  <2>2. \A c \in Linked : blocks[c].next \in Linked
    BY <1>0, <2>1 DEF QBasic
  <2>. QED  BY <1>5, <2>1, <2>2 DEF Wrote
<1>7. /\ cons' \in ConsT /\ cons'.pc = "take" /\ cons'.block = n /\ cons'.at = cons.at
      /\ cons'.op = cons.op
  <2>1. "take" \in ConsPc
    BY DEF ConsPc
  <2>. QED  BY <1>0, <1>1, <2>1, GotoIs
<1>8. QTyped'
  <2>1. initialBlockCount(maxSize') = initialBlockCount(maxSize)
    BY <1>1
  <2>. QED  BY <1>0, <1>1, <1>3, <1>5, <1>7, <2>1 DEF QTyped, Wrote, initialBlockCount
<1>9. /\ p[f] = N - 1 /\ p[tailBlock] = T - 1 /\ p[n] = 0
      /\ \A c \in Linked : c # f => p[c] = pos[c] - 1 /\ pos[c] > 0
      /\ p \in [Linked -> 0 .. N - 1]
  <2>1. p[f] = N - 1
    BY <1>3, <1>4
  <2>2. \A c \in Linked : c # f => p[c] = pos[c] - 1 /\ pos[c] > 0
    BY <1>4
  <2>3. tailBlock # f
    BY <1>2, <1>3, <1>4
  <2>4. \A c \in Linked : p[c] \in 0 .. N - 1
    BY <1>3, <1>4, <2>1, <2>2
  <2>. QED  BY <1>3, <2>1, <2>2, <2>3, <2>4
<1>10. QRing(p)'
  <2>1. \A c, d \in Linked : p[c] = p[d] => c = d
    <3>. SUFFICES ASSUME NEW c \in Linked, NEW d \in Linked, p[c] = p[d]  PROVE c = d
      OBVIOUS
    <3>1. ASSUME NEW x \in Linked, x # f  PROVE p[x] # N - 1
      BY <1>3, <1>4, <1>9, <3>1
    <3>2. CASE c = f \/ d = f
      BY <1>9, <3>1, <3>2
    <3>3. CASE c # f /\ d # f
      <4>1. p[c] = pos[c] - 1 /\ p[d] = pos[d] - 1 /\ pos[c] \in Nat /\ pos[d] \in Nat
        BY <1>4, <1>9, <3>3
      <4>2. pos[c] = pos[d]
        BY <4>1
      <4>. QED  BY <1>4, <4>2
    <3>. QED  BY <3>2, <3>3
  <2>2. ASSUME NEW c \in Linked
        PROVE  p[blocks[c].next] = IF p[c] = N - 1 THEN 0 ELSE p[c] + 1
    <3>1. CASE c = f
      BY <1>2, <1>9, <3>1
    <3>2. CASE c # f /\ pos[c] = N - 1
      <4>1. pos[blocks[c].next] = 0 /\ blocks[c].next \in Linked
        BY <1>4, <1>6, <3>2
      <4>2. blocks[c].next = f
        BY <1>4, <4>1
      <4>3. p[c] = N - 2
        BY <1>3, <1>9, <3>2
      <4>. QED  BY <1>3, <1>9, <4>2, <4>3
    <3>3. CASE c # f /\ pos[c] # N - 1
      <4>1. pos[blocks[c].next] = pos[c] + 1 /\ blocks[c].next \in Linked
        BY <1>4, <1>6, <3>3
      <4>2. pos[c] \in Nat /\ pos[c] <= N - 1 /\ p[c] = pos[c] - 1
        BY <1>4, <1>9, <3>3
      <4>3. blocks[c].next # f
        BY <1>4, <4>1, <4>2
      <4>4. p[blocks[c].next] = pos[c] + 1 - 1
        <5>1. PICK x \in Linked : x = blocks[c].next
          BY <4>1
        <5>2. pos[x] = pos[c] + 1 /\ p[x] = pos[x] - 1
          BY <1>9, <4>1, <4>3, <5>1
        <5>3. p[x] = pos[c] + 1 - 1
          BY <4>2, <5>2
        <5>. QED  BY <5>1, <5>3, Zenon
      <4>. QED  BY <1>3, <3>3, <4>2, <4>4
    <3>. QED  BY <3>1, <3>2, <3>3
  <2>. QED  BY <1>1, <1>6, <1>9, <2>1, <2>2 DEF QRing
<1>11. QCount(p)'
  <2>1. (\A c \in Linked : Seen(c) <= Held(c) /\ Held(c) <= Used(c))'
    BY <1>0, <1>6 DEF QCount, Counted
  <2>2. (\A c \in Linked : p[c] > p[tailBlock] =>
           Held(c) = IF prod.pc = "moveTailBlock" /\ c = prod.block THEN 1 ELSE 0)'
    <3>. SUFFICES ASSUME NEW c \in Linked, p[c] > p[tailBlock]
                  PROVE  Held(c) = IF prod.pc = "moveTailBlock" /\ c = prod.block THEN 1 ELSE 0
      BY <1>1, <1>6 DEF Counted
    <3>1. CASE c = f
      <4>1. prod.pc = "moveTailBlock" => prod.block # f
        BY <1>0, AheadFacts DEF Ahead
      <4>. QED  BY <1>2, <3>1, <4>1
    <3>2. CASE c # f
      <4>1. pos[c] > pos[tailBlock]
        <5>1. p[c] = pos[c] - 1 /\ pos[c] \in Nat /\ p[tailBlock] = T - 1
          BY <1>4, <1>9, <3>2
        <5>. QED  BY <1>4, <5>1
      <4>. QED  BY <1>0, <4>1 DEF QCount
    <3>. QED  BY <3>1, <3>2
  <2>3. (\A c \in Linked : p[c] > 0 /\ p[c] < p[tailBlock] => Held(c) = Last(c))'
    <3>. SUFFICES ASSUME NEW c \in Linked, p[c] > 0, p[c] < p[tailBlock]
                  PROVE  Held(c) = Last(c)
      BY <1>1, <1>6 DEF Counted
    <3>1. c # f
      BY <1>3, <1>4, <1>9
    <3>2. p[c] = pos[c] - 1 /\ pos[c] \in Nat /\ p[tailBlock] = T - 1 /\ pos[c] > 0
      BY <1>4, <1>9, <3>1
    <3>3. pos[c] < pos[tailBlock]
      BY <1>4, <3>2
    <3>. QED  BY <1>0, <3>2, <3>3 DEF QCount
  <2>4. (p[tailBlock] > 0 => Held(tailBlock) >= 1)'
    <3>1. Held(tailBlock) >= 1
      BY <1>0, <1>2 DEF QCount
    <3>2. Held(tailBlock)' = Held(tailBlock)
      BY <1>1, <1>3, <1>6 DEF Counted
    <3>. QED  BY <3>1, <3>2
  <2>. QED  BY <2>1, <2>2, <2>3, <2>4 DEF QCount
<1>12. ASSUME NEW c \in Linked, p[c] <= p[tailBlock]
       PROVE  c # f /\ pos[c] <= T /\ (p[c] < p[tailBlock] => pos[c] < T)
  <2>1. c # f
    BY <1>3, <1>4, <1>9, <1>12
  <2>2. p[c] = pos[c] - 1 /\ pos[c] \in Nat /\ p[tailBlock] = T - 1
    BY <1>4, <1>9, <2>1
  <2>. QED  BY <1>4, <1>12, <2>1, <2>2
<1>13. QData(p, lo)'
  <2>1. ASSUME NEW c \in Linked, p[c] <= p[tailBlock]  PROVE Slots(c, lo[c])'
    <3>1. Slots(c, lo[c])
      BY <1>0, <1>12, <2>1 DEF QData
    <3>2. \A i \in 0 .. Last(c) : BlockSlot(c, i)' = BlockSlot(c, i)
      BY <1>1, <1>7 DEF BlockSlot
    <3>. QED  BY <1>0, <1>1, <1>6, <3>1, <3>2, SlotsKept DEF Counted
  <2>2. (\A c \in Linked : p[c] <= p[tailBlock] => Slots(c, lo[c]))'
    BY <1>1, <1>6, <2>1
  <2>3. (\A c \in Linked : p[c] < p[tailBlock] => lo[blocks[c].next] = lo[c] + Held(c))'
    <3>. SUFFICES ASSUME NEW c \in Linked, p[c] < p[tailBlock]
                  PROVE  lo[blocks[c].next] = lo[c] + Held(c)
      BY <1>1, <1>6 DEF Counted
    <3>1. p[c] <= p[tailBlock]
      BY <1>3, <1>9
    <3>2. pos[c] < pos[tailBlock]
      BY <1>12, <3>1
    <3>. QED  BY <1>0, <3>2 DEF QData
  <2>4. (lo[tailBlock] + Held(tailBlock) = prod.element - 1)'
    <3>1. Held(tailBlock)' = Held(tailBlock)
      BY <1>1, <1>3, <1>6 DEF Counted
    <3>. QED  BY <1>0, <1>1, <3>1 DEF QData
  <2>5. (\A c \in Linked : p[c] <= p[tailBlock] => lo[c] + Held(c) <= prod.element - 1)'
    <3>. SUFFICES ASSUME NEW c \in Linked, p[c] <= p[tailBlock]
                  PROVE  lo[c] + Held(c) <= prod.element - 1
      BY <1>1, <1>6 DEF Counted
    <3>1. pos[c] <= pos[tailBlock]
      BY <1>12
    <3>. QED  BY <1>0, <3>1 DEF QData
  <2>. QED  BY <1>0, <1>6, <2>2, <2>3, <2>4, <2>5 DEF QData
<1>14. QProd(p)'
  <2>1. p[tailBlock] \in Nat /\ p[tailBlock] <= pos[tailBlock]
    BY <1>2, <1>4, <1>9
  <2>. QED  BY <1>0, <1>1, <1>6, <2>1, ProdKept DEF Counted
<1>15. QNew'
  BY <1>0, <1>1, NewKept
<1>16. QCons(p, lo)'
  <2>1. Seen(n)' >= 1
    BY <1>2, <1>3, <1>6 DEF Counted
  <2>. QED  BY <1>1, <1>2, <1>7, <2>1 DEF QCons, Idle
<1>17. lo[n] = lo[f]
  <2>1. lo[n] = lo[f] + 0 /\ lo[f] \in Nat
    BY <1>0, <1>2, <1>3, <1>4 DEF QData
  <2>. QED  BY <2>1
<1>. QED  BY <1>1, <1>8, <1>10, <1>11, <1>13, <1>14, <1>15, <1>16, <1>17 DEF QI

\* The front moves: the element counts as dequeued.
LEMMA moveFrontStep ==
    ASSUME NEW pos, NEW lo, QI(pos, lo), moveFront
    PROVE  \E l : /\ QI(pos, l)' /\ l[frontBlock] = lo[frontBlock] + 1
                  /\ frontBlock' = frontBlock /\ lo[frontBlock] + 1 < prod.element
                  /\ result' = result \/ result' = lo[frontBlock] + 1
<1>. PICK b : b = cons.block
  OBVIOUS
<1>. PICK s : s = Size(b)
  OBVIOUS
<1>. PICK f : f = blocks[b].front
  OBVIOUS
<1>. PICK v : v = Next1(s, f)
  OBVIOUS
<1>. PICK l : l = [lo EXCEPT ![b] = lo[b] + 1]
  OBVIOUS
<1>0. QTyped /\ QBasic /\ QRing(pos) /\ QCount(pos) /\ QData(pos, lo) /\ QProd(pos)
      /\ QNew /\ QCons(pos, lo)
  BY Basics DEF QI
<1>1. /\ cons.pc = "moveFront"
      /\ blocks' = [blocks EXCEPT ![b].front = Succ(b, cons.at)]
      /\ result' = IF cons.op = "pop" THEN result ELSE cons.element
      /\ cons' = Return(TRUE, NoElement)
      /\ UNCHANGED <<maxSize, initialBlocks, frontBlock, tailBlock, largestBlockSize, prod,
                     failed>>
  BY DEF moveFront
<1>2. /\ b = frontBlock /\ cons.at = f /\ Seen(b) >= 1 /\ cons.op # "peek"
      /\ cons.element = lo[b] + 1
      /\ b \in Linked /\ b \in 1 .. Len(blocks) /\ tailBlock \in Linked /\ 1 \in Linked
  <2>1. /\ b = frontBlock /\ cons.at = f /\ Seen(b) >= 1 /\ cons.op # "peek"
        /\ cons.element = lo[b] + 1
    BY <1>0, <1>1 DEF QCons, Idle
  <2>2. b \in Linked /\ tailBlock \in Linked
    BY <1>0 DEF QBasic
  <2>3. 1 \in Linked
    BY <1>0 DEF QBasic, Linked
  <2>. QED  BY <1>0, <2>1, <2>2, <2>3, LinkedIn
<1>3. /\ s \in Nat /\ s > 0 /\ Last(b) = s - 1 /\ f \in 0 .. s - 1
      /\ blocks[b].tail \in 0 .. s - 1 /\ blocks[b].localTail \in 0 .. s - 1
      /\ Held(b) \in Nat /\ Held(b) <= s - 1 /\ Seen(b) \in Nat /\ Seen(b) <= Held(b)
  <2>1. /\ s \in Nat /\ s > 0 /\ Last(b) = s - 1 /\ f \in 0 .. Last(b)
        /\ blocks[b].tail \in 0 .. Last(b) /\ blocks[b].localTail \in 0 .. Last(b)
        /\ Held(b) \in 0 .. Last(b) /\ Seen(b) \in 0 .. Last(b)
    BY <1>0, <1>2 DEF QBasic
  <2>2. Seen(b) <= Held(b)
    BY <1>0, <1>2 DEF QCount
  <2>. QED  BY <2>1, <2>2
<1>4. Succ(b, cons.at) = v /\ v \in 0 .. Last(b)
  <2>1. (f + 1) % s = v /\ v \in 0 .. s - 1
    <3>1. (f + 1) % s = Next1(s, f)
      BY <1>3, NextIndex, ZenonT(60)
    <3>2. Next1(s, f) \in 0 .. s - 1
      BY <1>3 DEF Next1
    <3>. QED  BY <3>1, <3>2
  <2>. QED  BY <1>2, <1>3, <2>1 DEF Succ, Size
<1>5. /\ Wrote(b, v, blocks[b].localTail, blocks[b].tail, blocks[b].localFront)
      /\ \A c \in 1 .. Len(blocks) : blocks'[c].data = blocks[c].data
  BY <1>0, <1>1, <1>2, <1>4, WritesFront
<1>6. Held(b)' = Held(b) - 1 /\ Seen(b)' = Seen(b) - 1 /\ Used(b)' = Used(b)
  <2>1. Held(b) = Dist(s, f, blocks[b].tail) /\ Seen(b) = Dist(s, f, blocks[b].localTail)
    BY DEF Held, Seen
  <2>2. Held(b)' = Dist(s, v, blocks[b].tail) /\ Seen(b)' = Dist(s, v, blocks[b].localTail)
    BY <1>5 DEF Wrote
  <2>3. PICK t, lt : t = blocks[b].tail /\ lt = blocks[b].localTail
    OBVIOUS
  <2>4. t \in 0 .. s - 1 /\ lt \in 0 .. s - 1
    BY <1>3, <2>3
  <2>5. f # t /\ f # lt
    BY <1>0, <1>2, <1>3, <2>3, TailFacts
  <2>6. Dist(s, v, t) = Dist(s, f, t) - 1
    BY <1>3, <2>4, <2>5 DEF Dist, Next1
  <2>7. Dist(s, v, lt) = Dist(s, f, lt) - 1
    BY <1>3, <2>4, <2>5 DEF Dist, Next1
  <2>8. Used(b)' = Used(b)
    BY <1>5 DEF Wrote, Used
  <2>. QED  BY <2>1, <2>2, <2>3, <2>6, <2>7, <2>8
<1>7. /\ Linked' = Linked /\ NLinked' = NLinked /\ Linked \subseteq 1 .. Len(blocks)
      /\ Len(blocks') = Len(blocks)
      /\ \A c \in 1 .. Len(blocks) : blocks'[c].next = blocks[c].next
  BY <1>0, <1>5 DEF Wrote, QBasic
<1>8. /\ \A c \in Linked : c # b => Counted(c)
      /\ \A c \in Linked :
           /\ Size(c)' = Size(c) /\ Last(c)' = Last(c) /\ Used(c)' = Used(c)
           /\ blocks'[c].next = blocks[c].next /\ blocks'[c].data = blocks[c].data
           /\ blocks'[c].tail = blocks[c].tail /\ blocks'[c].localFront = blocks[c].localFront
  <2>1. \A c \in Linked : c # b => Counted(c)
    BY <1>5, <1>7 DEF Wrote, Counted
  <2>. QED  BY <1>5, <1>6, <1>7, <2>1 DEF Wrote, Counted
<1>9. /\ cons' \in ConsT /\ cons'.pc = Idle /\ cons'.block = 1 /\ cons'.answer = TRUE
      /\ cons'.op = "none"
  <2>1. NoElement \in Slot /\ TRUE \in BOOLEAN
    BY DEF Slot
  <2>2. /\ cons' \in ConsT /\ cons'.pc = Idle /\ cons'.block = 1 /\ cons'.answer = TRUE
        /\ cons'.op = IF TRUE /\ cons.op = "peek" THEN "peek" ELSE "none"
    BY <1>0, <1>1, <2>1, ReturnIs
  <2>. QED  BY <1>2, <2>2
<1>10. cons.element \in Slot /\ result \in Slot
  BY <1>0 DEF QTyped, ConsT
<1>11. QTyped'
  <2>1. result' \in Slot
    BY <1>1, <1>10
  <2>. QED  BY <1>0, <1>1, <1>2, <1>5, <1>9, <2>1, TypedKept DEF QTyped
<1>12. /\ \A c \in Linked : pos[c] \in Nat /\ pos[c] <= NLinked - 1
       /\ \A c \in Linked : pos[c] = 0 <=> c = b
       /\ NLinked \in Nat
       /\ \A c \in Linked : pos[blocks[c].next] = IF pos[c] = NLinked - 1 THEN 0 ELSE pos[c] + 1
       /\ \A c \in Linked : blocks[c].next \in Linked
  <2>1. \A c \in Linked : blocks[c].next \in Linked
    BY <1>0, <1>7 DEF QBasic
  <2>2. NLinked \in Nat
    BY <1>0 DEF QBasic
  <2>. QED  BY <1>0, <1>2, <2>1, <2>2, PosFacts DEF QRing
<1>13. /\ lo \in [Linked -> Nat] /\ l \in [Linked -> Nat] /\ l[b] = lo[b] + 1 /\ lo[b] \in Nat
       /\ \A c \in Linked : c # b => l[c] = lo[c]
  <2>1. lo \in [Linked -> Nat]
    BY <1>0 DEF QData
  <2>2. lo[b] \in Nat /\ lo[b] + 1 \in Nat
    BY <1>2, <2>1
  <2>. QED  BY <1>2, <2>1, <2>2
<1>14. QRing(pos)'
  BY <1>0, <1>1, <1>7, RingKept
<1>15. QCount(pos)'
  <2>1. (\A c \in Linked : Seen(c) <= Held(c) /\ Held(c) <= Used(c))'
    <3>. SUFFICES ASSUME NEW c \in Linked
                  PROVE  Seen(c)' <= Held(c)' /\ Held(c)' <= Used(c)'
      BY <1>7
    <3>1. CASE c = b
      <4>1. Held(b) <= Used(b) /\ Used(b) \in Int
        <5>1. Used(b) \in 0 .. Last(b)
          BY <1>0, <1>2 DEF QBasic
        <5>. QED  BY <1>0, <1>2, <1>3, <5>1 DEF QCount
      <4>. QED  BY <1>3, <1>6, <3>1, <4>1
    <3>2. CASE c # b
      BY <1>0, <1>8, <3>2 DEF QCount, Counted
    <3>. QED  BY <3>1, <3>2
  <2>2. (\A c \in Linked : pos[c] > pos[tailBlock] =>
           Held(c) = IF prod.pc = "moveTailBlock" /\ c = prod.block THEN 1 ELSE 0)'
    <3>. SUFFICES ASSUME NEW c \in Linked, pos[c] > pos[tailBlock]
                  PROVE  Held(c)' = IF prod.pc = "moveTailBlock" /\ c = prod.block THEN 1 ELSE 0
      BY <1>1, <1>7
    <3>1. c # b
      BY <1>2, <1>12
    <3>. QED  BY <1>0, <1>8, <3>1 DEF QCount, Counted
  <2>3. (\A c \in Linked : pos[c] > 0 /\ pos[c] < pos[tailBlock] => Held(c) = Last(c))'
    <3>. SUFFICES ASSUME NEW c \in Linked, pos[c] > 0, pos[c] < pos[tailBlock]
                  PROVE  Held(c)' = Last(c)'
      BY <1>1, <1>7
    <3>1. c # b
      BY <1>12
    <3>. QED  BY <1>0, <1>8, <3>1 DEF QCount, Counted
  <2>4. (pos[tailBlock] > 0 => Held(tailBlock) >= 1)'
    <3>. SUFFICES ASSUME pos[tailBlock] > 0  PROVE Held(tailBlock)' >= 1
      BY <1>1
    <3>1. tailBlock # b
      BY <1>2, <1>12
    <3>. QED  BY <1>0, <1>1, <1>2, <1>8, <3>1 DEF QCount, Counted
  <2>. QED  BY <2>1, <2>2, <2>3, <2>4 DEF QCount
<1>16. /\ lo[b] + Held(b) <= prod.element - 1 /\ Slots(b, lo[b]) /\ prod.element \in Nat
  <2>1. pos[b] <= pos[tailBlock]
    BY <1>2, <1>12
  <2>. QED  BY <1>0, <1>2, <2>1 DEF QData, QTyped
<1>17. Slots(b, l[b])'
  <2>1. ASSUME NEW j \in 0 .. Held(b) - 2
        PROVE  (BlockSlot(b, At(Size(b), blocks[b].front, j)))' = lo[b] + 1 + j + 1
    <3>0. j \in 0 .. s - 1 /\ j + 1 \in 0 .. s - 1 /\ j + 1 < s /\ j + 1 \in 0 .. Held(b) - 1
      BY <1>3
    <3>1. PICK i : i = At(s, f, j + 1)
      OBVIOUS
    <3>2. At(s, v, j) = i
      BY <1>3, <3>0, <3>1 DEF At, Next1
    <3>3. i # f
      BY <1>3, <3>0, <3>1 DEF At
    <3>4. BlockSlot(b, i) = lo[b] + (j + 1) + 1
      BY <1>16, <3>0, <3>1 DEF Slots
    <3>5. BlockSlot(b, i) = blocks[b].data[i]
      BY <1>2, <3>3 DEF BlockSlot
    <3>6. BlockSlot(b, i)' = blocks'[b].data[i]
      BY <1>9 DEF BlockSlot, Idle
    <3>7. BlockSlot(b, i)' = lo[b] + 1 + j + 1
      BY <1>2, <1>8, <1>13, <3>4, <3>5, <3>6
    <3>8. Size(b)' = s /\ blocks'[b].front = v
      BY <1>2, <1>5 DEF Wrote
    <3>. QED  BY <3>2, <3>7, <3>8
  <2>2. Held(b)' - 1 = Held(b) - 2 /\ l[b] = lo[b] + 1
    BY <1>3, <1>6, <1>13
  <2>. QED  BY <2>1, <2>2 DEF Slots
<1>18. QData(pos, l)'
  <2>1. ASSUME NEW c \in Linked, pos[c] <= pos[tailBlock]  PROVE Slots(c, l[c])'
    <3>1. CASE c = b
      BY <1>17, <3>1
    <3>2. CASE c # b
      <4>1. Slots(c, lo[c])
        BY <1>0, <2>1 DEF QData
      <4>2. \A i \in 0 .. Last(c) : BlockSlot(c, i)' = BlockSlot(c, i)
        <5>1. \A i \in 0 .. Last(c) : BlockSlot(c, i) = blocks[c].data[i]
          BY <3>2 DEF BlockSlot
        <5>2. \A i \in 0 .. Last(c) : BlockSlot(c, i)' = blocks'[c].data[i]
          BY <1>9 DEF BlockSlot, Idle
        <5>. QED  BY <1>8, <5>1, <5>2
      <4>3. Slots(c, lo[c])'
        BY <1>0, <1>8, <3>2, <4>1, <4>2, SlotsKept DEF Counted
      <4>. QED  BY <1>13, <3>2, <4>3
    <3>. QED  BY <3>1, <3>2
  <2>2. (\A c \in Linked : pos[c] <= pos[tailBlock] => Slots(c, l[c]))'
    BY <1>1, <1>7, <2>1
  <2>3. \A c \in Linked : l[c] + Held(c)' = lo[c] + Held(c)
    <3>. SUFFICES ASSUME NEW c \in Linked  PROVE l[c] + Held(c)' = lo[c] + Held(c)
      OBVIOUS
    <3>1. CASE c = b
      BY <1>3, <1>6, <1>13, <3>1
    <3>2. CASE c # b
      BY <1>8, <1>13, <3>2 DEF Counted
    <3>. QED  BY <3>1, <3>2
  <2>4. (\A c \in Linked : pos[c] < pos[tailBlock] => l[blocks[c].next] = l[c] + Held(c))'
    <3>. SUFFICES ASSUME NEW c \in Linked, pos[c] < pos[tailBlock]
                  PROVE  l[blocks'[c].next] = l[c] + Held(c)'
      BY <1>1, <1>7
    <3>1. PICK n \in Linked : n = blocks[c].next /\ n = blocks'[c].next
      BY <1>8, <1>12
    <3>2. pos[n] = pos[c] + 1 /\ pos[c] \in Nat
      <4>1. /\ pos[c] \in Nat /\ pos[tailBlock] \in Nat /\ pos[tailBlock] <= NLinked - 1
            /\ NLinked \in Nat
        BY <1>2, <1>12
      <4>2. pos[c] # NLinked - 1
        BY <4>1
      <4>. QED  BY <1>12, <3>1, <4>1, <4>2
    <3>3. n # b
      BY <1>12, <3>2
    <3>4. lo[n] = lo[c] + Held(c)
      BY <1>0, <3>1 DEF QData
    <3>. QED  BY <1>13, <2>3, <3>1, <3>3, <3>4
  <2>5. (l[tailBlock] + Held(tailBlock) = prod.element - 1)'
    <3>1. lo[tailBlock] + Held(tailBlock) = prod.element - 1
      BY <1>0 DEF QData
    <3>2. l[tailBlock] + Held(tailBlock)' = lo[tailBlock] + Held(tailBlock)
      BY <1>1, <1>2, <2>3
    <3>. QED  BY <1>1, <3>1, <3>2
  <2>6. (\A c \in Linked : pos[c] <= pos[tailBlock] => l[c] + Held(c) <= prod.element - 1)'
    <3>. SUFFICES ASSUME NEW c \in Linked, pos[c] <= pos[tailBlock]
                  PROVE  l[c] + Held(c)' <= prod.element - 1
      BY <1>1, <1>7
    <3>1. lo[c] + Held(c) <= prod.element - 1
      BY <1>0 DEF QData
    <3>. QED  BY <2>3, <3>1
  <2>. QED  BY <1>7, <1>13, <2>2, <2>4, <2>5, <2>6 DEF QData
<1>19. QProd(pos)'
  <2>1. pos[tailBlock] \in Nat /\ pos[tailBlock] <= pos[tailBlock]
    BY <1>2, <1>12
  <2>2. \A c \in Linked : pos[c] > 0 => Held(c)' = Held(c) /\ blocks'[c].front = blocks[c].front
    BY <1>8, <1>12 DEF Counted
  <2>. QED  BY <1>0, <1>1, <1>7, <1>8, <2>1, <2>2, ProdKept
<1>20. QNew'
  <2>1. \A c \in 1 .. Len(blocks) : c \notin Linked => blocks'[c] = blocks[c]
    BY <1>2, <1>5 DEF Wrote
  <2>. QED  BY <1>0, <1>1, <1>7, <2>1, NewKept
<1>21. QCons(pos, l)'
  BY <1>9 DEF QCons, Idle
<1>22. l[b] = lo[b] + 1 /\ lo[b] + 1 < prod.element
  BY <1>2, <1>3, <1>13, <1>16
<1>23. result' = result \/ result' = lo[b] + 1
  BY <1>1, <1>2
<1>24. QI(pos, l)'
  BY <1>11, <1>14, <1>15, <1>18, <1>19, <1>20, <1>21 DEF QI
<1>. QED  BY <1>1, <1>2, <1>22, <1>23, <1>24

-----------------------------------------------------------------------------
(***************************************************************************)
(* The invariant, and what follows from it.                                *)
(***************************************************************************)

\* The constructor's circle: the front block is at position 0, every block is
\* empty.
LEMMA InitInv ==
    ASSUME QueueInit
    PROVE  \E pos, lo : QI(pos, lo) /\ lo[frontBlock] = 0
<1>. PICK n : n = initialBlocks
  OBVIOUS
<1>. PICK L : L = BaseSize
  OBVIOUS
<1>. PICK pos : pos = [b \in 1 .. n |-> b - 1]
  OBVIOUS
<1>. PICK lo : lo = [b \in 1 .. n |-> 0]
  OBVIOUS
<1>. PICK d : d = [i \in 0 .. L - 1 |-> NoElement]
  OBVIOUS
<1>1. /\ maxSize \in MaxSizes
      /\ n = IF Many THEN initialBlockCount(maxSize) ELSE 1
      /\ largestBlockSize = L
      /\ blocks = [b \in 1 .. n |-> make_block(L, (b % n) + 1)]
      /\ frontBlock = 1 /\ tailBlock = 1
      /\ prod = [pc |-> Idle, canAlloc |-> FALSE, element |-> 1, block |-> 1,
                 answer |-> TRUE, room |-> TRUE]
      /\ cons = [pc |-> Idle, op |-> "none", block |-> 1, at |-> 0,
                 element |-> NoElement, answer |-> FALSE, empty |-> TRUE]
      /\ result = NoElement /\ failed = FALSE
  BY DEF QueueInit, Many, BaseSize
<1>2. L \in Nat /\ L >= 2 /\ n \in Nat /\ n >= 1
  BY <1>1, BaseFacts, BlockCountFacts
<1>3. d \in [0 .. L - 1 -> Slot] /\ d \in DataT
  BY <1>2 DEF Slot, DataT
<1>4. ASSUME NEW b \in 1 .. n  PROVE (b % n) + 1 = IF b = n THEN 1 ELSE b + 1
  <2>1. PICK i \in 0 .. n - 1 : i = b - 1 /\ b = i + 1
    BY <1>2
  <2>2. (i + 1) % n = Next1(n, i)
    BY <1>2, NextIndex
  <2>. QED  BY <1>2, <2>1, <2>2 DEF Next1
<1>5. ASSUME NEW b \in 1 .. n
      PROVE  /\ blocks[b].front = 0 /\ blocks[b].localTail = 0 /\ blocks[b].tail = 0
             /\ blocks[b].localFront = 0 /\ blocks[b].data = d /\ blocks[b] \in BlockT
             /\ blocks[b].next \in 1 .. n
             /\ b = n => blocks[b].next = 1
             /\ b # n => blocks[b].next = b + 1
  <2>1. blocks[b] = make_block(L, (b % n) + 1)
    BY <1>1
  <2>2. PICK x : x = (b % n) + 1
    OBVIOUS
  <2>3. /\ x = (IF b = n THEN 1 ELSE b + 1) /\ x \in Nat /\ x \in 1 .. n
    <3>1. x = IF b = n THEN 1 ELSE b + 1
      BY <1>4, <2>2, Zenon
    <3>. QED  BY <1>2, <3>1
  <2>4. blocks[b] = [front |-> 0, localTail |-> 0, tail |-> 0, localFront |-> 0,
                     next |-> x, data |-> d]
    BY <2>1, <2>2, Zenon DEF make_block
  <2>5. blocks[b] \in BlockT
    BY <1>3, <2>3, <2>4 DEF BlockT
  <2>6. /\ blocks[b].front = 0 /\ blocks[b].localTail = 0 /\ blocks[b].tail = 0
        /\ blocks[b].localFront = 0 /\ blocks[b].data = d /\ blocks[b].next = x
    BY <2>4
  <2>. QED  BY <2>3, <2>5, <2>6
<1>6. /\ blocks \in Seq(BlockT) /\ Len(blocks) = n
  <2>1. blocks \in [1 .. n -> BlockT]
    BY <1>1, <1>5
  <2>2. \A g \in [1 .. n -> BlockT] : g \in Seq(BlockT) /\ Len(g) = n
    BY <1>2
  <2>. QED  BY <2>1, <2>2
<1>7. NLinked = n /\ Linked = 1 .. n
  BY <1>1, <1>6 DEF NLinked, Linked, Idle
<1>8. ASSUME NEW b \in 1 .. n
      PROVE  /\ Size(b) = L /\ Last(b) = L - 1 /\ Held(b) = 0 /\ Seen(b) = 0 /\ Used(b) = 0
  <2>1. DOMAIN blocks[b].data = 0 .. L - 1
    BY <1>3, <1>5
  <2>2. Size(b) = L
    BY <1>2, <2>1, SizeOfInterval DEF Size
  <2>3. blocks[b].front = 0 /\ blocks[b].tail = 0 /\ blocks[b].localTail = 0
        /\ blocks[b].localFront = 0
    BY <1>5
  <2>. QED  BY <2>2, <2>3 DEF Last, Held, Seen, Used, Dist
<1>9. ASSUME NEW b \in 1 .. n  PROVE BlockOK(b)
  <2>1. blocks[b].next \in 1 .. n
    BY <1>2, <1>5
  <2>2. /\ blocks[b].front = 0 /\ blocks[b].tail = 0 /\ blocks[b].localTail = 0
        /\ blocks[b].localFront = 0 /\ blocks[b].data = d
    BY <1>5
  <2>3. 0 \in 0 .. L - 1
    BY <1>2
  <2>4. Size(b) = L /\ Last(b) = L - 1 /\ L \in Nat /\ L >= BaseSize
    BY <1>2, <1>8
  <2>. QED  BY <1>3, <1>7, <2>1, <2>2, <2>3, <2>4 DEF BlockOK
<1>10. QTyped
  <2>1. n \in n .. n + MaxAllocs /\ 1 \in 1 .. n /\ 1 \in 1 .. MaxElements + 1
    BY <1>2, QueueAssumption
  <2>2. prod \in [pc : ProdPc, canAlloc : BOOLEAN, element : Nat, block : Nat,
                  answer : BOOLEAN, room : BOOLEAN]
    BY <1>1 DEF ProdPc
  <2>3. cons \in ConsT
    BY <1>1 DEF ConsT, ConsPc, Slot
  <2>4. result \in Slot
    BY <1>1 DEF Slot
  <2>. QED  BY <1>1, <1>2, <1>6, <1>7, <1>9, <2>1, <2>2, <2>3, <2>4 DEF QTyped
<1>11. QRing(pos)
  <2>1. pos \in [1 .. n -> 0 .. n - 1] /\ \A b \in 1 .. n : pos[b] = b - 1
    BY <1>2
  <2>2. ASSUME NEW b \in 1 .. n
        PROVE  pos[blocks[b].next] = IF pos[b] = n - 1 THEN 0 ELSE pos[b] + 1
    <3>1. CASE b = n
      <4>1. blocks[b].next = 1
        BY <1>5, <3>1
      <4>. QED  BY <1>2, <2>1, <3>1, <4>1
    <3>2. CASE b # n
      <4>1. blocks[b].next = b + 1 /\ b + 1 \in 1 .. n
        BY <1>2, <1>5, <3>2
      <4>. QED  BY <1>2, <2>1, <3>2, <4>1
    <3>. QED  BY <3>1, <3>2
  <2>3. \A b, c \in 1 .. n : pos[b] = pos[c] => b = c
    BY <1>2, <2>1
  <2>4. pos[1] = 0
    BY <1>2, <2>1
  <2>5. \A b \in Linked : pos[blocks[b].next] = IF pos[b] = NLinked - 1 THEN 0 ELSE pos[b] + 1
    BY <1>7, <2>2
  <2>6. /\ pos \in [Linked -> 0 .. NLinked - 1] /\ pos[frontBlock] = 0
        /\ \A b, c \in Linked : pos[b] = pos[c] => b = c
    BY <1>1, <1>7, <2>1, <2>3, <2>4
  <2>. QED  BY <2>5, <2>6, Zenon DEF QRing
<1>12. QCount(pos)
  <2>1. prod.pc # "moveTailBlock"
    BY <1>1 DEF Idle
  <2>2. pos[tailBlock] = 0
    BY <1>1, <1>2
  <2>3. \A b \in Linked : Seen(b) <= Held(b) /\ Held(b) <= Used(b) /\ Held(b) = 0
    BY <1>7, <1>8
  <2>4. \A b \in Linked : ~(pos[b] > 0 /\ pos[b] < pos[tailBlock]) /\ ~(pos[tailBlock] > 0)
    BY <1>2, <1>7, <2>2
  <2>. QED  BY <1>2, <1>7, <2>1, <2>2, <2>3, <2>4 DEF QCount
<1>13. QData(pos, lo)
  <2>1. pos[1] = 0 /\ (\A b \in 1 .. n : pos[b] \in Nat) /\ 1 \in 1 .. n
    BY <1>2
  <2>2. lo \in [1 .. n -> Nat] /\ \A b \in 1 .. n : lo[b] = 0
    OBVIOUS
  <2>3. \A b \in 1 .. n : Slots(b, lo[b])
    BY <1>8 DEF Slots
  <2>. QED  BY <1>1, <1>7, <1>8, <2>1, <2>2, <2>3 DEF QData
<1>14. QProd(pos) /\ QNew /\ QCons(pos, lo)
  BY <1>1 DEF QProd, QNew, QCons, Idle, Ahead
<1>15. lo[frontBlock] = 0
  BY <1>1, <1>2
<1>. QED  BY <1>10, <1>11, <1>12, <1>13, <1>14, <1>15 DEF QI

\* Nothing changes: neither does the invariant.
LEMMA StutterStep ==
    ASSUME NEW pos, NEW lo, QI(pos, lo), UNCHANGED queueVars
    PROVE  QI(pos, lo)'
<1>. PICK b : b = frontBlock
  OBVIOUS
<1>0. QTyped /\ QBasic /\ QRing(pos) /\ QCount(pos) /\ QData(pos, lo) /\ QProd(pos)
      /\ QNew /\ QCons(pos, lo)
  BY Basics DEF QI
<1>1. UNCHANGED <<maxSize, initialBlocks, blocks, frontBlock, tailBlock, largestBlockSize,
                  prod, cons, result, failed>>
  BY DEF queueVars
<1>2. b \in Linked /\ b \in 1 .. Len(blocks)
  BY <1>0, LinkedIn DEF QBasic
<1>3. /\ Wrote(b, blocks[b].front, blocks[b].localTail, blocks[b].tail, blocks[b].localFront)
      /\ \A c \in 1 .. Len(blocks) : Counted(c)
  BY <1>0, <1>1, <1>2, WritesNothing
<1>4. QTyped'
  BY <1>0, <1>1, <1>3, TypedKept DEF QTyped
<1>5. Linked' = Linked /\ \A c \in Linked : Counted(c)
  <2>1. Linked \subseteq 1 .. Len(blocks)
    BY <1>0 DEF QBasic
  <2>. QED  BY <1>3, <2>1 DEF Wrote
<1>6. QCons(pos, lo)'
  <2>1. frontBlock \in Linked /\ cons.block \in Linked
    BY <1>0 DEF QBasic
  <2>2. Held(frontBlock)' = Held(frontBlock) /\ Seen(cons.block)' = Seen(cons.block)
    BY <1>1, <1>5, <2>1 DEF Counted
  <2>. QED  BY <1>0, <1>1, <2>1, <2>2 DEF QCons
<1>7. \A c \in Linked : \A i \in 0 .. Last(c) : BlockSlot(c, i)' = BlockSlot(c, i)
  BY <1>1 DEF BlockSlot
<1>8. Seen(b)' <= Held(b)
  BY <1>0, <1>2, <1>5 DEF Counted, QCount
<1>. QED  BY <1>1, <1>2, <1>3, <1>4, <1>6, <1>7, <1>8, ReaderKept

\* What a step does to the numbers: nothing, or the next element is enqueued,
\* or the front one is dequeued.
QStep(lo, l) ==
  \/ prod'.element = prod.element /\ l[frontBlock'] = lo[frontBlock] /\ result' = result
  \/ /\ prod.element \in Element /\ prod'.element = prod.element + 1
     /\ l[frontBlock'] = lo[frontBlock] /\ result' = result
  \/ /\ lo[frontBlock] + 1 < prod.element /\ prod'.element = prod.element
     /\ l[frontBlock'] = lo[frontBlock] + 1
     /\ result' = result \/ result' = lo[frontBlock] + 1

LEMMA ProducerStep ==
    ASSUME NEW pos, NEW lo, QI(pos, lo), Producer
    PROVE  \E p, l : QI(p, l)' /\ QStep(lo, l)
<1>0. QTyped
  BY DEF QI
<1>1. ASSUME QI(pos, lo)', prod'.element = prod.element,
             frontBlock' = frontBlock, result' = result
      PROVE  \E p, l : QI(p, l)' /\ QStep(lo, l)
  BY <1>1 DEF QStep
<1>2. ASSUME NEW a \in BOOLEAN, enqueue(a)
      PROVE  \E p, l : QI(p, l)' /\ QStep(lo, l)
  <2>1. /\ frontBlock' = frontBlock /\ result' = result /\ prod'.element = prod.element
    BY <1>0, <1>2 DEF enqueue, QTyped
  <2>. QED  BY <1>1, <1>2, <2>1, enqueueStep
<1>3. CASE \/ Store("construct", Constructed(prod.block), "moveTail")
           \/ Store("constructNext", Constructed(prod.block), "moveTailNext")
  <2>1. /\ frontBlock' = frontBlock /\ result' = result /\ prod'.element = prod.element
    BY <1>0, <1>3 DEF Store, QTyped, Idle
  <2>. QED  BY <1>1, <1>3, <2>1, constructStep
<1>4. CASE Store("moveTail", TailMoved(prod.block), Idle)
  <2>1. /\ frontBlock' = frontBlock /\ result' = result /\ prod.element \in Element
        /\ prod'.element = prod.element + 1
    <3>1. /\ prod.pc = "moveTail" /\ frontBlock' = frontBlock /\ result' = result
          /\ prod' = Enqueued
      BY <1>4 DEF Store
    <3>. QED  BY <1>0, <3>1, EnqueuedIs DEF Idle
  <2>2. QI(pos, lo)'
    BY <1>4, moveTailStep
  <2>. QED  BY <2>1, <2>2 DEF QStep
<1>5. CASE Store("moveTailNext", TailMoved(prod.block), "moveTailBlock")
  <2>1. /\ frontBlock' = frontBlock /\ result' = result /\ prod'.element = prod.element
    BY <1>0, <1>5 DEF Store, QTyped, Idle
  <2>. QED  BY <1>1, <1>5, <2>1, moveTailNextStep
<1>6. CASE tailBlockFull
  <2>1. /\ frontBlock' = frontBlock /\ result' = result /\ prod'.element = prod.element
    BY <1>0, <1>6 DEF tailBlockFull, QTyped, Refused
  <2>. QED  BY <1>1, <1>6, <2>1, tailBlockFullStep
<1>7. CASE alloc
  <2>1. /\ frontBlock' = frontBlock /\ result' = result /\ prod'.element = prod.element
    BY <1>0, <1>7 DEF alloc, QTyped, Refused
  <2>. QED  BY <1>1, <1>7, <2>1, allocStep
<1>8. CASE link
  <2>1. /\ frontBlock' = frontBlock /\ result' = result /\ prod'.element = prod.element
    BY <1>0, <1>8 DEF link, QTyped
  <2>2. PICK p, l : QI(p, l)' /\ l[frontBlock] = lo[frontBlock]
    BY <1>8, linkStep
  <2>. QED  BY <2>1, <2>2 DEF QStep
<1>9. CASE moveTailBlock
  <2>1. /\ prod.pc = "moveTailBlock" /\ frontBlock' = frontBlock /\ result' = result
        /\ prod' = Enqueued
    BY <1>9 DEF moveTailBlock
  <2>2. prod.element \in Element /\ prod'.element = prod.element + 1
    BY <1>0, <2>1, EnqueuedIs DEF Idle
  <2>3. PICK l : QI(pos, l)' /\ l[frontBlock] = lo[frontBlock]
    BY <1>9, moveTailBlockStep
  <2>. QED  BY <2>1, <2>2, <2>3 DEF QStep
<1>. QED  BY <1>2, <1>3, <1>4, <1>5, <1>6, <1>7, <1>8, <1>9
          DEF Producer, StoreInTailBlock, StoreInNextBlock

LEMMA ConsumerStep ==
    ASSUME NEW pos, NEW lo, QI(pos, lo), Consumer
    PROVE  \E p, l : QI(p, l)' /\ QStep(lo, l)
<1>1. ASSUME QI(pos, lo)', prod' = prod, frontBlock' = frontBlock, result' = result
      PROVE  \E p, l : QI(p, l)' /\ QStep(lo, l)
  BY <1>1 DEF QStep
<1>2. ASSUME NEW op \in {"try_dequeue", "pop", "peek"}, dequeue(op)
      PROVE  \E p, l : QI(p, l)' /\ QStep(lo, l)
  <2>1. prod' = prod /\ result' = result
    BY <1>2 DEF dequeue
  <2>. QED  BY <1>1, <1>2, <2>1, dequeueStep
<1>3. CASE noElement \/ recheck \/ readNext \/ take
  <2>1. prod' = prod /\ result' = result
    BY <1>3 DEF noElement, recheck, readNext, take
  <2>2. QI(pos, lo)' /\ frontBlock' = frontBlock
    BY <1>3, noElementStep, recheckStep, readNextStep, takeStep
  <2>. QED  BY <1>1, <2>1, <2>2
<1>4. CASE moveFrontBlock
  <2>1. prod' = prod /\ result' = result
    BY <1>4 DEF moveFrontBlock
  <2>2. PICK p : QI(p, lo)' /\ lo[frontBlock'] = lo[frontBlock]
    BY <1>4, moveFrontBlockStep
  <2>. QED  BY <2>1, <2>2 DEF QStep
<1>5. CASE moveFront
  <2>1. prod' = prod
    BY <1>5 DEF moveFront
  <2>2. PICK l : /\ QI(pos, l)' /\ l[frontBlock] = lo[frontBlock] + 1
                 /\ frontBlock' = frontBlock /\ lo[frontBlock] + 1 < prod.element
                 /\ result' = result \/ result' = lo[frontBlock] + 1
    BY <1>5, moveFrontStep
  <2>. QED  BY <2>1, <2>2 DEF QStep
<1>. QED  BY <1>2, <1>3, <1>4, <1>5 DEF Consumer

LEMMA NextStep ==
    ASSUME NEW pos, NEW lo, QI(pos, lo), [QueueNext]_queueVars
    PROVE  \E p, l : QI(p, l)' /\ QStep(lo, l)
<1>1. CASE QueueNext
  BY <1>1, ProducerStep, ConsumerStep DEF QueueNext
<1>2. CASE UNCHANGED queueVars
  BY <1>2, StutterStep DEF QStep, queueVars
<1>. QED  BY <1>1, <1>2

\* Whatever the two threads do at the same time, the blocks keep their circle,
\* every block between front and tail block is full, and every slot between a
\* block's front and tail holds the element of its number.
THEOREM QueueInvariance == QueueSpec => []QInv
<1>1. QueueInit => QInv
  BY InitInv DEF QInv
<1>2. QInv /\ [QueueNext]_queueVars => QInv'
  <2>. SUFFICES ASSUME QInv, [QueueNext]_queueVars  PROVE QInv'
    OBVIOUS
  <2>1. PICK pos, lo : QI(pos, lo)
    BY DEF QInv
  <2>2. PICK p, l : QI(p, l)'
    BY <2>1, NextStep
  <2>. QED  BY <2>2 DEF QInv
<1>. QED  BY <1>1, <1>2, PTL DEF QueueSpec

\* What the queue answers in an invariant state is true.
LEMMA AnswersTrue ==
    ASSUME QInv
    PROVE  QueueAnswersTrue
<1>1. PICK pos, lo : QI(pos, lo)
  BY DEF QInv
<1>0. QTyped /\ QBasic /\ QRing(pos) /\ QCount(pos) /\ QData(pos, lo) /\ QProd(pos)
      /\ QNew /\ QCons(pos, lo)
  BY <1>1, Basics DEF QI
<1>2. /\ blocks \in Seq(BlockT) /\ DOMAIN blocks = 1 .. Len(blocks)
      /\ Linked \subseteq 1 .. Len(blocks)
  BY <1>0 DEF QTyped, QBasic
<1>3. ASSUME NEW b \in DOMAIN blocks
      PROVE  LET k == blocks[b] IN
             /\ {k.front, k.tail, k.localFront, k.localTail} \subseteq DOMAIN k.data
             /\ k.next \in DOMAIN blocks
             /\ \A i \in DOMAIN k.data : k.data[i] \in Element \cup {NoElement}
  <2>1. /\ blocks[b].front \in 0 .. Last(b) /\ blocks[b].tail \in 0 .. Last(b)
        /\ blocks[b].localFront \in 0 .. Last(b) /\ blocks[b].localTail \in 0 .. Last(b)
        /\ blocks[b].data \in [0 .. Last(b) -> Slot] /\ blocks[b].next \in Linked
    BY <1>0, <1>2 DEF QBasic
  <2>. QED  BY <1>2, <2>1 DEF Slot
<1>4. QueueTypeOK
  <2>1. Len(blocks) - initialBlocks \in 0 .. MaxAllocs
    <3>1. initialBlocks \in Nat
      BY <1>0, BlockCountFacts DEF QTyped
    <3>. QED  BY <1>0, <3>1, QueueAssumption DEF QTyped
  <2>2. {frontBlock, tailBlock, prod.block, cons.block} \subseteq DOMAIN blocks
    BY <1>0, <1>2 DEF QBasic
  <2>3. prod.element \in Element \cup {MaxElements + 1}
    BY <1>0, QueueAssumption DEF QTyped, Element
  <2>4. result \in Element \cup {NoElement} /\ maxSize \in MaxSizes
    BY <1>0 DEF QTyped, Slot
  <2>. QED  BY <1>3, <2>1, <2>2, <2>3, <2>4, Zenon DEF QueueTypeOK
<1>5. QueueAssertsHold
  BY <1>0 DEF QTyped, QueueAssertsHold
<1>6. CapacityKept
  BY <1>0 DEF QProd, CapacityKept
<1>7. EmptyIsTrue
  BY <1>0 DEF QCons, EmptyIsTrue
<1>8. PeekIsFront
  <2>. SUFFICES ASSUME cons.pc = Idle, cons.op = "peek", cons.answer
                PROVE  Contents # <<>> /\ cons.element = Head(Contents)
    BY DEF PeekIsFront
  <2>1. cons.element = lo[frontBlock] + 1 /\ cons.element < prod.element
    BY <1>0 DEF QCons
  <2>2. /\ lo[frontBlock] \in Nat /\ prod.element \in Nat
        /\ prod.element - 1 - lo[frontBlock] \in Nat
        /\ Contents = Run(lo[frontBlock], prod.element - 1 - lo[frontBlock])
    BY <1>0, ContentsIs
  <2>3. prod.element - 1 - lo[frontBlock] > 0
    BY <2>1, <2>2
  <2>. QED  BY <2>1, <2>2, <2>3, RunTail
<1>. QED  BY <1>4, <1>5, <1>6, <1>7, <1>8 DEF QueueAnswersTrue

\* The queue answers truly for every block size, capacity and number of
\* allocations: it refuses an element only if maxSize or more are in it, says
\* "empty" only if it was, peek points to the front element, and the code's
\* asserts hold.
THEOREM QueueAnswers == QueueSpec => []QueueAnswersTrue
<1>1. QInv => QueueAnswersTrue
  BY AnswersTrue
<1>. QED  BY <1>1, QueueInvariance, PTL

-----------------------------------------------------------------------------
(***************************************************************************)
(* The queue implements FifoQueue.                                         *)
(***************************************************************************)

\* Contents is the run of the elements that were enqueued and not dequeued.
ContentsAreRun ==
  \A pos, lo : QI(pos, lo) =>
    /\ lo[frontBlock] \in Nat /\ prod.element \in Nat
    /\ prod.element - 1 - lo[frontBlock] \in Nat
    /\ Contents = Run(lo[frontBlock], prod.element - 1 - lo[frontBlock])

LEMMA ContentsRun == ContentsAreRun
  BY ContentsIs DEF ContentsAreRun, QI

LEMMA FifoStep ==
    ASSUME QInv, [QueueNext]_queueVars, ContentsAreRun, ContentsAreRun'
    PROVE  [Fifo!Next]_(Fifo!vars)
<1>1. PICK pos, lo : QI(pos, lo)
  BY DEF QInv
<1>2. PICK p, l : QI(p, l)' /\ QStep(lo, l)
  BY <1>1, NextStep
<1>3. PICK t : t = lo[frontBlock]
  OBVIOUS
<1>4. PICK e : e = prod.element
  OBVIOUS
<1>5. PICK n : n = e - 1 - t
  OBVIOUS
<1>6. t \in Nat /\ e \in Nat /\ n \in Nat /\ Contents = Run(t, n)
  BY <1>1, <1>3, <1>4, <1>5 DEF ContentsAreRun
<1>7. PICK t1 : t1 = l[frontBlock']
  OBVIOUS
<1>8. PICK e1 : e1 = prod'.element
  OBVIOUS
<1>9. PICK n1 : n1 = e1 - 1 - t1
  OBVIOUS
<1>10. t1 \in Nat /\ e1 \in Nat /\ n1 \in Nat /\ Contents' = Run(t1, n1)
  <2>1. /\ l[frontBlock'] \in Nat /\ prod'.element \in Nat
        /\ prod'.element - 1 - l[frontBlock'] \in Nat
        /\ Contents' = Run(l[frontBlock'], prod'.element - 1 - l[frontBlock'])
    BY <1>2 DEF ContentsAreRun
  <2>. QED  BY <1>7, <1>8, <1>9, <2>1
<1>11. \/ e1 = e /\ t1 = t /\ result' = result
       \/ e \in Element /\ e1 = e + 1 /\ t1 = t /\ result' = result
       \/ /\ t + 1 < e /\ e1 = e /\ t1 = t + 1
          /\ result' = result \/ result' = t + 1
  BY <1>2, <1>3, <1>4, <1>7, <1>8 DEF QStep
<1>12. CASE e1 = e /\ t1 = t /\ result' = result
  <2>1. Contents' = Contents
    BY <1>5, <1>6, <1>9, <1>10, <1>12
  <2>. QED  BY <1>12, <2>1 DEF Fifo!vars
<1>13. CASE e \in Element /\ e1 = e + 1 /\ t1 = t /\ result' = result
  <2>1. n1 = n + 1 /\ e = t + n + 1
    BY <1>5, <1>6, <1>9, <1>10, <1>13
  <2>2. Append(Run(t, n), t + n + 1) = Run(t, n + 1)
    BY <1>6, RunAppend
  <2>3. Contents' = Append(Contents, e)
    BY <1>6, <1>10, <1>13, <2>1, <2>2
  <2>4. Fifo!Enqueue(e)
    BY <1>13, <2>3 DEF Fifo!Enqueue
  <2>. QED  BY <1>13, <2>4 DEF Fifo!Next
<1>14. CASE /\ t + 1 < e /\ e1 = e /\ t1 = t + 1
            /\ result' = result \/ result' = t + 1
  <2>1. n1 = n - 1 /\ n > 0
    BY <1>5, <1>6, <1>9, <1>10, <1>14
  <2>2. Run(t, n) # <<>> /\ Head(Run(t, n)) = t + 1 /\ Tail(Run(t, n)) = Run(t + 1, n - 1)
    BY <1>6, <2>1, RunTail
  <2>3. Contents # <<>> /\ Head(Contents) = t + 1 /\ Contents' = Tail(Contents)
    BY <1>6, <1>10, <1>14, <2>1, <2>2
  <2>4. Fifo!Dequeue \/ Fifo!Drop
    BY <1>14, <2>3 DEF Fifo!Dequeue, Fifo!Drop
  <2>. QED  BY <2>4 DEF Fifo!Next
<1>. QED  BY <1>11, <1>12, <1>13, <1>14

\* The lock-free queue is a FIFO: what MainMemCosim::Run puts in comes out
\* once and in order, whatever the two threads do at the same time; an element
\* is enqueued when the tail or the tail block moves and dequeued when the
\* front moves, and every other step changes nothing.
THEOREM QueueIsFifo == QueueSpec => FifoSpec
<1>1. QueueInit => Fifo!Init
  <2>. SUFFICES ASSUME QueueInit  PROVE Fifo!Init
    OBVIOUS
  <2>1. PICK pos, lo : QI(pos, lo) /\ lo[frontBlock] = 0
    BY InitInv
  <2>2. prod.element = 1 /\ result = NoElement
    BY DEF QueueInit
  <2>3. Contents = Run(0, 0)
    BY <2>1, <2>2, ContentsRun DEF ContentsAreRun
  <2>4. Contents = <<>>
    BY <2>3, RunEmpty
  <2>5. result \notin Element
    BY <2>2, QueueAssumption DEF Element
  <2>. QED  BY <2>4, <2>5 DEF Fifo!Init
<1>2. QInv /\ [QueueNext]_queueVars /\ ContentsAreRun /\ ContentsAreRun'
        => [Fifo!Next]_(Fifo!vars)
  BY FifoStep
<1>. QED  BY <1>1, <1>2, QueueInvariance, ContentsRun, PTL DEF QueueSpec, FifoSpec, Fifo!Spec
=============================================================================
