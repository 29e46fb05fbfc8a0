-------------------------- MODULE InterruptProofs ---------------------------
(***************************************************************************)
(* Proofs about Gic, for any CPUs, interrupts, priorities and masks and    *)
(* any number of raised interrupts and register writes, and about Uart.    *)
(***************************************************************************)
EXTENDS Gic, Uart, FiniteSetTheorems, TLAPS

-----------------------------------------------------------------------------
(***************************************************************************)
(* The inductive invariant of the interrupt controller.                    *)
(***************************************************************************)

\* The queue, the acknowledge register and the handler of a CPU agree: nothing is
\* queued twice, the register shows the front of the queue, a handler that runs has
\* something to read, and one that handles an interrupt handles the front.
CpuInOrder(g, c, where, value) ==
  /\ IsInjective(g.queue[c])
  /\ g.queue[c] # <<>> => g.iar[c] = Head(g.queue[c])
  /\ g.queue[c] = <<>> => g.iar[c] \in {Spurious, Unset}
  /\ where # "idle" => g.iar[c] # Unset
  /\ where = "handling" => g.queue[c] # <<>> /\ value = Head(g.queue[c])

\* A raised line announces something.
LineAnnounces(g, c) == g.line[c] => g.queue[c] # <<>>

\* a is queued and still to be acknowledged.
Waiting(g, c, a, where) ==
  a \in Range(g.queue[c]) /\ ~(where = "handling" /\ a = Head(g.queue[c]))

\* An entry of the interrupt of a that is not the front, with no a after it: when it
\* gets to the front, the interrupt is made pending and a may be queued.
Behind(q, a) ==
  \E n \in 2 .. Len(q) : q[n][1] = a[1] /\ \A m \in n .. Len(q) : q[m] # a

\* a may be queued without being raised again.
Returning(g, c, a) ==
  /\ a = ackValue(g, c, a[1])
  /\ Behind(g.queue[c], a) \/ (a[1] \in g.pending[c] /\ a \notin Range(g.queue[c]))

\* Of the n times that c is owed a, one is for the entry that waits and one for the
\* entry that may come.
Accounts(g, c, a, where, n) ==
  /\ n >= 0
  /\ Waiting(g, c, a, where) => n >= 1
  /\ Returning(g, c, a) => n >= 1
  /\ Waiting(g, c, a, where) /\ Returning(g, c, a) => n >= 2

CpusInOrder == \A c \in CPU : CpuInOrder(gic, c, handler[c], acked[c]) /\ LineAnnounces(gic, c)

OwedAccounts == \A a \in AckValue, c \in CPU : Accounts(gic, c, a, handler[c], owed[a][c])

\* The inductive invariant.
GicInv == TypeOK /\ NoThrow /\ CpusInOrder /\ OwedAccounts

-----------------------------------------------------------------------------
(***************************************************************************)
(* comb_logic.                                                             *)
(***************************************************************************)

\* The numbers of the interrupts.
LEMMA IrqFacts ==
  /\ Irq \subseteq Nat /\ IsFiniteSet(Irq)
  /\ \A i \in PPI \cup SPI : i \in Irq /\ i \notin SGI
  /\ 0 \in CPU
<1>1. Irq \subseteq 0 .. 511
  BY IrqAssumption DEF Irq
<1>2. IsFiniteSet(Irq)
  <2>1. 0 \in Int /\ 511 \in Int
    OBVIOUS
  <2>2. IsFiniteSet(0 .. 511)
    BY <2>1, FS_Interval
  <2>. QED  BY <1>1, <2>2, FS_Subset
<1>3. \A i \in PPI \cup SPI : i \in Irq /\ i \notin SGI
  BY IrqAssumption DEF Irq
<1>. QED  BY <1>1, <1>2, <1>3, IrqAssumption

\* Ascending lists interrupts of the set, each once.
LEMMA AscendingFacts ==
  ASSUME NEW S \in SUBSET Irq
  PROVE  /\ Cardinality(S) \in Nat
         /\ Ascending(S) \in [1 .. Cardinality(S) -> S]
         /\ IsInjective(Ascending(S))
<1>. DEFINE N == Cardinality(S)
            Below(i) == {j \in S : j < i}
            rank == [i \in S |-> Cardinality(Below(i))]
<1>1. S \subseteq Nat /\ IsFiniteSet(S) /\ N \in Nat
  BY IrqFacts, FS_Subset, FS_CardinalityType
<1>2. \A i \in S : IsFiniteSet(Below(i)) /\ rank[i] \in Nat
  BY <1>1, FS_Subset, FS_CardinalityType
<1>3. ASSUME NEW i \in S  PROVE rank[i] < N
  <2>1. Below(i) \in SUBSET S /\ Below(i) # S
    BY <1>1
  <2>2. Cardinality(Below(i)) <= N /\ Cardinality(Below(i)) # N
    BY <1>1, <2>1, FS_Subset
  <2>. QED  BY <1>1, <1>2, <2>2
<1>4. ASSUME NEW i \in S, NEW k \in S, i < k  PROVE rank[i] < rank[k]
  <2>1. Below(i) \in SUBSET Below(k) /\ Below(i) # Below(k)
    <3>1. i \in Below(k) /\ i \notin Below(i)
      BY <1>1, <1>4
    <3>2. \A j \in S : j < i => j < k
      BY <1>1, <1>4
    <3>. QED  BY <3>1, <3>2
  <2>2. Cardinality(Below(i)) <= Cardinality(Below(k))
        /\ Cardinality(Below(i)) # Cardinality(Below(k))
    BY <1>2, <2>1, FS_Subset
  <2>. QED  BY <1>2, <2>2
<1>5. rank \in [S -> 0 .. N - 1]
  BY <1>1, <1>2, <1>3
<1>6. IsInjective(rank)
  <2>1. \A i, k \in S : i = k \/ i < k \/ k < i
    BY <1>1
  <2>. HIDE DEF rank
  <2>. QED  BY <1>2, <1>4, <1>5, <2>1 DEF IsInjective
<1>7. IsFiniteSet(0 .. N - 1) /\ Cardinality(0 .. N - 1) = N
  <2>1. 0 \in Int /\ N - 1 \in Int /\ (0 > N - 1 => N = 0) /\ (~(0 > N - 1) => N = N - 1 - 0 + 1)
    BY <1>1
  <2>. HIDE DEF N
  <2>2. /\ IsFiniteSet(0 .. N - 1)
        /\ Cardinality(0 .. N - 1) = IF 0 > N - 1 THEN 0 ELSE N - 1 - 0 + 1
    BY <2>1, FS_Interval
  <2>. QED  BY <2>1, <2>2
<1>8. rank \in Surjection(S, 0 .. N - 1)
  <2>1. rank \in Injection(S, 0 .. N - 1)
    BY <1>5, <1>6 DEF Injection
  <2>. HIDE DEF rank
  <2>. QED  BY <1>7, <2>1, FS_Injection
<1>9. \A n \in 1 .. N : \E i \in S : Cardinality(Below(i)) = n - 1
  <2>1. \A m \in 0 .. N - 1 : \E i \in S : rank[i] = m
    BY <1>8 DEF Surjection
  <2>2. \A n \in 1 .. N : n - 1 \in 0 .. N - 1
    BY <1>1
  <2>. QED  BY <2>1, <2>2
<1>10. \A n \in 1 .. N : Ascending(S)[n] \in S /\ Cardinality(Below(Ascending(S)[n])) = n - 1
  BY <1>9 DEF Ascending
<1>11. Ascending(S) \in [1 .. N -> S]
  BY <1>10 DEF Ascending
<1>. HIDE DEF Below
<1>12. IsInjective(Ascending(S))
  BY <1>1, <1>10, <1>11 DEF IsInjective
<1>. QED  BY <1>1, <1>11, <1>12

\* What an acknowledge register can show.
LEMMA AckValueFacts ==
  ASSUME NEW g \in State, NEW c \in CPU
  PROVE  /\ \A i \in Irq : ackValue(g, c, i) \in AckValue /\ ackValue(g, c, i)[1] = i
         /\ \A a \in AckValue : a[1] \in Irq /\ a # Unset
<1>1. \A i \in SGI : g.origin[c][i] \in CPU
  BY DEF State
<1>. QED  BY <1>1, IrqFacts DEF ackValue, AckValue, Unset

\* A queue q that comb_logic may leave: the old one with new entries behind it, each
\* for a pending interrupt.
Extends(g, c, q) ==
  /\ q \in Seq(AckValue) /\ Len(g.queue[c]) <= Len(q)
  /\ \A n \in 1 .. Len(g.queue[c]) : q[n] = g.queue[c][n]
  /\ \A n \in Len(g.queue[c]) + 1 .. Len(q) :
       /\ \E i \in g.pending[c] : q[n] = ackValue(g, c, i)
       /\ q[n] \notin Range(g.queue[c])
  /\ IsInjective(g.queue[c]) => IsInjective(q)

\* The loop of comb_logic over the interrupts of one CPU.
LEMMA QueuedFacts ==
  ASSUME NEW g \in State, NEW c \in CPU
  PROVE  Extends(g, c, Queued(g, c))
<1>. DEFINE old == g.queue[c]
            new == {i \in Ready(g, c) : ackValue(g, c, i) \notin Range(old)}
            order == Ascending(new)
            tail == [n \in 1 .. Len(order) |-> ackValue(g, c, order[n])]
            q == old \o tail
<1>1. old \in Seq(AckValue) /\ g.pending[c] \subseteq Irq
  BY DEF State
<1>2. new \subseteq g.pending[c] /\ new \in SUBSET Irq
  BY <1>1 DEF Ready
<1>. DEFINE N == Cardinality(new)
<1>3. N \in Nat /\ order \in [1 .. N -> new] /\ IsInjective(order)
  BY <1>2, AscendingFacts
<1>4. order \in Seq(new) /\ Len(order) = N
  BY <1>3
<1>. HIDE DEF order, N
<1>5. \A n \in 1 .. N : order[n] \in new
  BY <1>3
<1>6. /\ \A i \in new : ackValue(g, c, i) \in AckValue /\ ackValue(g, c, i)[1] = i
      /\ \A i \in new : ackValue(g, c, i) \notin Range(old)
  BY <1>2, AckValueFacts
<1>. HIDE DEF new
<1>7. tail \in Seq(AckValue) /\ Len(tail) = N
  BY <1>3, <1>4, <1>5, <1>6
<1>8. \A n \in 1 .. N : tail[n] = ackValue(g, c, order[n]) /\ tail[n][1] = order[n]
  BY <1>4, <1>5, <1>6
<1>. HIDE DEF tail
<1>9. /\ q \in Seq(AckValue) /\ Len(q) = Len(old) + N /\ Len(old) \in Nat
      /\ \A n \in 1 .. Len(old) : q[n] = old[n]
      /\ \A n \in Len(old) + 1 .. Len(q) : n - Len(old) \in 1 .. N /\ q[n] = tail[n - Len(old)]
  BY <1>1, <1>3, <1>7
<1>. HIDE DEF q
<1>10. \A n \in Len(old) + 1 .. Len(q) :
         (\E i \in g.pending[c] : q[n] = ackValue(g, c, i)) /\ q[n] \notin Range(old)
  <2>1. \A n \in 1 .. N : /\ order[n] \in g.pending[c]
                          /\ tail[n] = ackValue(g, c, order[n]) /\ tail[n] \notin Range(old)
    BY <1>2, <1>5, <1>6, <1>8
  <2>. HIDE DEF old
  <2>. QED  BY <1>9, <2>1
<1>11. \A n \in 1 .. Len(old) : old[n] \in Range(old)
  BY <1>1 DEF Range
<1>12. ASSUME IsInjective(old), NEW m \in 1 .. Len(q), NEW n \in 1 .. Len(q), q[m] = q[n]
       PROVE  m = n
  <2>1. CASE m <= Len(old) /\ n <= Len(old)
    BY <1>1, <1>9, <1>12, <2>1 DEF IsInjective
  <2>2. CASE m <= Len(old) /\ n > Len(old)
    BY <1>9, <1>10, <1>11, <1>12, <2>2
  <2>3. CASE m > Len(old) /\ n <= Len(old)
    BY <1>9, <1>10, <1>11, <1>12, <2>3
  <2>4. CASE m > Len(old) /\ n > Len(old)
    <3>1. m - Len(old) \in 1 .. N /\ n - Len(old) \in 1 .. N
      BY <1>9, <2>4
    <3>2. order[m - Len(old)] = order[n - Len(old)]
      <4>1. q[m] = tail[m - Len(old)] /\ q[n] = tail[n - Len(old)]
        BY <1>9, <2>4
      <4>. HIDE DEF old
      <4>. QED  BY <1>8, <1>12, <3>1, <4>1
    <3>3. m - Len(old) = n - Len(old)
      BY <1>3, <3>1, <3>2 DEF IsInjective
    <3>. QED  BY <3>3, <1>9
  <2>. QED  BY <1>9, <2>1, <2>2, <2>3, <2>4
<1>13. IsInjective(old) => IsInjective(q)
  BY <1>9, <1>12 DEF IsInjective
<1>14. Queued(g, c) = q
  BY DEF Queued, q, tail, order, new
<1>15. Len(old) <= Len(q)
  BY <1>3, <1>9
<1>16. Extends(g, c, q)
  BY <1>9, <1>10, <1>13, <1>15 DEF Extends
<1>. QED  BY <1>14, <1>16

\* What comb_logic changes: it adds to the queues, sets the lines, and has the
\* acknowledge register of each raised line show the front of the queue.
LEMMA CombFacts ==
  ASSUME NEW g \in State
  PROVE  /\ comb_logic(g) \in State
         /\ comb_logic(g).pending = g.pending /\ comb_logic(g).origin = g.origin
         /\ \A c \in CPU :
              LET h == comb_logic(g)
              IN  /\ Extends(g, c, h.queue[c])
                  /\ LineAnnounces(h, c)
                  /\ IF h.line[c] THEN h.iar[c] = Head(h.queue[c])
                     ELSE h.iar[c] = g.iar[c] /\ h.queue[c] = g.queue[c]
<1>. DEFINE h == comb_logic(g)
            queues == [c \in CPU |-> IF On(g, c) THEN Queued(g, c) ELSE g.queue[c]]
            lines == [c \in CPU |-> On(g, c) /\ queues[c] # <<>>]
            iars == [c \in CPU |-> IF lines[c] THEN Head(queues[c]) ELSE g.iar[c]]
<1>1. h = [g EXCEPT !.queue = queues, !.line = lines, !.iar = iars]
  BY DEF comb_logic
<1>2. /\ h.queue = queues /\ h.line = lines /\ h.iar = iars
      /\ h.pending = g.pending /\ h.origin = g.origin
  BY <1>1 DEF State
<1>3. \A c \in CPU : g.queue[c] \in Seq(AckValue)
  BY DEF State
<1>4. \A c \in CPU : Extends(g, c, queues[c])
  <2>1. \A c \in CPU : Extends(g, c, g.queue[c])
    BY <1>3 DEF Extends
  <2>. QED  BY <2>1, QueuedFacts
<1>5. queues \in [CPU -> Seq(AckValue)]
  BY <1>4 DEF Extends
<1>6. ASSUME NEW c \in CPU  PROVE lines[c] \in BOOLEAN
  BY DEF On, State
<1>7. ASSUME NEW c \in CPU, lines[c]  PROVE queues[c] # <<>> /\ Head(queues[c]) \in AckValue
  <2>1. queues[c] # <<>>
    BY <1>7
  <2>. QED  BY <1>5, <2>1
<1>8. iars \in [CPU -> AckValue \cup {Spurious, Unset}]
  <2>1. g.iar \in [CPU -> AckValue \cup {Spurious, Unset}]
    BY DEF State
  <2>. HIDE DEF lines, queues
  <2>. QED  BY <1>7, <2>1
<1>9. lines \in [CPU -> BOOLEAN]
  BY <1>6
<1>10. h \in State
  <2>. HIDE DEF queues, lines, iars, h
  <2>. QED  BY <1>1, <1>5, <1>8, <1>9 DEF State
<1>11. ASSUME NEW c \in CPU, ~lines[c]  PROVE queues[c] = g.queue[c]
  <2>1. CASE ~On(g, c)
    BY <2>1
  <2>2. CASE On(g, c)
    <3>1. queues[c] = <<>>
      BY <1>11, <2>2
    <3>2. Len(g.queue[c]) <= 0 /\ Len(g.queue[c]) \in Nat
      BY <1>3, <1>4, <3>1 DEF Extends
    <3>. QED  BY <1>3, <3>1, <3>2
  <2>. QED  BY <2>1, <2>2
<1>12. ASSUME NEW c \in CPU
       PROVE  /\ LineAnnounces(h, c)
              /\ IF h.line[c] THEN h.iar[c] = Head(h.queue[c])
                 ELSE h.iar[c] = g.iar[c] /\ h.queue[c] = g.queue[c]
  <2>. HIDE DEF lines, queues, h
  <2>. QED  BY <1>2, <1>7, <1>11 DEF LineAnnounces
<1>. HIDE DEF h, queues, lines, iars
<1>13. \A c \in CPU : Extends(g, c, h.queue[c])
  BY <1>2, <1>4
<1>. QED  BY <1>2, <1>10, <1>12, <1>13 DEF h

\* What Extends means for the front and for the entries of a queue.
LEMMA ExtendsFacts ==
  ASSUME NEW g \in State, NEW c \in CPU, NEW q, Extends(g, c, q)
  PROVE  /\ g.queue[c] # <<>> => q # <<>> /\ Head(q) = Head(g.queue[c])
         /\ Range(g.queue[c]) \subseteq Range(q)
         /\ \A a \in Range(q) \ Range(g.queue[c]) :
              a = ackValue(g, c, a[1]) /\ a[1] \in g.pending[c]
         /\ \A a \in AckValue : a = ackValue(g, c, a[1]) /\ Behind(q, a) =>
              Behind(g.queue[c], a) /\ a \notin Range(q) \ Range(g.queue[c])
<1>. DEFINE old == g.queue[c]
<1>1. old \in Seq(AckValue) /\ g.pending[c] \subseteq Irq
  BY DEF State
<1>2. /\ q \in Seq(AckValue) /\ Len(old) <= Len(q)
      /\ \A n \in 1 .. Len(old) : q[n] = old[n]
      /\ \A n \in Len(old) + 1 .. Len(q) : \E i \in g.pending[c] : q[n] = ackValue(g, c, i)
  BY DEF Extends
<1>3. \A n \in Len(old) + 1 .. Len(q) : q[n] = ackValue(g, c, q[n][1]) /\ q[n][1] \in g.pending[c]
  BY <1>1, <1>2, AckValueFacts
<1>. HIDE DEF old
<1>4. old # <<>> => q # <<>> /\ Head(q) = Head(old)
  BY <1>1, <1>2
<1>5. Range(old) \subseteq Range(q)
  BY <1>1, <1>2 DEF Range
<1>6. ASSUME NEW a \in Range(q) \ Range(old)
      PROVE  a = ackValue(g, c, a[1]) /\ a[1] \in g.pending[c]
  <2>1. PICK n \in 1 .. Len(q) : a = q[n]
    BY <1>2 DEF Range
  <2>2. n > Len(old)
    BY <1>1, <1>2, <2>1 DEF Range
  <2>. QED  BY <1>1, <1>2, <1>3, <2>1, <2>2
<1>7. ASSUME NEW a \in AckValue, a = ackValue(g, c, a[1]), Behind(q, a)
      PROVE  Behind(old, a) /\ a \notin Range(q) \ Range(old)
  <2>1. PICK n \in 2 .. Len(q) : q[n][1] = a[1] /\ \A m \in n .. Len(q) : q[m] # a
    BY <1>7 DEF Behind
  <2>2. n <= Len(old)
    <3>1. q[n] # a
      BY <1>2, <2>1
    <3>. QED  BY <1>1, <1>2, <1>3, <1>7, <2>1, <3>1
  <2>3. \A m \in n .. Len(old) : old[m] = q[m] /\ old[m] # a
    BY <1>1, <1>2, <2>1
  <2>4. Behind(old, a)
    BY <1>1, <1>2, <2>1, <2>2, <2>3 DEF Behind
  <2>5. ASSUME NEW m \in 1 .. Len(q), q[m] = a  PROVE a \in Range(old)
    <3>1. m < n
      BY <1>2, <2>1, <2>5
    <3>2. m \in 1 .. Len(old) /\ old[m] = a
      BY <1>1, <1>2, <2>1, <2>2, <2>5, <3>1
    <3>. QED  BY <1>1, <3>2 DEF Range
  <2>. QED  BY <1>2, <2>4, <2>5 DEF Range
<1>. QED  BY <1>4, <1>5, <1>6, <1>7 DEF old

\* comb_logic keeps each CPU in order.
LEMMA CombInOrder ==
  ASSUME NEW g \in State, NEW c \in CPU, NEW where, NEW value, CpuInOrder(g, c, where, value)
  PROVE  CpuInOrder(comb_logic(g), c, where, value)
<1>. DEFINE h == comb_logic(g)
<1>. SUFFICES CpuInOrder(h, c, where, value)
  OBVIOUS
<1>1. /\ h \in State /\ Extends(g, c, h.queue[c])
      /\ IF h.line[c] THEN h.iar[c] = Head(h.queue[c]) /\ h.queue[c] # <<>>
         ELSE h.iar[c] = g.iar[c] /\ h.queue[c] = g.queue[c]
  BY CombFacts DEF LineAnnounces
<1>. HIDE DEF h
<1>2. g.queue[c] # <<>> => h.queue[c] # <<>> /\ Head(h.queue[c]) = Head(g.queue[c])
  BY <1>1, ExtendsFacts
<1>3. IsInjective(h.queue[c])
  BY <1>1 DEF Extends, CpuInOrder
<1>4. CASE h.line[c]
  <2>1. Head(h.queue[c]) \in AckValue
    BY <1>1, <1>4 DEF Extends
  <2>2. Head(h.queue[c]) # Unset
    BY <1>1, <2>1, AckValueFacts
  <2>. QED  BY <1>1, <1>2, <1>3, <1>4, <2>2 DEF CpuInOrder
<1>5. CASE ~h.line[c]
  BY <1>1, <1>5 DEF CpuInOrder
<1>. QED  BY <1>4, <1>5

\* What comb_logic queues was accounted for as pending.
LEMMA CombAccounts ==
  ASSUME NEW g \in State, NEW c \in CPU, NEW where, NEW value, CpuInOrder(g, c, where, value),
         NEW a \in AckValue, NEW n \in Int, Accounts(g, c, a, where, n)
  PROVE  Accounts(comb_logic(g), c, a, where, n)
<1>. DEFINE h == comb_logic(g)
            same == a = ackValue(g, c, a[1])
<1>. SUFFICES Accounts(h, c, a, where, n)
  OBVIOUS
<1>1. Extends(g, c, h.queue[c]) /\ h.pending = g.pending /\ h.origin = g.origin
  BY CombFacts
<1>2. ackValue(h, c, a[1]) = ackValue(g, c, a[1])
  BY <1>1 DEF ackValue
<1>. HIDE DEF h
<1>3. /\ g.queue[c] # <<>> => h.queue[c] # <<>> /\ Head(h.queue[c]) = Head(g.queue[c])
      /\ Range(g.queue[c]) \subseteq Range(h.queue[c])
      /\ a \in Range(h.queue[c]) \ Range(g.queue[c]) => same /\ a[1] \in g.pending[c]
      /\ same /\ Behind(h.queue[c], a) =>
           Behind(g.queue[c], a) /\ a \notin Range(h.queue[c]) \ Range(g.queue[c])
  BY <1>1, ExtendsFacts
<1>4. Range(g.queue[c]) # {} => g.queue[c] # <<>>
  BY DEF Range
<1>5. where = "handling" => g.queue[c] # <<>>
  BY DEF CpuInOrder
<1>6. CASE a \in Range(g.queue[c])
  <2>1. Waiting(h, c, a, where) => Waiting(g, c, a, where)
    BY <1>3, <1>4, <1>6 DEF Waiting
  <2>2. Returning(h, c, a) => Returning(g, c, a)
    BY <1>2, <1>3, <1>6 DEF Returning
  <2>. QED  BY <2>1, <2>2 DEF Accounts
<1>7. CASE a \notin Range(g.queue[c]) /\ a \in Range(h.queue[c])
  <2>1. Returning(g, c, a) /\ n >= 1
    BY <1>3, <1>7 DEF Accounts, Returning
  <2>2. ~Behind(h.queue[c], a)
    BY <1>3, <1>7
  <2>3. ~Returning(h, c, a)
    BY <1>7, <2>2 DEF Returning
  <2>. QED  BY <2>1, <2>3 DEF Accounts
<1>8. CASE a \notin Range(h.queue[c])
  <2>1. ~Waiting(h, c, a, where)
    BY <1>8 DEF Waiting
  <2>2. Returning(h, c, a) => Returning(g, c, a)
    BY <1>1, <1>2, <1>3, <1>8 DEF Returning
  <2>. QED  BY <2>1, <2>2 DEF Accounts
<1>. QED  BY <1>6, <1>7, <1>8

-----------------------------------------------------------------------------
(***************************************************************************)
(* The handlers, up to the comb_logic they end with.                       *)
(***************************************************************************)

\* setInterruptPending for an interrupt that is raised.
MadePending(g, cpus, i) ==
  [g EXCEPT !.pending = [c \in CPU |-> IF c \in cpus THEN @[c] \cup {i} ELSE @[c]]]

\* It changes what is pending for the given CPUs and nothing else.
LEMMA MadePendingFacts ==
  ASSUME NEW g \in State, NEW cpus, NEW i \in Irq
  PROVE  /\ MadePending(g, cpus, i) \in State
         /\ MadePending(g, cpus, i).queue = g.queue /\ MadePending(g, cpus, i).iar = g.iar
         /\ MadePending(g, cpus, i).origin = g.origin
         /\ \A d \in CPU \ cpus : MadePending(g, cpus, i).pending[d] = g.pending[d]
         /\ \A c \in CPU, j \in Irq :
              j \in MadePending(g, cpus, i).pending[c] => j \in g.pending[c] \/ (c \in cpus /\ j = i)
<1>. DEFINE new == [c \in CPU |-> IF c \in cpus THEN g.pending[c] \cup {i} ELSE g.pending[c]]
            h == MadePending(g, cpus, i)
<1>1. h = [g EXCEPT !.pending = new]
  BY DEF MadePending
<1>2. new \in [CPU -> SUBSET Irq]
  BY DEF State
<1>. HIDE DEF new, h
<1>4. h \in State /\ h.queue = g.queue /\ h.iar = g.iar /\ h.origin = g.origin /\ h.pending = new
  BY <1>1, <1>2 DEF State
<1>5. \A c \in CPU, j \in Irq : j \in h.pending[c] => j \in g.pending[c] \/ (c \in cpus /\ j = i)
  BY <1>4 DEF new
<1>6. \A d \in CPU \ cpus : h.pending[d] = g.pending[d]
  BY <1>4 DEF new
<1>. QED  BY <1>4, <1>5, <1>6 DEF h

\* setInterruptPending for an interrupt that is lowered or completed.
MadeIdle(g, cpus, i) ==
  [g EXCEPT !.pending = [c \in CPU |-> IF c \in cpus THEN @[c] \ {i} ELSE @[c]]]

\* It changes what is pending for the given CPUs and nothing else.
LEMMA MadeIdleFacts ==
  ASSUME NEW g \in State, NEW cpus, NEW i \in Irq
  PROVE  /\ MadeIdle(g, cpus, i) \in State
         /\ MadeIdle(g, cpus, i).queue = g.queue /\ MadeIdle(g, cpus, i).iar = g.iar
         /\ MadeIdle(g, cpus, i).origin = g.origin
         /\ \A d \in CPU \ cpus : MadeIdle(g, cpus, i).pending[d] = g.pending[d]
         /\ \A c \in CPU, j \in Irq :
              j \in MadeIdle(g, cpus, i).pending[c] => j \in g.pending[c] /\ ~(c \in cpus /\ j = i)
<1>. DEFINE new == [c \in CPU |-> IF c \in cpus THEN g.pending[c] \ {i} ELSE g.pending[c]]
            h == MadeIdle(g, cpus, i)
<1>1. h = [g EXCEPT !.pending = new]
  BY DEF MadeIdle
<1>2. new \in [CPU -> SUBSET Irq]
  BY DEF State
<1>. HIDE DEF new, h
<1>4. h \in State /\ h.queue = g.queue /\ h.iar = g.iar /\ h.origin = g.origin /\ h.pending = new
  BY <1>1, <1>2 DEF State
<1>5. \A c \in CPU, j \in Irq : j \in h.pending[c] => j \in g.pending[c] /\ ~(c \in cpus /\ j = i)
  BY <1>4 DEF new
<1>6. \A d \in CPU \ cpus : h.pending[d] = g.pending[d]
  BY <1>4 DEF new
<1>. QED  BY <1>4, <1>5, <1>6 DEF h

\* A CPU whose queue and acknowledge register are not touched stays in order.
LEMMA SameInOrder ==
  ASSUME NEW g, NEW h, NEW c, NEW where, NEW value, CpuInOrder(g, c, where, value),
         h.queue[c] = g.queue[c], h.iar[c] = g.iar[c]
  PROVE  CpuInOrder(h, c, where, value)
BY DEF CpuInOrder

\* With the queue as it was, raising a once more accounts for whatever may come.
LEMMA SameQueueAccounts ==
  ASSUME NEW g, NEW h, NEW c, NEW a, NEW where, NEW n \in Int, Accounts(g, c, a, where, n),
         h.queue[c] = g.queue[c]
  PROVE  /\ Accounts(h, c, a, where, n + 1)
         /\ (Returning(h, c, a) => Returning(g, c, a)) => Accounts(h, c, a, where, n)
<1>1. Waiting(h, c, a, where) <=> Waiting(g, c, a, where)
  BY DEF Waiting
<1>. QED  BY <1>1 DEF Accounts

\* With the pending interrupts and the origin of a as they were too, nothing new may
\* come.
LEMMA SameReturning ==
  ASSUME NEW g, NEW h, NEW c, NEW a, h.queue[c] = g.queue[c],
         a[1] \in h.pending[c] => a[1] \in g.pending[c],
         ackValue(h, c, a[1]) = ackValue(g, c, a[1])
  PROVE  Returning(h, c, a) => Returning(g, c, a)
BY DEF Returning

\* The history after one more interrupt.
LEMMA OneMoreFacts ==
  ASSUME TypeOK, NEW b \in AckValue, NEW cpus
  PROVE  /\ OneMore(cpus, b) \in [AckValue -> [CPU -> Int]]
         /\ \A a \in AckValue, c \in CPU :
              OneMore(cpus, b)[a][c] = IF a = b /\ c \in cpus THEN owed[a][c] + 1 ELSE owed[a][c]
BY DEF TypeOK, OneMore

\* A handler that leaves the CPUs in order and the accounts right before its
\* comb_logic does so after it.
LEMMA CombStep ==
  ASSUME NEW g \in State, gic' = comb_logic(g), owed' \in [AckValue -> [CPU -> Int]],
         \A c \in CPU : CpuInOrder(g, c, handler'[c], acked'[c]),
         \A a \in AckValue, c \in CPU : Accounts(g, c, a, handler'[c], owed'[a][c])
  PROVE  gic' \in State /\ CpusInOrder' /\ OwedAccounts'
<1>1. gic' \in State /\ \A c \in CPU : LineAnnounces(gic', c)
  BY CombFacts
<1>2. \A c \in CPU : CpuInOrder(gic', c, handler'[c], acked'[c])
  BY CombInOrder
<1>3. ASSUME NEW a \in AckValue, NEW c \in CPU
      PROVE  Accounts(gic', c, a, handler'[c], owed'[a][c])
  <2>1. owed'[a][c] \in Int
    OBVIOUS
  <2>. QED  BY <2>1, CombAccounts
<1>. QED  BY <1>1, <1>2, <1>3 DEF CpusInOrder, OwedAccounts

\* A write that changes neither queues, acknowledge registers, pending interrupts nor
\* origins.
LEMMA RegisterStep ==
  ASSUME GicInv, NEW g \in State, gic' = comb_logic(g), registerWrite,
         g.queue = gic.queue, g.iar = gic.iar, g.pending = gic.pending, g.origin = gic.origin
  PROVE  GicInv'
<1>1. UNCHANGED <<handler, acked, thrown, raised, owed>>
  BY DEF registerWrite, softwareUnchanged
<1>2. owed' \in [AckValue -> [CPU -> Int]]
  BY <1>1 DEF GicInv, TypeOK
<1>3. \A c \in CPU : CpuInOrder(g, c, handler'[c], acked'[c])
  BY <1>1, SameInOrder DEF GicInv, CpusInOrder
<1>4. ASSUME NEW a \in AckValue, NEW c \in CPU
      PROVE  Accounts(g, c, a, handler'[c], owed'[a][c])
  <2>1. Returning(g, c, a) => Returning(gic, c, a)
    BY SameReturning DEF ackValue
  <2>2. owed[a][c] \in Int /\ Accounts(gic, c, a, handler[c], owed[a][c])
    BY DEF GicInv, TypeOK, OwedAccounts
  <2>. QED  BY <1>1, <2>1, <2>2, SameQueueAccounts
<1>5. gic' \in State /\ CpusInOrder' /\ OwedAccounts'
  BY <1>2, <1>3, <1>4, CombStep
<1>6. writes' \in 0 .. MaxWrites
  BY IrqAssumption DEF registerWrite, GicInv, TypeOK
<1>. QED  BY <1>1, <1>5, <1>6 DEF GicInv, TypeOK, NoThrow

-----------------------------------------------------------------------------
(***************************************************************************)
(* The operations, each with its comb_logic.                               *)
(***************************************************************************)

\* The controller as software has configured it.
LEMMA GicInitially == Init => GicInv
<1>. SUFFICES ASSUME Init PROVE GicInv
  OBVIOUS
<1>1. PICK m \in Masks : m = CHOOSE k \in Masks : \A n \in Masks : n <= k
  BY IrqAssumption
<1>2. Configured \in State
  <2>1. Configured.mask \in [CPU -> Masks]
    BY <1>1 DEF Configured
  <2>2. Configured.target \in [Irq -> SUBSET CPU]
    BY IrqAssumption DEF Configured
  <2>3. /\ Configured.enabled \in [CPU -> SUBSET Irq] /\ Configured.pending \in [CPU -> SUBSET Irq]
        /\ Configured.enableReg \in SUBSET Irq
    BY DEF Configured, Irq
  <2>4. /\ Configured.origin \in [CPU -> [SGI -> CPU]]
        /\ Configured.queue \in [CPU -> Seq(AckValue)]
        /\ Configured.iar \in [CPU -> AckValue \cup {Spurious, Unset}]
    BY IrqAssumption DEF Configured
  <2>. QED  BY <2>1, <2>2, <2>3, <2>4 DEF Configured, State
<1>3. TypeOK
  <2>1. acked \in [CPU -> AckValue \cup {Spurious}] /\ owed \in [AckValue -> [CPU -> Int]]
    BY DEF Init
  <2>2. gic \in State /\ handler \in [CPU -> {"idle", "reading", "handling"}]
    BY <1>2 DEF Init
  <2>3. thrown \in BOOLEAN
    BY DEF Init
  <2>4. raised \in 0 .. MaxRaised /\ writes \in 0 .. MaxWrites
    BY IrqAssumption DEF Init
  <2>. QED  BY <2>1, <2>2, <2>3, <2>4 DEF TypeOK
<1>4. \A c \in CPU : gic.queue[c] = <<>> /\ gic.pending[c] = {} /\ gic.iar[c] = Unset
                     /\ ~gic.line[c] /\ handler[c] = "idle"
  BY DEF Init, Configured
<1>5. \A c \in CPU : Range(gic.queue[c]) = {} /\ IsInjective(gic.queue[c])
  BY <1>4 DEF Range, IsInjective
<1>6. CpusInOrder
  BY <1>4, <1>5 DEF CpusInOrder, CpuInOrder, LineAnnounces
<1>7. OwedAccounts
  BY <1>4, <1>5 DEF Init, OwedAccounts, Accounts, Waiting, Returning, Behind
<1>. QED  BY <1>3, <1>6, <1>7 DEF GicInv, NoThrow, Init

\* A device raises or lowers a shared interrupt, or a CPU a private one.
LEMMA UpdateIrqStep ==
  ASSUME GicInv, NEW i \in PPI \cup SPI, NEW val \in BOOLEAN, NEW cpus \in SUBSET CPU,
         update_irq(i, val, cpus)
  PROVE  GicInv'
<1>. DEFINE g == IF i \in PPI THEN [gic EXCEPT !.target[i] = cpus] ELSE gic
            h == IF val THEN MadePending(g, cpus, i) ELSE MadeIdle(g, cpus, i)
            b == <<i, 0>>
<1>1. i \in Irq /\ i \notin SGI /\ b \in AckValue
  BY IrqFacts DEF AckValue
<1>2. /\ g \in State /\ g.queue = gic.queue /\ g.iar = gic.iar
      /\ g.origin = gic.origin /\ g.pending = gic.pending
  BY <1>1 DEF GicInv, TypeOK, State
<1>3. gic' = comb_logic(h) /\ owed' = IF val THEN OneMore(cpus, b) ELSE owed
  <2>1. setInterruptPending(g, cpus, i, val) = h
    BY DEF setInterruptPending, MadePending, MadeIdle
  <2>. QED  BY <2>1, Zenon DEF update_irq
<1>4. UNCHANGED <<handler, acked, thrown, writes>> /\ raised' \in 0 .. MaxRaised
  BY IrqAssumption DEF update_irq, softwareUnchanged, GicInv, TypeOK
<1>. HIDE DEF g
<1>5. /\ h \in State
      /\ h.queue = g.queue /\ h.iar = g.iar /\ h.origin = g.origin
      /\ \A c \in CPU, j \in Irq :
           j \in h.pending[c] => j \in g.pending[c] \/ (val /\ c \in cpus /\ j = i)
  <2>1. CASE val
    BY <1>1, <1>2, <2>1, MadePendingFacts
  <2>2. CASE ~val
    BY <1>1, <1>2, <2>2, MadeIdleFacts
  <2>. QED  BY <2>1, <2>2
<1>. HIDE DEF h, b
<1>6. \A c \in CPU : CpuInOrder(h, c, handler'[c], acked'[c])
  BY <1>2, <1>4, <1>5, SameInOrder DEF GicInv, CpusInOrder
<1>7. /\ owed' \in [AckValue -> [CPU -> Int]]
      /\ \A a \in AckValue, c \in CPU :
           owed'[a][c] = IF val /\ a = b /\ c \in cpus THEN owed[a][c] + 1 ELSE owed[a][c]
  BY <1>1, <1>3, OneMoreFacts DEF GicInv, TypeOK
<1>8. ASSUME NEW a \in AckValue, NEW c \in CPU
      PROVE  Accounts(h, c, a, handler'[c], owed'[a][c])
  <2>1. owed[a][c] \in Int /\ Accounts(gic, c, a, handler[c], owed[a][c])
    BY DEF GicInv, TypeOK, OwedAccounts
  <2>2. h.queue[c] = gic.queue[c]
    BY <1>2, <1>5
  <2>3. /\ Accounts(h, c, a, handler'[c], owed[a][c] + 1)
        /\ (Returning(h, c, a) => Returning(gic, c, a)) =>
             Accounts(h, c, a, handler'[c], owed[a][c])
    BY <1>4, <2>1, <2>2, SameQueueAccounts
  <2>4. CASE val /\ a = b /\ c \in cpus
    BY <1>7, <2>3, <2>4
  <2>5. CASE ~(val /\ a = b /\ c \in cpus)
    <3>1. ackValue(h, c, a[1]) = ackValue(gic, c, a[1])
      BY <1>2, <1>5 DEF ackValue
    <3>2. a[1] = i /\ a = ackValue(h, c, a[1]) => a = b
      BY <1>1 DEF ackValue, b
    <3>3. CASE a[1] = i /\ val /\ c \in cpus
      BY <1>7, <2>3, <2>5, <3>2, <3>3 DEF Returning
    <3>4. CASE ~(a[1] = i /\ val /\ c \in cpus)
      <4>1. a[1] \in h.pending[c] => a[1] \in gic.pending[c]
        BY <1>2, <1>5, <3>4, AckValueFacts
      <4>2. Returning(h, c, a) => Returning(gic, c, a)
        BY <2>2, <3>1, <4>1, SameReturning
      <4>. QED  BY <1>7, <2>3, <2>5, <4>2
    <3>. QED  BY <3>3, <3>4
  <2>. QED  BY <2>4, <2>5
<1>9. gic' \in State /\ CpusInOrder' /\ OwedAccounts'
  BY <1>3, <1>5, <1>6, <1>7, <1>8, CombStep
<1>. QED  BY <1>4, <1>7, <1>9 DEF GicInv, TypeOK, NoThrow

\* A CPU sends a software interrupt: what its targets had pending from another sender
\* will not come any more.
LEMMA SendSGIStep ==
  ASSUME GicInv, NEW d \in CPU, NEW s \in SGI, NEW cpus \in SUBSET CPU, SendSGI(d, s, cpus)
  PROVE  GicInv'
<1>. DEFINE new == [c \in CPU |-> IF c \in cpus THEN [gic.origin[c] EXCEPT ![s] = d]
                                  ELSE gic.origin[c]]
            g == [gic EXCEPT !.target[s] = cpus, !.origin = new]
            h == MadePending(g, cpus, s)
            b == <<s, d>>
<1>1. s \in Irq /\ b \in AckValue
  BY DEF Irq, AckValue
<1>2. gic \in State
  BY DEF GicInv, TypeOK
<1>3. /\ new \in [CPU -> [SGI -> CPU]]
      /\ \A c \in CPU, t \in SGI :
           new[c][t] = IF c \in cpus /\ t = s THEN d ELSE gic.origin[c][t]
  BY <1>2 DEF State
<1>4. gic' = comb_logic(h) /\ owed' = OneMore(cpus, b)
  <2>1. setInterruptPending(g, cpus, s, TRUE) = h
    BY DEF setInterruptPending, MadePending
  <2>. QED  BY <2>1, Zenon DEF SendSGI
<1>. HIDE DEF new
<1>5. /\ g \in State /\ g.queue = gic.queue /\ g.iar = gic.iar
      /\ g.origin = new /\ g.pending = gic.pending
  BY <1>1, <1>2, <1>3 DEF State
<1>6. UNCHANGED <<handler, acked, thrown, writes>> /\ raised' \in 0 .. MaxRaised
  BY IrqAssumption DEF SendSGI, softwareUnchanged, GicInv, TypeOK
<1>. HIDE DEF g
<1>7. /\ h \in State
      /\ h.queue = g.queue /\ h.iar = g.iar /\ h.origin = g.origin
      /\ \A c \in CPU, j \in Irq :
           j \in h.pending[c] => j \in g.pending[c] \/ (c \in cpus /\ j = s)
  BY <1>1, <1>5, MadePendingFacts
<1>. HIDE DEF h, b
<1>8. \A c \in CPU : CpuInOrder(h, c, handler'[c], acked'[c])
  BY <1>5, <1>6, <1>7, SameInOrder DEF GicInv, CpusInOrder
<1>9. /\ owed' \in [AckValue -> [CPU -> Int]]
      /\ \A a \in AckValue, c \in CPU :
           owed'[a][c] = IF a = b /\ c \in cpus THEN owed[a][c] + 1 ELSE owed[a][c]
  BY <1>1, <1>4, OneMoreFacts DEF GicInv
<1>10. ASSUME NEW a \in AckValue, NEW c \in CPU
       PROVE  Accounts(h, c, a, handler'[c], owed'[a][c])
  <2>1. owed[a][c] \in Int /\ Accounts(gic, c, a, handler[c], owed[a][c])
    BY DEF GicInv, TypeOK, OwedAccounts
  <2>2. h.queue[c] = gic.queue[c]
    BY <1>5, <1>7
  <2>3. /\ Accounts(h, c, a, handler'[c], owed[a][c] + 1)
        /\ (Returning(h, c, a) => Returning(gic, c, a)) =>
             Accounts(h, c, a, handler'[c], owed[a][c])
    BY <1>6, <2>1, <2>2, SameQueueAccounts
  <2>4. CASE a = b /\ c \in cpus
    BY <1>9, <2>3, <2>4
  <2>5. CASE ~(a = b /\ c \in cpus) /\ a[1] = s /\ c \in cpus
    <3>1. ackValue(h, c, a[1]) = b
      BY <1>3, <1>5, <1>7, <2>5 DEF ackValue, b
    <3>2. ~Returning(h, c, a)
      BY <2>5, <3>1 DEF Returning
    <3>. QED  BY <1>9, <2>3, <2>5, <3>2
  <2>6. CASE ~(a[1] = s /\ c \in cpus)
    <3>1. ackValue(h, c, a[1]) = ackValue(gic, c, a[1])
      BY <1>3, <1>5, <1>7, <2>6 DEF ackValue
    <3>2. a[1] \in h.pending[c] => a[1] \in gic.pending[c]
      BY <1>5, <1>7, <2>6, AckValueFacts
    <3>3. Returning(h, c, a) => Returning(gic, c, a)
      BY <2>2, <3>1, <3>2, SameReturning
    <3>4. ~(a = b /\ c \in cpus)
      BY <2>6 DEF b
    <3>. QED  BY <1>9, <2>3, <3>3, <3>4
  <2>. QED  BY <2>4, <2>5, <2>6
<1>11. gic' \in State /\ CpusInOrder' /\ OwedAccounts'
  BY <1>4, <1>7, <1>8, <1>9, <1>10, CombStep
<1>. QED  BY <1>6, <1>9, <1>11 DEF GicInv, TypeOK, NoThrow

\* A write that enables an interrupt.
LEMMA EnableStep ==
  ASSUME GicInv, NEW c \in CPU, NEW i \in Irq, Enable(c, i)
  PROVE  GicInv'
<1>. DEFINE new == [d \in CPU |-> IF d \in Bank(c, i) THEN gic.enabled[d] \cup {i}
                                  ELSE gic.enabled[d]]
            g == [gic EXCEPT !.enableReg = @ \cup {i}, !.enabled = new]
<1>1. gic \in State
  BY DEF GicInv, TypeOK
<1>2. new \in [CPU -> SUBSET Irq]
  BY <1>1 DEF State
<1>3. gic' = comb_logic(g) /\ registerWrite
  BY DEF Enable
<1>. HIDE DEF new
<1>4. /\ g \in State /\ g.queue = gic.queue /\ g.iar = gic.iar
      /\ g.pending = gic.pending /\ g.origin = gic.origin
  BY <1>1, <1>2 DEF State
<1>. HIDE DEF g
<1>. QED  BY <1>3, <1>4, RegisterStep

\* The write that should disable an interrupt.
LEMMA DisableStep ==
  ASSUME GicInv, NEW i \in Irq, Disable(i)
  PROVE  GicInv'
<1>. DEFINE g == [gic EXCEPT !.enableReg = @ \ {i}]
<1>1. gic \in State
  BY DEF GicInv, TypeOK
<1>2. gic' = comb_logic(g) /\ registerWrite
  BY DEF Disable
<1>3. /\ g \in State /\ g.queue = gic.queue /\ g.iar = gic.iar
      /\ g.pending = gic.pending /\ g.origin = gic.origin
  BY <1>1 DEF State
<1>. HIDE DEF g
<1>. QED  BY <1>2, <1>3, RegisterStep

\* The writes to the other registers.
LEMMA WriteRegisterStep ==
  ASSUME GicInv, WriteRegister
  PROVE  GicInv'
<1>. DEFINE Plain(g) == /\ g \in State /\ g.queue = gic.queue /\ g.iar = gic.iar
                        /\ g.pending = gic.pending /\ g.origin = gic.origin
<1>1. gic \in State
  BY DEF GicInv, TypeOK
<1>2. \A b \in BOOLEAN : Plain([gic EXCEPT !.isEnabled = b])
  BY <1>1 DEF State
<1>3. \A c \in CPU, b \in BOOLEAN : Plain([gic EXCEPT !.cpuTakesInterrupts[c] = b])
  BY <1>1 DEF State
<1>4. \A c \in CPU, m \in Masks : Plain([gic EXCEPT !.mask[c] = m])
  BY <1>1 DEF State
<1>5. \A i \in SPI, cpus \in SUBSET CPU : Plain([gic EXCEPT !.target[i] = cpus])
  BY <1>1, IrqFacts DEF State
<1>. HIDE DEF Plain
<1>6. \E g : Plain(g) /\ gic' = comb_logic(g)
  <2>1. CASE \E b \in BOOLEAN : gic' = comb_logic([gic EXCEPT !.isEnabled = b])
    BY <1>2, <2>1
  <2>2. CASE \E c \in CPU, b \in BOOLEAN :
               gic' = comb_logic([gic EXCEPT !.cpuTakesInterrupts[c] = b])
    BY <1>3, <2>2
  <2>3. CASE \E c \in CPU, m \in Masks : gic' = comb_logic([gic EXCEPT !.mask[c] = m])
    BY <1>4, <2>3
  <2>4. CASE \E i \in SPI, cpus \in SUBSET CPU :
               gic' = comb_logic([gic EXCEPT !.target[i] = cpus])
    BY <1>5, <2>4
  <2>. QED  BY <2>1, <2>2, <2>3, <2>4 DEF WriteRegister
<1>7. registerWrite
  BY DEF WriteRegister
<1>. QED  BY <1>6, <1>7, RegisterStep DEF Plain

\* The registers once the front of the queue of a CPU in order is completed: the rest
\* of the queue is in order and the accounts stay right.
LEMMA CompletedFacts ==
  ASSUME NEW g \in State, NEW c \in CPU, CpuInOrder(g, c, "handling", Head(g.queue[c]))
  PROVE  LET h == Completed(g, c, Head(g.queue[c])[1])
         IN  /\ h \in State
             /\ \A d \in CPU \ {c} : /\ h.queue[d] = g.queue[d] /\ h.iar[d] = g.iar[d]
                                     /\ h.pending[d] = g.pending[d]
             /\ h.origin = g.origin
             /\ h.queue[c] = Tail(g.queue[c])
             /\ h.iar[c] = IF Tail(g.queue[c]) = <<>> THEN Spurious ELSE Head(Tail(g.queue[c]))
             /\ \A j \in Irq : j \in h.pending[c] =>
                  \/ j \in g.pending[c] /\ j # Head(g.queue[c])[1]
                  \/ Tail(g.queue[c]) # <<>> /\ j = Head(Tail(g.queue[c]))[1]
<1>. DEFINE q == g.queue[c]
            rest == Tail(q)
            i == Head(q)[1]
            g1 == MadeIdle(g, {c}, i)
            g2 == IF rest = <<>> THEN g1 ELSE MadePending(g1, {c}, Head(rest)[1])
            ack == IF rest = <<>> THEN Spurious ELSE Head(rest)
            h == [g2 EXCEPT !.queue[c] = rest, !.iar[c] = ack]
<1>1. q \in Seq(AckValue) /\ q # <<>>
  BY DEF State, CpuInOrder
<1>2. Head(q) \in AckValue /\ rest \in Seq(AckValue) /\ (rest # <<>> => Head(rest) \in AckValue)
  BY <1>1
<1>3. i \in Irq /\ (rest # <<>> => Head(rest)[1] \in Irq)
  BY <1>2, AckValueFacts
<1>4. Completed(g, c, i) = h
  <2>1. setInterruptPending(g, {c}, i, FALSE) = g1
    BY DEF setInterruptPending, MadeIdle
  <2>2. setInterruptPending(g1, {c}, Head(rest)[1], TRUE) = MadePending(g1, {c}, Head(rest)[1])
    BY DEF setInterruptPending, MadePending
  <2>. QED  BY <2>1, <2>2, Zenon DEF Completed
<1>. HIDE DEF q, rest, i
<1>5. /\ g1 \in State /\ g1.queue = g.queue /\ g1.iar = g.iar /\ g1.origin = g.origin
      /\ \A j \in Irq : j \in g1.pending[c] => j \in g.pending[c] /\ j # i
      /\ \A d \in CPU \ {c} : g1.pending[d] = g.pending[d]
  BY <1>3, MadeIdleFacts
<1>. HIDE DEF g1
<1>6. /\ g2 \in State /\ g2.queue = g.queue /\ g2.iar = g.iar /\ g2.origin = g.origin
      /\ \A j \in Irq : j \in g2.pending[c] =>
           j \in g1.pending[c] \/ (rest # <<>> /\ j = Head(rest)[1])
      /\ \A d \in CPU \ {c} : g2.pending[d] = g.pending[d]
  <2>1. CASE rest = <<>>
    BY <1>5, <2>1
  <2>2. CASE rest # <<>>
    BY <1>3, <1>5, <2>2, MadePendingFacts
  <2>. QED  BY <2>1, <2>2
<1>. HIDE DEF g2
<1>7. ack \in AckValue \cup {Spurious, Unset}
  BY <1>2
<1>. HIDE DEF ack
<1>8. /\ h \in State /\ h.origin = g2.origin /\ h.pending = g2.pending
      /\ h.queue = [g2.queue EXCEPT ![c] = rest] /\ h.iar = [g2.iar EXCEPT ![c] = ack]
  BY <1>2, <1>6, <1>7 DEF State
<1>9. g.queue \in [CPU -> Seq(AckValue)] /\ g.iar \in [CPU -> AckValue \cup {Spurious, Unset}]
  BY DEF State
<1>. HIDE DEF h
<1>10. /\ h.queue[c] = rest /\ h.iar[c] = ack
       /\ \A d \in CPU \ {c} : h.queue[d] = g.queue[d] /\ h.iar[d] = g.iar[d]
  BY <1>6, <1>8, <1>9
<1>. QED  BY <1>4, <1>5, <1>6, <1>8, <1>10, Zenon DEF q, rest, i, ack

\* A completion that the code accepts: what comes back was behind the front or pending.
LEMMA CompletedAccounts ==
  ASSUME NEW g \in State, NEW c \in CPU, CpuInOrder(g, c, "handling", Head(g.queue[c])),
         NEW h, h = Completed(g, c, Head(g.queue[c])[1]),
         NEW a \in AckValue, NEW n \in Int, Accounts(g, c, a, "handling", n)
  PROVE  CpuInOrder(h, c, "reading", Head(g.queue[c])) /\ Accounts(h, c, a, "reading", n)
<1>. DEFINE q == g.queue[c]
            rest == Tail(q)
<1>1. /\ h \in State /\ h.origin = g.origin /\ h.queue[c] = rest
      /\ h.iar[c] = IF rest = <<>> THEN Spurious ELSE Head(rest)
      /\ \A j \in Irq : j \in h.pending[c] => \/ j \in g.pending[c] /\ j # Head(q)[1]
                                              \/ rest # <<>> /\ j = Head(rest)[1]
  BY CompletedFacts, Zenon
<1>2. q \in Seq(AckValue) /\ q # <<>> /\ IsInjective(q)
  BY DEF State, CpuInOrder
<1>. HIDE DEF q
<1>3. /\ rest \in Seq(AckValue) /\ Len(rest) = Len(q) - 1 /\ Len(q) \in Nat /\ Len(q) >= 1
      /\ \A m \in 1 .. Len(rest) : rest[m] = q[m + 1]
      /\ Head(q) = q[1] /\ (rest # <<>> => Head(rest) = rest[1] /\ Len(rest) >= 1)
  BY <1>2
<1>. HIDE DEF rest
<1>4. IsInjective(rest)
  <2>1. ASSUME NEW m \in 1 .. Len(rest), NEW k \in 1 .. Len(rest), rest[m] = rest[k]  PROVE m = k
    <3>1. m + 1 \in 1 .. Len(q) /\ k + 1 \in 1 .. Len(q) /\ q[m + 1] = q[k + 1]
      BY <1>3, <2>1
    <3>2. m + 1 = k + 1
      BY <1>2, <3>1 DEF IsInjective
    <3>. QED  BY <3>2
  <2>. QED  BY <1>3, <2>1 DEF IsInjective
<1>5. \A b : b \in Range(rest) <=> \E m \in 2 .. Len(q) : b = q[m]
  <2>1. \A b : b \in Range(rest) <=> \E m \in 1 .. Len(rest) : b = rest[m]
    BY <1>3 DEF Range
  <2>2. \A m \in 2 .. Len(q) : m - 1 \in 1 .. Len(rest) /\ rest[m - 1] = q[m]
    BY <1>3
  <2>3. \A m \in 1 .. Len(rest) : m + 1 \in 2 .. Len(q) /\ rest[m] = q[m + 1]
    BY <1>3
  <2>. QED  BY <2>1, <2>2, <2>3
<1>6. \A b : b \in Range(q) <=> b = Head(q) \/ b \in Range(rest)
  <2>1. \A b : b \in Range(q) <=> \E m \in 1 .. Len(q) : b = q[m]
    BY <1>2 DEF Range
  <2>. QED  BY <1>3, <1>5, <2>1
<1>7. Head(q) \notin Range(rest)
  BY <1>2, <1>3, <1>5 DEF IsInjective
<1>8. CpuInOrder(h, c, "reading", Head(q))
  <2>1. rest # <<>> => Head(rest) \in AckValue
    BY <1>3
  <2>2. Spurious # Unset /\ (rest # <<>> => Head(rest) # Unset)
    BY <2>1, AckValueFacts DEF Spurious, Unset
  <2>. QED  BY <1>1, <1>4, <2>2 DEF CpuInOrder
<1>9. Waiting(h, c, a, "reading") => Waiting(g, c, a, "handling")
  BY <1>1, <1>6, <1>7 DEF Waiting, q
<1>10. Returning(h, c, a) => Returning(g, c, a)
  <2>. SUFFICES ASSUME Returning(h, c, a) PROVE Returning(g, c, a)
    OBVIOUS
  <2>1. a = ackValue(g, c, a[1]) /\ a[1] \in Irq
    BY <1>1, AckValueFacts DEF Returning, ackValue
  <2>2. ASSUME Behind(rest, a)  PROVE Behind(q, a)
    <3>1. PICK k \in 2 .. Len(rest) : rest[k][1] = a[1] /\ \A m \in k .. Len(rest) : rest[m] # a
      BY <2>2 DEF Behind
    <3>2. k + 1 \in 2 .. Len(q) /\ q[k + 1][1] = a[1]
      BY <1>3, <3>1
    <3>3. ASSUME NEW m \in k + 1 .. Len(q)  PROVE q[m] # a
      <4>1. m - 1 \in k .. Len(rest) /\ m - 1 \in 1 .. Len(rest) /\ (m - 1) + 1 = m
        BY <1>3, <3>1
      <4>2. rest[m - 1] = q[m]
        BY <1>3, <4>1
      <4>. QED  BY <3>1, <4>1, <4>2
    <3>. QED  BY <3>2, <3>3 DEF Behind
  <2>3. ASSUME a[1] \in h.pending[c], a \notin Range(rest)
        PROVE  Behind(q, a) \/ (a[1] \in g.pending[c] /\ a \notin Range(q))
    <3>1. CASE a[1] \in g.pending[c] /\ a[1] # Head(q)[1]
      BY <1>6, <2>3, <3>1
    <3>2. CASE rest # <<>> /\ a[1] = Head(rest)[1]
      <4>1. 2 \in 2 .. Len(q) /\ q[2][1] = a[1]
        BY <1>3, <3>2
      <4>2. \A m \in 2 .. Len(q) : q[m] # a
        BY <1>5, <2>3
      <4>. QED  BY <4>1, <4>2 DEF Behind
    <3>. QED  BY <1>1, <2>1, <2>3, <3>1, <3>2 DEF q
  <2>. QED  BY <1>1, <2>1, <2>2, <2>3 DEF Returning, q
<1>11. Accounts(h, c, a, "reading", n)
  BY <1>9, <1>10 DEF Accounts
<1>. QED  BY <1>8, <1>11 DEF q

\* The CPU completes what it acknowledged: the front of its queue, so nothing is thrown.
LEMMA EndOfInterruptStep ==
  ASSUME GicInv, NEW c \in CPU, EndOfInterrupt(c)
  PROVE  GicInv'
<1>. DEFINE q == gic.queue[c]
            h == Completed(gic, c, Head(q)[1])
<1>1. gic \in State /\ handler[c] = "handling" /\ CpuInOrder(gic, c, handler[c], acked[c])
  BY DEF GicInv, TypeOK, CpusInOrder, EndOfInterrupt
<1>2. q # <<>> /\ acked[c] = Head(q)
  BY <1>1 DEF CpuInOrder
<1>3. gic' = comb_logic(h) /\ ~thrown'
  BY <1>2 DEF EndOfInterrupt
<1>4. /\ UNCHANGED <<acked, raised, writes, owed>>
      /\ handler' = [handler EXCEPT ![c] = "reading"]
  BY DEF EndOfInterrupt
<1>5. handler \in [CPU -> {"idle", "reading", "handling"}] /\ owed \in [AckValue -> [CPU -> Int]]
  BY DEF GicInv, TypeOK
<1>6. handler'[c] = "reading" /\ \A d \in CPU \ {c} : handler'[d] = handler[d]
  BY <1>4, <1>5
<1>7. /\ h \in State /\ h.origin = gic.origin
      /\ \A d \in CPU \ {c} : /\ h.queue[d] = gic.queue[d] /\ h.iar[d] = gic.iar[d]
                              /\ h.pending[d] = gic.pending[d]
  BY <1>1, <1>2, CompletedFacts, Zenon
<1>8. h = Completed(gic, c, Head(gic.queue[c])[1])
  OBVIOUS
<1>. HIDE DEF h
<1>9. ASSUME NEW a \in AckValue
      PROVE  CpuInOrder(h, c, "reading", acked[c]) /\ Accounts(h, c, a, "reading", owed[a][c])
  <2>1. owed[a][c] \in Int /\ Accounts(gic, c, a, "handling", owed[a][c])
    BY <1>1, <1>5 DEF GicInv, OwedAccounts
  <2>. QED  BY <1>1, <1>2, <1>8, <2>1, CompletedAccounts
<1>10. ASSUME NEW d \in CPU  PROVE CpuInOrder(h, d, handler'[d], acked'[d])
  <2>1. CASE d = c
    <3>1. Head(q) \in AckValue
      BY <1>1, <1>2 DEF State
    <3>. QED  BY <1>4, <1>6, <1>9, <2>1, <3>1
  <2>2. CASE d # c
    <3>1. CpuInOrder(gic, d, handler[d], acked[d])
      BY DEF GicInv, CpusInOrder
    <3>. QED  BY <1>4, <1>6, <1>7, <2>2, <3>1, SameInOrder
  <2>. QED  BY <2>1, <2>2
<1>11. ASSUME NEW a \in AckValue, NEW d \in CPU
       PROVE  Accounts(h, d, a, handler'[d], owed'[a][d])
  <2>1. CASE d = c
    BY <1>4, <1>6, <1>9, <2>1
  <2>2. CASE d # c
    <3>1. owed[a][d] \in Int /\ Accounts(gic, d, a, handler[d], owed[a][d])
      BY <1>5 DEF GicInv, OwedAccounts
    <3>2. Returning(h, d, a) => Returning(gic, d, a)
      BY <1>7, <2>2, SameReturning DEF ackValue
    <3>. QED  BY <1>4, <1>6, <1>7, <2>2, <3>1, <3>2, SameQueueAccounts
  <2>. QED  BY <2>1, <2>2
<1>12. gic' \in State /\ CpusInOrder' /\ OwedAccounts'
  BY <1>3, <1>4, <1>5, <1>7, <1>10, <1>11, CombStep
<1>13. handler' \in [CPU -> {"idle", "reading", "handling"}] /\ thrown' \in BOOLEAN
  BY <1>3, <1>4, <1>5 DEF EndOfInterrupt
<1>. QED  BY <1>3, <1>4, <1>5, <1>12, <1>13 DEF GicInv, TypeOK, NoThrow

\* The CPU takes an interrupt its line announces, so that there is one to read.
LEMMA TakeInterruptStep ==
  ASSUME GicInv, NEW c \in CPU, TakeInterrupt(c)
  PROVE  GicInv'
<1>1. /\ handler' = [handler EXCEPT ![c] = "reading"] /\ handler[c] = "idle"
      /\ UNCHANGED <<gic, thrown, acked, raised, writes, owed>> /\ gic.line[c]
  BY DEF TakeInterrupt
<1>2. handler \in [CPU -> {"idle", "reading", "handling"}] /\ gic \in State
  BY DEF GicInv, TypeOK
<1>3. handler'[c] = "reading" /\ \A d \in CPU \ {c} : handler'[d] = handler[d]
  BY <1>1, <1>2
<1>4. gic.iar[c] # Unset
  <2>1. gic.queue[c] # <<>> /\ gic.iar[c] = Head(gic.queue[c])
    BY <1>1 DEF GicInv, CpusInOrder, LineAnnounces, CpuInOrder
  <2>2. Head(gic.queue[c]) \in AckValue
    BY <1>2, <2>1 DEF State
  <2>. QED  BY <1>2, <2>1, <2>2, AckValueFacts
<1>5. CpusInOrder'
  BY <1>1, <1>3, <1>4 DEF GicInv, CpusInOrder, CpuInOrder, LineAnnounces
<1>6. OwedAccounts'
  <2>1. \A a \in AckValue, d \in CPU : Waiting(gic, d, a, handler'[d]) <=> Waiting(gic, d, a, handler[d])
    BY <1>1, <1>3 DEF Waiting
  <2>. QED  BY <1>1, <2>1 DEF GicInv, OwedAccounts, Accounts
<1>7. handler' \in [CPU -> {"idle", "reading", "handling"}]
  BY <1>1, <1>2
<1>. QED  BY <1>1, <1>5, <1>6, <1>7 DEF GicInv, TypeOK, NoThrow

\* What is acknowledged is the front of the queue, and was owed.
LEMMA ReadIARStep ==
  ASSUME GicInv, NEW c \in CPU, ReadIAR(c)
  PROVE  GicInv'
<1>. DEFINE f == gic.iar[c]
<1>1. /\ handler[c] = "reading" /\ acked' = [acked EXCEPT ![c] = f]
      /\ UNCHANGED <<gic, thrown, raised, writes>>
  BY DEF ReadIAR
<1>2. /\ handler \in [CPU -> {"idle", "reading", "handling"}] /\ gic \in State
      /\ acked \in [CPU -> AckValue \cup {Spurious}] /\ owed \in [AckValue -> [CPU -> Int]]
  BY DEF GicInv, TypeOK
<1>3. \A d \in CPU : CpuInOrder(gic, d, handler[d], acked[d]) /\ LineAnnounces(gic, d)
  BY DEF GicInv, CpusInOrder
<1>4. f \in AckValue \cup {Spurious, Unset} /\ f # Unset
  BY <1>1, <1>2, <1>3 DEF State, CpuInOrder
<1>5. acked' \in [CPU -> AckValue \cup {Spurious}]
  BY <1>1, <1>2, <1>4
<1>6. CASE f = Spurious
  <2>1. handler' = [handler EXCEPT ![c] = "idle"] /\ owed' = owed
    BY <1>6 DEF ReadIAR
  <2>2. handler'[c] = "idle" /\ \A d \in CPU \ {c} : handler'[d] = handler[d] /\ acked'[d] = acked[d]
    BY <1>1, <1>2, <2>1
  <2>3. CpusInOrder'
    BY <1>1, <1>3, <2>2 DEF CpusInOrder, CpuInOrder, LineAnnounces
  <2>4. \A a \in AckValue, d \in CPU : Waiting(gic, d, a, handler'[d]) <=> Waiting(gic, d, a, handler[d])
    BY <1>1, <2>2 DEF Waiting
  <2>5. OwedAccounts'
    BY <1>1, <2>1, <2>4 DEF GicInv, OwedAccounts, Accounts
  <2>6. handler' \in [CPU -> {"idle", "reading", "handling"}]
    BY <1>2, <2>1
  <2>. QED  BY <1>1, <1>5, <2>1, <2>3, <2>5, <2>6 DEF GicInv, TypeOK, NoThrow
<1>7. CASE f # Spurious
  <2>1. handler' = [handler EXCEPT ![c] = "handling"] /\ owed' = [owed EXCEPT ![f][c] = @ - 1]
    BY <1>7 DEF ReadIAR
  <2>2. f \in AckValue
    BY <1>4, <1>7
  <2>3. gic.queue[c] # <<>> /\ f = Head(gic.queue[c])
    BY <1>3, <1>4, <1>7 DEF CpuInOrder
  <2>. HIDE DEF f
  <2>4. /\ handler'[c] = "handling" /\ acked'[c] = f
        /\ \A d \in CPU \ {c} : handler'[d] = handler[d] /\ acked'[d] = acked[d]
    BY <1>1, <1>2, <2>1
  <2>5. /\ owed' \in [AckValue -> [CPU -> Int]]
        /\ \A a \in AckValue, d \in CPU :
             owed'[a][d] = IF a = f /\ d = c THEN owed[a][d] - 1 ELSE owed[a][d]
    BY <1>2, <2>1, <2>2
  <2>6. CpusInOrder'
    <3>1. CpuInOrder(gic, c, "handling", f)
      BY <1>1, <1>3, <1>4, <2>3 DEF CpuInOrder, f
    <3>. QED  BY <1>1, <1>3, <2>4, <3>1 DEF CpusInOrder, CpuInOrder, LineAnnounces
  <2>7. ASSUME NEW a \in AckValue, NEW d \in CPU
        PROVE  Accounts(gic, d, a, handler'[d], owed'[a][d])
    <3>1. owed[a][d] \in Int /\ Accounts(gic, d, a, handler[d], owed[a][d])
      BY <1>2 DEF GicInv, OwedAccounts
    <3>2. CASE a = f /\ d = c
      <4>1. f \in Range(gic.queue[c])
        BY <1>2, <2>3 DEF Range, State
      <4>2. Waiting(gic, d, a, handler[d]) /\ ~Waiting(gic, d, a, handler'[d])
        BY <1>1, <2>3, <2>4, <3>2, <4>1 DEF Waiting
      <4>. QED  BY <2>5, <3>1, <3>2, <4>2 DEF Accounts
    <3>3. CASE ~(a = f /\ d = c)
      <4>1. Waiting(gic, d, a, handler'[d]) => Waiting(gic, d, a, handler[d])
        BY <1>1, <2>4 DEF Waiting
      <4>. QED  BY <2>5, <3>1, <3>3, <4>1 DEF Accounts
    <3>. QED  BY <3>2, <3>3
  <2>8. OwedAccounts'
    BY <1>1, <2>7 DEF OwedAccounts
  <2>9. handler' \in [CPU -> {"idle", "reading", "handling"}]
    BY <1>2, <2>1
  <2>. QED  BY <1>1, <1>5, <2>5, <2>6, <2>8, <2>9 DEF GicInv, TypeOK, NoThrow
<1>. QED  BY <1>6, <1>7

-----------------------------------------------------------------------------
(***************************************************************************)
(* The theorems about the interrupt controller.                            *)
(***************************************************************************)

\* Every step of devices, software and handlers keeps the invariant.
LEMMA GicStep == GicInv /\ [Next]_vars => GicInv'
<1>. SUFFICES ASSUME GicInv, [Next]_vars PROVE GicInv'
  OBVIOUS
<1>1. ASSUME NEW i \in PPI \cup SPI, NEW val \in BOOLEAN, NEW cpus \in SUBSET CPU,
             update_irq(i, val, cpus)
      PROVE  GicInv'
  BY <1>1, UpdateIrqStep
<1>2. ASSUME NEW c \in CPU, NEW s \in SGI, NEW cpus \in SUBSET CPU \ {{}}, SendSGI(c, s, cpus)
      PROVE  GicInv'
  BY <1>2, SendSGIStep
<1>3. ASSUME NEW c \in CPU, NEW i \in Irq, Enable(c, i)  PROVE GicInv'
  BY <1>3, EnableStep
<1>4. ASSUME NEW i \in Irq, Disable(i)  PROVE GicInv'
  BY <1>4, DisableStep
<1>5. CASE WriteRegister
  BY <1>5, WriteRegisterStep
<1>6. ASSUME NEW c \in CPU, HandlerStep(c)  PROVE GicInv'
  BY <1>6, TakeInterruptStep, ReadIARStep, EndOfInterruptStep DEF HandlerStep
<1>7. CASE UNCHANGED vars
  BY <1>7 DEF vars, GicInv, TypeOK, NoThrow, CpusInOrder, OwedAccounts
<1>. QED  BY <1>1, <1>2, <1>3, <1>4, <1>5, <1>6, <1>7, Zenon DEF Next

\* The invariant of the controller.
THEOREM GicInvariance == Spec => []GicInv
BY GicInitially, GicStep, PTL DEF Spec

\* QueuesInOrder, whatever devices, CPUs and register writes do (gic.cpp): no
\* completion finds another front than the one acknowledged, nothing is queued twice.
THEOREM QueuesStayInOrder == Spec => []QueuesInOrder
<1>1. GicInv => QueuesInOrder
  BY DEF GicInv, CpusInOrder, CpuInOrder, QueuesInOrder, QueueNoDuplicate
<1>. QED  BY <1>1, GicInvariance, PTL

\* NoPhantomInterrupt: although writeCpu makes the next interrupt pending again with
\* whatever origin is recorded by then, none is given that was not raised.
THEOREM NothingPhantom == Spec => []NoPhantomInterrupt
<1>1. GicInv => NoPhantomInterrupt
  BY DEF GicInv, OwedAccounts, Accounts, NoPhantomInterrupt
<1>. QED  BY <1>1, GicInvariance, PTL

-----------------------------------------------------------------------------
(***************************************************************************)
(* The serial ports.                                                       *)
(***************************************************************************)

\* What is inductive: the PL011 has no interrupt but the two, keeps what software
\* enabled in its mask register and its transmit flag with the masked status; xuartps
\* does not use those registers.
UartInv ==
  /\ UartTypeOK /\ FlagsAgree
  /\ kind = "PL011" => wanted = mask
  /\ kind = "xuartps" => raw = {} /\ mask = {}

\* The flags are Boolean.
FlagsTyped ==
  /\ ierTimeout \in BOOLEAN /\ mIntEnable \in BOOLEAN /\ mOutIntEnable \in BOOLEAN
  /\ mOutInt \in BOOLEAN /\ mHasTimeout \in BOOLEAN /\ mToIntEnable \in BOOLEAN
  /\ mInterrupting \in BOOLEAN /\ line \in BOOLEAN

\* The rest of the types.
RegistersTyped ==
  /\ kind \in {"PL011", "xuartps"} /\ input \in 0 .. MaxInput
  /\ raw \subseteq {"RX", "TX"} /\ mask \subseteq {"RX", "TX"}
  /\ wanted \subseteq {"RX", "TX", "TO"}
  /\ mTimeoutCounter \in 0 .. MaxTimeout
  /\ kind = "PL011" => wanted = mask
  /\ kind = "xuartps" => raw = {} /\ mask = {}

\* The invariant, with the Boolean flags apart.
LEMMA UartParts == UartInv <=> RegistersTyped /\ FlagsTyped /\ FlagsAgree
BY Zenon DEF UartInv, UartTypeOK, RegistersTyped, FlagsTyped

\* A flag that holds when an interrupt is in a set is that Boolean.
LEMMA FlagIs ==
  ASSUME NEW flag \in BOOLEAN, NEW interrupt, NEW bits, flag <=> interrupt \in bits
  PROVE  flag = (interrupt \in bits)
OBVIOUS

\* The ports after reset.
LEMMA UartInitially == UartInit => UartInv
<1>. SUFFICES ASSUME UartInit PROVE UartInv
  OBVIOUS
<1>1. RegistersTyped
  BY UartAssumption DEF UartInit, RegistersTyped
<1>2. FlagsTyped
  BY DEF UartInit, FlagsTyped
<1>3. FlagsAgree
  <2>1. "TX" \notin wanted /\ "RX" \notin wanted /\ ("TX" \notin raw \cap mask)
    BY DEF UartInit
  <2>2. ~mOutIntEnable /\ ~mIntEnable
    BY DEF UartInit
  <2>. QED  BY <1>2, <2>1, <2>2, FlagIs DEF FlagsTyped, FlagsAgree
<1>. QED  BY <1>1, <1>2, <1>3, UartParts

\* Every access and every poll keeps the invariant.
LEMMA UartStep == UartInv /\ [UartNext]_uartVars => UartInv'
<1>. SUFFICES ASSUME UartInv, [UartNext]_uartVars PROVE UartInv'
  OBVIOUS
<1>. USE DEF timeoutVars, lineVars
<1>a. RegistersTyped /\ FlagsTyped /\ FlagsAgree
  BY UartParts
<1>1. CASE Arrive
  <2>1. RegistersTyped'
    BY <1>a, <1>1, UartAssumption DEF RegistersTyped, Arrive
  <2>2. FlagsTyped'
    BY <1>a, <1>1, Zenon DEF FlagsTyped, Arrive
  <2>3. FlagsAgree'
    BY <1>a, <1>1 DEF FlagsAgree, RegistersTyped, FlagsTyped, Arrive
  <2>. QED  BY <2>1, <2>2, <2>3, UartParts, PTL
<1>2. CASE readByte
  <2>1. RegistersTyped'
    BY <1>a, <1>2, UartAssumption DEF RegistersTyped, readByte
  <2>2. FlagsTyped'
    BY <1>a, <1>2, Zenon DEF FlagsTyped, readByte
  <2>3. FlagsAgree'
    BY <1>a, <1>2 DEF FlagsAgree, RegistersTyped, FlagsTyped, readByte
  <2>. QED  BY <2>1, <2>2, <2>3, UartParts, PTL
<1>3. CASE readStatus
  <2>1. RegistersTyped'
    BY <1>a, <1>3, UartAssumption DEF RegistersTyped, readStatus
  <2>2. FlagsTyped'
    BY <1>a, <1>3, Zenon DEF FlagsTyped, readStatus
  <2>3. FlagsAgree'
    BY <1>a, <1>3 DEF FlagsAgree, RegistersTyped, FlagsTyped, readStatus
  <2>. QED  BY <2>1, <2>2, <2>3, UartParts, PTL
<1>4. CASE writeData
  <2>1. RegistersTyped'
    BY <1>a, <1>4, UartAssumption DEF RegistersTyped, writeData
  <2>2. FlagsTyped'
    BY <1>a, <1>4, Zenon DEF FlagsTyped, writeData
  <2>3. FlagsAgree'
    BY <1>a, <1>4 DEF FlagsAgree, RegistersTyped, FlagsTyped, writeData
  <2>. QED  BY <2>1, <2>2, <2>3, UartParts, PTL
<1>5. CASE readISR
  <2>1. RegistersTyped'
    BY <1>a, <1>5, UartAssumption DEF RegistersTyped, readISR
  <2>2. FlagsTyped'
    BY <1>a, <1>5, Zenon DEF FlagsTyped, readISR
  <2>3. FlagsAgree'
    BY <1>a, <1>5 DEF FlagsAgree, RegistersTyped, FlagsTyped, readISR
  <2>. QED  BY <2>1, <2>2, <2>3, UartParts, PTL
<1>6. CASE writeFIFO
  <2>1. RegistersTyped'
    BY <1>a, <1>6, UartAssumption DEF RegistersTyped, writeFIFO
  <2>2. FlagsTyped'
    BY <1>a, <1>6, Zenon DEF FlagsTyped, writeFIFO
  <2>3. FlagsAgree'
    BY <1>a, <1>6 DEF FlagsAgree, RegistersTyped, FlagsTyped, writeFIFO
  <2>. QED  BY <2>1, <2>2, <2>3, UartParts, PTL
<1>7. CASE interruptLoop
  <2>1. RegistersTyped'
    BY <1>a, <1>7, UartAssumption DEF RegistersTyped, interruptLoop, Raise, CountDown, Lower, pollUnchanged
  <2>2. FlagsTyped'
    BY <1>a, <1>7, Zenon DEF FlagsTyped, interruptLoop, Raise, CountDown, Lower, pollUnchanged
  <2>3. FlagsAgree'
    BY <1>a, <1>7 DEF FlagsAgree, RegistersTyped, FlagsTyped, interruptLoop, Raise, CountDown, Lower, pollUnchanged
  <2>. QED  BY <2>1, <2>2, <2>3, UartParts, PTL
<1>8. ASSUME NEW bits \in SUBSET {"RX", "TX"}, writeMask(bits)  PROVE UartInv'
  <2>1. RegistersTyped'
    BY <1>a, <1>8, UartAssumption DEF RegistersTyped, writeMask
  <2>2. FlagsTyped'
    <3>1. ("TX" \in bits) \in BOOLEAN /\ ("RX" \in bits) \in BOOLEAN
      OBVIOUS
    <3>. QED  BY <1>a, <1>8, <3>1, Zenon DEF FlagsTyped, writeMask
  <2>3. FlagsAgree'
    BY <1>a, <1>8 DEF FlagsAgree, RegistersTyped, FlagsTyped, writeMask
  <2>. QED  BY <2>1, <2>2, <2>3, UartParts, PTL
<1>9. ASSUME NEW bits \in SUBSET {"RX", "TX"}, writeClear(bits)  PROVE UartInv'
  <2>1. RegistersTyped'
    BY <1>a, <1>9, UartAssumption DEF RegistersTyped, writeClear
  <2>2. FlagsTyped'
    BY <1>a, <1>9, Zenon DEF FlagsTyped, writeClear
  <2>3. FlagsAgree'
    BY <1>a, <1>9 DEF FlagsAgree, RegistersTyped, FlagsTyped, writeClear
  <2>. QED  BY <2>1, <2>2, <2>3, UartParts, PTL
<1>10. ASSUME NEW bits \in SUBSET {"RX", "TX", "TO"}, writeIER(bits)  PROVE UartInv'
  <2>1. RegistersTyped'
    BY <1>a, <1>10, UartAssumption DEF RegistersTyped, writeIER
  <2>2. FlagsTyped'
    <3>1. ("TO" \in bits) \in BOOLEAN
      OBVIOUS
    <3>. QED  BY <1>a, <1>10, <3>1, Zenon DEF FlagsTyped, writeIER
  <2>3. FlagsAgree'
    <3>1. /\ "TX" \in wanted' <=> "TX" \in wanted \/ "TX" \in bits
          /\ "RX" \in wanted' <=> "RX" \in wanted \/ "RX" \in bits
      BY <1>10 DEF writeIER
    <3>2. "TX" \notin raw' \cap mask'
      BY <1>a, <1>10 DEF RegistersTyped, writeIER
    <3>3. /\ mOutIntEnable' <=> mOutIntEnable \/ "TX" \in bits
          /\ mIntEnable' <=> mIntEnable \/ "RX" \in bits
      BY <1>10 DEF writeIER
    <3>4. (mOutIntEnable' <=> "TX" \in wanted') /\ (mIntEnable' <=> "RX" \in wanted')
      BY <1>a, <3>1, <3>3 DEF FlagsAgree
    <3>. QED  BY <2>2, <3>2, <3>4, FlagIs DEF FlagsTyped, FlagsAgree
  <2>. QED  BY <2>1, <2>2, <2>3, UartParts, PTL
<1>11. ASSUME NEW bits \in SUBSET {"RX", "TX", "TO"}, writeIDR(bits)  PROVE UartInv'
  <2>1. RegistersTyped'
    BY <1>a, <1>11, UartAssumption DEF RegistersTyped, writeIDR
  <2>2. FlagsTyped'
    BY <1>a, <1>11, Zenon DEF FlagsTyped, writeIDR
  <2>3. FlagsAgree'
    <3>1. /\ "TX" \in wanted' <=> "TX" \in wanted /\ "TX" \notin bits
          /\ "RX" \in wanted' <=> "RX" \in wanted /\ "RX" \notin bits
      BY <1>11 DEF writeIDR
    <3>2. "TX" \notin raw' \cap mask'
      BY <1>a, <1>11 DEF RegistersTyped, writeIDR
    <3>3. /\ mOutIntEnable' <=> mOutIntEnable /\ "TX" \notin bits
          /\ mIntEnable' <=> mIntEnable /\ "RX" \notin bits
      BY <1>11 DEF writeIDR
    <3>4. (mOutIntEnable' <=> "TX" \in wanted') /\ (mIntEnable' <=> "RX" \in wanted')
      BY <1>a, <3>1, <3>3 DEF FlagsAgree
    <3>. QED  BY <2>2, <3>2, <3>4, FlagIs DEF FlagsTyped, FlagsAgree
  <2>. QED  BY <2>1, <2>2, <2>3, UartParts, PTL
<1>12. ASSUME NEW n \in 0 .. MaxTimeout, writeRXTOUT(n)  PROVE UartInv'
  <2>1. RegistersTyped'
    BY <1>a, <1>12, UartAssumption DEF RegistersTyped, writeRXTOUT
  <2>2. FlagsTyped'
    BY <1>a, <1>12, Zenon DEF FlagsTyped, writeRXTOUT
  <2>3. FlagsAgree'
    BY <1>a, <1>12 DEF FlagsAgree, RegistersTyped, FlagsTyped, writeRXTOUT
  <2>. QED  BY <2>1, <2>2, <2>3, UartParts, PTL
<1>13. CASE UNCHANGED uartVars
  <2>1. RegistersTyped'
    BY <1>a, <1>13, UartAssumption DEF RegistersTyped, uartVars
  <2>2. FlagsTyped'
    BY <1>a, <1>13, Zenon DEF FlagsTyped, uartVars
  <2>3. FlagsAgree'
    BY <1>a, <1>13 DEF FlagsAgree, RegistersTyped, FlagsTyped, uartVars
  <2>. QED  BY <2>1, <2>2, <2>3, UartParts, PTL
<1>. QED
  BY <1>1, <1>2, <1>3, <1>4, <1>5, <1>6, <1>7, <1>8, <1>9, <1>10, <1>11, <1>12, <1>13 DEF UartNext

\* UartFlagsAgree: the flags of the polling thread agree with the registers in any
\* order of accesses and polls (PL011Uart, xuartps).
THEOREM UartStaysConsistent == UartSpec => []UartFlagsAgree
<1>1. UartInv => UartFlagsAgree
  BY DEF UartInv, UartFlagsAgree
<1>. QED  BY <1>1, UartInitially, UartStep, PTL DEF UartSpec
=============================================================================
