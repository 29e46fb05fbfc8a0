-------------------------- MODULE NonCoherentCache --------------------------
(***************************************************************************)
(* A hierarchy of caches without coherence (accessNonCoherentCache of      *)
(* CacheBase.hpp, the mode of a cache by default): a cache of level 1 per  *)
(* CPU above one shared cache above the memory, write back with            *)
(* allocation.  An access runs down the levels by calls and, when the      *)
(* shared cache evicts a line or reads one back, up again into caches that *)
(* are in the middle of an access themselves; the whole is one step, and   *)
(* `line' in the code is a way of the set, whose content the nested calls  *)
(* may change.  The one template of the code is given here level by level: *)
(* what the shared cache does, then what a cache of level 1 does with it.  *)
(*                                                                         *)
(* Data is one bit per copy of a line: whether the copy holds what was     *)
(* written last.  The caches of one set each are enough, as sets do not    *)
(* interact within a level.  Programs share no line they write: a line is  *)
(* used by one CPU or written by none.                                     *)
(***************************************************************************)
EXTENDS Naturals, SetReplacement

CONSTANTS
  CPU,       \* identifiers of the caches of level 1, numbers above 0
  Private,   \* lines each CPU reads and writes
  Common,    \* lines all CPUs read
  Assoc,     \* ways of each cache
  InvalidateModified(_, _, _)   \* see BackInvalidate

Shared_LLC == 0
Caches == CPU \cup {Shared_LLC}
Line == Common \cup UNION {Private[c] : c \in CPU}
WaysOf(k) == 0 .. Assoc[k] - 1

ASSUME HierarchyAssumption ==
  /\ CPU \subseteq Nat \ {0} /\ Assoc \in [Caches -> Nat \ {0}]
  /\ Line # {}
  /\ \A c, d \in CPU : c # d => Private[c] \cap Private[d] = {}
  /\ \A c \in CPU : Private[c] \cap Common = {}

VARIABLES
  inclusion, \* of the shared cache with respect to level 1
  hier       \* the caches, the directory of the shared cache and the memory

hierVars == <<inclusion, hier>>

\* locateLineInSet and accessSet, of the set of cache k: the ways that hold a, the
\* way of an access, and the set when way w has been accessed.
Holders(h, k, a) == {w \in WaysOf(k) : h.way[k][w].addr = a /\ h.way[k][w].state # "Invalid"}
InCache(h, k, a) == Holders(h, k, a) # {}
LineAt(h, k, a) == WayOf(Holders(h, k, a), h.victim[k])
Ranked(h, k, w) ==
  [h EXCEPT !.rank[k] = Accessed("LRU", h.rank[k], w),
            !.victim[k] = Victim("LRU", h.rank[k], h.victim[k], w)]

SetWay(h, k, w, line) == [h EXCEPT !.way[k][w] = line]
Fill(h, k, w, s, current) ==
  SetWay(h, k, w, [addr |-> h.way[k][w].addr, state |-> s, current |-> current])
SetState(h, k, w, s) == Fill(h, k, w, s, h.way[k][w].current)
NewLine(h, k, w, a) == SetWay(h, k, w, [addr |-> a, state |-> "Invalid", current |-> FALSE])

\* An assert of the code: asserts tells whether all have held.
Asserted(h, condition) == [h EXCEPT !.asserts = @ /\ condition]

Registered(h, a, i) == [h EXCEPT !.sharers[a] = @ \cup {i}]
Withdrawn(h, a, i) == [h EXCEPT !.sharers[a] = @ \ {i}]

-----------------------------------------------------------------------------
(***************************************************************************)
(* The shared cache, and its calls to the memory and up to level 1.        *)
(***************************************************************************)

\* Invalidate and ReadBack, of the caches of level 1 named: nothing is replaced,
\* but the way is ranked, the victim if the line is not there.
Told(h, mode, a, ids) ==
  LET drop(c, w) == mode = "Invalidate" /\ c \in ids /\ w \in Holders(h, c, a)
  IN [h EXCEPT
        !.way = [c \in Caches |-> [w \in WaysOf(c) |->
                   IF drop(c, w) THEN [h.way[c][w] EXCEPT !.state = "Invalid"] ELSE h.way[c][w]]],
        !.rank = [c \in Caches |-> IF c \in ids THEN Accessed("LRU", h.rank[c], LineAt(h, c, a))
                                   ELSE h.rank[c]],
        !.victim = [c \in Caches |->
                      IF c \in ids THEN Victim("LRU", h.rank[c], h.victim[c], LineAt(h, c, a))
                      ELSE h.victim[c]],
        !.asserts = @ /\ (mode = "ReadBack" => \A c \in ids : InCache(h, c, a))]

\* BackInvalidate.  A cache that holds the line Modified would write it to the shared
\* cache first, which may have to make room for it and back-invalidate again, to a
\* depth nothing bounds: what becomes of the hierarchy then is the parameter
\* InvalidateModified, of which nothing is assumed.  The directory names no cache whose
\* copy is Modified, so that this never happens.
BackInvalidate(h, a, ids) ==
  IF \E c \in ids : \E w \in Holders(h, c, a) : h.way[c][w].state = "Modified"
  THEN InvalidateModified(h, a, ids)
  ELSE Told(h, "Invalidate", a, ids)

\* Mutant of BackInvalidated: the caches above are forgotten, not told.
BackInvalidatedNot(h, w) ==
  IF inclusion = "Inclusive" THEN [h EXCEPT !.sharers[h.way[Shared_LLC][w].addr] = {}] ELSE h

\* The line in way w is taken from the caches above.  The entry cleared is the one
\* of the address the way has by then.
BackInvalidated(h, w) ==
  LET addr == h.way[Shared_LLC][w].addr
      told == BackInvalidate(h, addr, h.sharers[addr])
  IN IF inclusion = "Inclusive" /\ h.sharers[addr] # {}
     THEN [told EXCEPT !.sharers[told.way[Shared_LLC][w].addr] = {}]
     ELSE h

\* What a miss does to the line in its way: it is written to memory and taken from
\* the caches above.
ToMemory(h, w) ==
  LET line == h.way[Shared_LLC][w]
  IN IF line.state = "Modified"
     THEN SetState([h EXCEPT !.mem[line.addr] = line.current], Shared_LLC, w, "Invalid")
     ELSE h
SharedRoom(h, w, a) == NewLine(BackInvalidated(ToMemory(h, w), w), Shared_LLC, w, a)

\* The way of a, once it is accessed and, on a miss, made free for a.
SharedLine(h, a) ==
  LET w == LineAt(h, Shared_LLC, a)
      r == Ranked(h, Shared_LLC, w)
  IN IF InCache(h, Shared_LLC, a) THEN r ELSE SharedRoom(r, w, a)

\* A read of an exclusive cache that misses passes through it: to a cache above that
\* has the line, whose data is not copied, or to the memory.
PassedThrough(h, a, i) ==
  LET r == Ranked(h, Shared_LLC, LineAt(h, Shared_LLC, a))
      asked == IF h.sharers[a] # {} THEN Told(r, "ReadBack", a, h.sharers[a]) ELSE r
  IN [Registered(asked, a, i) EXCEPT !.data = h.sharers[a] = {} /\ h.mem[a]]

\* The requests of the cache of i.  data is what the answer to a read brings.
SharedRead(h, a, i) ==
  LET w == LineAt(h, Shared_LLC, a)
      reg == Registered(SharedLine(h, a), a, i)
      current == reg.way[Shared_LLC][w].current
  IN IF InCache(h, Shared_LLC, a)
     THEN [(IF inclusion = "Exclusive" THEN SetState(reg, Shared_LLC, w, "Invalid") ELSE reg)
           EXCEPT !.data = current]
     ELSE IF inclusion = "Exclusive" THEN PassedThrough(h, a, i)
     ELSE [Fill(reg, Shared_LLC, w, "Shared", reg.mem[a]) EXCEPT !.data = reg.mem[a]]

\* The line is read from memory on a miss, and all of it is written.
SharedWrite(h, a, i, current) ==
  LET out == Withdrawn(SharedLine(h, a), a, i)
      w == LineAt(h, Shared_LLC, a)
  IN IF inclusion = "Exclusive" /\ ~InCache(h, Shared_LLC, a) /\ out.sharers[a] # {}
     THEN SetState(out, Shared_LLC, w, "Invalid")
     ELSE Fill(out, Shared_LLC, w, "Modified", current)

\* Mutant of SharedEvict: the cache that evicts stays in the directory.
SharedEvictStay(h, a, i, current) ==
  LET in == SharedLine(h, a)
  IN Fill(in, Shared_LLC, LineAt(h, Shared_LLC, a),
          IF in.sharers[a] # {} THEN "Invalid" ELSE "Shared", current)

SharedEvict(h, a, i, current) ==
  LET out == Withdrawn(SharedLine(h, a), a, i)
      w == LineAt(h, Shared_LLC, a)
  IN Asserted(Fill(out, Shared_LLC, w, IF out.sharers[a] # {} THEN "Invalid" ELSE "Shared", current),
              ~InCache(h, Shared_LLC, a) \/ out.way[Shared_LLC][w].state = "Modified")

-----------------------------------------------------------------------------
(***************************************************************************)
(* The cache of CPU c.  Its own directory is kept and never consulted.     *)
(***************************************************************************)

\* What a miss does to the line in its way: write it back, ...
WrittenBack(h, c, w) ==
  LET line == h.way[c][w]
  IN IF line.state = "Modified"
     THEN SetState(SharedWrite(h, line.addr, c, line.current), c, w, "Invalid")
     ELSE h

\* ... or hand it to the victim cache below.
Evicted(h, c, w) ==
  LET line == h.way[c][w]
  IN IF line.state = "Shared" /\ inclusion = "Exclusive"
     THEN SharedEvict(h, line.addr, c, line.current)
     ELSE h

\* Mutant of Room: what was written is dropped with the line.
RoomDrop(h, c, w, a) == NewLine(Evicted(h, c, w), c, w, a)

Room(h, c, w, a) == NewLine(Evicted(WrittenBack(h, c, w), c, w), c, w, a)

\* A miss: the line is fetched into way w.
Fetched(h, c, w, a, s) ==
  LET read == SharedRead(Room(Ranked(h, c, w), c, w, a), a, c)
  IN Fill(read, c, w, s, read.data)

ReadLine(h, c, a) ==
  LET w == LineAt(h, c, a)
  IN IF InCache(h, c, a) THEN Ranked(h, c, w) ELSE Fetched(h, c, w, a, "Shared")

\* What a write of c makes of the other copies.
Outdated(h, c, a) ==
  [h EXCEPT !.mem[a] = FALSE,
            !.way = [k \in Caches |-> [w \in WaysOf(k) |->
                       IF k # c /\ h.way[k][w].addr = a THEN [h.way[k][w] EXCEPT !.current = FALSE]
                       ELSE h.way[k][w]]]]

\* A CPU writes a part of the line: the copy is current after it if it was before.
\* Above an inclusive cache the line is written there too.
WriteLine(h, c, a) ==
  LET w == LineAt(h, c, a)
      filled == IF InCache(h, c, a) THEN Ranked(h, c, w) ELSE Fetched(h, c, w, a, "Invalid")
      current == filled.way[c][w].current
      written == Fill(Outdated(filled, c, a), c, w, "Modified", current)
  IN IF inclusion = "Inclusive" THEN SharedWrite(written, a, c, current) ELSE written

-----------------------------------------------------------------------------

\* The ways of a new cache have address 0, which may be one of the lines.
HierInit ==
  /\ inclusion \in {"NINE", "Inclusive", "Exclusive"}
  /\ \E zero \in Line :
       hier = [way |-> [k \in Caches |-> [w \in WaysOf(k) |->
                          [addr |-> zero, state |-> "Invalid", current |-> FALSE]]],
               rank |-> [k \in Caches |-> [w \in WaysOf(k) |-> Assoc[k] - w - 1]],
               victim |-> [k \in Caches |-> 0],
               sharers |-> [a \in Line |-> {}],
               mem |-> [a \in Line |-> TRUE],
               data |-> TRUE, asserts |-> TRUE]

\* The data of an answer is of no use after the access.
CpuRead(c, a) ==
  /\ a \in Private[c] \cup Common
  /\ hier' = [ReadLine(hier, c, a) EXCEPT !.data = TRUE]
  /\ UNCHANGED inclusion

CpuWrite(c, a) ==
  /\ a \in Private[c]
  /\ hier' = [WriteLine(hier, c, a) EXCEPT !.data = TRUE]
  /\ UNCHANGED inclusion

HierNext == \E c \in CPU, a \in Line : CpuRead(c, a) \/ CpuWrite(c, a)

HierSpec == HierInit /\ [][HierNext]_hierVars

-----------------------------------------------------------------------------
(***************************************************************************)
(* Properties.                                                             *)
(***************************************************************************)

\* Ways, ranks and victims stay inside their sets, also when a nested access
\* chooses ways of a set in the middle of another (CacheSet.hpp).
HierTypeOK ==
  /\ inclusion \in {"NINE", "Inclusive", "Exclusive"}
  /\ \A k \in Caches :
       /\ hier.way[k] \in [WaysOf(k) -> [addr : Line, state : {"Modified", "Shared", "Invalid"},
                                         current : BOOLEAN]]
       /\ hier.rank[k] \in [WaysOf(k) -> WaysOf(k)]
       /\ hier.victim[k] \in WaysOf(k)
  /\ hier.sharers \in [Line -> SUBSET CPU]
  /\ hier.mem \in [Line -> BOOLEAN] /\ hier.data \in BOOLEAN /\ hier.asserts \in BOOLEAN

Holds(k, a) == InCache(hier, k, a)
Copy(k, a) == hier.way[k][LineAt(hier, k, a)]

\* What CPU c finds when it reads a: its own copy, else the shared one, else the
\* memory.
Visible(c, a) == CASE Holds(c, a) -> Copy(c, a).current
                   [] ~Holds(c, a) /\ Holds(Shared_LLC, a) -> Copy(Shared_LLC, a).current
                   [] OTHER -> hier.mem[a]

\* A CPU always finds what it wrote last, whatever evictions, write-backs and
\* invalidations came between, the ones nested in each other included: nothing
\* dirty is dropped and no old copy below hides a newer one.  (Not claimed of
\* exclusive caches: the victim cache gives a modified line back as a clean one.)
NewestKept ==
  inclusion # "Exclusive" => \A c \in CPU : \A a \in Private[c] : Visible(c, a)

\* A victim cache holds no line that a cache above holds.
ExclusionKept ==
  inclusion = "Exclusive" => \A c \in CPU, a \in Line : ~(Holds(c, a) /\ Holds(Shared_LLC, a))

\* The directory of an exclusive cache names exactly the caches above that hold
\* the line: a read is passed to one that has it, and to memory if none has.
SharersExact ==
  inclusion = "Exclusive" =>
    \A c \in CPU, a \in Line : Holds(c, a) <=> c \in hier.sharers[a]

\* The asserts of accessNonCoherentCache: a line read back is there, and a line
\* handed down is not there yet.
HierAssertsHold == hier.asserts

\* What an exclusive cache believes of the caches above is true after any chain of
\* nested evictions and reads: it shares no line with them, and its directory and the
\* asserts agree with them (accessNonCoherentCache).
ExclusionExact == HierTypeOK /\ ExclusionKept /\ SharersExact /\ HierAssertsHold

\* Inclusion for what was only read: a line a cache above holds clean is in the
\* shared cache, whose evictions reach up for it.
CleanIncluded ==
  inclusion = "Inclusive" =>
    \A c \in CPU, a \in Line :
      Holds(c, a) /\ Copy(c, a).state = "Shared" => Holds(Shared_LLC, a)

\* Inclusion as CacheBase.hpp states it of the policy: the cache contains a copy
\* of the lines of the cache above.
InclusionKept ==
  inclusion = "Inclusive" =>
    \A c \in CPU, a \in Line : Holds(c, a) => Holds(Shared_LLC, a)
=============================================================================
